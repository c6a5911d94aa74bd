------------------------- MODULE PackageRefsProofs -------------------------
(***************************************************************************)
(* Proofs about PackageRefs for any number of targets, packages, files and *)
(* failures: its type invariant and the accounting of references, from     *)
(* which it follows that no crash or failing write leaves a listed package *)
(* without a reference, outside the targets known to be damaged; then that *)
(* the number of versions is limited, and that what is removed for it has  *)
(* been archived.                                                          *)
(***************************************************************************)
EXTENDS PackageRefs, FiniteSetTheorems, TLAPS

USE PackageAssumption

-----------------------------------------------------------------------------
(* Counting the users of a file. *)

(* The number of packages of a set that need a file is a natural number. *)
LEMMA CountType ==
    ASSUME NEW P \in SUBSET Package, NEW f \in FileKey
    PROVE  Count(P, f) \in Nat
<1>1. IsFiniteSet({p \in P : f \in Files[p]})
    BY FS_Subset, {p \in P : f \in Files[p]} \subseteq Package
<1>2. QED
    BY <1>1, FS_CardinalityType DEF Count

(* A package put into a target adds one user to each of its files. *)
LEMMA CountAdd ==
    ASSUME NEW P \in SUBSET Package, NEW f \in FileKey,
           NEW p \in Package, p \notin P
    PROVE  Count(P \cup {p}, f) = Count(P, f) + (IF f \in Files[p] THEN 1 ELSE 0)
<1> DEFINE S == {q \in P : f \in Files[q]}
<1>1. IsFiniteSet(S)
    BY FS_Subset, S \subseteq Package
<1>2. CASE f \in Files[p]
    <2>1. {q \in P \cup {p} : f \in Files[q]} = S \cup {p}
        BY <1>2
    <2>2. p \notin S
        OBVIOUS
    <2>3. Cardinality(S \cup {p}) = Cardinality(S) + 1
        BY <1>1, <2>2, FS_AddElement
    <2>4. QED
        BY <1>2, <2>1, <2>3 DEF Count
<1>3. CASE f \notin Files[p]
    <2>1. {q \in P \cup {p} : f \in Files[q]} = S
        BY <1>3
    <2>2. Cardinality(S) \in Nat
        BY <1>1, FS_CardinalityType
    <2>3. Count(P \cup {p}, f) = Cardinality(S)
        BY <2>1 DEF Count
    <2>4. Count(P, f) = Cardinality(S)
        BY DEF Count
    <2>5. QED
        BY <1>3, <2>2, <2>3, <2>4
<1>4. QED
    BY <1>2, <1>3

(* A package taken out of a target takes one user from each of its files. *)
LEMMA CountRemove ==
    ASSUME NEW P \in SUBSET Package, NEW f \in FileKey, NEW p \in P
    PROVE  Count(P, f) = Count(P \ {p}, f) + (IF f \in Files[p] THEN 1 ELSE 0)
<1>1. (P \ {p}) \cup {p} = P
    OBVIOUS
<1>2. Count((P \ {p}) \cup {p}, f) = Count(P \ {p}, f) + (IF f \in Files[p] THEN 1 ELSE 0)
    <2>1. P \ {p} \in SUBSET Package /\ p \notin P \ {p} /\ p \in Package
        OBVIOUS
    <2>2. QED
        BY <2>1, CountAdd
<1>3. QED
    BY <1>1, <1>2

(* Nobody needs a file in an empty set of packages. *)
LEMMA CountEmpty ==
    ASSUME NEW f \in FileKey
    PROVE  Count({}, f) = 0
<1>1. {p \in {} : f \in Files[p]} = {}
    OBVIOUS
<1>2. QED
    BY <1>1, FS_EmptySet DEF Count

(* A file some package of the set needs has at least one user. *)
LEMMA CountPositive ==
    ASSUME NEW P \in SUBSET Package, NEW p \in P, NEW f \in Files[p]
    PROVE  Count(P, f) >= 1
<1>1. f \in FileKey
    OBVIOUS
<1>2. Count(P \ {p}, f) \in Nat
    BY <1>1, CountType, P \ {p} \in SUBSET Package
<1>3. QED
    BY <1>1, <1>2, CountRemove

-----------------------------------------------------------------------------
(* Type correctness. *)

(* The idle activation is one. *)
LEMMA IdleType == Idle \in Frame
BY DEF Idle, Frame, PC

(* An activation that is about to replace a record is well formed. *)
LEMMA ReplacingType ==
    ASSUME NEW p \in Package, NEW old \in Package \cup {NoPackage},
           NEW trim \in SUBSET Package
    PROVE  Replacing(p, old, trim) \in Frame
BY DEF Replacing, Frame, PC

(* What target_addpackage can start with are activations. *)
LEMMA AddFramesType ==
    ASSUME TypeOK, NEW t \in Target, NEW p \in Package, NEW downgrade \in BOOLEAN,
           NEW fr \in AddFrames(t, p, downgrade)
    PROVE  fr \in Frame
<1>1. Skipped \in Frame
    BY IdleType DEF Skipped, Frame, PC
<1>2. packages[t] \subseteq Package
    BY DEF TypeOK
<1>3. \A q \in AtLimit(t, p) : q \in Package /\ Behind(t, p, q) \in SUBSET Package
    BY <1>2 DEF AtLimit, Behind, Older, Named
<1>4. \/ fr = Skipped
      \/ \E q \in packages[t] : fr = Replacing(p, q, {})
      \/ fr = Replacing(p, NoPackage, {})
      \/ \E q \in AtLimit(t, p) : fr = Replacing(p, q, Behind(t, p, q))
    BY DEF AddFrames
<1>5. QED
    BY <1>1, <1>2, <1>3, <1>4, ReplacingType

(* The caller of archive_package goes on with an activation. *)
LEMMA ArchivedType ==
    ASSUME NEW fr \in Frame, NEW ok \in BOOLEAN
    PROVE  Archived(fr, ok) \in Frame
BY DEF Archived, Frame, PC

(* Setting one activation keeps the others. *)
LEMMA SetFrameType ==
    ASSUME frame \in [Target -> Frame], NEW t \in Target, NEW fr \in Frame,
           SetFrame(t, fr)
    PROVE  /\ frame' \in [Target -> Frame]
           /\ frame'[t] = fr
           /\ \A u \in Target \ {t} : frame'[u] = frame[u]
BY DEF SetFrame

(* Setting the count of one file of a target keeps the others. *)
LEMMA SetRefType ==
    ASSUME refs \in [Target -> [FileKey -> Nat]], NEW t \in Target,
           NEW f \in FileKey, NEW n \in Nat, refs' = [refs EXCEPT ![t][f] = n]
    PROVE  /\ refs' \in [Target -> [FileKey -> Nat]]
           /\ refs'[t] = [refs[t] EXCEPT ![f] = n]
           /\ \A u \in Target \ {t} : refs'[u] = refs[u]
<1>1. refs' = [refs EXCEPT ![t] = [refs[t] EXCEPT ![f] = n]]
    OBVIOUS
<1>2. [refs[t] EXCEPT ![f] = n] \in [FileKey -> Nat]
    OBVIOUS
<1>3. QED
    BY <1>1, <1>2

(* Operations start with activations. *)
LEMMA BeginType ==
    ASSUME TypeOK, NEW t \in Target, Begin(t)
    PROVE  TypeOK'
<1>1. ASSUME NEW p \in Package, NEW downgrade \in BOOLEAN, AddPackage(t, p, downgrade)
      PROVE  TypeOK'
    BY <1>1, AddFramesType DEF TypeOK, AddPackage, SetFrame
<1>2. ASSUME NEW p \in Package, RemovePackage(t, p)
      PROVE  TypeOK'
    <2>1. [Idle EXCEPT !.pc = "rmdelete", !.old = p,
                       !.trimming = TRUE, !.res = "ok"] \in Frame
        BY IdleType DEF Frame, PC
    <2>2. QED
        BY <1>2, <2>1 DEF TypeOK, RemovePackage, SetFrame
<1>3. ASSUME Rereference(t)
      PROVE  TypeOK'
    <2>1. [Idle EXCEPT !.pc = "forget", !.todo = FileKey, !.res = "ok"] \in Frame
        BY IdleType DEF Frame, PC
    <2>2. QED
        BY <1>3, <2>1 DEF TypeOK, Rereference, SetFrame
<1>4. QED
    BY <1>1, <1>2, <1>3 DEF Begin

(* Every step of an operation keeps the types. *)
LEMMA StepType ==
    ASSUME TypeOK, Accounting, NEW t \in Target, Step(t)
    PROVE  TypeOK'
<1> USE FaultAssumption, TargetAssumption
<1> DEFINE fr == frame[t]
<1>1. /\ fr \in Frame /\ packages[t] \in SUBSET Package
      /\ refs[t] \in [FileKey -> Nat]
    BY DEF TypeOK
<1>2. Fault => faults' \in 0..MaxFaults
    BY DEF Fault, TypeOK
<1>3. ASSUME InsertOne(t)
      PROVE  TypeOK'
    <2>1. PICK f \in fr.todo :
            \/ /\ refs' = [refs EXCEPT ![t][f] = @ + 1]
               /\ SetFrame(t, [fr EXCEPT !.todo = @ \ {f}])
               /\ UNCHANGED <<faults, leaky>>
            \/ /\ Fault
               /\ SetFrame(t, [fr EXCEPT !.todo = @ \ {f}, !.res = "error"])
               /\ leaky' = leaky \cup {t}
               /\ UNCHANGED refs
        BY <1>3 DEF InsertOne
    <2>2. /\ [fr EXCEPT !.todo = @ \ {f}] \in Frame
          /\ [fr EXCEPT !.todo = @ \ {f}, !.res = "error"] \in Frame
        BY <1>1 DEF Frame
    <2>3. f \in FileKey
        BY <1>1 DEF Frame
    <2>4. refs' \in [Target -> [FileKey -> Nat]]
        <3>1. refs[t][f] + 1 \in Nat
            BY <1>1, <2>3
        <3>2. QED
            BY <2>1, <2>3, <3>1, SetRefType DEF TypeOK
    <2>5. frame' \in [Target -> Frame]
        BY <2>1, <2>2, SetFrameType DEF TypeOK
    <2>6. QED
        BY <1>2, <1>3, <2>1, <2>4, <2>5 DEF TypeOK, InsertOne
<1>4. ASSUME InsertEnd(t)
      PROVE  TypeOK'
    <2>1. /\ [fr EXCEPT !.pc = "trim", !.trimming = TRUE] \in Frame
          /\ [fr EXCEPT !.pc = "add"] \in Frame
          /\ [fr EXCEPT !.pc = "archive"] \in Frame
        BY <1>1 DEF Frame, PC
    <2>2. QED
        BY <1>4, <2>1 DEF TypeOK, InsertEnd, SetFrame
<1>5. ASSUME ArchivePackage(t)
      PROVE  TypeOK'
    <2> DEFINE a == Archive[t]
    <2>1. Archived(fr, TRUE) \in Frame /\ Archived(fr, FALSE) \in Frame
        BY <1>1, ArchivedType
    <2>2. [fr EXCEPT !.pc = "archiving"] \in Frame
        BY <1>1 DEF Frame, PC
    <2>3. CASE /\ frame[a] = Idle /\ a # NoTarget
               /\ \E callee \in AddFrames(a, fr.old, FALSE) :
                    frame' = [frame EXCEPT ![t] = [fr EXCEPT !.pc = "archiving"],
                                           ![a] = callee]
               /\ UNCHANGED faults
        <3>1. PICK callee \in AddFrames(a, fr.old, FALSE) :
                    frame' = [frame EXCEPT ![t] = [fr EXCEPT !.pc = "archiving"],
                                           ![a] = callee]
            BY <2>3
        <3>2. fr.old \in Package
            BY <1>1, <1>5 DEF Accounting, Accounts, FrameOK, ArchivePackage
        <3>3. callee \in Frame
            BY <2>3, <3>2, AddFramesType
        <3>4. QED
            BY <1>5, <2>2, <2>3, <3>1, <3>3 DEF TypeOK, ArchivePackage
    <2>4. QED
        BY <1>2, <1>5, <2>1, <2>3, SetFrameType DEF TypeOK, ArchivePackage
<1>6. ASSUME ArchiveReturn(t)
      PROVE  TypeOK'
    <2>1. Archived(fr, frame[Archive[t]].res # "error") \in Frame
        BY <1>1, ArchivedType
    <2>2. QED
        BY <1>6, <2>1, IdleType DEF TypeOK, ArchiveReturn
<1>7. ASSUME DeleteOld(t)
      PROVE  TypeOK'
    <2>1. /\ [fr EXCEPT !.pc = "add"] \in Frame
          /\ [fr EXCEPT !.pc = "add", !.res = "error"] \in Frame
        BY <1>1 DEF Frame, PC
    <2>2. packages' \in [Target -> SUBSET Package]
        BY <1>7 DEF TypeOK, DeleteOld
    <2>3. QED
        BY <1>2, <1>7, <2>1, <2>2, SetFrameType DEF TypeOK, DeleteOld
<1>8. ASSUME AddNew(t)
      PROVE  TypeOK'
    <2>1. /\ [fr EXCEPT !.pc = "unref", !.trimming = TRUE,
                        !.todo = FilesOf(fr.old) \ Files[fr.new]] \in Frame
          /\ [fr EXCEPT !.pc = "trim", !.trimming = TRUE, !.res = "error"] \in Frame
        BY <1>1 DEF Frame, PC, FilesOf
    <2>2. fr.new \in Package
        BY <1>8 DEF Accounting, Accounts, FrameOK, BeforeAdd, AddNew
    <2>3. packages' \in [Target -> SUBSET Package]
        BY <1>1, <1>8, <2>2 DEF TypeOK, AddNew
    <2>4. QED
        BY <1>2, <1>8, <2>1, <2>3, SetFrameType DEF TypeOK, AddNew
<1>9. ASSUME UnrefOne(t)
      PROVE  TypeOK'
    <2>1. PICK f \in fr.todo :
            \/ /\ refs' = [refs EXCEPT ![t][f] = IF @ > 0 THEN @ - 1 ELSE 0]
               /\ SetFrame(t, [fr EXCEPT !.todo = @ \ {f}])
               /\ UNCHANGED <<faults, leaky>>
            \/ /\ Fault
               /\ SetFrame(t, [fr EXCEPT !.todo = @ \ {f}, !.res = "error"])
               /\ leaky' = leaky \cup {t}
               /\ UNCHANGED refs
        BY <1>9 DEF UnrefOne
    <2>2. /\ [fr EXCEPT !.todo = @ \ {f}] \in Frame
          /\ [fr EXCEPT !.todo = @ \ {f}, !.res = "error"] \in Frame
        BY <1>1 DEF Frame
    <2>3. f \in FileKey
        BY <1>1 DEF Frame
    <2>4. (IF refs[t][f] > 0 THEN refs[t][f] - 1 ELSE 0) \in Nat
        BY <1>1, <2>3
    <2>5. refs' \in [Target -> [FileKey -> Nat]]
        <3> DEFINE n == IF refs[t][f] > 0 THEN refs[t][f] - 1 ELSE 0
        <3>1. refs' = refs \/ refs' = [refs EXCEPT ![t][f] = n]
            BY <2>1
        <3>2. n \in Nat
            BY <2>4
        <3> HIDE DEF n
        <3>3. QED
            BY <2>3, <3>1, <3>2, SetRefType DEF TypeOK
    <2>6. frame' \in [Target -> Frame]
        BY <2>1, <2>2, SetFrameType DEF TypeOK
    <2>7. QED
        BY <1>2, <1>9, <2>1, <2>5, <2>6 DEF TypeOK, UnrefOne
<1>10. ASSUME UnrefEnd(t)
       PROVE  TypeOK'
    <2>1. [fr EXCEPT !.pc = "trim"] \in Frame
        BY <1>1 DEF Frame, PC
    <2>2. QED
        BY <1>10, <2>1, SetFrameType DEF TypeOK, UnrefEnd
<1>11. ASSUME TrimNext(t)
       PROVE  TypeOK'
    <2>1. [fr EXCEPT !.pc = "done"] \in Frame
        BY <1>1 DEF Frame, PC
    <2>2. ASSUME NEW q \in fr.trim
          PROVE  /\ [fr EXCEPT !.trim = @ \ {q}] \in Frame
                 /\ [fr EXCEPT !.pc = "archive", !.old = q, !.trim = @ \ {q}] \in Frame
        BY <1>1 DEF Frame, PC
    <2>3. frame' \in [Target -> Frame]
        BY <1>11, <2>1, <2>2, SetFrameType DEF TypeOK, TrimNext
    <2>4. QED
        BY <1>11, <2>3 DEF TypeOK, TrimNext
<1>12. ASSUME RemoveRecord(t)
       PROVE  TypeOK'
    <2>1. /\ [fr EXCEPT !.pc = "unref", !.todo = FilesOf(fr.old)] \in Frame
          /\ [fr EXCEPT !.pc = "trim", !.res = "error"] \in Frame
        BY <1>1 DEF Frame, PC, FilesOf
    <2>2. packages' \in [Target -> SUBSET Package]
        BY <1>12 DEF TypeOK, RemoveRecord
    <2>3. QED
        BY <1>2, <1>12, <2>1, <2>2, SetFrameType DEF TypeOK, RemoveRecord
<1>13. ASSUME ForgetOne(t)
       PROVE  TypeOK'
    <2>1. PICK f \in fr.todo :
            \/ /\ refs' = [refs EXCEPT ![t][f] = 0]
               /\ SetFrame(t, [fr EXCEPT !.todo = @ \ {f}])
               /\ UNCHANGED faults
            \/ /\ Fault
               /\ \E n \in 1..refs[t][f] : refs' = [refs EXCEPT ![t][f] = n]
               /\ SetFrame(t, [fr EXCEPT !.todo = @ \ {f}, !.res = "error"])
        BY <1>13 DEF ForgetOne
    <2>2. /\ [fr EXCEPT !.todo = @ \ {f}] \in Frame
          /\ [fr EXCEPT !.todo = @ \ {f}, !.res = "error"] \in Frame
        BY <1>1 DEF Frame
    <2>3. f \in FileKey
        BY <1>1 DEF Frame
    <2>4. refs' \in [Target -> [FileKey -> Nat]]
        <3>1. PICK n \in Nat : refs' = [refs EXCEPT ![t][f] = n]
            <4>1. CASE refs' = [refs EXCEPT ![t][f] = 0]
                BY <4>1, 0 \in Nat
            <4>2. CASE \E n \in 1..refs[t][f] : refs' = [refs EXCEPT ![t][f] = n]
                <5>1. PICK n \in 1..refs[t][f] : refs' = [refs EXCEPT ![t][f] = n]
                    BY <4>2
                <5>2. n \in Nat
                    BY <1>1, <2>3
                <5>3. QED
                    BY <5>1, <5>2
            <4>3. QED
                BY <2>1, <4>1, <4>2
        <3>2. refs \in [Target -> [FileKey -> Nat]]
            BY DEF TypeOK
        <3>3. QED
            BY <2>3, <3>1, <3>2, SetRefType
    <2>5. frame' \in [Target -> Frame]
        BY <2>1, <2>2, SetFrameType DEF TypeOK
    <2>6. QED
        BY <1>2, <1>13, <2>1, <2>4, <2>5 DEF TypeOK, ForgetOne
<1>14. ASSUME ForgetEnd(t)
       PROVE  TypeOK'
    <2>1. /\ [fr EXCEPT !.pc = "relist", !.trim = packages[t]] \in Frame
          /\ [fr EXCEPT !.pc = "done", !.res = "error"] \in Frame
        BY <1>1 DEF Frame, PC
    <2>2. QED
        BY <1>2, <1>14, <2>1, SetFrameType DEF TypeOK, ForgetEnd
<1>15. ASSUME RelistOne(t)
       PROVE  TypeOK'
    <2> DEFINE Plus(S) == [f \in FileKey |-> IF f \in S THEN refs[t][f] + 1 ELSE refs[t][f]]
    <2>1. ASSUME NEW S PROVE Plus(S) \in [FileKey -> Nat]
        BY <1>1
    <2>2. ASSUME NEW S, refs' = [refs EXCEPT ![t] = Plus(S)]
          PROVE  refs' \in [Target -> [FileKey -> Nat]]
        BY <2>1, <2>2 DEF TypeOK
    <2>3. ASSUME NEW p \in fr.trim
          PROVE  /\ [fr EXCEPT !.trim = @ \ {p}] \in Frame
                 /\ [fr EXCEPT !.trim = @ \ {p}, !.res = "error"] \in Frame
        BY <1>1 DEF Frame
    <2>4. refs' \in [Target -> [FileKey -> Nat]]
        BY <1>15, <2>2 DEF RelistOne
    <2>5. frame' \in [Target -> Frame]
        BY <1>15, <2>3, SetFrameType DEF TypeOK, RelistOne
    <2>6. QED
        BY <1>2, <1>15, <2>4, <2>5 DEF TypeOK, RelistOne
<1>16. ASSUME RelistEnd(t)
       PROVE  TypeOK'
    <2>1. [fr EXCEPT !.pc = "done"] \in Frame
        BY <1>1 DEF Frame, PC
    <2>2. QED
        BY <1>16, <2>1, SetFrameType DEF TypeOK, RelistEnd
<1>17. ASSUME Return(t)
       PROVE  TypeOK'
    BY <1>17, IdleType, SetFrameType DEF TypeOK, Return
<1>18. QED
    BY <1>3, <1>4, <1>5, <1>6, <1>7, <1>8, <1>9, <1>10, <1>11, <1>12, <1>13,
       <1>14, <1>15, <1>16, <1>17 DEF Step

(* Types are kept by every step of the process, and by its death. *)
LEMMA NextType ==
    ASSUME TypeOK, Accounting, [Next]_vars
    PROVE  TypeOK'
<1>1. CASE Crash
    BY <1>1, IdleType, FaultAssumption DEF TypeOK, Crash, Fault
<1>2. CASE UNCHANGED vars
    BY <1>2 DEF TypeOK, vars
<1>3. QED
    BY <1>1, <1>2, BeginType, StepType DEF Next

-----------------------------------------------------------------------------
(* What each step does to the books of the target it works on.  P, R, fr, d *)
(* and l are the records, references, activation and flags of one target.   *)

(* A reference more for a file of the new package keeps the books balanced. *)
LEMMA InsertBooks ==
    ASSUME NEW P \in SUBSET Package,
           NEW R \in [FileKey -> Nat], NEW R2 \in [FileKey -> Nat],
           NEW d \in BOOLEAN, NEW l \in BOOLEAN,
           NEW fr \in Frame, NEW fr2 \in Frame, Accounts(P, R, fr, d, l),
           fr.pc = "insert", NEW f \in fr.todo,
           fr2.pc = "insert", fr2.new = fr.new, fr2.old = fr.old,
           fr2.res = fr.res, fr2.trim = fr.trim, fr2.todo = fr.todo \ {f},
           fr2.trimming = fr.trimming,
           R2[f] = R[f] + 1, \A g \in FileKey \ {f} : R2[g] = R[g]
    PROVE  Accounts(P, R2, fr2, d, l)
<1>1. FrameOK(P, fr2) /\ Relisting(P, R2, fr2, d)
    BY DEF Accounts, FrameOK, BeforeAdd, Relisting
<1>2. \A g \in FileKey : Count(P, g) \in Nat
    BY CountType
<1>3. f \in FileKey /\ f \in Files[fr.new] \ FilesOf(fr.old)
    BY DEF Frame, Accounts, FrameOK
<1>4. CASE fr.res = "error"
    <2>1. Owed(P, fr) = {} /\ Owed(P, fr2) = {}
        BY <1>4 DEF Owed, BeforeAdd
    <2>2. QED
        BY <1>1, <1>2, <1>3, <1>4, <2>1 DEF Balance, Accounts
<1>5. CASE fr.res # "error"
    <2>1. Owed(P, fr2) = Owed(P, fr) \cup {f} /\ f \notin Owed(P, fr)
        BY <1>3, <1>5 DEF Owed
    <2>2. QED
        BY <1>1, <1>2, <1>3, <1>5, <2>1 DEF Balance, Accounts
<1>6. QED
    BY <1>4, <1>5

(* A step that writes nothing keeps the books, if it owes the same or the *)
(* target is leaky by now and it owes less.                               *)
LEMMA KeepBooks ==
    ASSUME NEW P \in SUBSET Package, NEW R \in [FileKey -> Nat],
           NEW d \in BOOLEAN, NEW l \in BOOLEAN, NEW l2 \in BOOLEAN,
           NEW fr \in Frame, NEW fr2 \in Frame, Accounts(P, R, fr, d, l),
           FrameOK(P, fr2), Relisting(P, R, fr2, d), l => l2,
           fr2.pc = "insert" /\ fr2.res = "error" => l2,
           Owed(P, fr2) = Owed(P, fr) \/ (l2 /\ Owed(P, fr2) \subseteq Owed(P, fr))
    PROVE  Accounts(P, R, fr2, d, l2)
<1>1. \A g \in FileKey : Count(P, g) \in Nat
    BY CountType
<1>2. \A g \in FileKey : R[g] \in Nat
    OBVIOUS
<1>3. QED
    BY <1>1, <1>2 DEF Balance, Accounts

(* The record of the old package goes, its references are owed by then. *)
LEMMA DeleteBooks ==
    ASSUME NEW P \in SUBSET Package, NEW R \in [FileKey -> Nat],
           NEW d \in BOOLEAN, NEW l \in BOOLEAN,
           NEW fr \in Frame, NEW fr2 \in Frame, Accounts(P, R, fr, d, l),
           fr.pc = "delete", fr2.pc = "add", fr2.new = fr.new, fr2.old = fr.old,
           fr2.trim = fr.trim
    PROVE  Accounts(P \ {fr.old}, R, fr2, d, l)
<1> DEFINE P2 == P \ {fr.old}
<1>1. fr.old \in P /\ fr.old \in Package /\ fr.old # NoPackage /\ fr.new \in Package
    BY DEF Accounts, FrameOK, BeforeAdd
<1>2. FrameOK(P2, fr2) /\ Relisting(P2, R, fr2, d)
    BY DEF Accounts, FrameOK, BeforeAdd, Relisting
<1>3. \A g \in FileKey : Count(P2, g) \in Nat
    BY CountType
<1>4. \A g \in FileKey :
        Count(P, g) = Count(P2, g) + (IF g \in Files[fr.old] THEN 1 ELSE 0)
    BY <1>1, CountRemove
<1>5. /\ Owed(P, fr) = Files[fr.new] \ Files[fr.old]
      /\ Owed(P2, fr2) = Files[fr.new] \cup Files[fr.old]
    BY <1>1 DEF Owed, BeforeAdd, FilesOf
<1> HIDE DEF P2
<1>6. \A g \in FileKey : Balance(P2, fr2, g) = Balance(P, fr, g)
    BY <1>3, <1>4, <1>5 DEF Balance
<1>7. QED
    BY <1>2, <1>6 DEF Accounts, P2

(* The record of the new package comes, its references are there by then. *)
LEMMA AddBooks ==
    ASSUME NEW P \in SUBSET Package, NEW R \in [FileKey -> Nat],
           NEW d \in BOOLEAN, NEW d2 \in BOOLEAN, NEW l \in BOOLEAN,
           NEW fr \in Frame, NEW fr2 \in Frame, Accounts(P, R, fr, d, l),
           fr.pc = "add", fr.new \notin P, d => d2, fr.old \in P => d2,
           fr2.pc = "unref", fr2.new = fr.new, fr2.old = fr.old,
           fr2.trim = fr.trim, fr2.todo = FilesOf(fr.old) \ Files[fr.new],
           fr2.trimming
    PROVE  Accounts(P \cup {fr.new}, R, fr2, d2, l)
<1> DEFINE P2 == P \cup {fr.new}
<1>1. fr.new \in Package
    BY DEF Accounts, FrameOK, BeforeAdd
<1>2. FrameOK(P2, fr2) /\ Relisting(P2, R, fr2, d2)
    BY DEF Accounts, FrameOK, BeforeAdd, Relisting
<1>3. CASE d2
    BY <1>2, <1>3 DEF Accounts
<1>4. CASE ~d2
    <2>1. \A g \in FileKey : Count(P, g) \in Nat
        BY CountType
    <2>2. \A g \in FileKey :
            Count(P2, g) = Count(P, g) + (IF g \in Files[fr.new] THEN 1 ELSE 0)
        BY <1>1, CountAdd
    <2>3. /\ Owed(P, fr) = Files[fr.new] \cup FilesOf(fr.old)
          /\ Owed(P2, fr2) = FilesOf(fr.old) \ Files[fr.new]
        BY <1>4 DEF Owed, BeforeAdd
    <2> HIDE DEF P2
    <2>4. \A g \in FileKey : Balance(P2, fr2, g) = Balance(P, fr, g)
        BY <2>1, <2>2, <2>3 DEF Balance
    <2>5. QED
        BY <1>2, <1>4, <2>4 DEF Accounts, P2
<1>5. QED
    BY <1>3, <1>4

(* A removed record's references are owed until they are dropped. *)
LEMMA RemoveBooks ==
    ASSUME NEW P \in SUBSET Package, NEW R \in [FileKey -> Nat],
           NEW d \in BOOLEAN, NEW l \in BOOLEAN,
           NEW fr \in Frame, NEW fr2 \in Frame, Accounts(P, R, fr, d, l),
           fr.pc = "rmdelete", fr2.pc = "unref", fr2.new = fr.new,
           fr2.old = fr.old, fr2.trim = fr.trim, fr2.todo = FilesOf(fr.old),
           fr2.trimming = fr.trimming
    PROVE  Accounts(P \ {fr.old}, R, fr2, d, l)
<1> DEFINE P2 == P \ {fr.old}
<1>1. fr.old \in P /\ fr.old \in Package /\ fr.old # NoPackage
    BY DEF Accounts, FrameOK
<1>2. FrameOK(P2, fr2) /\ Relisting(P2, R, fr2, d)
    BY DEF Accounts, FrameOK, BeforeAdd, Relisting
<1>3. \A g \in FileKey : Count(P2, g) \in Nat
    BY CountType
<1>4. \A g \in FileKey :
        Count(P, g) = Count(P2, g) + (IF g \in Files[fr.old] THEN 1 ELSE 0)
    BY <1>1, CountRemove
<1>5. Owed(P, fr) = {} /\ Owed(P2, fr2) = Files[fr.old]
    BY <1>1 DEF Owed, BeforeAdd, FilesOf
<1> HIDE DEF P2
<1>6. \A g \in FileKey : Balance(P2, fr2, g) = Balance(P, fr, g)
    BY <1>3, <1>4, <1>5 DEF Balance
<1>7. QED
    BY <1>2, <1>6 DEF Accounts, P2

(* A dropped reference was owed, so the records keep theirs. *)
LEMMA UnrefBooks ==
    ASSUME NEW P \in SUBSET Package,
           NEW R \in [FileKey -> Nat], NEW R2 \in [FileKey -> Nat],
           NEW d \in BOOLEAN, NEW l \in BOOLEAN,
           NEW fr \in Frame, NEW fr2 \in Frame, Accounts(P, R, fr, d, l),
           fr.pc = "unref", NEW f \in fr.todo,
           fr2.pc = "unref", fr2.new = fr.new, fr2.old = fr.old,
           fr2.trim = fr.trim, fr2.todo = fr.todo \ {f},
           fr2.trimming = fr.trimming,
           R2[f] = (IF R[f] > 0 THEN R[f] - 1 ELSE 0),
           \A g \in FileKey \ {f} : R2[g] = R[g]
    PROVE  Accounts(P, R2, fr2, d, l)
<1>1. FrameOK(P, fr2) /\ Relisting(P, R2, fr2, d)
    BY DEF Accounts, FrameOK, BeforeAdd, Relisting
<1>2. \A g \in FileKey : Count(P, g) \in Nat
    BY CountType
<1>3. f \in FileKey
    BY DEF Frame
<1>4. Owed(P, fr) = fr.todo /\ Owed(P, fr2) = fr.todo \ {f}
    BY DEF Owed, BeforeAdd
<1>5. QED
    BY <1>1, <1>2, <1>3, <1>4 DEF Balance, Accounts

(* target_addpackage starts without owing anything. *)
LEMMA AddFramesBooks ==
    ASSUME TypeOK, NEW t \in Target, NEW p \in Package, NEW downgrade \in BOOLEAN,
           NEW d \in BOOLEAN, NEW l \in BOOLEAN, NEW R \in [FileKey -> Nat],
           NEW P, P = packages[t], Accounts(P, R, Idle, d, l),
           NEW fr \in AddFrames(t, p, downgrade)
    PROVE  Accounts(P, R, fr, d, l)
<1>1. P \in SUBSET Package
    BY DEF TypeOK
<1>2. fr \in Frame /\ Idle \in Frame
    BY AddFramesType, IdleType
<1>3. CASE fr = Skipped
    <2>1. FrameOK(P, fr) /\ Relisting(P, R, fr, d)
        BY <1>3 DEF FrameOK, Relisting, BeforeAdd, Skipped, Idle
    <2>2. Owed(P, fr) = Owed(P, Idle) /\ fr.pc # "insert"
        BY <1>3 DEF Owed, BeforeAdd, Skipped, Idle
    <2>3. QED
        BY <1>1, <1>2, <2>1, <2>2, KeepBooks
<1>4. ASSUME NEW old \in P \cup {NoPackage}, NEW trim \in SUBSET (P \cup {p}),
             old \notin trim, fr = Replacing(p, old, trim)
      PROVE  Accounts(P, R, fr, d, l)
    <2>1. /\ fr.pc = "insert" /\ fr.new = p /\ fr.old = old /\ fr.res = "ok"
          /\ ~fr.trimming
          /\ fr.todo = Files[p] \ FilesOf(old) /\ fr.trim = trim
        BY <1>4 DEF Replacing
    <2>2. FrameOK(P, fr) /\ Relisting(P, R, fr, d)
        BY <1>4, <2>1 DEF FrameOK, Relisting, BeforeAdd
    <2>3. Owed(P, fr) = Owed(P, Idle)
        BY <2>1 DEF Owed, BeforeAdd, Idle
    <2>4. QED
        BY <1>1, <1>2, <2>1, <2>2, <2>3, KeepBooks
<1>5. ASSUME NEW q \in AtLimit(t, p), {r \in P : SameKey(r, p)} = {},
             fr = Replacing(p, q, Behind(t, p, q))
      PROVE  Accounts(P, R, fr, d, l)
    <2>1. q \in P /\ q # p
        BY <1>1, <1>5 DEF AtLimit, Named, SameKey
    <2>2. Behind(t, p, q) \in SUBSET (P \cup {p}) /\ q \notin Behind(t, p, q)
        BY <1>1, <2>1 DEF Behind, Older, Named
    <2>3. QED
        BY <1>4, <1>5, <2>1, <2>2
<1>6. \/ fr = Skipped
      \/ \E q \in P : fr = Replacing(p, q, {})
      \/ fr = Replacing(p, NoPackage, {})
      \/ /\ {r \in P : SameKey(r, p)} = {}
         /\ \E q \in AtLimit(t, p) : fr = Replacing(p, q, Behind(t, p, q))
    <2>1. CASE {r \in P : SameKey(r, p)} = {}
        BY <2>1 DEF AddFrames, SameKey
    <2>2. CASE {r \in P : SameKey(r, p)} # {}
        BY <2>2 DEF AddFrames, SameKey
    <2>3. QED
        BY <2>1, <2>2
<1>7. QED
    BY <1>3, <1>4, <1>5, <1>6

(* Whatever archive_package returned, its caller's books stay balanced. *)
LEMMA ArchivedBooks ==
    ASSUME NEW P \in SUBSET Package, NEW R \in [FileKey -> Nat],
           NEW d \in BOOLEAN, NEW l \in BOOLEAN, NEW ok \in BOOLEAN,
           NEW fr \in Frame, Accounts(P, R, fr, d, l),
           fr.pc \in {"archive", "archiving"}
    PROVE  Accounts(P, R, Archived(fr, ok), d, l)
<1> DEFINE fr2 == Archived(fr, ok)
<1>1. fr2 \in Frame
    BY ArchivedType
<1>2. /\ fr2.pc = IF fr.trimming THEN (IF ok THEN "rmdelete" ELSE "trim")
                                 ELSE (IF ok THEN "delete" ELSE "add")
      /\ fr2.new = fr.new /\ fr2.old = fr.old /\ fr2.trim = fr.trim
      /\ fr2.trimming = fr.trimming
    BY DEF Archived, Frame
<1> HIDE DEF fr2
<1>3. FrameOK(P, fr2) /\ Relisting(P, R, fr2, d) /\ fr2.pc # "insert"
    BY <1>2 DEF Accounts, FrameOK, BeforeAdd, Relisting
<1>4. Owed(P, fr2) = Owed(P, fr)
    BY <1>2 DEF Owed, BeforeAdd, Accounts, FrameOK
<1>5. QED
    BY <1>1, <1>3, <1>4, KeepBooks DEF fr2

(* A target whose books are known to be wrong has none to balance. *)
LEMMA DamagedBooks ==
    ASSUME NEW P, NEW R, NEW fr, NEW l \in BOOLEAN,
           FrameOK(P, fr), Relisting(P, R, fr, TRUE), fr.pc # "insert"
    PROVE  Accounts(P, R, fr, TRUE, l)
BY DEF Accounts

-----------------------------------------------------------------------------
(* Every step keeps the books of every target. *)

(* The books of one target, in this state. *)
Books(t) == Accounts(packages[t], refs[t], frame[t], t \in damaged, t \in leaky)

(* Target u is not touched by the step. *)
Untouched(u) ==
    /\ packages'[u] = packages[u]
    /\ refs'[u] = refs[u]
    /\ frame'[u] = frame[u]
    /\ u \in damaged' <=> u \in damaged
    /\ u \in leaky' <=> u \in leaky

(* What is not touched stays balanced. *)
LEMMA UntouchedBooks ==
    ASSUME NEW u \in Target, Books(u), Untouched(u)
    PROVE  Books(u)'
BY DEF Books, Untouched, Accounts, Relisting

(* Operations start with balanced books. *)
LEMMA BeginBooks ==
    ASSUME TypeOK, Accounting, NEW t \in Target, Begin(t)
    PROVE  Accounting'
<1> USE TargetAssumption
<1> DEFINE d == t \in damaged
           l == t \in leaky
<1>1. /\ packages[t] \in SUBSET Package /\ refs[t] \in [FileKey -> Nat]
      /\ frame \in [Target -> Frame]
    BY DEF TypeOK
<1>2. \A u \in Target : Books(u)
    BY DEF Accounting, Books
<1>3. frame[t] = Idle
    BY DEF Begin, AddPackage, RemovePackage, Rereference, AllIdle
<1>4. \A u \in Target \ {t} : Untouched(u)
    BY ZenonT(40), <1>1, SetFrameType
       DEF Begin, AddPackage, RemovePackage, Rereference, SetFrame, Untouched
<1>5. /\ Accounts(packages[t], refs[t], Idle, d, l)
      /\ d \in BOOLEAN /\ l \in BOOLEAN
    BY <1>2, <1>3 DEF Books
<1> HIDE DEF d, l
<1>6. Books(t)'
    <2>1. ASSUME NEW p \in Package, NEW downgrade \in BOOLEAN,
                 AddPackage(t, p, downgrade)
          PROVE  Books(t)'
        <3>1. PICK fr \in AddFrames(t, p, downgrade) : SetFrame(t, fr)
            BY <2>1 DEF AddPackage
        <3>2. frame'[t] = fr
            BY <1>1, <3>1 DEF SetFrame
        <3>3. Accounts(packages[t], refs[t], fr, d, l)
            BY <1>1, <1>5, AddFramesBooks
        <3>4. QED
            BY <2>1, <3>2, <3>3 DEF Books, AddPackage, d, l
    <2>2. ASSUME NEW p \in Package, RemovePackage(t, p)
          PROVE  Books(t)'
        <3> DEFINE fr == [Idle EXCEPT !.pc = "rmdelete", !.old = p,
                                      !.trimming = TRUE, !.res = "ok"]
        <3>1. /\ fr \in Frame /\ fr.pc = "rmdelete" /\ fr.old = p /\ fr.trim = {}
              /\ fr.trimming
            BY DEF Idle, Frame, PC
        <3>2. frame'[t] = fr
            BY <1>1, <2>2 DEF SetFrame, RemovePackage
        <3> HIDE DEF fr
        <3>3. FrameOK(packages[t], fr) /\ Relisting(packages[t], refs[t], fr, d)
            BY <2>2, <3>1 DEF FrameOK, Relisting, BeforeAdd, RemovePackage
        <3>4. Owed(packages[t], fr) = Owed(packages[t], Idle)
            BY <3>1 DEF Owed, BeforeAdd, Idle
        <3>5. Accounts(packages[t], refs[t], fr, d, l)
            BY <1>1, <1>5, <3>1, <3>3, <3>4, KeepBooks, IdleType
        <3>6. QED
            BY <2>2, <3>2, <3>5 DEF Books, RemovePackage, d, l
    <2>3. ASSUME Rereference(t)
          PROVE  Books(t)'
        <3> DEFINE fr == [Idle EXCEPT !.pc = "forget", !.todo = FileKey, !.res = "ok"]
        <3>1. /\ fr.pc = "forget" /\ fr.old = NoPackage /\ fr.trim = {}
              /\ fr.todo = FileKey /\ frame'[t] = fr
            BY <1>1, <2>3 DEF Idle, SetFrame, Rereference
        <3> HIDE DEF fr
        <3>2. FrameOK(packages[t], fr) /\ Relisting(packages[t], refs[t], fr, TRUE)
            BY <3>1 DEF FrameOK, Relisting, BeforeAdd
        <3>3. QED
            BY <2>3, <3>1, <3>2 DEF Books, Rereference, Accounts, Relisting
    <2>4. QED
        BY <2>1, <2>2, <2>3 DEF Begin
<1>7. QED
    BY <1>2, <1>4, <1>6, UntouchedBooks DEF Accounting, Books

(* Every step of an operation keeps the books balanced. *)
LEMMA StepBooks ==
    ASSUME TypeOK, Accounting, NEW t \in Target, Step(t)
    PROVE  Accounting'
<1> USE TargetAssumption
<1> DEFINE fr == frame[t]
           fr2 == frame'[t]
           P == packages[t]
           R == refs[t]
           R2 == refs'[t]
           d == t \in damaged
           l == t \in leaky
           l2 == t \in leaky'
           Others == \A u \in Target \ {t} : Untouched(u)
<1>1. /\ P \in SUBSET Package /\ R \in [FileKey -> Nat] /\ fr \in Frame
      /\ frame \in [Target -> Frame] /\ packages \in [Target -> SUBSET Package]
      /\ refs \in [Target -> [FileKey -> Nat]]
    BY DEF TypeOK
<1>2. TypeOK' /\ fr2 \in Frame /\ R2 \in [FileKey -> Nat]
    BY StepType DEF TypeOK
<1>3. \A u \in Target : Books(u)
    BY DEF Accounting, Books
<1>4. Accounts(P, R, fr, d, l)
    BY <1>3 DEF Books
<1>5. d \in BOOLEAN /\ l \in BOOLEAN /\ l2 \in BOOLEAN
    OBVIOUS
<1>6. ASSUME Others, Books(t)'
      PROVE  Accounting'
    BY <1>3, <1>6, UntouchedBooks DEF Accounting, Books
<1>7. ASSUME UNCHANGED <<packages, refs, damaged>>, l => l2,
             FrameOK(P, fr2), Relisting(P, R, fr2, d),
             fr2.pc = "insert" /\ fr2.res = "error" => l2,
             Owed(P, fr2) = Owed(P, fr) \/ (l2 /\ Owed(P, fr2) \subseteq Owed(P, fr))
      PROVE  Books(t)'
    <2> HIDE DEF fr, fr2, P, R, d, l, l2
    <2>1. Accounts(P, R, fr2, d, l2)
        BY <1>1, <1>2, <1>4, <1>5, <1>7, KeepBooks
    <2>2. QED
        BY <1>7, <2>1 DEF Books, fr2, P, R, d, l2
<1>8. ASSUME InsertOne(t)
      PROVE  Accounting'
    <2>1. PICK f \in fr.todo :
            \/ /\ refs' = [refs EXCEPT ![t][f] = @ + 1]
               /\ SetFrame(t, [fr EXCEPT !.todo = @ \ {f}])
               /\ UNCHANGED <<faults, leaky>>
            \/ /\ Fault
               /\ SetFrame(t, [fr EXCEPT !.todo = @ \ {f}, !.res = "error"])
               /\ leaky' = leaky \cup {t}
               /\ UNCHANGED refs
        BY <1>8 DEF InsertOne
    <2>2. fr.pc = "insert" /\ packages' = packages /\ damaged' = damaged
        BY <1>8 DEF InsertOne
    <2>3. Others
        BY <1>1, <2>1, <2>2 DEF Untouched, SetFrame
    <2>4. CASE /\ refs' = [refs EXCEPT ![t][f] = @ + 1]
               /\ SetFrame(t, [fr EXCEPT !.todo = @ \ {f}])
               /\ UNCHANGED <<faults, leaky>>
        <3>1. /\ fr2.pc = "insert" /\ fr2.new = fr.new /\ fr2.old = fr.old
              /\ fr2.res = fr.res /\ fr2.trim = fr.trim
              /\ fr2.todo = fr.todo \ {f} /\ fr2.trimming = fr.trimming
            BY <1>1, <2>2, <2>4 DEF SetFrame, Frame
        <3>2. /\ f \in FileKey
              /\ R2[f] = R[f] + 1 /\ \A g \in FileKey \ {f} : R2[g] = R[g]
            BY <1>1, <2>4 DEF Frame
        <3>3. Accounts(P, R2, fr2, d, l)
            <4> HIDE DEF fr, fr2, P, R, R2, d, l
            <4>1. QED
                BY SMTT(30), <1>1, <1>2, <1>4, <1>5, <2>2, <3>1, <3>2, InsertBooks
        <3>4. QED
            BY <1>6, <2>2, <2>3, <2>4, <3>3 DEF Books
    <2>5. CASE /\ Fault
               /\ SetFrame(t, [fr EXCEPT !.todo = @ \ {f}, !.res = "error"])
               /\ leaky' = leaky \cup {t}
               /\ UNCHANGED refs
        <3>1. /\ fr2.pc = "insert" /\ fr2.new = fr.new /\ fr2.old = fr.old
              /\ fr2.res = "error" /\ fr2.trim = fr.trim
              /\ fr2.todo = fr.todo \ {f} /\ fr2.trimming = fr.trimming /\ l2
            BY <1>1, <2>2, <2>5 DEF SetFrame, Frame
        <3>2. FrameOK(P, fr2) /\ Relisting(P, R, fr2, d)
            BY <1>4, <2>2, <3>1 DEF Accounts, FrameOK, Relisting, BeforeAdd
        <3>3. Owed(P, fr2) \subseteq Owed(P, fr)
            BY <3>1 DEF Owed, BeforeAdd
        <3>4. QED
            BY <1>6, <1>7, <2>2, <2>3, <2>5, <3>1, <3>2, <3>3
    <2>6. QED
        BY <2>1, <2>4, <2>5
<1>9. ASSUME InsertEnd(t)
      PROVE  Accounting'
    <2>1. /\ UNCHANGED <<packages, refs, damaged, leaky>> /\ Others
        BY <1>1, <1>9 DEF InsertEnd, SetFrame, Untouched
    <2>2. /\ fr.pc = "insert" /\ fr.todo = {}
          /\ fr2.pc = IF fr.res = "error" THEN "trim"
                      ELSE IF fr.old = NoPackage THEN "add" ELSE "archive"
          /\ fr2.new = fr.new /\ fr2.old = fr.old /\ fr2.trim = fr.trim
          /\ IF fr.res = "error" THEN fr2.trimming ELSE fr2.trimming = fr.trimming
        BY <1>1, <1>9 DEF InsertEnd, SetFrame, Frame
    <2>3. FrameOK(P, fr2) /\ Relisting(P, R, fr2, d)
        BY <1>4, <2>2 DEF Accounts, FrameOK, Relisting, BeforeAdd
    <2>4. Owed(P, fr2) = Owed(P, fr)
        BY <1>1, <1>4, <2>2 DEF Owed, BeforeAdd, FilesOf, Accounts, FrameOK
    <2>5. QED
        BY <1>6, <1>7, <2>1, <2>2, <2>3, <2>4
<1>10. ASSUME ArchivePackage(t)
       PROVE  Accounting'
    <2> DEFINE a == Archive[t]
    <2>1. /\ UNCHANGED <<packages, refs, damaged, leaky>>
          /\ fr.pc = "archive"
        BY <1>10 DEF ArchivePackage
    <2>2. ASSUME NEW ok \in BOOLEAN, SetFrame(t, Archived(fr, ok))
          PROVE  Accounting'
        <3>1. Others /\ fr2 = Archived(fr, ok)
            BY <1>1, <2>1, <2>2 DEF SetFrame, Untouched
        <3>2. Accounts(P, R, fr2, d, l)
            <4> HIDE DEF fr, fr2, P, R, d, l
            <4>1. QED
                BY <1>1, <1>4, <1>5, <2>1, <3>1, ArchivedBooks
        <3>3. QED
            BY <1>6, <2>1, <2>2, <3>1, <3>2 DEF Books
    <2>3. ASSUME frame[a] = Idle, a # NoTarget,
                 NEW callee \in AddFrames(a, fr.old, FALSE),
                 frame' = [frame EXCEPT ![t] = [fr EXCEPT !.pc = "archiving"],
                                        ![a] = callee]
          PROVE  Accounting'
        <3>1. a \in Target /\ a # t /\ fr.old \in Package
            BY <1>1, <1>4, <2>1, <2>3 DEF Accounts, FrameOK
        <3>2. /\ fr2 = [fr EXCEPT !.pc = "archiving"] /\ frame'[a] = callee
              /\ \A u \in Target \ {t, a} : frame'[u] = frame[u]
            BY <1>1, <2>3, <3>1
        <3>3. /\ fr2.pc = "archiving" /\ fr2.new = fr.new /\ fr2.old = fr.old
              /\ fr2.trim = fr.trim /\ fr2.trimming = fr.trimming
            BY <1>1, <3>2 DEF Frame
        <3>4. FrameOK(P, fr2) /\ Relisting(P, R, fr2, d)
            BY <1>4, <2>1, <3>3 DEF Accounts, FrameOK, Relisting, BeforeAdd
        <3>5. Owed(P, fr2) = Owed(P, fr)
            BY <2>1, <3>3 DEF Owed, BeforeAdd
        <3>6. Books(t)'
            BY <1>7, <2>1, <3>3, <3>4, <3>5
        <3>7. Books(a)'
            <4> DEFINE Pa == packages[a]
                       Ra == refs[a]
                       da == a \in damaged
                       la == a \in leaky
                       downgrade == FALSE
            <4>1. Accounts(Pa, Ra, Idle, da, la)
                BY <1>3, <2>3, <3>1 DEF Books
            <4>2. /\ Ra \in [FileKey -> Nat] /\ Pa = packages[a]
                  /\ da \in BOOLEAN /\ la \in BOOLEAN /\ downgrade \in BOOLEAN
                BY <1>1, <3>1
            <4>3. callee \in AddFrames(a, fr.old, downgrade)
                BY <2>3
            <4> HIDE DEF Pa, Ra, da, la, fr, downgrade
            <4>4. Accounts(Pa, Ra, callee, da, la)
                BY <3>1, <4>1, <4>2, <4>3, AddFramesBooks
            <4>5. QED
                BY <2>1, <3>2, <4>4 DEF Books, Pa, Ra, da, la
        <3>8. \A u \in Target \ {t, a} : Untouched(u)
            BY <2>1, <3>2 DEF Untouched
        <3>9. QED
            BY <1>3, <3>6, <3>7, <3>8, UntouchedBooks DEF Accounting, Books
    <2>4. QED
        BY <1>10, <2>2, <2>3 DEF ArchivePackage
<1>11. ASSUME ArchiveReturn(t)
       PROVE  Accounting'
    <2> DEFINE a == Archive[t]
               ok == frame[a].res # "error"
    <2>1. /\ UNCHANGED <<packages, refs, damaged, leaky>>
          /\ fr.pc = "archiving" /\ a \in Target /\ a # t /\ frame[a].pc = "done"
        BY <1>1, <1>11 DEF ArchiveReturn
    <2>2. /\ fr2 = Archived(fr, ok) /\ frame'[a] = Idle
          /\ \A u \in Target \ {t, a} : frame'[u] = frame[u]
        BY <1>1, <1>11, <2>1 DEF ArchiveReturn
    <2>3. Books(t)'
        <3>1. ok \in BOOLEAN
            OBVIOUS
        <3>2. Accounts(P, R, fr2, d, l)
            <4> HIDE DEF fr, fr2, P, R, d, l, ok
            <4>1. QED
                BY <1>1, <1>4, <1>5, <2>1, <2>2, <3>1, ArchivedBooks
        <3>3. QED
            BY <2>1, <3>2 DEF Books
    <2>4. Books(a)'
        <3> DEFINE Pa == packages[a]
                   Ra == refs[a]
                   fa == frame[a]
                   da == a \in damaged
                   la == a \in leaky
        <3>1. /\ Accounts(Pa, Ra, fa, da, la) /\ Pa \in SUBSET Package
              /\ Ra \in [FileKey -> Nat] /\ fa \in Frame /\ fa.pc = "done"
              /\ da \in BOOLEAN /\ la \in BOOLEAN
            BY <1>1, <1>3, <2>1 DEF Books
        <3> HIDE DEF Pa, Ra, fa, da, la
        <3>2. FrameOK(Pa, Idle) /\ Relisting(Pa, Ra, Idle, da)
            BY DEF FrameOK, Relisting, BeforeAdd, Idle
        <3>3. Owed(Pa, Idle) = Owed(Pa, fa) /\ Idle.pc # "insert"
            BY <3>1 DEF Owed, BeforeAdd, Idle
        <3>4. Accounts(Pa, Ra, Idle, da, la)
            BY <3>1, <3>2, <3>3, KeepBooks, IdleType
        <3>5. QED
            BY <2>1, <2>2, <3>4 DEF Books, Pa, Ra, da, la
    <2>5. \A u \in Target \ {t, a} : Untouched(u)
        BY <2>1, <2>2 DEF Untouched
    <2>6. QED
        BY <1>3, <2>3, <2>4, <2>5, UntouchedBooks DEF Accounting, Books
<1>12. ASSUME DeleteOld(t)
       PROVE  Accounting'
    <2>1. UNCHANGED <<refs, damaged, leaky>> /\ fr.pc = "delete"
        BY <1>12 DEF DeleteOld
    <2>2. Others
        BY <1>1, <1>12 DEF DeleteOld, SetFrame, Untouched
    <2>3. \/ fr2 = [fr EXCEPT !.pc = "add"]
          \/ fr2 = [fr EXCEPT !.pc = "add", !.res = "error"]
        BY <1>1, <1>12 DEF DeleteOld, SetFrame
    <2>4. fr2.pc = "add" /\ fr2.new = fr.new /\ fr2.old = fr.old /\ fr2.trim = fr.trim
        BY <1>1, <2>3 DEF Frame
    <2>5. CASE packages' = packages
        <3>1. FrameOK(P, fr2) /\ Relisting(P, R, fr2, d) /\ fr2.pc # "insert"
            BY <1>4, <2>1, <2>4 DEF Accounts, FrameOK, Relisting, BeforeAdd
        <3>2. Owed(P, fr2) = Owed(P, fr)
            BY <2>1, <2>4 DEF Owed, BeforeAdd
        <3>3. QED
            BY <1>6, <1>7, <2>1, <2>2, <2>5, <3>1, <3>2
    <2>6. CASE packages' = [packages EXCEPT ![t] = @ \ {fr.old}]
        <3>1. packages'[t] = P \ {fr.old}
            BY <1>1, <2>6
        <3>2. Accounts(P \ {fr.old}, R, fr2, d, l)
            <4> HIDE DEF fr, fr2, P, R, d, l
            <4>1. QED
                BY <1>1, <1>2, <1>4, <1>5, <2>1, <2>4, DeleteBooks
        <3>3. QED
            BY <1>6, <2>1, <2>2, <3>1, <3>2 DEF Books
    <2>7. QED
        BY <1>12, <2>5, <2>6 DEF DeleteOld
<1>13. ASSUME AddNew(t)
       PROVE  Accounting'
    <2> DEFINE added == [fr EXCEPT !.pc = "unref", !.trimming = TRUE,
                                   !.todo = FilesOf(fr.old) \ Files[fr.new]]
               failed == [fr EXCEPT !.pc = "trim", !.trimming = TRUE, !.res = "error"]
    <2>1. UNCHANGED refs /\ fr.pc = "add"
        BY <1>13 DEF AddNew
    <2>2. CASE UNCHANGED <<packages, damaged>> /\ leaky' = leaky \cup {t}
               /\ SetFrame(t, failed)
        <3>1. /\ fr2.pc = "trim" /\ fr2.new = fr.new /\ fr2.old = fr.old
              /\ fr2.trim = fr.trim /\ fr2.trimming /\ l2
            BY <1>1, <2>2 DEF SetFrame, Frame
        <3>2. Others
            BY <1>1, <2>1, <2>2 DEF SetFrame, Untouched
        <3>3. FrameOK(P, fr2) /\ Relisting(P, R, fr2, d)
            BY <1>4, <2>1, <3>1 DEF Accounts, FrameOK, Relisting, BeforeAdd
        <3>4. Owed(P, fr2) = {}
            BY <3>1 DEF Owed, BeforeAdd
        <3>5. QED
            BY <1>6, <1>7, <2>1, <2>2, <3>1, <3>2, <3>3, <3>4
    <2>3. CASE /\ \A q \in P : ~SameKey(q, fr.new)
               /\ packages' = [packages EXCEPT ![t] = @ \cup {fr.new}]
               /\ SetFrame(t, added)
               /\ damaged' = IF fr.old \in P THEN damaged \cup {t} ELSE damaged
               /\ UNCHANGED <<faults, leaky>>
        <3> DEFINE d2 == t \in damaged'
        <3>1. /\ fr2.pc = "unref" /\ fr2.new = fr.new /\ fr2.old = fr.old
              /\ fr2.trim = fr.trim /\ fr2.todo = FilesOf(fr.old) \ Files[fr.new]
              /\ fr2.trimming
            BY <1>1, <2>3 DEF SetFrame, Frame
        <3>2. Others
            BY <1>1, <2>1, <2>3 DEF SetFrame, Untouched
        <3>3. /\ packages'[t] = P \cup {fr.new} /\ fr.new \notin P
            BY <1>1, <2>3 DEF SameKey
        <3>4. (d => d2) /\ (fr.old \in P => d2) /\ d2 \in BOOLEAN
            BY <2>3
        <3>5. Accounts(P \cup {fr.new}, R, fr2, d2, l)
            <4> HIDE DEF fr, fr2, P, R, d, d2, l
            <4>1. QED
                BY <1>1, <1>2, <1>4, <1>5, <2>1, <3>1, <3>3, <3>4, AddBooks
        <3>6. QED
            BY <1>6, <2>1, <2>3, <3>2, <3>3, <3>5 DEF Books
    <2>4. QED
        BY <1>13, <2>2, <2>3 DEF AddNew
<1>14. ASSUME UnrefOne(t)
       PROVE  Accounting'
    <2>1. PICK f \in fr.todo :
            \/ /\ refs' = [refs EXCEPT ![t][f] = IF @ > 0 THEN @ - 1 ELSE 0]
               /\ SetFrame(t, [fr EXCEPT !.todo = @ \ {f}])
               /\ UNCHANGED <<faults, leaky>>
            \/ /\ Fault
               /\ SetFrame(t, [fr EXCEPT !.todo = @ \ {f}, !.res = "error"])
               /\ leaky' = leaky \cup {t}
               /\ UNCHANGED refs
        BY <1>14 DEF UnrefOne
    <2>2. fr.pc = "unref" /\ UNCHANGED <<packages, damaged>>
        BY <1>14 DEF UnrefOne
    <2>3. Others
        BY <1>1, <2>1, <2>2 DEF Untouched, SetFrame
    <2>4. \/ fr2 = [fr EXCEPT !.todo = @ \ {f}]
          \/ fr2 = [fr EXCEPT !.todo = @ \ {f}, !.res = "error"]
        BY <1>1, <2>1 DEF SetFrame
    <2>5. /\ fr2.pc = "unref" /\ fr2.new = fr.new /\ fr2.old = fr.old
          /\ fr2.trim = fr.trim /\ fr2.todo = fr.todo \ {f}
          /\ fr2.trimming = fr.trimming
        BY <1>1, <2>2, <2>4 DEF Frame
    <2>6. CASE /\ refs' = [refs EXCEPT ![t][f] = IF @ > 0 THEN @ - 1 ELSE 0]
               /\ UNCHANGED leaky
        <3>1. /\ f \in FileKey
              /\ R2[f] = (IF R[f] > 0 THEN R[f] - 1 ELSE 0)
              /\ \A g \in FileKey \ {f} : R2[g] = R[g]
            BY <1>1, <2>6 DEF Frame
        <3>2. Accounts(P, R2, fr2, d, l)
            <4> HIDE DEF fr, fr2, P, R, R2, d, l
            <4>1. QED
                BY <1>1, <1>2, <1>4, <1>5, <2>2, <2>5, <3>1, UnrefBooks
        <3>3. QED
            BY <1>6, <2>2, <2>3, <2>6, <3>2 DEF Books
    <2>7. CASE leaky' = leaky \cup {t} /\ UNCHANGED refs
        <3>1. FrameOK(P, fr2) /\ Relisting(P, R, fr2, d)
            BY <1>4, <2>2, <2>5 DEF Accounts, FrameOK, Relisting, BeforeAdd
        <3>2. Owed(P, fr2) \subseteq Owed(P, fr)
            BY <2>2, <2>5 DEF Owed, BeforeAdd
        <3>3. l2
            BY <2>7
        <3>4. QED
            BY <1>6, <1>7, <2>2, <2>3, <2>5, <2>7, <3>1, <3>2, <3>3
    <2>8. QED
        BY <2>1, <2>6, <2>7
<1>15. ASSUME UnrefEnd(t)
       PROVE  Accounting'
    <2>1. /\ UNCHANGED <<packages, refs, damaged, leaky>> /\ Others
          /\ fr.pc = "unref" /\ fr.todo = {}
        BY <1>1, <1>15 DEF UnrefEnd, SetFrame, Untouched
    <2>2. /\ fr2.pc = "trim" /\ fr2.new = fr.new /\ fr2.old = fr.old
          /\ fr2.trim = fr.trim /\ fr2.trimming = fr.trimming
        BY <1>1, <1>15 DEF UnrefEnd, SetFrame, Frame
    <2>3. FrameOK(P, fr2) /\ Relisting(P, R, fr2, d)
        BY <1>4, <2>1, <2>2 DEF Accounts, FrameOK, Relisting, BeforeAdd
    <2>4. Owed(P, fr2) = Owed(P, fr)
        BY <2>1, <2>2 DEF Owed, BeforeAdd
    <2>5. QED
        BY <1>6, <1>7, <2>1, <2>2, <2>3, <2>4
<1>16. ASSUME TrimNext(t)
       PROVE  Accounting'
    <2>1. UNCHANGED <<packages, refs, damaged, leaky>> /\ fr.pc = "trim"
        BY <1>16 DEF TrimNext
    <2>2. Others
        BY <1>1, <1>16 DEF TrimNext, SetFrame, Untouched
    <2>3. ASSUME fr2.pc \in {"trim", "done"}, fr2.new = fr.new, fr2.old = fr.old,
                 fr2.trim \subseteq fr.trim, fr2.trimming = fr.trimming
          PROVE  Accounting'
        <3>1. FrameOK(P, fr2) /\ Relisting(P, R, fr2, d)
            BY <1>4, <2>1, <2>3 DEF Accounts, FrameOK, Relisting, BeforeAdd
        <3>2. Owed(P, fr2) = Owed(P, fr)
            BY <2>1, <2>3 DEF Owed, BeforeAdd
        <3>3. QED
            BY <1>6, <1>7, <2>1, <2>2, <2>3, <3>1, <3>2
    <2>4. ASSUME NEW q \in fr.trim, ~SameKey(q, fr.new),
                 fr2 = [fr EXCEPT !.pc = "archive", !.old = q, !.trim = @ \ {q}]
          PROVE  Accounting'
        <3>1. /\ fr2.pc = "archive" /\ fr2.new = fr.new /\ fr2.old = q
              /\ fr2.trim = fr.trim \ {q} /\ fr2.trimming = fr.trimming
            BY <1>1, <2>4 DEF Frame
        <3>2. q \in P /\ fr.trimming
            BY <1>4, <2>1, <2>4 DEF Accounts, FrameOK, SameKey
        <3>3. FrameOK(P, fr2) /\ Relisting(P, R, fr2, d)
            BY <1>4, <3>1, <3>2 DEF Accounts, FrameOK, Relisting, BeforeAdd
        <3>4. Owed(P, fr2) = Owed(P, fr)
            BY <2>1, <3>1, <3>2 DEF Owed, BeforeAdd
        <3>5. QED
            BY <1>6, <1>7, <2>1, <2>2, <3>1, <3>3, <3>4
    <2>5. \/ fr2 = [fr EXCEPT !.pc = "done"]
          \/ \E q \in fr.trim :
                \/ fr2 = [fr EXCEPT !.trim = @ \ {q}]
                \/ /\ ~SameKey(q, fr.new)
                   /\ fr2 = [fr EXCEPT !.pc = "archive", !.old = q, !.trim = @ \ {q}]
        BY <1>1, <1>16 DEF TrimNext, SetFrame
    <2>6. CASE fr2 = [fr EXCEPT !.pc = "done"]
        BY <1>1, <2>3, <2>6 DEF Frame
    <2>7. ASSUME NEW q \in fr.trim, fr2 = [fr EXCEPT !.trim = @ \ {q}]
          PROVE  Accounting'
        BY <1>1, <2>1, <2>3, <2>7 DEF Frame
    <2>8. QED
        BY <2>4, <2>5, <2>6, <2>7
<1>17. ASSUME RemoveRecord(t)
       PROVE  Accounting'
    <2>1. UNCHANGED <<refs, damaged, leaky>> /\ fr.pc = "rmdelete"
        BY <1>17 DEF RemoveRecord
    <2>2. Others
        BY <1>1, <1>17 DEF RemoveRecord, SetFrame, Untouched
    <2>3. CASE /\ packages' = [packages EXCEPT ![t] = @ \ {fr.old}]
               /\ SetFrame(t, [fr EXCEPT !.pc = "unref", !.todo = FilesOf(fr.old)])
        <3>1. /\ fr2.pc = "unref" /\ fr2.new = fr.new /\ fr2.old = fr.old
              /\ fr2.trim = fr.trim /\ fr2.todo = FilesOf(fr.old)
              /\ fr2.trimming = fr.trimming /\ packages'[t] = P \ {fr.old}
            BY <1>1, <2>3 DEF SetFrame, Frame
        <3>2. Accounts(P \ {fr.old}, R, fr2, d, l)
            <4> HIDE DEF fr, fr2, P, R, d, l
            <4>1. QED
                BY <1>1, <1>2, <1>4, <1>5, <2>1, <3>1, RemoveBooks
        <3>3. QED
            BY <1>6, <2>1, <2>2, <3>1, <3>2 DEF Books
    <2>4. CASE /\ UNCHANGED packages
               /\ SetFrame(t, [fr EXCEPT !.pc = "trim", !.res = "error"])
        <3>1. /\ fr2.pc = "trim" /\ fr2.new = fr.new /\ fr2.old = fr.old
              /\ fr2.trim = fr.trim /\ fr2.trimming = fr.trimming
            BY <1>1, <2>4 DEF SetFrame, Frame
        <3>2. FrameOK(P, fr2) /\ Relisting(P, R, fr2, d)
            BY <1>4, <2>1, <3>1 DEF Accounts, FrameOK, Relisting, BeforeAdd
        <3>3. Owed(P, fr2) = Owed(P, fr)
            BY <2>1, <3>1 DEF Owed, BeforeAdd
        <3>4. QED
            BY <1>6, <1>7, <2>1, <2>2, <2>4, <3>1, <3>2, <3>3
    <2>5. QED
        BY <1>17, <2>3, <2>4 DEF RemoveRecord
<1>18. ASSUME ForgetOne(t)
       PROVE  Accounting'
    <2>1. PICK f \in fr.todo :
            \/ /\ refs' = [refs EXCEPT ![t][f] = 0]
               /\ SetFrame(t, [fr EXCEPT !.todo = @ \ {f}])
               /\ UNCHANGED faults
            \/ /\ Fault
               /\ \E n \in 1..refs[t][f] : refs' = [refs EXCEPT ![t][f] = n]
               /\ SetFrame(t, [fr EXCEPT !.todo = @ \ {f}, !.res = "error"])
        BY <1>18 DEF ForgetOne
    <2>2. fr.pc = "forget" /\ UNCHANGED <<packages, damaged, leaky>> /\ t \in damaged
        BY <1>4, <1>18 DEF ForgetOne, Accounts, Relisting
    <2>3. Others
        BY <1>1, <2>1, <2>2 DEF Untouched, SetFrame
    <2>4. \/ /\ fr2 = [fr EXCEPT !.todo = @ \ {f}]
             /\ R2 = [R EXCEPT ![f] = 0]
          \/ fr2 = [fr EXCEPT !.todo = @ \ {f}, !.res = "error"]
        BY <1>1, <2>1 DEF SetFrame
    <2>5. /\ fr2.pc = "forget" /\ fr2.new = fr.new /\ fr2.old = fr.old
          /\ fr2.trim = fr.trim /\ fr2.todo = fr.todo \ {f}
          /\ fr2.res # "error" => /\ fr.res # "error" /\ R2[f] = 0
                                  /\ \A g \in FileKey \ {f} : R2[g] = R[g]
        <3>1. f \in FileKey
            BY <1>1 DEF Frame
        <3>2. QED
            BY <1>1, <2>2, <2>4, <3>1 DEF Frame
    <2>6. FrameOK(P, fr2)
        BY <1>4, <2>2, <2>5 DEF Accounts, FrameOK, BeforeAdd
    <2>7. Relisting(P, R2, fr2, TRUE)
        BY <1>4, <2>2, <2>5 DEF Accounts, Relisting
    <2>8. Books(t)'
        BY <2>2, <2>5, <2>6, <2>7 DEF Books, Accounts
    <2>9. QED
        BY <1>6, <2>3, <2>8
<1>19. ASSUME ForgetEnd(t)
       PROVE  Accounting'
    <2>1. /\ UNCHANGED <<packages, refs, damaged, leaky>>
          /\ fr.pc = "forget" /\ fr.todo = {} /\ t \in damaged /\ fr.old \notin P
        BY <1>1, <1>4, <1>19 DEF ForgetEnd, Accounts, Relisting
    <2>2. Others
        BY <1>1, <1>19 DEF ForgetEnd, SetFrame, Untouched
    <2>3. \/ fr2 = [fr EXCEPT !.pc = "relist", !.trim = packages[t]]
          \/ fr2 = [fr EXCEPT !.pc = "done", !.res = "error"]
        BY <1>1, <1>19 DEF ForgetEnd, SetFrame
    <2>4. /\ fr2.new = fr.new /\ fr2.old = fr.old
          /\ \/ fr2.pc = "relist" /\ fr2.trim = P /\ fr2.res = fr.res
             \/ fr2.pc = "done" /\ fr2.trim = fr.trim
        BY <1>1, <2>3 DEF Frame
    <2>5. FrameOK(P, fr2)
        BY <1>4, <2>1, <2>4 DEF Accounts, FrameOK, BeforeAdd
    <2>6. \A f \in FileKey : Count(P \ P, f) = 0
        BY CountEmpty, P \ P = {}
    <2>7. Relisting(P, R, fr2, TRUE)
        BY <1>4, <2>1, <2>4, <2>6 DEF Accounts, Relisting
    <2>8. Books(t)'
        BY <2>1, <2>4, <2>5, <2>7 DEF Books, Accounts
    <2>9. QED
        BY <1>6, <2>2, <2>8
<1>20. ASSUME RelistOne(t)
       PROVE  Accounting'
    <2>1. PICK p \in fr.trim :
            \/ /\ refs' = [refs EXCEPT ![t] =
                    [f \in FileKey |-> IF f \in Files[p] THEN @[f] + 1 ELSE @[f]]]
               /\ SetFrame(t, [fr EXCEPT !.trim = @ \ {p}])
               /\ UNCHANGED faults
            \/ /\ Fault
               /\ \E S \in SUBSET Files[p] \ {Files[p]} :
                    refs' = [refs EXCEPT ![t] =
                              [f \in FileKey |-> IF f \in S THEN @[f] + 1 ELSE @[f]]]
               /\ SetFrame(t, [fr EXCEPT !.trim = @ \ {p}, !.res = "error"])
        BY <1>20 DEF RelistOne
    <2>2. /\ fr.pc = "relist" /\ UNCHANGED <<packages, damaged, leaky>>
          /\ t \in damaged /\ fr.trim \subseteq P
        BY <1>4, <1>20 DEF RelistOne, Accounts, Relisting
    <2>3. Others
        BY <1>1, <2>1, <2>2 DEF Untouched, SetFrame
    <2>4. \/ /\ fr2 = [fr EXCEPT !.trim = @ \ {p}]
             /\ R2 = [f \in FileKey |-> IF f \in Files[p] THEN R[f] + 1 ELSE R[f]]
          \/ fr2 = [fr EXCEPT !.trim = @ \ {p}, !.res = "error"]
        BY <1>1, <2>1 DEF SetFrame
    <2>5. /\ fr2.pc = "relist" /\ fr2.new = fr.new /\ fr2.old = fr.old
          /\ fr2.trim = fr.trim \ {p}
          /\ fr2.res # "error" =>
                /\ fr.res # "error"
                /\ R2 = [f \in FileKey |-> IF f \in Files[p] THEN R[f] + 1 ELSE R[f]]
        BY ZenonT(40), <1>1, <2>2, <2>4 DEF Frame
    <2>6. FrameOK(P, fr2)
        BY <1>4, <2>2, <2>5 DEF Accounts, FrameOK, BeforeAdd
    <2>7. \A f \in FileKey : Count(P \ fr2.trim, f)
                = Count(P \ fr.trim, f) + (IF f \in Files[p] THEN 1 ELSE 0)
        <3> DEFINE Q == P \ fr.trim
        <3>1. P \ fr2.trim = Q \cup {p}
            BY <2>2, <2>5
        <3>2. Q \in SUBSET Package /\ p \in Package /\ p \notin Q
            BY <1>1, <2>2
        <3> HIDE DEF Q
        <3>3. \A f \in FileKey :
                Count(Q \cup {p}, f) = Count(Q, f) + (IF f \in Files[p] THEN 1 ELSE 0)
            BY <3>2, CountAdd
        <3>4. QED
            BY <3>1, <3>3 DEF Q
    <2>8. \A f \in FileKey : Count(P \ fr.trim, f) \in Nat
        BY <1>1, CountType, P \ fr.trim \in SUBSET Package
    <2>9. Relisting(P, R2, fr2, TRUE)
        <3>1. fr.res # "error" => \A f \in FileKey : R[f] = Count(P \ fr.trim, f)
            BY <1>4, <2>2 DEF Accounts, Relisting
        <3>2. ASSUME fr2.res # "error", NEW f \in FileKey
              PROVE  R2[f] = Count(P \ fr2.trim, f)
            <4>1. R2[f] = IF f \in Files[p] THEN R[f] + 1 ELSE R[f]
                BY <2>5, <3>2
            <4>2. R[f] = Count(P \ fr.trim, f) /\ R[f] \in Nat
                BY <2>5, <2>8, <3>1, <3>2
            <4>3. Count(P \ fr2.trim, f) = R[f] + (IF f \in Files[p] THEN 1 ELSE 0)
                BY <2>7, <4>2
            <4>4. QED
                BY <4>1, <4>2, <4>3
        <3>3. fr2.trim \subseteq P /\ fr2.old = NoPackage
            BY <1>4, <2>2, <2>5 DEF Accounts, Relisting
        <3>4. QED
            BY <2>5, <3>2, <3>3 DEF Relisting
    <2>10. Books(t)'
        BY <2>2, <2>5, <2>6, <2>9 DEF Books, Accounts
    <2>11. QED
        BY <1>6, <2>3, <2>10
<1>21. ASSUME RelistEnd(t)
       PROVE  Accounting'
    <2>1. /\ UNCHANGED <<packages, refs>> /\ fr.pc = "relist" /\ fr.trim = {}
          /\ fr.res = "error" => UNCHANGED <<damaged, leaky>>
          /\ fr.res # "error" => damaged' = damaged \ {t} /\ leaky' = leaky \ {t}
        BY <1>21 DEF RelistEnd
    <2>2. Others
        BY <1>1, <1>21 DEF RelistEnd, SetFrame, Untouched
    <2>3. fr2.pc = "done" /\ fr2.new = fr.new /\ fr2.old = fr.old /\ fr2.trim = {}
        BY <1>1, <1>21, <2>1 DEF RelistEnd, SetFrame, Frame
    <2>4. FrameOK(P, fr2) /\ \A x \in BOOLEAN : Relisting(P, R, fr2, x)
        BY <2>3 DEF FrameOK, BeforeAdd, Relisting
    <2>5. CASE fr.res = "error"
        BY <1>4, <1>6, <2>1, <2>2, <2>3, <2>4, <2>5 DEF Accounts, Relisting, Books
    <2>6. CASE fr.res # "error"
        <3>1. \A f \in FileKey : R[f] = Count(P, f)
            BY <1>4, <2>1, <2>6, P \ {} = P DEF Accounts, Relisting
        <3>2. Owed(P, fr2) = {}
            BY <2>3 DEF Owed, BeforeAdd
        <3>3. \A f \in FileKey : Balance(P, fr2, f) = R[f] /\ R[f] \in Nat
            BY <1>1, <3>1, <3>2 DEF Balance
        <3>4. QED
            BY <1>6, <2>1, <2>2, <2>3, <2>4, <2>6, <3>3 DEF Accounts, Relisting, Books
    <2>7. QED
        BY <2>5, <2>6
<1>22. ASSUME Return(t)
       PROVE  Accounting'
    <2>1. /\ UNCHANGED <<packages, refs, damaged, leaky>> /\ Others
          /\ fr.pc = "done" /\ fr2 = Idle
        BY <1>1, <1>22 DEF Return, SetFrame, Untouched
    <2>2. FrameOK(P, Idle) /\ Relisting(P, R, Idle, d) /\ Idle.pc # "insert"
        BY DEF FrameOK, BeforeAdd, Relisting, Idle
    <2>3. Owed(P, Idle) = Owed(P, fr)
        BY <2>1 DEF Owed, BeforeAdd, Idle
    <2>4. QED
        BY <1>6, <1>7, <2>1, <2>2, <2>3
<1>23. QED
    BY <1>8, <1>9, <1>10, <1>11, <1>12, <1>13, <1>14, <1>15, <1>16, <1>17,
       <1>18, <1>19, <1>20, <1>21, <1>22 DEF Step

(* A process that dies leaves balanced books, with references to spare. *)
LEMMA CrashBooks ==
    ASSUME TypeOK, Accounting, Crash
    PROVE  Accounting'
<1> SUFFICES ASSUME NEW t \in Target PROVE Books(t)'
    BY DEF Accounting, Books
<1> DEFINE fr == frame[t]
           P == packages[t]
           R == refs[t]
           d == t \in damaged
           l == t \in leaky
           l2 == t \in leaky'
<1>1. /\ P \in SUBSET Package /\ R \in [FileKey -> Nat] /\ fr \in Frame
      /\ d \in BOOLEAN /\ l \in BOOLEAN /\ l2 \in BOOLEAN
    BY DEF TypeOK
<1>2. Accounts(P, R, fr, d, l)
    BY DEF Accounting
<1>3. /\ UNCHANGED <<packages, refs, damaged>> /\ frame'[t] = Idle
      /\ (l => l2) /\ (fr # Idle => l2)
    BY DEF Crash
<1>4. FrameOK(P, Idle) /\ Relisting(P, R, Idle, d) /\ Idle.pc # "insert"
    BY DEF FrameOK, BeforeAdd, Relisting, Idle
<1>5. Owed(P, Idle) = {} /\ (fr = Idle => Owed(P, Idle) = Owed(P, fr))
    BY DEF Owed, BeforeAdd, Idle
<1>6. Accounts(P, R, Idle, d, l2)
    <2>1. Owed(P, Idle) = Owed(P, fr) \/ (l2 /\ Owed(P, Idle) \subseteq Owed(P, fr))
        BY <1>3, <1>5
    <2> HIDE DEF fr, P, R, d, l, l2
    <2>2. QED
        BY <1>1, <1>2, <1>3, <1>4, <2>1, IdleType, KeepBooks
<1>7. QED
    BY <1>3, <1>6 DEF Books

-----------------------------------------------------------------------------
(* The theorems. *)

(* The inductive invariant. *)
IInv == TypeOK /\ Accounting

LEMMA InitIInv == Init => IInv
<1> SUFFICES ASSUME Init PROVE IInv
    OBVIOUS
<1>1. TypeOK
    BY IdleType, FaultAssumption DEF Init, TypeOK
<1>2. ASSUME NEW t \in Target PROVE Books(t)
    <2> DEFINE R == refs[t]
               d == t \in damaged
    <2>1. /\ packages[t] = {} /\ R = [f \in FileKey |-> 0]
          /\ frame[t] = Idle /\ ~d
        BY DEF Init
    <2>2. FrameOK({}, Idle) /\ Relisting({}, R, Idle, d) /\ Idle.pc # "insert"
        BY DEF FrameOK, BeforeAdd, Relisting, Idle
    <2>3. Owed({}, Idle) = {}
        BY DEF Owed, BeforeAdd, Idle
    <2>4. \A f \in FileKey : R[f] = Balance({}, Idle, f) /\ R[f] = 0
        BY <2>1, <2>3, CountEmpty DEF Balance
    <2>5. QED
        BY <2>1, <2>2, <2>4 DEF Books, Accounts
<1>3. QED
    BY <1>1, <1>2 DEF IInv, Accounting, Books

LEMMA NextIInv == IInv /\ [Next]_vars => IInv'
<1> SUFFICES ASSUME TypeOK, Accounting, [Next]_vars PROVE IInv'
    BY DEF IInv
<1>1. TypeOK'
    BY NextType
<1>2. CASE UNCHANGED vars
    <2>1. \A t \in Target : Books(t) /\ Untouched(t)
        BY <1>2 DEF Accounting, Books, Untouched, vars
    <2>2. QED
        BY <1>1, <2>1, UntouchedBooks DEF IInv, Accounting, Books
<1>3. CASE \E t \in Target : Begin(t) \/ Step(t)
    BY <1>1, <1>3, BeginBooks, StepBooks DEF IInv
<1>4. CASE Crash
    BY <1>1, <1>4, CrashBooks DEF IInv
<1>5. QED
    BY <1>2, <1>3, <1>4 DEF Next

(***************************************************************************)
(* The databases and the activations of target.c keep their shape for any  *)
(* number of targets, packages, files and failures; in particular no       *)
(* reference count is ever taken below zero.  Types alone are not          *)
(* inductive: that a package is being archived or added at all is known    *)
(* from the accounting.                                                    *)
(***************************************************************************)
THEOREM TypeCorrect == Spec => []TypeOK
<1>1. IInv => TypeOK
    BY DEF IInv
<1>2. QED
    BY <1>1, InitIInv, NextIInv, PTL DEF Spec

(***************************************************************************)
(* The books balance: at every step of every operation of target.c, and    *)
(* after a crash or a failing write anywhere, a target that is not         *)
(* damaged holds at least the references its records and its unfinished    *)
(* operation account for, and exactly those if it is not leaky.            *)
(***************************************************************************)
THEOREM BooksBalance == Spec => []Accounting
<1>1. IInv => Accounting
    BY DEF IInv
<1>2. QED
    BY <1>1, InitIInv, NextIInv, PTL DEF Spec

(***************************************************************************)
(* No crash and no failing write, however many there are, can make a       *)
(* target lose a reference its listed packages need, outside the two known *)
(* ways of becoming damaged.                                               *)
(***************************************************************************)
THEOREM ReferencesSurvive == Spec => []PackagesReferenced
<1>1. IInv => PackagesReferenced
    <2> SUFFICES ASSUME IInv, NEW t \in Target \ damaged, NEW p \in packages[t],
                        NEW f \in Files[p]
                 PROVE  refs[t][f] > 0
        BY DEF PackagesReferenced
    <2>1. packages[t] \in SUBSET Package /\ refs[t] \in [FileKey -> Nat]
        BY DEF IInv, TypeOK
    <2>2. f \in FileKey
        BY <2>1
    <2>3. Count(packages[t], f) \in Nat /\ Count(packages[t], f) >= 1
        BY <2>1, <2>2, CountType, CountPositive
    <2>4. Balance(packages[t], frame[t], f) >= 1
        BY <2>3 DEF Balance
    <2>5. refs[t][f] >= Balance(packages[t], frame[t], f)
        BY <2>2 DEF IInv, Accounting, Accounts
    <2>6. QED
        BY <2>1, <2>2, <2>3, <2>4, <2>5 DEF Balance
<1>2. QED
    BY <1>1, InitIInv, NextIInv, PTL DEF Spec

(***************************************************************************)
(* Between operations, a target that never saw a failure holds exactly one *)
(* reference for every file of every listed package.                       *)
(***************************************************************************)
THEOREM ReferencesAreExact == Spec => []ReferencesExact
<1>1. IInv => ReferencesExact
    <2> SUFFICES ASSUME IInv, NEW t \in Target \ (damaged \cup leaky),
                        frame[t] = Idle, NEW f \in FileKey
                 PROVE  refs[t][f] = Count(packages[t], f)
        BY DEF ReferencesExact
    <2>1. packages[t] \in SUBSET Package
        BY DEF IInv, TypeOK
    <2>2. Owed(packages[t], Idle) = {}
        BY DEF Owed, BeforeAdd, Idle
    <2>3. Count(packages[t], f) \in Nat
        BY <2>1, CountType
    <2>4. refs[t][f] = Balance(packages[t], Idle, f)
        BY DEF IInv, Accounting, Accounts
    <2>5. QED
        BY <2>2, <2>3, <2>4 DEF Balance
<1>2. QED
    BY <1>1, InitIInv, NextIInv, PTL DEF Spec

-----------------------------------------------------------------------------
(* What the steps do to the records and the activation of their target. *)

(* The step is one of target t alone. *)
Alone(t) ==
    \A u \in Target \ {t} : packages'[u] = packages[u] /\ frame'[u] = frame[u]

(* It is still about the same packages. *)
SameWork(t) ==
    /\ frame'[t].new = frame[t].new
    /\ frame'[t].old = frame[t].old
    /\ frame'[t].trim = frame[t].trim

(* A reference is taken. *)
LEMMA InsertOneDoes ==
    ASSUME TypeOK, NEW t \in Target, InsertOne(t)
    PROVE  /\ Alone(t)
           /\ packages'[t] = packages[t] /\ SameWork(t)
           /\ frame[t].pc = "insert" /\ frame'[t].pc = "insert"
           /\ frame'[t].trimming = frame[t].trimming
           /\ frame'[t].res \in {frame[t].res, "error"}
<1> DEFINE fr == frame[t]
           fr2 == frame'[t]
           P == packages[t]
           P2 == packages'[t]
<1>1. /\ frame \in [Target -> Frame] /\ packages \in [Target -> SUBSET Package]
      /\ fr \in Frame /\ P \in SUBSET Package
    BY DEF TypeOK
<1>2. Alone(t)
    BY <1>1 DEF InsertOne, SetFrame, Alone
<1>3. /\ fr.pc = "insert" /\ packages' = packages
      /\ \E f : \/ SetFrame(t, [fr EXCEPT !.todo = @ \ {f}])
               \/ SetFrame(t, [fr EXCEPT !.todo = @ \ {f}, !.res = "error"])
    BY DEF InsertOne
<1>5. /\ fr.pc = "insert" /\ P2 = P
      /\ \E f : \/ fr2 = [fr EXCEPT !.todo = @ \ {f}]
               \/ fr2 = [fr EXCEPT !.todo = @ \ {f}, !.res = "error"]
    BY <1>1, <1>3 DEF SetFrame
<1>6. /\ P2 = P /\ fr2.new = fr.new /\ fr2.old = fr.old
      /\ fr2.trim = fr.trim /\ fr.pc = "insert" /\ fr2.pc = "insert"
      /\ fr2.trimming = fr.trimming /\ fr2.res \in {fr.res, "error"}
    <2> HIDE DEF fr, fr2, P, P2
    <2>1. QED
        BY <1>1, <1>5 DEF Frame
<1>7. QED
    BY <1>2, <1>6 DEF SameWork

(* All references are taken. *)
LEMMA InsertEndDoes ==
    ASSUME TypeOK, NEW t \in Target, InsertEnd(t)
    PROVE  /\ Alone(t)
           /\ packages'[t] = packages[t] /\ SameWork(t)
           /\ frame[t].pc = "insert" /\ frame'[t].res = frame[t].res
           /\ \/ frame'[t].pc = "trim" /\ frame'[t].trimming /\ frame'[t].res = "error"
              \/ /\ frame'[t].pc = "add" /\ frame[t].old = NoPackage
                 /\ frame'[t].trimming = frame[t].trimming
              \/ /\ frame'[t].pc = "archive" /\ frame[t].old # NoPackage
                 /\ frame'[t].trimming = frame[t].trimming
<1> DEFINE fr == frame[t]
           fr2 == frame'[t]
           P == packages[t]
           P2 == packages'[t]
<1>1. /\ frame \in [Target -> Frame] /\ packages \in [Target -> SUBSET Package]
      /\ fr \in Frame /\ P \in SUBSET Package
    BY DEF TypeOK
<1>2. Alone(t)
    BY <1>1 DEF InsertEnd, SetFrame, Alone
<1>3. /\ P2 = P /\ fr2.new = fr.new /\ fr2.old = fr.old
      /\ fr2.trim = fr.trim /\ fr.pc = "insert" /\ fr2.res = fr.res
      /\ \/ fr2.pc = "trim" /\ fr2.trimming /\ fr2.res = "error"
         \/ fr2.pc = "add" /\ fr.old = NoPackage /\ fr2.trimming = fr.trimming
         \/ fr2.pc = "archive" /\ fr.old # NoPackage /\ fr2.trimming = fr.trimming
    BY <1>1 DEF InsertEnd, SetFrame, Frame
<1>4. QED
    BY <1>2, <1>3 DEF SameWork

(* The old record is deleted or stays. *)
LEMMA DeleteOldDoes ==
    ASSUME TypeOK, NEW t \in Target, DeleteOld(t)
    PROVE  /\ Alone(t)
           /\ SameWork(t) /\ frame[t].pc = "delete"
           /\ frame'[t].pc = "add" /\ frame'[t].trimming = frame[t].trimming
           /\ \/ packages'[t] = packages[t] \ {frame[t].old} /\ frame'[t].res = frame[t].res
              \/ packages'[t] = packages[t] /\ frame'[t].res = "error"
<1> DEFINE fr == frame[t]
           fr2 == frame'[t]
           P == packages[t]
           P2 == packages'[t]
<1>1. /\ frame \in [Target -> Frame] /\ packages \in [Target -> SUBSET Package]
      /\ fr \in Frame /\ P \in SUBSET Package
    BY DEF TypeOK
<1>2. Alone(t)
    BY <1>1 DEF DeleteOld, SetFrame, Alone
<1>3. /\ fr.pc = "delete"
      /\ \/ /\ packages' = [packages EXCEPT ![t] = @ \ {fr.old}]
            /\ SetFrame(t, [fr EXCEPT !.pc = "add"])
         \/ /\ packages' = packages
            /\ SetFrame(t, [fr EXCEPT !.pc = "add", !.res = "error"])
    BY DEF DeleteOld
<1>5. /\ fr.pc = "delete"
      /\ \/ /\ P2 = P \ {fr.old}
            /\ fr2 = [fr EXCEPT !.pc = "add"]
         \/ /\ P2 = P
            /\ fr2 = [fr EXCEPT !.pc = "add", !.res = "error"]
    BY <1>1, <1>3 DEF SetFrame
<1>6. /\ fr2.new = fr.new /\ fr2.old = fr.old /\ fr2.trim = fr.trim
      /\ fr.pc = "delete" /\ fr2.pc = "add" /\ fr2.trimming = fr.trimming
      /\ \/ P2 = P \ {fr.old} /\ fr2.res = fr.res
         \/ P2 = P /\ fr2.res = "error"
    <2> HIDE DEF fr, fr2, P, P2
    <2>1. QED
        BY ZenonT(40), <1>1, <1>5 DEF Frame
<1>7. QED
    BY <1>2, <1>6 DEF SameWork

(* The new record is added, or the addition has failed. *)
LEMMA AddNewDoes ==
    ASSUME TypeOK, NEW t \in Target, AddNew(t)
    PROVE  /\ Alone(t)
           /\ SameWork(t) /\ frame[t].pc = "add" /\ frame'[t].trimming
           /\ \/ /\ \A q \in packages[t] : ~SameKey(q, frame[t].new)
                 /\ packages'[t] = packages[t] \cup {frame[t].new} /\ frame'[t].pc = "unref"
                 /\ frame'[t].res = frame[t].res
              \/ packages'[t] = packages[t] /\ frame'[t].pc = "trim" /\ frame'[t].res = "error"
<1> DEFINE fr == frame[t]
           fr2 == frame'[t]
           P == packages[t]
           P2 == packages'[t]
<1>1. /\ frame \in [Target -> Frame] /\ packages \in [Target -> SUBSET Package]
      /\ fr \in Frame /\ P \in SUBSET Package
    BY DEF TypeOK
<1>2. Alone(t)
    BY <1>1 DEF AddNew, SetFrame, Alone
<1>3. /\ fr.pc = "add"
      /\ \/ /\ \A q \in P : ~SameKey(q, fr.new)
            /\ packages' = [packages EXCEPT ![t] = @ \cup {fr.new}]
            /\ SetFrame(t, [fr EXCEPT !.pc = "unref", !.trimming = TRUE,
                                      !.todo = FilesOf(fr.old) \ Files[fr.new]])
         \/ /\ packages' = packages
            /\ SetFrame(t, [fr EXCEPT !.pc = "trim", !.trimming = TRUE, !.res = "error"])
    BY DEF AddNew
<1>5. /\ fr.pc = "add"
      /\ \/ /\ \A q \in P : ~SameKey(q, fr.new)
            /\ P2 = P \cup {fr.new}
            /\ fr2 = [fr EXCEPT !.pc = "unref", !.trimming = TRUE,
                                      !.todo = FilesOf(fr.old) \ Files[fr.new]]
         \/ /\ P2 = P
            /\ fr2 = [fr EXCEPT !.pc = "trim", !.trimming = TRUE, !.res = "error"]
    BY <1>1, <1>3 DEF SetFrame
<1>6. /\ fr2.new = fr.new /\ fr2.old = fr.old /\ fr2.trim = fr.trim
      /\ fr.pc = "add" /\ fr2.trimming
      /\ \/ /\ \A q \in P : ~SameKey(q, fr.new)
            /\ P2 = P \cup {fr.new} /\ fr2.pc = "unref" /\ fr2.res = fr.res
         \/ P2 = P /\ fr2.pc = "trim" /\ fr2.res = "error"
    <2> HIDE DEF fr, fr2, P, P2
    <2>1. QED
        BY ZenonT(40), <1>1, <1>5 DEF Frame
<1>7. QED
    BY <1>2, <1>6 DEF SameWork

(* A reference is dropped. *)
LEMMA UnrefOneDoes ==
    ASSUME TypeOK, NEW t \in Target, UnrefOne(t)
    PROVE  /\ Alone(t)
           /\ packages'[t] = packages[t] /\ SameWork(t)
           /\ frame[t].pc = "unref" /\ frame'[t].pc = "unref"
           /\ frame'[t].trimming = frame[t].trimming
           /\ frame'[t].res \in {frame[t].res, "error"}
<1> DEFINE fr == frame[t]
           fr2 == frame'[t]
           P == packages[t]
           P2 == packages'[t]
<1>1. /\ frame \in [Target -> Frame] /\ packages \in [Target -> SUBSET Package]
      /\ fr \in Frame /\ P \in SUBSET Package
    BY DEF TypeOK
<1>2. Alone(t)
    BY <1>1 DEF UnrefOne, SetFrame, Alone
<1>3. /\ fr.pc = "unref" /\ packages' = packages
      /\ \E f : \/ SetFrame(t, [fr EXCEPT !.todo = @ \ {f}])
               \/ SetFrame(t, [fr EXCEPT !.todo = @ \ {f}, !.res = "error"])
    BY DEF UnrefOne
<1>5. /\ fr.pc = "unref" /\ P2 = P
      /\ \E f : \/ fr2 = [fr EXCEPT !.todo = @ \ {f}]
               \/ fr2 = [fr EXCEPT !.todo = @ \ {f}, !.res = "error"]
    BY <1>1, <1>3 DEF SetFrame
<1>6. /\ P2 = P /\ fr2.new = fr.new /\ fr2.old = fr.old
      /\ fr2.trim = fr.trim /\ fr.pc = "unref" /\ fr2.pc = "unref"
      /\ fr2.trimming = fr.trimming /\ fr2.res \in {fr.res, "error"}
    <2> HIDE DEF fr, fr2, P, P2
    <2>1. QED
        BY <1>1, <1>5 DEF Frame
<1>7. QED
    BY <1>2, <1>6 DEF SameWork

(* All references are dropped. *)
LEMMA UnrefEndDoes ==
    ASSUME TypeOK, NEW t \in Target, UnrefEnd(t)
    PROVE  /\ Alone(t)
           /\ packages'[t] = packages[t] /\ SameWork(t)
           /\ frame[t].pc = "unref" /\ frame'[t].pc = "trim"
           /\ frame'[t].trimming = frame[t].trimming /\ frame'[t].res = frame[t].res
<1> DEFINE fr == frame[t]
           fr2 == frame'[t]
           P == packages[t]
           P2 == packages'[t]
<1>1. /\ frame \in [Target -> Frame] /\ packages \in [Target -> SUBSET Package]
      /\ fr \in Frame /\ P \in SUBSET Package
    BY DEF TypeOK
<1>2. Alone(t)
    BY <1>1 DEF UnrefEnd, SetFrame, Alone
<1>3. /\ P2 = P /\ fr2.new = fr.new /\ fr2.old = fr.old
      /\ fr2.trim = fr.trim /\ fr.pc = "unref" /\ fr2.pc = "trim"
      /\ fr2.trimming = fr.trimming /\ fr2.res = fr.res
    BY <1>1 DEF UnrefEnd, SetFrame, Frame
<1>4. QED
    BY <1>2, <1>3 DEF SameWork

(* A record is removed or stays. *)
LEMMA RemoveRecordDoes ==
    ASSUME TypeOK, NEW t \in Target, RemoveRecord(t)
    PROVE  /\ Alone(t)
           /\ SameWork(t) /\ frame[t].pc = "rmdelete"
           /\ frame'[t].trimming = frame[t].trimming
           /\ \/ /\ packages'[t] = packages[t] \ {frame[t].old}
                 /\ frame'[t].pc = "unref" /\ frame'[t].res = frame[t].res
              \/ /\ packages'[t] = packages[t]
                 /\ frame'[t].pc = "trim" /\ frame'[t].res = "error"
<1> DEFINE fr == frame[t]
           fr2 == frame'[t]
           P == packages[t]
           P2 == packages'[t]
<1>1. /\ frame \in [Target -> Frame] /\ packages \in [Target -> SUBSET Package]
      /\ fr \in Frame /\ P \in SUBSET Package
    BY DEF TypeOK
<1>2. Alone(t)
    BY <1>1 DEF RemoveRecord, SetFrame, Alone
<1>3. /\ fr.pc = "rmdelete"
      /\ \/ /\ packages' = [packages EXCEPT ![t] = @ \ {fr.old}]
            /\ SetFrame(t, [fr EXCEPT !.pc = "unref", !.todo = FilesOf(fr.old)])
         \/ /\ packages' = packages
            /\ SetFrame(t, [fr EXCEPT !.pc = "trim", !.res = "error"])
    BY DEF RemoveRecord
<1>5. /\ fr.pc = "rmdelete"
      /\ \/ /\ P2 = P \ {fr.old}
            /\ fr2 = [fr EXCEPT !.pc = "unref", !.todo = FilesOf(fr.old)]
         \/ /\ P2 = P
            /\ fr2 = [fr EXCEPT !.pc = "trim", !.res = "error"]
    BY <1>1, <1>3 DEF SetFrame
<1>6. /\ fr2.new = fr.new /\ fr2.old = fr.old /\ fr2.trim = fr.trim
      /\ fr.pc = "rmdelete" /\ fr2.trimming = fr.trimming
      /\ \/ P2 = P \ {fr.old} /\ fr2.pc = "unref" /\ fr2.res = fr.res
         \/ P2 = P /\ fr2.pc = "trim" /\ fr2.res = "error"
    <2> HIDE DEF fr, fr2, P, P2
    <2>1. QED
        BY <1>1, <1>5 DEF Frame
<1>7. QED
    BY <1>2, <1>6 DEF SameWork

(* The trim loop goes on, past its own record, or ends. *)
LEMMA TrimNextDoes ==
    ASSUME TypeOK, NEW t \in Target, TrimNext(t)
    PROVE  /\ Alone(t)
           /\ packages'[t] = packages[t] /\ frame'[t].new = frame[t].new
           /\ frame[t].pc = "trim" /\ frame'[t].trimming = frame[t].trimming
           /\ frame'[t].res = frame[t].res
           /\ \/ /\ frame[t].trim = {} /\ frame'[t].trim = {}
                 /\ frame'[t].pc = "done" /\ frame'[t].old = frame[t].old
              \/ \E q \in frame[t].trim :
                     /\ frame'[t].trim = frame[t].trim \ {q}
                     /\ \/ /\ SameKey(q, frame[t].new)
                           /\ frame'[t].pc = "trim" /\ frame'[t].old = frame[t].old
                        \/ /\ ~SameKey(q, frame[t].new)
                           /\ frame'[t].pc = "archive" /\ frame'[t].old = q
<1> DEFINE fr == frame[t]
           fr2 == frame'[t]
           P == packages[t]
           P2 == packages'[t]
<1>1. /\ frame \in [Target -> Frame] /\ packages \in [Target -> SUBSET Package]
      /\ fr \in Frame /\ P \in SUBSET Package
    BY DEF TypeOK
<1>2. Alone(t)
    BY <1>1 DEF TrimNext, SetFrame, Alone
<1>3. /\ fr.pc = "trim" /\ packages' = packages
      /\ \/ /\ fr.trim = {}
            /\ SetFrame(t, [fr EXCEPT !.pc = "done"])
         \/ \E q \in fr.trim :
                \/ /\ SameKey(q, fr.new)
                   /\ SetFrame(t, [fr EXCEPT !.trim = @ \ {q}])
                \/ /\ ~SameKey(q, fr.new)
                   /\ SetFrame(t, [fr EXCEPT !.pc = "archive", !.old = q,
                                             !.trim = @ \ {q}])
    BY DEF TrimNext
<1>5. /\ fr.pc = "trim" /\ P2 = P
      /\ \/ /\ fr.trim = {}
            /\ fr2 = [fr EXCEPT !.pc = "done"]
         \/ \E q \in fr.trim :
                \/ /\ SameKey(q, fr.new)
                   /\ fr2 = [fr EXCEPT !.trim = @ \ {q}]
                \/ /\ ~SameKey(q, fr.new)
                   /\ fr2 = [fr EXCEPT !.pc = "archive", !.old = q,
                                             !.trim = @ \ {q}]
    BY <1>1, <1>3 DEF SetFrame
<1>6. /\ P2 = P /\ fr2.new = fr.new /\ fr.pc = "trim" /\ fr2.trimming = fr.trimming
      /\ fr2.res = fr.res
      /\ \/ fr.trim = {} /\ fr2.trim = {} /\ fr2.pc = "done" /\ fr2.old = fr.old
         \/ \E q \in fr.trim :
                /\ fr2.trim = fr.trim \ {q}
                /\ \/ SameKey(q, fr.new) /\ fr2.pc = "trim" /\ fr2.old = fr.old
                   \/ ~SameKey(q, fr.new) /\ fr2.pc = "archive" /\ fr2.old = q
    <2> HIDE DEF fr, fr2, P, P2
    <2>1. QED
        BY ZenonT(40), <1>1, <1>5 DEF Frame
<1>7. QED
    BY <1>2, <1>6 DEF SameWork

(* References are counted anew. *)
LEMMA RereferenceDoes ==
    ASSUME TypeOK, NEW t \in Target,
           ForgetOne(t) \/ ForgetEnd(t) \/ RelistOne(t) \/ RelistEnd(t)
    PROVE  /\ Alone(t)
           /\ packages'[t] = packages[t] /\ frame'[t].new = frame[t].new
           /\ frame'[t].old = frame[t].old
           /\ frame[t].pc \in {"forget", "relist"}
           /\ \/ frame'[t].pc \in {"forget", "relist"}
              \/ frame'[t].pc = "done" /\ (frame'[t].res = "ok" => frame'[t].trim = {})
<1> DEFINE fr == frame[t]
           fr2 == frame'[t]
           P == packages[t]
           P2 == packages'[t]
<1>1. /\ frame \in [Target -> Frame] /\ packages \in [Target -> SUBSET Package]
      /\ fr \in Frame /\ P \in SUBSET Package
    BY DEF TypeOK
<1>2. Alone(t)
    BY <1>1 DEF ForgetOne, ForgetEnd, RelistOne, RelistEnd, SetFrame, Alone
<1>3. /\ packages' = packages /\ fr.pc \in {"forget", "relist"}
      /\ \/ \E d : \/ SetFrame(t, [fr EXCEPT !.todo = d])
                  \/ SetFrame(t, [fr EXCEPT !.todo = d, !.res = "error"])
                  \/ SetFrame(t, [fr EXCEPT !.trim = d])
                  \/ SetFrame(t, [fr EXCEPT !.trim = d, !.res = "error"])
                  \/ SetFrame(t, [fr EXCEPT !.pc = "relist", !.trim = d])
         \/ SetFrame(t, [fr EXCEPT !.pc = "done", !.res = "error"])
         \/ SetFrame(t, [fr EXCEPT !.pc = "done"]) /\ fr.trim = {}
    BY DEF ForgetOne, ForgetEnd, RelistOne, RelistEnd
<1>4. \A x : SetFrame(t, x) => fr2 = x
    BY <1>1 DEF SetFrame
<1>5. /\ P2 = P /\ fr.pc \in {"forget", "relist"}
      /\ \/ \E d : \/ fr2 = [fr EXCEPT !.todo = d]
                  \/ fr2 = [fr EXCEPT !.todo = d, !.res = "error"]
                  \/ fr2 = [fr EXCEPT !.trim = d]
                  \/ fr2 = [fr EXCEPT !.trim = d, !.res = "error"]
                  \/ fr2 = [fr EXCEPT !.pc = "relist", !.trim = d]
         \/ fr2 = [fr EXCEPT !.pc = "done", !.res = "error"]
         \/ fr2 = [fr EXCEPT !.pc = "done"] /\ fr.trim = {}
    BY <1>3, <1>4, Zenon
<1>6. /\ P2 = P /\ fr2.new = fr.new /\ fr2.old = fr.old
      /\ fr.pc \in {"forget", "relist"}
      /\ \/ fr2.pc \in {"forget", "relist"}
         \/ fr2.pc = "done" /\ (fr2.res = "ok" => fr2.trim = {})
    <2> HIDE DEF fr, fr2, P, P2
    <2>1. QED
        BY ZenonT(40), <1>1, <1>5 DEF Frame
<1>7. QED
    BY <1>2, <1>6 DEF SameWork

-----------------------------------------------------------------------------
(* How many versions of a name are kept. *)

(* The packages of a set that are newer than one. *)
Newer(N, q) == {r \in N : Version[r] > Version[q]}

(* Of finitely many different versions, one has exactly n newer ones. *)
LEMMA StandsAt ==
    ASSUME NEW N \in SUBSET Package,
           \A q, r \in N : Version[q] = Version[r] => q = r,
           NEW n \in Nat, n < Cardinality(N)
    PROVE  \E q \in N : Cardinality(Newer(N, q)) = n
<1> DEFINE place == [q \in N |-> Cardinality(Newer(N, q))]
           last == Cardinality(N) - 1
<1>1. IsFiniteSet(N) /\ Cardinality(N) \in Nat
    BY FS_Subset, FS_CardinalityType
<1>2. \A q \in N : /\ Newer(N, q) \in SUBSET (N \ {q})
                   /\ Version[q] \in Int
    BY DEF Newer
<1>3. ASSUME NEW q \in N
      PROVE  /\ IsFiniteSet(Newer(N, q)) /\ Cardinality(Newer(N, q)) \in Nat
             /\ Cardinality(Newer(N, q)) =< last
    <2>1. IsFiniteSet(N \ {q}) /\ Cardinality(N \ {q}) = last
        BY <1>1, FS_RemoveElement
    <2>2. IsFiniteSet(Newer(N, q)) /\ Cardinality(Newer(N, q)) =< last
        BY <1>2, <2>1, FS_Subset
    <2>3. QED
        BY <2>2, FS_CardinalityType
<1>4. ASSUME NEW q \in N, NEW r \in N, Version[q] < Version[r]
      PROVE  Cardinality(Newer(N, r)) < Cardinality(Newer(N, q))
    <2>1. Newer(N, r) \cup {r} \in SUBSET Newer(N, q) /\ r \notin Newer(N, r)
        BY <1>2, <1>4 DEF Newer
    <2>2. Cardinality(Newer(N, r) \cup {r}) = Cardinality(Newer(N, r)) + 1
        BY <1>3, <2>1, FS_AddElement
    <2>3. Cardinality(Newer(N, r) \cup {r}) =< Cardinality(Newer(N, q))
        BY <1>3, <2>1, FS_Subset
    <2>4. QED
        BY <1>3, <2>2, <2>3
<1>5. IsFiniteSet(0..last) /\ Cardinality(0..last) = Cardinality(N)
    <2>1. last \in Int /\ 0 \in Int /\ Cardinality(N) = IF 0 > last THEN 0 ELSE last - 0 + 1
        BY <1>1
    <2> HIDE DEF last
    <2>2. QED
        BY <2>1, FS_Interval
<1>6. place \in Injection(N, 0..last)
    <2>1. place \in [N -> 0..last]
        BY <1>1, <1>3
    <2>2. ASSUME NEW q \in N, NEW r \in N, place[q] = place[r]
          PROVE  q = r
        <3>1. Cardinality(Newer(N, q)) = Cardinality(Newer(N, r))
            BY <2>2
        <3>2. ~(Version[q] < Version[r]) /\ ~(Version[r] < Version[q])
            BY <1>1, <1>3, <1>4, <3>1
        <3>3. QED
            BY <1>2, <3>2
    <2>3. QED
        BY <2>1, <2>2 DEF Injection, IsInjective
<1>7. place \in Surjection(N, 0..last)
    <2> HIDE DEF place
    <2>1. QED
        BY <1>1, <1>5, <1>6, FS_Injection
<1>8. PICK q \in N : place[q] = n
    <2>1. n \in 0..last
        BY <1>1
    <2> HIDE DEF place, last
    <2>2. QED
        BY <1>7, <2>1 DEF Surjection
<1>9. QED
    BY <1>8

(***************************************************************************)
(* What the addition at work in a target with records P will leave of the  *)
(* name: neither the record it is about to replace nor those still to be   *)
(* trimmed.                                                                *)
(***************************************************************************)
Removing(fr) ==
    IF fr.pc \in {"insert", "archive", "archiving", "delete", "rmdelete"}
    THEN {fr.old} ELSE {}

Staying(P, fr) ==
    ({q \in P : Name[q] = Name[fr.new]} \ (fr.trim \cup Removing(fr))) \cup {fr.new}

Replaces(fr) == fr.old # NoPackage /\ SameKey(fr.old, fr.new)

(* Unless a record of the same version is replaced, that is within n. *)
Bounded(P, fr, n) ==
    n > 0 /\ fr.new # NoPackage /\ fr.res = "ok" /\ ~Replaces(fr)
        => Cardinality(Staying(P, fr)) =< n

(***************************************************************************)
(* What the steps know besides: there is one record of a key, an addition  *)
(* that went well so far has removed the old record before it adds the new *)
(* one, has it listed while it trims the others, and never trims its own.  *)
(***************************************************************************)
Additions(P, fr) ==
    /\ \A q, r \in P : SameKey(q, r) => q = r
    /\ fr.pc = "add" /\ fr.res = "ok" => fr.old \notin P
    /\ fr.pc = "done" /\ fr.res = "ok" => fr.trim = {}
    /\ fr.new # NoPackage /\ Replaces(fr) => fr.trim = {}
    /\ fr.new # NoPackage /\ fr.trimming /\ fr.res = "ok" => fr.new \in P
    /\ fr.new # NoPackage /\ fr.trimming /\ fr.pc \in {"archive", "archiving", "rmdelete"}
            => ~SameKey(fr.old, fr.new)
    /\ fr.pc \in {"delete", "add"} => ~fr.trimming
    /\ fr.pc \in {"forget", "relist"} => fr.new = NoPackage

Limits ==
    \A t \in Target : /\ Additions(packages[t], frame[t])
                      /\ Bounded(packages[t], frame[t], Limit[t])

(* A set within another of at most n packages and one more has at most n + 1. *)
LEMMA OneMore ==
    ASSUME NEW N \in SUBSET Package, NEW p \in Package, NEW n \in Nat,
           Cardinality(N) =< n, NEW S \in SUBSET (N \cup {p})
    PROVE  Cardinality(S) =< n + 1
<1>1. IsFiniteSet(N) /\ Cardinality(N) \in Nat
    BY FS_Subset, FS_CardinalityType
<1>2. IsFiniteSet(N \cup {p}) /\ Cardinality(N \cup {p}) =< n + 1
                              /\ Cardinality(N \cup {p}) \in Nat
    <2>1. /\ IsFiniteSet(N \cup {p})
          /\ Cardinality(N \cup {p}) = IF p \in N THEN Cardinality(N) ELSE Cardinality(N) + 1
        BY <1>1, FS_AddElement
    <2>2. QED
        BY <1>1, <2>1
<1>3. Cardinality(S) =< Cardinality(N \cup {p}) /\ IsFiniteSet(S)
    BY <1>2, FS_Subset
<1>4. Cardinality(S) \in Nat
    BY <1>3, FS_CardinalityType
<1>5. QED
    BY <1>2, <1>3, <1>4

(* target_addpackage chooses what it will trim so that the limit is kept. *)
LEMMA AddFramesBounded ==
    ASSUME TypeOK, NEW t \in Target, NEW p \in Package, NEW downgrade \in BOOLEAN,
           NEW P, P = packages[t], \A q, r \in P : SameKey(q, r) => q = r,
           NEW fr \in AddFrames(t, p, downgrade)
    PROVE  Additions(P, fr) /\ Bounded(P, fr, Limit[t])
<1> USE TargetAssumption
<1> DEFINE N == Named(t, p)
<1>1. P \in SUBSET Package /\ Limit[t] \in Int
    BY DEF TypeOK
<1>2. N \in SUBSET Package /\ N = {q \in P : Name[q] = Name[p]}
    BY <1>1 DEF Named
<1>3. \A q \in N, r \in N : Version[q] = Version[r] => q = r
    BY <1>2 DEF SameKey
<1>4. AtLimit(t, p) = {q \in N : Cardinality(Newer(N, q)) = Limit[t] - 1}
    BY DEF AtLimit, Newer
<1>5. CASE fr = Skipped
    BY <1>5 DEF Skipped, Idle, Additions, Bounded
<1>6. ASSUME NEW q \in P, SameKey(q, p), fr = Replacing(p, q, {})
      PROVE  Additions(P, fr) /\ Bounded(P, fr, Limit[t])
    <2>1. /\ fr.pc = "insert" /\ fr.old = q /\ fr.new = p /\ fr.trim = {} /\ ~fr.trimming
        BY <1>6 DEF Replacing
    <2>2. Replaces(fr)
        BY <1>1, <1>6, <2>1 DEF Replaces
    <2>3. QED
        BY <2>1, <2>2 DEF Additions, Bounded
<1>7. CASE /\ fr = Replacing(p, NoPackage, {})
           /\ Limit[t] < 1 \/ AtLimit(t, p) = {}
    <2>1. /\ fr.pc = "insert" /\ fr.old = NoPackage /\ fr.new = p /\ fr.trim = {}
          /\ ~fr.trimming
        BY <1>7 DEF Replacing
    <2>2. Additions(P, fr)
        BY <2>1 DEF Additions
    <2>3. ASSUME Limit[t] > 0
          PROVE  Cardinality(Staying(P, fr)) =< Limit[t]
        <3>1. Limit[t] - 1 \in Nat /\ AtLimit(t, p) = {}
            BY <1>1, <1>7, <2>3
        <3>2. ~(Limit[t] - 1 < Cardinality(N))
            <4> HIDE DEF N
            <4>1. SUFFICES ASSUME Limit[t] - 1 < Cardinality(N) PROVE FALSE
                OBVIOUS
            <4>2. \E q \in N : Cardinality(Newer(N, q)) = Limit[t] - 1
                BY <1>2, <1>3, <3>1, <4>1, StandsAt
            <4>3. QED
                BY <1>4, <3>1, <4>2
        <3>3. Cardinality(N) \in Nat
            BY <1>2, FS_Subset, FS_CardinalityType
        <3>4. Staying(P, fr) \in SUBSET (N \cup {p})
            BY <1>2, <2>1 DEF Staying
        <3> HIDE DEF N
        <3>5. Cardinality(N) =< Limit[t] - 1
            BY <1>1, <3>2, <3>3
        <3>6. Cardinality(Staying(P, fr)) =< (Limit[t] - 1) + 1
            BY <1>2, <3>1, <3>4, <3>5, OneMore
        <3>7. QED
            BY <1>1, <3>6
    <2>4. QED
        BY <2>2, <2>3 DEF Bounded
<1>8. ASSUME NEW q \in AtLimit(t, p), \A r \in P : ~SameKey(r, p),
             fr = Replacing(p, q, Behind(t, p, q))
      PROVE  Additions(P, fr) /\ Bounded(P, fr, Limit[t])
    <2>1. /\ fr.pc = "insert" /\ fr.old = q /\ fr.new = p /\ ~fr.trimming
          /\ fr.trim = Behind(t, p, q)
        BY <1>8 DEF Replacing
    <2>2. q \in N /\ Cardinality(Newer(N, q)) = Limit[t] - 1
        BY <1>4, <1>8
    <2>3. Additions(P, fr)
        BY <1>2, <1>8, <2>1, <2>2 DEF Additions, Replaces
    <2>4. Staying(P, fr) \in SUBSET (Newer(N, q) \cup {p})
        <3>1. \A r \in N : \/ r = q
                           \/ r \in Newer(N, q)
                           \/ r \in Behind(t, p, q)
            <4>1. Name[q] = Name[p] /\ \A r \in N : Version[r] \in Int
                BY <1>2, <2>2
            <4>2. \A r \in N : r \in Named(t, q)
                BY <1>2, <4>1 DEF Named
            <4>3. QED
                BY <1>3, <2>2, <4>1, <4>2 DEF Newer, Behind, Older
        <3>2. QED
            BY <1>2, <2>1, <3>1 DEF Staying, Removing
    <2>5. ASSUME Limit[t] > 0
          PROVE  Cardinality(Staying(P, fr)) =< Limit[t]
        <3>1. Limit[t] - 1 \in Nat
            BY <1>1, <2>5
        <3>2. Newer(N, q) \in SUBSET Package
            BY <1>2 DEF Newer
        <3> HIDE DEF N
        <3>3. Cardinality(Newer(N, q)) =< Limit[t] - 1
            BY <2>2, <3>1
        <3>4. Cardinality(Staying(P, fr)) =< (Limit[t] - 1) + 1
            BY <2>4, <3>1, <3>2, <3>3, OneMore
        <3>5. QED
            BY <1>1, <3>4
    <2>6. QED
        BY <2>3, <2>5 DEF Bounded
<1>9. \/ fr = Skipped
      \/ \E q \in P : SameKey(q, p) /\ fr = Replacing(p, q, {})
      \/ /\ fr = Replacing(p, NoPackage, {})
         /\ Limit[t] < 1 \/ AtLimit(t, p) = {}
      \/ /\ \A r \in P : ~SameKey(r, p)
         /\ \E q \in AtLimit(t, p) : fr = Replacing(p, q, Behind(t, p, q))
    <2>1. CASE {r \in P : SameKey(r, p)} = {}
        BY <2>1 DEF AddFrames, SameKey
    <2>2. CASE {r \in P : SameKey(r, p)} # {}
        BY <2>2 DEF AddFrames, SameKey
    <2>3. QED
        BY <2>1, <2>2
<1>10. QED
    BY <1>5, <1>6, <1>7, <1>8, <1>9

(* What is known of one target. *)
Within(t) ==
    /\ Additions(packages[t], frame[t])
    /\ Bounded(packages[t], frame[t], Limit[t])

(* A step that lets no more versions stay keeps the bound. *)
LEMMA KeepBounded ==
    ASSUME NEW P \in SUBSET Package, NEW Q \in SUBSET Package, NEW n \in Int,
           NEW fr, NEW fr2, Bounded(P, fr, n), fr2.new = fr.new,
           fr2.res = "ok" => fr.res = "ok",
           fr.new # NoPackage /\ fr2.res = "ok" /\ ~Replaces(fr2)
                => ~Replaces(fr) /\ Staying(Q, fr2) \subseteq Staying(P, fr)
    PROVE  Bounded(Q, fr2, n)
<1>1. SUFFICES ASSUME n > 0, fr2.new # NoPackage, fr2.res = "ok", ~Replaces(fr2)
               PROVE  Cardinality(Staying(Q, fr2)) =< n
    BY DEF Bounded
<1>2. /\ Cardinality(Staying(P, fr)) =< n
      /\ Staying(Q, fr2) \in SUBSET Staying(P, fr)
    BY <1>1 DEF Bounded
<1>3. IsFiniteSet(Staying(P, fr))
    <2> DEFINE R == {q \in P : Name[q] = Name[fr.new]} \ (fr.trim \cup Removing(fr))
    <2>1. R \in SUBSET Package
        OBVIOUS
    <2>2. IsFiniteSet(R)
        BY <2>1, FS_Subset
    <2> HIDE DEF R
    <2>3. IsFiniteSet(R \cup {fr.new})
        BY <2>2, FS_AddElement
    <2>4. QED
        BY <2>3 DEF R, Staying
<1>4. /\ Cardinality(Staying(P, fr)) \in Nat
      /\ IsFiniteSet(Staying(Q, fr2))
      /\ Cardinality(Staying(Q, fr2)) =< Cardinality(Staying(P, fr))
    BY <1>2, <1>3, FS_CardinalityType, FS_Subset
<1>5. Cardinality(Staying(Q, fr2)) \in Nat
    BY <1>4, FS_CardinalityType
<1>6. QED
    BY <1>2, <1>4, <1>5

(* Whatever archive_package returned, its caller stays within the limit. *)
LEMMA ArchivedWithin ==
    ASSUME NEW P \in SUBSET Package, NEW n \in Int, NEW fr \in Frame, NEW ok \in BOOLEAN,
           Additions(P, fr), Bounded(P, fr, n), fr.pc \in {"archive", "archiving"}
    PROVE  Additions(P, Archived(fr, ok)) /\ Bounded(P, Archived(fr, ok), n)
<1> DEFINE fr2 == Archived(fr, ok)
<1>1. /\ fr2.pc = IF fr.trimming THEN (IF ok THEN "rmdelete" ELSE "trim")
                                 ELSE (IF ok THEN "delete" ELSE "add")
      /\ fr2.new = fr.new /\ fr2.old = fr.old /\ fr2.trim = fr.trim
      /\ fr2.trimming = fr.trimming /\ fr2.res = IF ok THEN fr.res ELSE "error"
    BY DEF Archived, Frame
<1> HIDE DEF fr2
<1>2. Additions(P, fr2)
    BY <1>1 DEF Additions, Replaces
<1>3. fr2.res = "ok" => fr.res = "ok" /\ Staying(P, fr2) = Staying(P, fr)
    BY <1>1 DEF Staying, Removing
<1>4. Replaces(fr2) <=> Replaces(fr)
    BY <1>1 DEF Replaces
<1>5. Bounded(P, fr2, n)
    BY <1>1, <1>3, <1>4, KeepBounded
<1>6. QED
    BY <1>2, <1>5 DEF fr2

(* A target at rest is within its limit. *)
LEMMA IdleWithin ==
    ASSUME NEW P, NEW n, NEW fr, Additions(P, fr)
    PROVE  Additions(P, Idle) /\ Bounded(P, Idle, n)
BY DEF Additions, Bounded, Replaces, Idle

(* What is not touched stays within its limit. *)
LEMMA UntouchedWithin ==
    ASSUME NEW u \in Target, Within(u), packages'[u] = packages[u], frame'[u] = frame[u]
    PROVE  Within(u)'
BY DEF Within, Additions, Bounded, Staying, Removing, Replaces

(* Operations start within the limit. *)
LEMMA BeginLimits ==
    ASSUME TypeOK, Limits, NEW t \in Target, Begin(t)
    PROVE  Limits'
<1> USE TargetAssumption
<1>1. /\ packages[t] \in SUBSET Package /\ frame \in [Target -> Frame]
      /\ packages' = packages /\ frame[t] = Idle
      /\ \E fr \in Frame : SetFrame(t, fr)
    <2>1. /\ packages[t] \in SUBSET Package /\ frame \in [Target -> Frame]
          /\ packages' = packages /\ frame[t] = Idle
        BY DEF TypeOK, Begin, AddPackage, RemovePackage, Rereference, AllIdle
    <2>2. frame' \in [Target -> Frame]
        BY BeginType DEF TypeOK
    <2>3. \E fr : SetFrame(t, fr)
        BY DEF Begin, AddPackage, RemovePackage, Rereference
    <2>4. QED
        BY <2>1, <2>2, <2>3 DEF SetFrame
<1>2. \A u \in Target : Within(u)
    BY DEF Limits, Within
<1>3. \A u \in Target \ {t} : packages'[u] = packages[u] /\ frame'[u] = frame[u]
    BY <1>1 DEF SetFrame
<1>4. Additions(packages[t], Idle)
    BY <1>1, <1>2 DEF Within
<1>5. Within(t)'
    <2>1. ASSUME NEW p \in Package, NEW downgrade \in BOOLEAN,
                 AddPackage(t, p, downgrade)
          PROVE  Within(t)'
        <3>1. PICK fr \in AddFrames(t, p, downgrade) : SetFrame(t, fr)
            BY <2>1 DEF AddPackage
        <3>2. frame'[t] = fr
            BY <1>1, <3>1 DEF SetFrame
        <3>3. \A q, r \in packages[t] : SameKey(q, r) => q = r
            BY <1>4 DEF Additions
        <3>4. Additions(packages[t], fr) /\ Bounded(packages[t], fr, Limit[t])
            BY <3>3, AddFramesBounded
        <3>5. QED
            BY <1>1, <3>2, <3>4 DEF Within
    <2>2. CASE \/ \E p \in Package : RemovePackage(t, p)
               \/ Rereference(t)
        <3>1. /\ frame'[t].pc \in {"rmdelete", "forget"} /\ frame'[t].new = NoPackage
            <4>1. ASSUME NEW p \in Package, RemovePackage(t, p)
                  PROVE  frame'[t].pc = "rmdelete" /\ frame'[t].new = NoPackage
                <5>1. frame'[t] = [Idle EXCEPT !.pc = "rmdelete", !.old = p,
                                               !.trimming = TRUE, !.res = "ok"]
                    BY <1>1, <4>1 DEF RemovePackage, SetFrame
                <5>2. QED
                    BY <5>1 DEF Idle
            <4>2. ASSUME Rereference(t)
                  PROVE  frame'[t].pc = "forget" /\ frame'[t].new = NoPackage
                <5>1. frame'[t] = [Idle EXCEPT !.pc = "forget", !.todo = FileKey,
                                               !.res = "ok"]
                    BY <1>1, <4>2 DEF Rereference, SetFrame
                <5>2. QED
                    BY <5>1 DEF Idle
            <4>3. QED
                BY <2>2, <4>1, <4>2
        <3>2. QED
            BY <1>1, <1>4, <3>1 DEF Within, Additions, Bounded
    <2>3. QED
        BY <2>1, <2>2 DEF Begin
<1>6. QED
    BY <1>2, <1>3, <1>5, UntouchedWithin DEF Limits, Within

(* Every step of an operation keeps every target within its limit. *)
LEMMA StepLimits ==
    ASSUME TypeOK, Accounting, Limits, NEW t \in Target, Step(t)
    PROVE  Limits'
<1> USE TargetAssumption
<1> DEFINE fr == frame[t]
           fr2 == frame'[t]
           P == packages[t]
           P2 == packages'[t]
           Others == \A u \in Target \ {t} :
                        packages'[u] = packages[u] /\ frame'[u] = frame[u]
           Unchanged == /\ fr2.new = fr.new /\ fr2.old = fr.old /\ fr2.trim = fr.trim
           Fits == Additions(P2, fr2) /\ Bounded(P2, fr2, Limit[t])
<1>1. /\ frame \in [Target -> Frame] /\ packages \in [Target -> SUBSET Package]
      /\ fr \in Frame /\ P \in SUBSET Package /\ P2 \in SUBSET Package
      /\ Limit[t] \in Int /\ TypeOK'
    BY StepType DEF TypeOK
<1>2. \A u \in Target : Within(u)
    BY DEF Limits, Within
<1>3. Additions(P, fr) /\ Bounded(P, fr, Limit[t])
    BY <1>2 DEF Within
<1>4. FrameOK(P, fr) /\ (fr.pc \in {"forget", "relist"} => fr.old = NoPackage)
    BY DEF Accounting, Accounts, Relisting
<1>5. ASSUME Others, Fits PROVE Limits'
    BY <1>2, <1>5, UntouchedWithin DEF Limits, Within
<1>6. ASSUME InsertOne(t)
      PROVE  Limits'
    <2>1. /\ Others
          /\ P2 = P /\ Unchanged /\ fr.pc = "insert" /\ fr2.pc = "insert"
          /\ fr2.trimming = fr.trimming /\ fr2.res \in {fr.res, "error"}
        BY <1>1, <1>6, InsertOneDoes DEF Alone, SameWork
    <2> HIDE DEF fr, fr2, P, P2
    <2>3. Additions(P2, fr2)
        BY <1>1, <1>3, <1>4, <2>1 DEF Additions, Replaces, FrameOK, BeforeAdd, SameKey
    <2>4. fr.new # NoPackage /\ fr2.res = "ok" /\ ~Replaces(fr2)
             => ~Replaces(fr) /\ Staying(P2, fr2) \subseteq Staying(P, fr)
        BY <1>1, <1>3, <1>4, <2>1 DEF Additions, FrameOK, BeforeAdd, Replaces, Staying, Removing
    <2>5. Bounded(P2, fr2, Limit[t])
        BY <1>1, <1>3, <2>1, <2>4, KeepBounded
    <2>6. QED
        BY <1>5, <2>1, <2>3, <2>5
<1>7. ASSUME InsertEnd(t)
      PROVE  Limits'
    <2>1. /\ Others
          /\ P2 = P /\ Unchanged /\ fr.pc = "insert" /\ fr2.res = fr.res
          /\ \/ fr2.pc = "trim" /\ fr2.trimming /\ fr2.res = "error"
             \/ fr2.pc = "add" /\ fr.old = NoPackage /\ fr2.trimming = fr.trimming
             \/ fr2.pc = "archive" /\ fr2.trimming = fr.trimming
        BY <1>1, <1>7, InsertEndDoes DEF Alone, SameWork
    <2> HIDE DEF fr, fr2, P, P2
    <2>3. Additions(P2, fr2)
        BY <1>1, <1>3, <1>4, <2>1 DEF Additions, Replaces, FrameOK, BeforeAdd, SameKey
    <2>4. fr.new # NoPackage /\ fr2.res = "ok" /\ ~Replaces(fr2)
             => ~Replaces(fr) /\ Staying(P2, fr2) \subseteq Staying(P, fr)
        BY <1>1, <1>3, <1>4, <2>1 DEF Additions, FrameOK, BeforeAdd, Replaces, Staying, Removing
    <2>5. Bounded(P2, fr2, Limit[t])
        BY <1>1, <1>3, <2>1, <2>4, KeepBounded
    <2>6. QED
        BY <1>5, <2>1, <2>3, <2>5
<1>8. ASSUME DeleteOld(t)
      PROVE  Limits'
    <2>1. /\ Others
          /\ Unchanged /\ fr.pc = "delete" /\ fr2.pc = "add" /\ fr2.trimming = fr.trimming
          /\ \/ P2 = P \ {fr.old} /\ fr2.res = fr.res
             \/ P2 = P /\ fr2.res = "error"
        BY <1>1, <1>8, DeleteOldDoes DEF Alone, SameWork
    <2> HIDE DEF fr, fr2, P, P2
    <2>3. Additions(P2, fr2)
        BY <1>1, <1>3, <1>4, <2>1 DEF Additions, Replaces, FrameOK, BeforeAdd, SameKey
    <2>4. fr.new # NoPackage /\ fr2.res = "ok" /\ ~Replaces(fr2)
             => ~Replaces(fr) /\ Staying(P2, fr2) \subseteq Staying(P, fr)
        BY <1>1, <1>3, <1>4, <2>1 DEF Additions, FrameOK, BeforeAdd, Replaces, Staying, Removing
    <2>5. Bounded(P2, fr2, Limit[t])
        BY <1>1, <1>3, <2>1, <2>4, KeepBounded
    <2>6. QED
        BY <1>5, <2>1, <2>3, <2>5
<1>9. ASSUME AddNew(t)
      PROVE  Limits'
    <2>1. /\ Others
          /\ Unchanged /\ fr.pc = "add" /\ fr2.trimming
          /\ \/ /\ \A q \in P : ~SameKey(q, fr.new)
                /\ P2 = P \cup {fr.new} /\ fr2.pc = "unref" /\ fr2.res = fr.res
             \/ P2 = P /\ fr2.pc = "trim" /\ fr2.res = "error"
        BY <1>1, <1>9, AddNewDoes DEF Alone, SameWork
    <2> HIDE DEF fr, fr2, P, P2
    <2>3. Additions(P2, fr2)
        BY <1>1, <1>3, <1>4, <2>1 DEF Additions, Replaces, FrameOK, BeforeAdd, SameKey
    <2>4. fr.new # NoPackage /\ fr2.res = "ok" /\ ~Replaces(fr2)
             => ~Replaces(fr) /\ Staying(P2, fr2) \subseteq Staying(P, fr)
        BY <1>1, <1>3, <1>4, <2>1 DEF Additions, FrameOK, BeforeAdd, Replaces, Staying, Removing
    <2>5. Bounded(P2, fr2, Limit[t])
        BY <1>1, <1>3, <2>1, <2>4, KeepBounded
    <2>6. QED
        BY <1>5, <2>1, <2>3, <2>5
<1>10. ASSUME UnrefOne(t)
      PROVE  Limits'
    <2>1. /\ Others
          /\ P2 = P /\ Unchanged /\ fr.pc = "unref" /\ fr2.pc = "unref"
          /\ fr2.trimming = fr.trimming /\ fr2.res \in {fr.res, "error"}
        BY <1>1, <1>10, UnrefOneDoes DEF Alone, SameWork
    <2> HIDE DEF fr, fr2, P, P2
    <2>3. Additions(P2, fr2)
        BY <1>1, <1>3, <1>4, <2>1 DEF Additions, Replaces, FrameOK, BeforeAdd, SameKey
    <2>4. fr.new # NoPackage /\ fr2.res = "ok" /\ ~Replaces(fr2)
             => ~Replaces(fr) /\ Staying(P2, fr2) \subseteq Staying(P, fr)
        BY <1>1, <1>3, <1>4, <2>1 DEF Additions, FrameOK, BeforeAdd, Replaces, Staying, Removing
    <2>5. Bounded(P2, fr2, Limit[t])
        BY <1>1, <1>3, <2>1, <2>4, KeepBounded
    <2>6. QED
        BY <1>5, <2>1, <2>3, <2>5
<1>11. ASSUME UnrefEnd(t)
      PROVE  Limits'
    <2>1. /\ Others
          /\ P2 = P /\ Unchanged /\ fr.pc = "unref" /\ fr2.pc = "trim"
          /\ fr2.trimming = fr.trimming /\ fr2.res = fr.res
        BY <1>1, <1>11, UnrefEndDoes DEF Alone, SameWork
    <2> HIDE DEF fr, fr2, P, P2
    <2>3. Additions(P2, fr2)
        BY <1>1, <1>3, <1>4, <2>1 DEF Additions, Replaces, FrameOK, BeforeAdd, SameKey
    <2>4. fr.new # NoPackage /\ fr2.res = "ok" /\ ~Replaces(fr2)
             => ~Replaces(fr) /\ Staying(P2, fr2) \subseteq Staying(P, fr)
        BY <1>1, <1>3, <1>4, <2>1 DEF Additions, FrameOK, BeforeAdd, Replaces, Staying, Removing
    <2>5. Bounded(P2, fr2, Limit[t])
        BY <1>1, <1>3, <2>1, <2>4, KeepBounded
    <2>6. QED
        BY <1>5, <2>1, <2>3, <2>5
<1>12. ASSUME RemoveRecord(t)
      PROVE  Limits'
    <2>1. /\ Others
          /\ Unchanged /\ fr.pc = "rmdelete" /\ fr2.trimming = fr.trimming
          /\ \/ P2 = P \ {fr.old} /\ fr2.pc = "unref" /\ fr2.res = fr.res
             \/ P2 = P /\ fr2.pc = "trim" /\ fr2.res = "error"
        BY <1>1, <1>12, RemoveRecordDoes DEF Alone, SameWork
    <2> HIDE DEF fr, fr2, P, P2
    <2>3. Additions(P2, fr2)
        BY <1>1, <1>3, <1>4, <2>1 DEF Additions, Replaces, FrameOK, BeforeAdd, SameKey
    <2>4. fr.new # NoPackage /\ fr2.res = "ok" /\ ~Replaces(fr2)
             => ~Replaces(fr) /\ Staying(P2, fr2) \subseteq Staying(P, fr)
        BY <1>1, <1>3, <1>4, <2>1 DEF Additions, FrameOK, BeforeAdd, Replaces, Staying, Removing
    <2>5. Bounded(P2, fr2, Limit[t])
        BY <1>1, <1>3, <2>1, <2>4, KeepBounded
    <2>6. QED
        BY <1>5, <2>1, <2>3, <2>5
<1>13. ASSUME TrimNext(t)
      PROVE  Limits'
    <2>1. /\ Others
          /\ P2 = P /\ fr2.new = fr.new /\ fr.pc = "trim" /\ fr2.trimming = fr.trimming
          /\ fr2.res = fr.res
          /\ \/ fr.trim = {} /\ fr2.trim = {} /\ fr2.pc = "done" /\ fr2.old = fr.old
             \/ \E q \in fr.trim :
                    /\ fr2.trim = fr.trim \ {q}
                    /\ \/ SameKey(q, fr.new) /\ fr2.pc = "trim" /\ fr2.old = fr.old
                       \/ ~SameKey(q, fr.new) /\ fr2.pc = "archive" /\ fr2.old = q
        BY <1>1, <1>13, TrimNextDoes DEF Alone, SameWork
    <2> HIDE DEF fr, fr2, P, P2
    <2>3. Additions(P2, fr2)
        BY <1>1, <1>3, <1>4, <2>1 DEF Additions, Replaces, FrameOK, BeforeAdd, SameKey
    <2>4. fr.new # NoPackage /\ fr2.res = "ok" /\ ~Replaces(fr2)
             => ~Replaces(fr) /\ Staying(P2, fr2) \subseteq Staying(P, fr)
        BY <1>1, <1>3, <1>4, <2>1 DEF Additions, FrameOK, BeforeAdd, Replaces, Staying, Removing
    <2>5. Bounded(P2, fr2, Limit[t])
        BY <1>1, <1>3, <2>1, <2>4, KeepBounded
    <2>6. QED
        BY <1>5, <2>1, <2>3, <2>5
<1>14. ASSUME ForgetOne(t) \/ ForgetEnd(t) \/ RelistOne(t) \/ RelistEnd(t)
      PROVE  Limits'
    <2>1. /\ Others
          /\ P2 = P /\ fr2.new = fr.new /\ fr2.old = fr.old
          /\ fr.pc \in {"forget", "relist"}
          /\ \/ fr2.pc \in {"forget", "relist"}
             \/ fr2.pc = "done" /\ (fr2.res = "ok" => fr2.trim = {})
        BY <1>1, <1>14, RereferenceDoes DEF Alone, SameWork
    <2> HIDE DEF fr, fr2, P, P2
    <2>3. fr2.new = NoPackage
        BY <1>3, <2>1 DEF Additions
    <2>4. Fits
        BY <1>3, <2>1, <2>3 DEF Additions, Bounded
    <2>5. QED
        BY <1>5, <2>1, <2>4
<1>15. ASSUME Return(t)
      PROVE  Limits'
    <2>1. Others /\ P2 = P /\ fr2 = Idle
        BY <1>1, <1>15 DEF Return, SetFrame
    <2>2. QED
        BY <1>3, <1>5, <2>1, IdleWithin
<1>16. ASSUME ArchivePackage(t)
      PROVE  Limits'
    <2>1. packages' = packages /\ fr.pc = "archive"
        BY <1>16 DEF ArchivePackage
    <2>2. CASE \E ok \in BOOLEAN : SetFrame(t, Archived(fr, ok))
        <3>1. PICK ok \in BOOLEAN : SetFrame(t, Archived(fr, ok))
            BY <2>2
        <3>2. Others /\ fr2 = Archived(fr, ok) /\ P2 = P
            BY <1>1, <2>1, <3>1 DEF SetFrame
        <3>3. Additions(P, Archived(fr, ok)) /\ Bounded(P, Archived(fr, ok), Limit[t])
            BY <1>1, <1>3, <2>1, ArchivedWithin
        <3>4. QED
            BY <1>5, <3>2, <3>3
    <2>3. ASSUME NEW a \in Target, a = Archive[t], frame[a] = Idle,
                 NEW callee \in AddFrames(a, fr.old, FALSE),
                 frame' = [frame EXCEPT ![t] = [fr EXCEPT !.pc = "archiving"],
                                        ![a] = callee]
          PROVE  Limits'
        <3>1. a # t
            BY <2>3
        <3>2. /\ fr2 = [fr EXCEPT !.pc = "archiving"] /\ frame'[a] = callee
              /\ \A u \in Target \ {t, a} : frame'[u] = frame[u]
            BY <1>1, <2>3, <3>1
        <3>3. Within(t)'
            <4>1. /\ Unchanged /\ fr2.pc = "archiving" /\ fr2.res = fr.res
                  /\ fr2.trimming = fr.trimming /\ P2 = P
                BY <1>1, <2>1, <3>2 DEF Frame
            <4>2. Additions(P, fr2)
                BY <1>3, <2>1, <4>1 DEF Additions, Replaces
            <4>3. Staying(P, fr2) = Staying(P, fr) /\ (Replaces(fr2) <=> Replaces(fr))
                BY <2>1, <4>1 DEF Staying, Removing, Replaces
            <4>4. Bounded(P, fr2, Limit[t])
                BY <1>3, <4>1, <4>3 DEF Bounded
            <4>5. QED
                BY <4>1, <4>2, <4>4 DEF Within
        <3>4. Within(a)'
            <4>1. fr.old \in Package
                BY <1>1, <1>4, <2>1 DEF FrameOK
            <4>2. \A q, r \in packages[a] : SameKey(q, r) => q = r
                BY <1>2 DEF Within, Additions
            <4>3. Additions(packages[a], callee) /\ Bounded(packages[a], callee, Limit[a])
                BY <4>1, <4>2, <2>3, AddFramesBounded
            <4>4. QED
                BY <2>1, <3>2, <4>3 DEF Within
        <3>5. \A u \in Target \ {t, a} : Within(u)'
            BY <1>2, <2>1, <3>2, UntouchedWithin
        <3>6. QED
            BY <3>3, <3>4, <3>5 DEF Limits, Within
    <2>4. \/ \E ok \in BOOLEAN : SetFrame(t, Archived(fr, ok))
          \/ \E a \in Target : \E callee \in AddFrames(a, fr.old, FALSE) :
                /\ a = Archive[t] /\ frame[a] = Idle
                /\ frame' = [frame EXCEPT ![t] = [fr EXCEPT !.pc = "archiving"],
                                          ![a] = callee]
        BY <1>16 DEF ArchivePackage
    <2>5. QED
        BY <2>2, <2>3, <2>4
<1>17. ASSUME ArchiveReturn(t)
      PROVE  Limits'
    <2>1. PICK a \in Target, ok \in BOOLEAN :
            /\ a = Archive[t] /\ fr.pc = "archiving"
            /\ frame' = [frame EXCEPT ![t] = Archived(fr, ok), ![a] = Idle]
            /\ packages' = packages
        BY <1>17 DEF ArchiveReturn
    <2>2. a # t
        BY <2>1
    <2>3. /\ fr2 = Archived(fr, ok) /\ frame'[a] = Idle
          /\ \A u \in Target \ {t, a} : frame'[u] = frame[u]
        BY <1>1, <2>1, <2>2
    <2>4. Within(t)'
        <3>1. Additions(P, Archived(fr, ok)) /\ Bounded(P, Archived(fr, ok), Limit[t])
            BY <1>1, <1>3, <2>1, ArchivedWithin
        <3>2. QED
            BY <2>1, <2>3, <3>1 DEF Within
    <2>5. Within(a)'
        BY <1>2, <2>1, <2>3, IdleWithin DEF Within
    <2>6. \A u \in Target \ {t, a} : Within(u)'
        BY <1>2, <2>1, <2>3, UntouchedWithin
    <2>7. QED
        BY <2>4, <2>5, <2>6 DEF Limits, Within
<1>18. QED
    BY <1>6, <1>7, <1>8, <1>9, <1>10, <1>11, <1>12, <1>13, <1>14, <1>15, <1>16, <1>17 DEF Step

(* A process that dies leaves every target as it is. *)
LEMMA CrashLimits ==
    ASSUME TypeOK, Limits, Crash
    PROVE  Limits'
<1>1. SUFFICES ASSUME NEW t \in Target PROVE Within(t)'
    BY DEF Limits, Within
<1>2. packages'[t] = packages[t] /\ frame'[t] = Idle
    BY DEF Crash
<1>3. Additions(packages[t], frame[t])
    BY DEF Limits
<1>4. QED
    BY <1>2, <1>3, IdleWithin DEF Within

-----------------------------------------------------------------------------
(* A version that is taken out has been archived. *)

(* One activation works, those that wait for it form a chain of calls. *)
Running(t) == frame[t].pc \notin {"idle", "archiving"}

Chain ==
    /\ \A t, u \in Target : Running(t) /\ Running(u) => t = u
    /\ \A t \in Target : frame[t].pc = "archiving"
            => Archive[t] # NoTarget /\ frame[Archive[t]].pc # "idle"
    /\ \A t, u \in Target :
            frame[t].pc = "archiving" /\ frame[u].pc = "archiving"
                                      /\ Archive[t] = Archive[u]
                => t = u

(* What the target c of an archive that keeps all versions does about p. *)
Called(c, p, P) ==
    \/ c.pc = "done" /\ c.res = "nothing" /\ \E q \in P : SameKey(q, p)
    \/ /\ c.new = p /\ c.old = NoPackage /\ c.trim = {}
       /\ c.pc \in {"insert", "add", "unref", "trim", "done"}
       /\ c.pc \in {"unref", "trim", "done"} /\ c.res # "error" => p \in P

Listed(t, p) == \E q \in packages[t] : SameKey(q, p)

(* Target t has archived, or is archiving, what it is about to remove. *)
Archiving(t) ==
    Archive[t] # NoTarget /\ Limit[Archive[t]] < 1 =>
        /\ (frame[t].pc = "archiving"
                => Called(frame[Archive[t]], frame[t].old, packages[Archive[t]]))
        /\ (frame[t].pc \in {"delete", "rmdelete"} /\ frame[t].new # NoPackage
                => Listed(Archive[t], frame[t].old))

Archivals == \A t \in Target : Archiving(t)

(* A step within target t that its caller, if there is one, can rely on. *)
Reliable(t) ==
    /\ Alone(t)
    /\ Running(t)
    /\ frame'[t].pc \notin {"idle", "archiving", "delete", "rmdelete"}
    /\ \A p : Called(frame[t], p, packages[t]) => Called(frame'[t], p, packages'[t])

(* All steps but the calls of archive_package are of this kind. *)
LEMMA StepReliable ==
    ASSUME TypeOK, NEW t \in Target,
           \/ InsertOne(t) \/ InsertEnd(t) \/ DeleteOld(t) \/ AddNew(t)
           \/ UnrefOne(t) \/ UnrefEnd(t) \/ TrimNext(t) \/ RemoveRecord(t)
           \/ ForgetOne(t) \/ ForgetEnd(t) \/ RelistOne(t) \/ RelistEnd(t)
    PROVE  Reliable(t)
<1>1. ASSUME InsertOne(t) PROVE Reliable(t)
    BY <1>1, InsertOneDoes DEF Reliable, Running, Called, SameWork
<1>2. ASSUME InsertEnd(t) PROVE Reliable(t)
    BY <1>2, InsertEndDoes DEF Reliable, Running, Called, SameWork
<1>3. ASSUME DeleteOld(t) PROVE Reliable(t)
    BY <1>3, DeleteOldDoes DEF Reliable, Running, Called, SameWork
<1>4. ASSUME AddNew(t) PROVE Reliable(t)
    <2>1. /\ Alone(t) /\ SameWork(t) /\ frame[t].pc = "add"
          /\ \/ packages'[t] = packages[t] \cup {frame[t].new} /\ frame'[t].pc = "unref"
             \/ frame'[t].pc = "trim" /\ frame'[t].res = "error"
        BY <1>4, AddNewDoes
    <2>2. \A p : Called(frame[t], p, packages[t]) => Called(frame'[t], p, packages'[t])
        <3>1. \A p : Called(frame[t], p, packages[t])
                => p = frame[t].new /\ frame[t].old = NoPackage /\ frame[t].trim = {}
            BY <2>1 DEF Called
        <3>2. frame[t].new \in packages'[t] \/ frame'[t].res = "error"
            BY <2>1
        <3>3. QED
            BY <2>1, <3>1, <3>2 DEF Called, SameWork
    <2>3. QED
        BY <2>1, <2>2 DEF Reliable, Running
<1>5. ASSUME UnrefOne(t) PROVE Reliable(t)
    BY <1>5, UnrefOneDoes DEF Reliable, Running, Called, SameWork
<1>6. ASSUME UnrefEnd(t) PROVE Reliable(t)
    BY <1>6, UnrefEndDoes DEF Reliable, Running, Called, SameWork
<1>7. ASSUME TrimNext(t) PROVE Reliable(t)
    BY <1>7, TrimNextDoes DEF Reliable, Running, Called, SameWork
<1>8. ASSUME RemoveRecord(t) PROVE Reliable(t)
    BY <1>8, RemoveRecordDoes DEF Reliable, Running, Called, SameWork
<1>9. ASSUME ForgetOne(t) \/ ForgetEnd(t) \/ RelistOne(t) \/ RelistEnd(t)
      PROVE  Reliable(t)
    BY <1>9, RereferenceDoes DEF Reliable, Running, Called
<1>10. QED
    BY <1>1, <1>2, <1>3, <1>4, <1>5, <1>6, <1>7, <1>8, <1>9

(* Such a step keeps the chain and what is archived. *)
LEMMA ReliableArchives ==
    ASSUME TypeOK, Chain, Archivals, NEW t \in Target, Reliable(t)
    PROVE  Chain' /\ Archivals'
<1> USE TargetAssumption
<1>1. \A u \in Target \ {t} : packages'[u] = packages[u] /\ frame'[u] = frame[u]
    BY DEF Reliable, Alone
<1>2. /\ Running(t) /\ frame'[t].pc \notin {"idle", "archiving", "delete", "rmdelete"}
      /\ \A p : Called(frame[t], p, packages[t]) => Called(frame'[t], p, packages'[t])
    BY DEF Reliable
<1>3. \A u \in Target : /\ frame'[u].pc = "archiving" => frame[u].pc = "archiving" /\ u # t
                        /\ frame'[u].pc = "idle" => frame[u].pc = "idle"
                        /\ Running(u)' => Running(u)
    BY <1>1, <1>2 DEF Running
<1>4. Chain'
    BY <1>3 DEF Chain
<1>5. ASSUME NEW u \in Target PROVE Archiving(u)'
    <2> DEFINE a == Archive[u]
    <2>1. CASE u = t
        BY <1>2, <2>1 DEF Archiving
    <2>2. CASE u # t
        <3>1. SUFFICES ASSUME a # NoTarget, Limit[a] < 1
                       PROVE  /\ (frame'[u].pc = "archiving"
                                    => Called(frame'[a], frame'[u].old, packages'[a]))
                              /\ (frame'[u].pc \in {"delete", "rmdelete"}
                                         /\ frame'[u].new # NoPackage
                                    => \E q \in packages'[a] : SameKey(q, frame'[u].old))
            BY DEF Archiving, Listed
        <3>2. frame'[u] = frame[u] /\ a \in Target
            BY <1>1, <2>2, <3>1
        <3>3. /\ (frame[u].pc = "archiving" => Called(frame[a], frame[u].old, packages[a]))
              /\ frame[u].pc \notin {"delete", "rmdelete"}
            <4>1. frame[u].pc \notin {"delete", "rmdelete"}
                BY <1>2, <2>2 DEF Chain, Running
            <4>2. QED
                BY <3>1, <4>1 DEF Archivals, Archiving
        <3>4. Called(frame[a], frame[u].old, packages[a])
                => Called(frame'[a], frame[u].old, packages'[a])
            BY <1>1, <1>2, <3>2
        <3>5. QED
            BY <3>2, <3>3, <3>4 DEF Listed
    <2>3. QED
        BY <2>1, <2>2
<1>6. QED
    BY <1>4, <1>5 DEF Archivals

(* What an archive that keeps all versions starts with. *)
LEMMA AddFramesCalled ==
    ASSUME TypeOK, NEW a \in Target, Limit[a] < 1, NEW p \in Package,
           NEW callee \in AddFrames(a, p, FALSE)
    PROVE  Called(callee, p, packages[a])
<1>1. CASE {q \in packages[a] : SameKey(q, p)} # {}
    <2>1. callee = Skipped
        BY <1>1 DEF AddFrames
    <2>2. QED
        BY <1>1, <2>1 DEF Called, Skipped, Idle
<1>2. CASE {q \in packages[a] : SameKey(q, p)} = {}
    <2>1. callee = Replacing(p, NoPackage, {})
        BY <1>2 DEF AddFrames
    <2>2. QED
        BY <2>1 DEF Called, Replacing
<1>3. QED
    BY <1>1, <1>2

(* The chain of calls grows and shrinks at its end. *)
LEMMA CallArchives ==
    ASSUME TypeOK, Accounting, Chain, Archivals, NEW t \in Target, ArchivePackage(t)
    PROVE  Chain' /\ Archivals'
<1> USE TargetAssumption
<1> DEFINE fr == frame[t]
<1>1. /\ frame \in [Target -> Frame] /\ fr \in Frame /\ packages' = packages
      /\ fr.pc = "archive" /\ Running(t)
      /\ fr.old \in Package
    BY DEF TypeOK, ArchivePackage, Running, Accounting, Accounts, FrameOK
<1>2. \A u \in Target \ {t} : ~Running(u)
    BY <1>1 DEF Chain
<1>3. \A u \in Target : frame[u].pc = "archiving" /\ Archive[u] # NoTarget
                                                  /\ Limit[Archive[u]] < 1
                => Called(frame[Archive[u]], frame[u].old, packages[Archive[u]])
    BY DEF Archivals, Archiving
<1>4. CASE /\ SetFrame(t, Archived(fr, TRUE)) /\ Archive[t] = NoTarget
    <2>1. /\ \A u \in Target \ {t} : frame'[u] = frame[u]
          /\ frame'[t].pc \in {"delete", "rmdelete"}
        BY <1>1, <1>4 DEF SetFrame, Archived, Frame
    <2>2. Chain'
        BY <1>1, <1>2, <2>1 DEF Chain, Running
    <2>3. ASSUME NEW u \in Target, u # t PROVE Archiving(u)'
        <3>1. frame'[u] = frame[u] /\ frame[u].pc \notin {"delete", "rmdelete"}
            BY <1>2, <2>1, <2>3 DEF Running
        <3>2. ASSUME frame[u].pc = "archiving", Archive[u] # NoTarget, Limit[Archive[u]] < 1
              PROVE  Called(frame'[Archive[u]], frame[u].old, packages'[Archive[u]])
            <4>1. Called(frame[Archive[u]], frame[u].old, packages[Archive[u]])
                BY <1>3, <3>2
            <4>2. frame[Archive[u]].pc # "archive"
                BY <4>1 DEF Called
            <4>3. Archive[u] \in Target \ {t}
                BY <1>1, <3>2, <4>2
            <4>4. QED
                BY <1>1, <2>1, <4>1, <4>3
        <3>3. QED
            BY <3>1, <3>2 DEF Archiving
    <2>4. Archiving(t)'
        BY <1>4 DEF Archiving
    <2>5. QED
        BY <2>2, <2>3, <2>4 DEF Archivals
<1>5. CASE SetFrame(t, Archived(fr, FALSE))
    <2>1. /\ \A u \in Target \ {t} : frame'[u] = frame[u]
          /\ frame'[t].pc \in {"trim", "add"}
        BY <1>1, <1>5 DEF SetFrame, Archived, Frame
    <2>2. Reliable(t)
        BY <1>1, <2>1 DEF Reliable, Alone, Called
    <2>3. QED
        BY <2>2, ReliableArchives
<1>6. ASSUME NEW a \in Target, a = Archive[t], frame[a] = Idle,
             NEW callee \in AddFrames(a, fr.old, FALSE),
             frame' = [frame EXCEPT ![t] = [fr EXCEPT !.pc = "archiving"],
                                    ![a] = callee]
      PROVE  Chain' /\ Archivals'
    <2>1. a # t
        BY <1>6
    <2>2. /\ frame'[t].pc = "archiving" /\ frame'[t].old = fr.old /\ frame'[a] = callee
          /\ \A u \in Target \ {t, a} : frame'[u] = frame[u]
        BY <1>1, <1>6, <2>1 DEF Frame
    <2>3. callee.pc \in {"insert", "done"}
        BY <1>6 DEF AddFrames, Replacing, Skipped, Idle
    <2>4. frame[a].pc = "idle"
        BY <1>6 DEF Idle
    <2>5. Chain'
        <3>1. \A u \in Target \ {a} : ~Running(u)'
            BY <1>2, <2>2 DEF Running
        <3>2. \A u \in Target \ {t} : frame'[u].pc = "archiving"
                => frame[u].pc = "archiving" /\ Archive[u] # a /\ Archive[u] \in Target
            BY <2>2, <2>3, <2>4 DEF Chain
        <3>3. \A u \in Target : frame[u].pc # "idle" => frame'[u].pc # "idle"
            BY <2>2, <2>3
        <3>4. \A u \in Target : frame'[u].pc = "archiving"
                => Archive[u] # NoTarget /\ frame'[Archive[u]].pc # "idle"
            <4>1. frame'[a].pc # "idle" /\ a # NoTarget
                BY <2>2, <2>3
            <4>2. QED
                BY <1>6, <3>2, <3>3, <4>1 DEF Chain
        <3>5. \A u, v \in Target : Running(u)' /\ Running(v)' => u = v
            BY <3>1
        <3>6. \A u, v \in Target :
                frame'[u].pc = "archiving" /\ frame'[v].pc = "archiving"
                                           /\ Archive[u] = Archive[v]
                    => u = v
            BY <1>6, <3>2 DEF Chain
        <3>7. QED
            BY <3>4, <3>5, <3>6 DEF Chain
    <2>6. ASSUME NEW u \in Target, u # t PROVE Archiving(u)'
        <3>1. frame'[u].pc \notin {"delete", "rmdelete"}
            BY <1>2, <2>2, <2>3, <2>6 DEF Running
        <3>2. ASSUME frame'[u].pc = "archiving", Archive[u] # NoTarget, Limit[Archive[u]] < 1
              PROVE  Called(frame'[Archive[u]], frame'[u].old, packages'[Archive[u]])
            <4>1. u # a /\ frame'[u] = frame[u]
                BY <2>2, <2>3, <2>6, <3>2
            <4>2. Called(frame[Archive[u]], frame[u].old, packages[Archive[u]])
                BY <1>3, <3>2, <4>1
            <4>3. frame[Archive[u]].pc \notin {"archive", "idle"}
                BY <4>2 DEF Called
            <4>4. Archive[u] \in Target \ {t, a}
                BY <1>1, <2>4, <3>2, <4>3
            <4>5. QED
                BY <1>1, <2>2, <4>1, <4>2, <4>4
        <3>3. QED
            BY <3>1, <3>2 DEF Archiving
    <2>7. Archiving(t)'
        <3>1. Limit[a] < 1 => Called(frame'[a], frame'[t].old, packages'[a])
            BY <1>1, <1>6, <2>2, AddFramesCalled
        <3>2. QED
            BY <1>6, <2>2, <3>1 DEF Archiving
    <2>8. QED
        BY <2>5, <2>6, <2>7 DEF Archivals
<1>7. \/ /\ SetFrame(t, Archived(fr, TRUE)) /\ Archive[t] = NoTarget
      \/ SetFrame(t, Archived(fr, FALSE))
      \/ \E a \in Target : \E callee \in AddFrames(a, fr.old, FALSE) :
            /\ a = Archive[t] /\ frame[a] = Idle
            /\ frame' = [frame EXCEPT ![t] = [fr EXCEPT !.pc = "archiving"],
                                      ![a] = callee]
    BY DEF ArchivePackage
<1>8. QED
    BY <1>4, <1>5, <1>6, <1>7

(* A call that succeeded has left the package in the archive. *)
LEMMA ReturnArchives ==
    ASSUME TypeOK, Chain, Archivals, NEW t \in Target, ArchiveReturn(t)
    PROVE  Chain' /\ Archivals'
<1> USE TargetAssumption
<1> DEFINE fr == frame[t]
<1>1. PICK a \in Target :
        /\ a = Archive[t] /\ fr.pc = "archiving" /\ frame[a].pc = "done"
        /\ frame' = [frame EXCEPT ![t] = Archived(fr, frame[a].res # "error"), ![a] = Idle]
        /\ packages' = packages
    BY DEF ArchiveReturn
<1>2. /\ a # t /\ fr \in Frame /\ frame \in [Target -> Frame]
    BY <1>1 DEF TypeOK
<1>3. /\ frame'[t] = Archived(fr, frame[a].res # "error") /\ frame'[a] = Idle
      /\ \A u \in Target \ {t, a} : frame'[u] = frame[u]
    BY <1>1, <1>2
<1>4. /\ frame'[t].pc \in {"delete", "rmdelete", "trim", "add"}
      /\ frame'[t].old = fr.old /\ frame'[t].new = fr.new
      /\ frame'[t].pc \in {"delete", "rmdelete"} => frame[a].res # "error"
    BY <1>2, <1>3 DEF Archived, Frame
<1>5. Running(a) /\ frame'[a].pc = "idle"
    BY <1>1, <1>3 DEF Running, Idle
<1>6. \A u \in Target \ {a} : ~Running(u)
    BY <1>5 DEF Chain
<1>7. \A u \in Target \ {t, a} : frame[u].pc = "archiving"
            => Archive[u] \in Target \ {a}
    BY <1>1 DEF Chain
<1>8. Chain'
    <2>1. \A u \in Target \ {t} : ~Running(u)'
        BY <1>3, <1>5, <1>6 DEF Running
    <2>2. \A u \in Target : frame'[u].pc = "archiving"
            => /\ frame[u].pc = "archiving" /\ u # t
               /\ Archive[u] \in Target \ {a}
               /\ frame[Archive[u]].pc # "idle"
        BY <1>3, <1>4, <1>5, <1>7 DEF Chain
    <2>3. \A u \in Target \ {a} : frame[u].pc # "idle" => frame'[u].pc # "idle"
        BY <1>3, <1>4
    <2>4. QED
        BY <2>1, <2>2, <2>3 DEF Chain
<1>9. ASSUME NEW u \in Target, u # t PROVE Archiving(u)'
    <2>1. frame'[u].pc \notin {"delete", "rmdelete"}
        BY <1>3, <1>5, <1>6, <1>9 DEF Running
    <2>2. ASSUME frame'[u].pc = "archiving", Archive[u] # NoTarget, Limit[Archive[u]] < 1
          PROVE  Called(frame'[Archive[u]], frame'[u].old, packages'[Archive[u]])
        <3>1. u # a /\ frame'[u] = frame[u]
            BY <1>3, <1>5, <1>9, <2>2
        <3>2. Called(frame[Archive[u]], frame[u].old, packages[Archive[u]])
            BY <2>2, <3>1 DEF Archivals, Archiving
        <3>3. frame[Archive[u]].pc # "archiving"
            BY <3>2 DEF Called
        <3>4. Archive[u] \in Target \ {t, a}
            BY <1>1, <1>7, <1>9, <2>2, <3>1, <3>3
        <3>5. QED
            BY <1>1, <1>3, <3>1, <3>2, <3>4
    <2>3. QED
        BY <2>1, <2>2 DEF Archiving
<1>10. Archiving(t)'
    <2>1. SUFFICES ASSUME Limit[a] < 1, frame'[t].pc \in {"delete", "rmdelete"}
                   PROVE  \E q \in packages'[a] : SameKey(q, frame'[t].old)
        BY <1>1, <1>4 DEF Archiving, Listed
    <2>2. Called(frame[a], fr.old, packages[a])
        BY <1>1, <2>1 DEF Archivals, Archiving
    <2>3. \/ \E q \in packages[a] : SameKey(q, fr.old)
          \/ fr.old \in packages[a]
        BY <1>1, <1>4, <2>1, <2>2 DEF Called
    <2>4. SameKey(fr.old, fr.old)
        BY DEF SameKey
    <2>5. QED
        BY <1>1, <1>4, <2>3, <2>4
<1>11. QED
    BY <1>8, <1>9, <1>10 DEF Archivals

(* Operations start at the beginning of a chain. *)
LEMMA BeginArchives ==
    ASSUME TypeOK, NEW t \in Target, Begin(t)
    PROVE  Chain' /\ Archivals'
<1> USE TargetAssumption
<1>1. /\ frame \in [Target -> Frame]
      /\ \A u \in Target : frame[u] = Idle
      /\ \E fr : SetFrame(t, fr)
    BY DEF TypeOK, Begin, AddPackage, RemovePackage, Rereference, AllIdle
<1>2. \A u \in Target \ {t} : frame'[u].pc = "idle"
    BY <1>1 DEF SetFrame, Idle
<1>3. \/ frame'[t].pc \in {"insert", "done", "forget"}
      \/ frame'[t].pc = "rmdelete" /\ frame'[t].new = NoPackage
    <2>1. ASSUME NEW p \in Package, NEW downgrade \in BOOLEAN,
                 AddPackage(t, p, downgrade)
          PROVE  frame'[t].pc \in {"insert", "done"}
        <3>1. PICK fr \in AddFrames(t, p, downgrade) : frame'[t] = fr
            BY <1>1, <2>1 DEF AddPackage, SetFrame
        <3>2. QED
            BY <3>1 DEF AddFrames, Replacing, Skipped, Idle
    <2>2. ASSUME NEW p \in Package, RemovePackage(t, p)
          PROVE  frame'[t].pc = "rmdelete" /\ frame'[t].new = NoPackage
        <3>1. frame'[t] = [Idle EXCEPT !.pc = "rmdelete", !.old = p,
                                       !.trimming = TRUE, !.res = "ok"]
            BY <1>1, <2>2 DEF RemovePackage, SetFrame
        <3>2. QED
            BY <3>1 DEF Idle
    <2>3. ASSUME Rereference(t) PROVE frame'[t].pc = "forget"
        <3>1. frame'[t] = [Idle EXCEPT !.pc = "forget", !.todo = FileKey, !.res = "ok"]
            BY <1>1, <2>3 DEF Rereference, SetFrame
        <3>2. QED
            BY <3>1 DEF Idle
    <2>4. QED
        BY <2>1, <2>2, <2>3 DEF Begin
<1>4. Chain'
    BY <1>2, <1>3 DEF Chain, Running
<1>5. \A u \in Target : Archiving(u)'
    BY <1>2, <1>3 DEF Archiving
<1>6. QED
    BY <1>4, <1>5 DEF Archivals

(* A target at rest, with the others as they are, archives nothing. *)
LEMMA DoneArchives ==
    ASSUME TypeOK, Chain, Archivals, NEW t \in Target, Return(t)
    PROVE  Chain' /\ Archivals'
<1> USE TargetAssumption
<1>1. /\ packages' = packages /\ frame[t].pc = "done"
      /\ \A u \in Target \ {t} : frame'[u] = frame[u]
      /\ frame'[t].pc = "idle"
      /\ \A u \in Target : frame[u].pc = "archiving" => Archive[u] # t
    BY DEF TypeOK, Return, SetFrame, Idle
<1>2. Chain'
    BY <1>1 DEF Chain, Running
<1>3. ASSUME NEW u \in Target PROVE Archiving(u)'
    <2>1. CASE u = t
        BY <1>1, <2>1 DEF Archiving
    <2>2. CASE u # t
        <3>1. frame'[u] = frame[u] /\ Archiving(u)
            BY <1>1, <2>2 DEF Archivals
        <3>2. frame[u].pc = "archiving" => Archive[u] # t
            BY <1>1
        <3>3. Archive[u] \in Target \ {t} => frame'[Archive[u]] = frame[Archive[u]]
            BY <1>1
        <3>4. Archive[u] \in Target \cup {NoTarget}
            OBVIOUS
        <3>5. QED
            BY <1>1, <3>1, <3>2, <3>3, <3>4 DEF Archiving, Listed
    <2>3. QED
        BY <2>1, <2>2
<1>4. QED
    BY <1>2, <1>3 DEF Archivals

(* Nothing is left of the chain when the process has died. *)
LEMMA CrashArchives ==
    ASSUME Crash
    PROVE  Chain' /\ Archivals'
<1>1. \A u \in Target : frame'[u].pc = "idle"
    BY DEF Crash, Idle
<1>2. Chain'
    BY <1>1 DEF Chain, Running
<1>3. \A u \in Target : Archiving(u)'
    BY <1>1 DEF Archiving
<1>4. QED
    BY <1>2, <1>3 DEF Archivals

-----------------------------------------------------------------------------
(* The theorems about it. *)

(* The inductive invariant of what is kept and archived. *)
KeepInv == IInv /\ Limits /\ Chain /\ Archivals

LEMMA InitKeep == Init => KeepInv
<1>1. SUFFICES ASSUME Init PROVE Limits /\ Chain /\ Archivals
    BY InitIInv DEF KeepInv
<1>2. \A t \in Target : packages[t] = {} /\ frame[t] = Idle /\ frame[t].pc = "idle"
    BY <1>1 DEF Init, Idle
<1>3. Additions({}, Idle)
    BY DEF Additions, Replaces, Idle
<1>4. Limits
    BY <1>2, <1>3, IdleWithin DEF Limits
<1>5. Chain /\ Archivals
    BY <1>2 DEF Chain, Running, Archivals, Archiving
<1>6. QED
    BY <1>4, <1>5

LEMMA NextKeep == KeepInv /\ [Next]_vars => KeepInv'
<1>1. SUFFICES ASSUME TypeOK, Accounting, Limits, Chain, Archivals, [Next]_vars
               PROVE  Limits' /\ Chain' /\ Archivals'
    BY NextIInv DEF KeepInv, IInv
<1>2. CASE UNCHANGED vars
    <2>1. packages' = packages /\ frame' = frame
        BY <1>2 DEF vars
    <2>2. Limits'
        BY <1>1, <2>1, UntouchedWithin DEF Limits, Within
    <2>3. Chain' /\ Archivals'
        BY <1>1, <2>1 DEF Chain, Running, Archivals, Archiving, Listed
    <2>4. QED
        BY <2>2, <2>3
<1>3. ASSUME NEW t \in Target, Begin(t)
      PROVE  Limits' /\ Chain' /\ Archivals'
    BY <1>1, <1>3, BeginLimits, BeginArchives
<1>4. ASSUME NEW t \in Target, Step(t)
      PROVE  Limits' /\ Chain' /\ Archivals'
    <2>1. Limits'
        BY <1>1, <1>4, StepLimits
    <2>2. \/ ArchivePackage(t) \/ ArchiveReturn(t) \/ Return(t)
          \/ Reliable(t)
        BY <1>1, <1>4, StepReliable DEF Step
    <2>3. QED
        BY <1>1, <2>1, <2>2, CallArchives, ReturnArchives, DoneArchives, ReliableArchives
<1>5. ASSUME Crash
      PROVE  Limits' /\ Chain' /\ Archivals'
    BY <1>1, <1>5, CrashLimits, CrashArchives
<1>6. QED
    BY <1>1, <1>2, <1>3, <1>4, <1>5 DEF Next

(***************************************************************************)
(* A target_addpackage that reports success with a new version leaves no   *)
(* more than Limit versions of the name, however many were there, whatever *)
(* failed before and whatever other targets it archived into.              *)
(***************************************************************************)
THEOREM LimitsAreKept == Spec => []LimitEnforced
<1>1. KeepInv => LimitEnforced
    <2>1. SUFFICES ASSUME KeepInv, NEW t \in Target, frame[t].pc = "done",
                          frame[t].res = "ok", frame[t].new # NoPackage, Limit[t] > 0,
                          ~Replaces(frame[t])
                   PROVE  Cardinality(Named(t, frame[t].new)) =< Limit[t]
        BY DEF LimitEnforced, Replaces
    <2> DEFINE fr == frame[t]
               S == Staying(packages[t], fr)
    <2>2. /\ packages[t] \in SUBSET Package /\ fr.new \in Package /\ Limit[t] \in Int
          /\ fr.trim = {}
        BY <2>1, TargetAssumption DEF KeepInv, IInv, TypeOK, Frame, Limits, Additions
    <2>3. Cardinality(S) =< Limit[t]
        BY <2>1 DEF KeepInv, Limits, Bounded
    <2>4. S \in SUBSET Package /\ Named(t, fr.new) \in SUBSET S
        BY <2>1, <2>2 DEF Staying, Removing, Named
    <2> HIDE DEF S
    <2>5. IsFiniteSet(S) /\ IsFiniteSet(Named(t, fr.new))
          /\ Cardinality(Named(t, fr.new)) =< Cardinality(S)
        BY <2>4, FS_Subset
    <2>6. Cardinality(S) \in Nat /\ Cardinality(Named(t, fr.new)) \in Nat
        BY <2>5, FS_CardinalityType
    <2>7. QED
        BY <2>2, <2>3, <2>5, <2>6
<1>2. QED
    BY <1>1, InitKeep, NextKeep, PTL DEF Spec

(***************************************************************************)
(* No version is taken out by an addition before archive_package has       *)
(* succeeded for it, through any chain of archives and with any failures.  *)
(***************************************************************************)
THEOREM NothingLostUnarchived == Spec => ArchivedBeforeRemoval
<1> USE TargetAssumption
<1>1. ASSUME KeepInv, [Next]_vars, NEW t \in Target, frame[t].new # NoPackage,
             Archive[t] # NoTarget, Limit[Archive[t]] < 1,
             NEW p \in packages[t] \ packages'[t]
      PROVE  \E q \in packages[Archive[t]] : SameKey(q, p)
    <2>1. TypeOK /\ Archiving(t)
        BY <1>1 DEF KeepInv, IInv, Archivals
    <2>2. p = frame[t].old /\ frame[t].pc \in {"delete", "rmdelete"}
        <3>1. packages' # packages
            BY <1>1
        <3>2. PICK u \in Target : Step(u)
            BY <1>1, <3>1 DEF Next, vars, Begin, AddPackage, RemovePackage, Rereference, Crash
        <3>3. DeleteOld(u) \/ AddNew(u) \/ RemoveRecord(u)
            BY <3>1, <3>2 DEF Step, InsertOne, InsertEnd, ArchivePackage, ArchiveReturn,
               UnrefOne, UnrefEnd, TrimNext, ForgetOne, ForgetEnd, RelistOne, RelistEnd, Return
        <3>4. Alone(u)
            BY <2>1, <3>3, DeleteOldDoes, AddNewDoes, RemoveRecordDoes
        <3>5. u = t
            BY <1>1, <3>4 DEF Alone
        <3>6. \/ frame[t].pc = "delete" /\ packages'[t] = packages[t] \ {frame[t].old}
              \/ frame[t].pc = "rmdelete" /\ packages'[t] = packages[t] \ {frame[t].old}
              \/ packages[t] \subseteq packages'[t]
            BY <2>1, <3>3, <3>5, DeleteOldDoes, AddNewDoes, RemoveRecordDoes
        <3>7. QED
            BY <1>1, <3>6
    <2>3. QED
        BY <1>1, <2>1, <2>2 DEF Archiving, Listed
<1>2. KeepInv /\ [Next]_vars =>
        [\A t \in Target :
            LET a == Archive[t] IN
            frame[t].new # NoPackage /\ a # NoTarget /\ Limit[a] < 1
                => \A p \in packages[t] \ packages'[t] :
                        \E q \in packages[a] : SameKey(q, p)]_vars
    BY <1>1
<1>3. QED
    BY <1>2, InitKeep, NextKeep, PTL DEF Spec, ArchivedBeforeRemoval

=============================================================================
