------------------------- MODULE UpgradeTargetProofs -------------------------
(***************************************************************************)
(* Proofs about UpgradeTarget for any packages, versions, filter lists and *)
(* rules, however many there are: the list of an update or a pull          *)
(* implements one mark per package, and without a delete rule nothing is   *)
(* downgraded, with a hold nothing vanishes, and upgradeonly adds nothing. *)
(***************************************************************************)
EXTENDS UpgradeTarget, TLAPS

USE UpgradeAssumption, PackagesAssumption

-----------------------------------------------------------------------------
(* One entry of the list                                                   *)

(* The fields of an entry after upgradelist_trypackage *)
LEMMA NoticedFields ==
    ASSUME NEW e \in Entry, NEW v \in Nat
    PROVE  /\ Noticed(e, v) \in Entry
           /\ Noticed(e, v).inuse = e.inuse
           /\ Noticed(e, v).new \in {v, e.new}
           /\ Noticed(e, v).fromnew <=> e.fromnew
           /\ e.fromnew => Noticed(e, v).new = e.new
           /\ Noticed(e, v).deleted <=> e.deleted
BY DEF Noticed, Entry

(* The fields of an entry whose candidate is set to the version in use, or *)
(* that is found once more                                                 *)
LEMMA KeptFields ==
    ASSUME NEW e \in Entry, NEW v \in Nat
    PROVE  /\ Kept(e, v) \in Entry
           /\ Kept(e, v).inuse = e.inuse
           /\ Kept(e, v).new \in {v, e.new}
           /\ Kept(e, v).fromnew <=> e.fromnew /\ v = e.new
           /\ Kept(e, v).fromnew => Kept(e, v).new = v
           /\ ~Kept(e, v).deleted
BY DEF Kept, Entry

(* The fields of an entry after a new candidate was entered                *)
LEMMA EnteredFields ==
    ASSUME NEW e \in Entry, NEW v \in Nat
    PROVE  /\ Entered(e, v) \in Entry
           /\ Entered(e, v).inuse = e.inuse
           /\ Entered(e, v).new = v
           /\ Entered(e, v).fromnew
           /\ ~Entered(e, v).deleted
BY DEF Entered, Entry

(* Setting the mark for deletion changes no other field.                   *)
LEMMA DeletedFields ==
    ASSUME NEW e \in Entry, NEW g \in BOOLEAN
    PROVE  /\ [e EXCEPT !.deleted = g] \in Entry
           /\ [e EXCEPT !.deleted = g].inuse = e.inuse
           /\ [e EXCEPT !.deleted = g].new = e.new
           /\ [e EXCEPT !.deleted = g].fromnew <=> e.fromnew
           /\ [e EXCEPT !.deleted = g].deleted <=> g
BY DEF Entry

(* A delete rule marks what is listed and changes no other field.          *)
LEMMA ClearedFields ==
    ASSUME NEW e \in Entry
    PROVE  /\ Cleared(e).inuse = e.inuse /\ Cleared(e).new = e.new
           /\ Cleared(e).fromnew <=> e.fromnew
           /\ Cleared(e).deleted <=> Listed(e)
<1>1. Listed(e) \in BOOLEAN
    BY DEF Listed
<1>2. QED
    BY <1>1, DeletedFields DEF Cleared

(* upgradelist_trypackage keeps an entry sound, whatever was decided. *)
LEMMA TriedSound ==
    ASSUME NEW e, Sound(e), NEW v \in Version, NEW d
    PROVE  Sound(Tried(e, v, d)) /\ Tried(e, v, d).inuse = e.inuse
<1>1. e \in Entry /\ v \in Nat /\ v \in 0..MaxVersion /\ v # 0
    BY DEF Sound, Version
<1>2. Sound(Noticed(e, v)) /\ Noticed(e, v).inuse = e.inuse
    <2> DEFINE k == Noticed(e, v)
    <2>1. /\ k \in Entry /\ k.inuse = e.inuse /\ k.new \in {v, e.new}
          /\ k.fromnew => e.fromnew /\ k.new = e.new
        BY <1>1, NoticedFields
    <2> HIDE DEF k
    <2>2. Sound(k)
        BY <1>1, <2>1 DEF Sound
    <2>3. QED
        BY <2>1, <2>2 DEF k
<1>3. Sound(Kept(e, v)) /\ Kept(e, v).inuse = e.inuse
    <2> DEFINE k == Kept(e, v)
    <2>1. /\ k \in Entry /\ k.inuse = e.inuse /\ k.new \in {v, e.new}
          /\ k.fromnew => e.fromnew /\ k.new = e.new
        BY <1>1, KeptFields
    <2> HIDE DEF k
    <2>2. Sound(k)
        BY <1>1, <2>1 DEF Sound
    <2>3. QED
        BY <2>1, <2>2 DEF k
<1>4. ASSUME ~(Listed(e) /\ v \in {Current(e), e.inuse})
      PROVE  Sound(Entered(e, v)) /\ Entered(e, v).inuse = e.inuse
    <2>1. v # e.inuse
        BY <1>1, <1>4 DEF Listed, Current, Sound, Entry
    <2>2. QED
        BY <1>1, <2>1, EnteredFields DEF Sound
<1>5. \A g \in BOOLEAN : /\ Sound([e EXCEPT !.deleted = g])
                         /\ [e EXCEPT !.deleted = g].inuse = e.inuse
    BY <1>1, DeletedFields DEF Sound
<1>6. Listed(e) \in BOOLEAN
    BY DEF Listed
<1>7. QED
    BY <1>2, <1>3, <1>4, <1>5, <1>6 DEF Tried

(* The other changes of an entry keep it sound, too. *)
LEMMA ClearedSound ==
    ASSUME NEW e, Sound(e)
    PROVE  Sound(Cleared(e)) /\ Cleared(e).inuse = e.inuse
BY DEF Sound, Entry, Cleared, Listed

(* So is the entry of a package that is read from the target.              *)
LEMMA InUseSound ==
    ASSUME NEW v \in 0..MaxVersion
    PROVE  Sound(InUse(v))
BY DEF Sound, Entry, InUse

(* So is the entry of a package that is not in the list.                   *)
LEMMA UnlistedSound == Sound(Unlisted)
BY DEF Sound, Entry, Unlisted

-----------------------------------------------------------------------------
(* The mark of an entry                                                    *)

(* A package that is listed and not to be deleted is kept.                 *)
LEMMA MarkKept ==
    ASSUME NEW e, Listed(e), ~e.deleted
    PROVE  MarkOf(e) = [best |-> Current(e), kept |-> TRUE]
<1>1. (Listed(e) /\ ~e.deleted) = TRUE
    OBVIOUS
<1>2. QED
    BY <1>1 DEF MarkOf

(* Any other package is not kept.                                          *)
LEMMA MarkGone ==
    ASSUME NEW e, ~(Listed(e) /\ ~e.deleted)
    PROVE  MarkOf(e) = [best |-> Current(e), kept |-> FALSE]
<1>1. (Listed(e) /\ ~e.deleted) = FALSE
    OBVIOUS
<1>2. QED
    BY <1>1 DEF MarkOf

(* Marks that differ in whether the package is kept                        *)
LEMMA MarkExcept ==
    ASSUME NEW b
    PROVE  \A k, l \in {TRUE, FALSE} :
              [[best |-> b, kept |-> k] EXCEPT !.kept = l] = [best |-> b, kept |-> l]
OBVIOUS

(* Two entries with the same best version have the same mark, or marks that *)
(* differ in whether the package is kept.                                   *)
LEMMA MarkDeleted ==
    ASSUME NEW e, NEW t, Current(t) = Current(e)
    PROVE  /\ Listed(t) /\ ~t.deleted => MarkOf(t) = [MarkOf(e) EXCEPT !.kept = TRUE]
           /\ ~(Listed(t) /\ ~t.deleted) => MarkOf(t) = [MarkOf(e) EXCEPT !.kept = FALSE]
           /\ (Listed(t) /\ ~t.deleted <=> Listed(e) /\ ~e.deleted) => MarkOf(t) = MarkOf(e)
<1> DEFINE b == Current(e)
<1>1. Listed(t) /\ ~t.deleted => MarkOf(t) = [best |-> b, kept |-> TRUE]
    BY MarkKept
<1>2. ~(Listed(t) /\ ~t.deleted) => MarkOf(t) = [best |-> b, kept |-> FALSE]
    BY MarkGone
<1>3. Listed(e) /\ ~e.deleted => MarkOf(e) = [best |-> b, kept |-> TRUE]
    BY MarkKept
<1>4. ~(Listed(e) /\ ~e.deleted) => MarkOf(e) = [best |-> b, kept |-> FALSE]
    BY MarkGone
<1> HIDE DEF b
<1> DEFINE k == Listed(e) /\ ~e.deleted
           l == Listed(t) /\ ~t.deleted
<1>5. /\ k => [MarkOf(e) EXCEPT !.kept = TRUE] = [best |-> b, kept |-> TRUE]
      /\ k => [MarkOf(e) EXCEPT !.kept = FALSE] = [best |-> b, kept |-> FALSE]
    BY <1>3, MarkExcept, Zenon
<1>6. /\ ~k => [MarkOf(e) EXCEPT !.kept = TRUE] = [best |-> b, kept |-> TRUE]
      /\ ~k => [MarkOf(e) EXCEPT !.kept = FALSE] = [best |-> b, kept |-> FALSE]
    BY <1>4, MarkExcept, Zenon
<1>7. (k => MarkOf(e) = [best |-> b, kept |-> TRUE]) /\ (l => MarkOf(t) = [best |-> b, kept |-> TRUE])
    BY <1>1, <1>3
<1>8. (~k => MarkOf(e) = [best |-> b, kept |-> FALSE]) /\ (~l => MarkOf(t) = [best |-> b, kept |-> FALSE])
    BY <1>2, <1>4
<1> HIDE DEF k, l
<1>9. /\ l => MarkOf(t) = [MarkOf(e) EXCEPT !.kept = TRUE]
      /\ ~l => MarkOf(t) = [MarkOf(e) EXCEPT !.kept = FALSE]
      /\ (l <=> k) => MarkOf(t) = MarkOf(e)
    BY <1>5, <1>6, <1>7, <1>8, Zenon
<1>10. QED
    BY <1>9 DEF k, l

(* The fields of a mark                                                    *)
LEMMA MarkFields ==
    ASSUME NEW e
    PROVE  MarkOf(e).best = Current(e) /\ (MarkOf(e).kept <=> Listed(e) /\ ~e.deleted)
BY DEF MarkOf

(* Whatever upgradelist_trypackage does to an entry, its mark stays, or it *)
(* is what accepting, holding or superseding makes of it.                  *)
LEMMA TriedMark ==
    ASSUME NEW e, Sound(e), NEW v \in Version, NEW d
    PROVE  \/ MarkOf(Tried(e, v, d)) = MarkOf(e)
           \/ /\ MarkOf(e).kept => v > MarkOf(e).best
              /\ MarkOf(Tried(e, v, d)) = [best |-> v, kept |-> TRUE]
           \/ /\ MarkOf(e).best # 0
              /\ MarkOf(Tried(e, v, d)) = [MarkOf(e) EXCEPT !.kept = TRUE]
           \/ /\ MarkOf(e).kept => v > MarkOf(e).best
              /\ MarkOf(Tried(e, v, d)) = [MarkOf(e) EXCEPT !.kept = FALSE]
<1>1. e \in Entry /\ v \in Nat /\ v # 0
    BY DEF Sound, Version
<1>2. CASE ~Asks(e, v)
    <2>1. Current(Noticed(e, v)) = Current(e)
        BY <1>1, NoticedFields DEF Current
    <2>2. Listed(Noticed(e, v)) /\ ~Noticed(e, v).deleted <=> Listed(e) /\ ~e.deleted
        BY <1>1, <2>1, NoticedFields DEF Listed
    <2>3. MarkOf(Noticed(e, v)) = MarkOf(e)
        BY <2>1, <2>2, MarkDeleted
    <2>4. QED
        BY <1>2, <2>3 DEF Tried
<1>3. CASE Asks(e, v)
    <2>1. MarkOf(e).kept => v > MarkOf(e).best
        BY <1>3, MarkFields DEF Asks
    <2>2. CASE d = "upgrade" /\ Listed(e) /\ v \in {Current(e), e.inuse}
        <3>1. Tried(e, v, d) = Kept(e, v)
            BY <1>3, <2>2 DEF Tried
        <3>2. Current(Kept(e, v)) = v
            BY <1>1, <2>2, KeptFields DEF Current
        <3>3. MarkOf(Kept(e, v)) = [best |-> v, kept |-> TRUE]
            BY <1>1, <3>2, KeptFields, MarkKept DEF Listed
        <3>4. QED
            BY <2>1, <3>1, <3>3
    <2>3. CASE d = "upgrade" /\ ~(Listed(e) /\ v \in {Current(e), e.inuse})
        <3>1. Tried(e, v, d) = Entered(e, v)
            BY <1>3, <2>3 DEF Tried
        <3>2. Current(Entered(e, v)) = v
            BY <1>1, EnteredFields DEF Current
        <3>3. MarkOf(Entered(e, v)) = [best |-> v, kept |-> TRUE]
            BY <1>1, <3>2, EnteredFields, MarkKept DEF Listed
        <3>4. QED
            BY <2>1, <3>1, <3>3
    <2>4. CASE d = "hold"
        <3> DEFINE t == [e EXCEPT !.deleted = FALSE]
        <3>1. Tried(e, v, d) = t
            BY <1>3, <2>4 DEF Tried
        <3>2. /\ t.inuse = e.inuse /\ t.new = e.new /\ (t.fromnew <=> e.fromnew)
              /\ ~t.deleted
            BY <1>1, DeletedFields
        <3> HIDE DEF t
        <3>3. Current(t) = Current(e)
            BY <3>2 DEF Current
        <3>4. CASE Listed(e)
            <4>1. MarkOf(e).best # 0
                BY <3>4, MarkFields DEF Listed
            <4>2. MarkOf(t) = [MarkOf(e) EXCEPT !.kept = TRUE]
                BY <3>2, <3>3, <3>4, MarkDeleted DEF Listed
            <4>3. QED
                BY <3>1, <4>1, <4>2
        <3>5. CASE ~Listed(e)
            <4>1. MarkOf(t) = MarkOf(e)
                BY <3>3, <3>5, MarkDeleted DEF Listed
            <4>2. QED
                BY <3>1, <4>1
        <3>6. QED
            BY <3>4, <3>5
    <2>5. CASE d = "supersede"
        <3> DEFINE t == [e EXCEPT !.deleted = Listed(e)]
        <3>1. Tried(e, v, d) = t
            BY <1>3, <2>5 DEF Tried
        <3>2. /\ t.inuse = e.inuse /\ t.new = e.new /\ (t.fromnew <=> e.fromnew)
              /\ t.deleted <=> Listed(e)
            BY <1>1, DeletedFields DEF Listed
        <3> HIDE DEF t
        <3>3. Current(t) = Current(e)
            BY <3>2 DEF Current
        <3>4. ~(Listed(t) /\ ~t.deleted)
            BY <3>2, <3>3 DEF Listed
        <3>5. MarkOf(t) = [MarkOf(e) EXCEPT !.kept = FALSE]
            BY <3>3, <3>4, MarkDeleted
        <3>6. QED
            BY <2>1, <3>1, <3>5
    <2>6. CASE d \notin {"upgrade", "hold", "supersede"}
        <3>1. Tried(e, v, d) = e
            BY <1>3, <2>6 DEF Tried
        <3>2. QED
            BY <3>1
    <2>7. QED
        BY <2>2, <2>3, <2>4, <2>5, <2>6
<1>4. QED
    BY <1>2, <1>3

-----------------------------------------------------------------------------
(* What upgradelist_trypackage does to the promises of the manual          *)

(* Only a supersede marks a package as to be deleted, and what is chosen   *)
(* for one that is not to be deleted is not older than what it has.        *)
LEMMA TriedNewer ==
    ASSUME NEW e, Sound(e), ~e.deleted, NEW v \in Version, NEW d,
           ~(Asks(e, v) /\ d = "supersede")
    PROVE  /\ ~Tried(e, v, d).deleted
           /\ Current(e) >= e.inuse => Current(Tried(e, v, d)) >= e.inuse
<1>1. e \in Entry /\ v \in Nat /\ v # 0 /\ e.inuse \in Nat /\ Current(e) \in Nat
    BY DEF Sound, Version, Entry, Current
<1>2. CASE ~Asks(e, v)
    <2>1. Tried(e, v, d) = Noticed(e, v)
        BY <1>2 DEF Tried
    <2>2. Current(Noticed(e, v)) = Current(e)
        BY <1>1, NoticedFields DEF Current
    <2>3. ~Noticed(e, v).deleted
        BY <1>1, NoticedFields
    <2>4. QED
        BY <2>1, <2>2, <2>3
<1>3. CASE Asks(e, v) /\ d = "upgrade"
    <2>1. v > Current(e) \/ Current(e) = 0
        BY <1>3 DEF Asks, Listed
    <2>2. CASE Listed(e) /\ v \in {Current(e), e.inuse}
        <3>1. Tried(e, v, d) = Kept(e, v)
            BY <1>3, <2>2 DEF Tried
        <3>2. Current(Kept(e, v)) = v
            BY ZenonT(40), <1>1, <2>2, KeptFields DEF Current
        <3>3. ~Kept(e, v).deleted
            BY <1>1, KeptFields
        <3>4. v >= e.inuse \/ Current(e) < e.inuse
            BY <1>1, <2>1, <2>2 DEF Listed
        <3>5. QED
            BY <1>1, <3>1, <3>2, <3>3, <3>4
    <2>3. CASE ~(Listed(e) /\ v \in {Current(e), e.inuse})
        <3>1. Tried(e, v, d) = Entered(e, v)
            BY <1>3, <2>3 DEF Tried
        <3>2. Current(Entered(e, v)) = v
            BY <1>1, EnteredFields DEF Current
        <3>3. ~Entered(e, v).deleted
            BY <1>1, EnteredFields
        <3>4. v >= e.inuse \/ Current(e) < e.inuse
            BY <1>1, <2>1
        <3>5. QED
            BY <1>1, <3>1, <3>2, <3>3, <3>4
    <2>4. QED
        BY <2>2, <2>3
<1>4. CASE Asks(e, v) /\ d = "hold"
    <2> DEFINE t == [e EXCEPT !.deleted = FALSE]
    <2>1. /\ t.inuse = e.inuse /\ t.new = e.new /\ (t.fromnew <=> e.fromnew)
          /\ ~t.deleted
        BY <1>1, DeletedFields
    <2>2. Tried(e, v, d) = t
        BY <1>4 DEF Tried
    <2> HIDE DEF t
    <2>3. Current(t) = Current(e)
        BY <2>1 DEF Current
    <2>4. QED
        BY <2>1, <2>2, <2>3
<1>5. CASE Asks(e, v) /\ d \notin {"upgrade", "hold", "supersede"}
    <2>1. Tried(e, v, d) = e
        BY <1>5 DEF Tried
    <2>2. QED
        BY <2>1
<1>6. QED
    BY <1>2, <1>3, <1>4, <1>5

(* A package that is accepted or held is no longer to be deleted. *)
LEMMA TriedKeeps ==
    ASSUME NEW e, Sound(e), NEW v \in Version, NEW d, Asks(e, v), d \in {"upgrade", "hold"}
    PROVE  ~Tried(e, v, d).deleted
<1>1. e \in Entry /\ v \in Nat
    BY DEF Sound, Version
<1>2. CASE d = "upgrade"
    BY <1>1, <1>2, KeptFields, EnteredFields DEF Tried
<1>3. CASE d = "hold"
    BY <1>1, <1>3, DeletedFields DEF Tried
<1>4. QED
    BY <1>2, <1>3

(* There is a new candidate only if an offer was accepted. *)
LEMMA TriedCandidate ==
    ASSUME NEW e, Sound(e), NEW v \in Version, NEW d, Tried(e, v, d).fromnew
    PROVE  e.fromnew \/ (Asks(e, v) /\ d = "upgrade")
<1>1. e \in Entry /\ v \in Nat
    BY DEF Sound, Version
<1>2. CASE ~Asks(e, v)
    BY <1>1, <1>2, NoticedFields DEF Tried
<1>3. CASE Asks(e, v) /\ d = "hold"
    BY <1>1, <1>3, DeletedFields DEF Tried
<1>4. CASE Asks(e, v) /\ d = "supersede"
    BY <1>1, <1>4, DeletedFields DEF Tried, Listed
<1>5. CASE Asks(e, v) /\ d \notin {"upgrade", "hold", "supersede"}
    BY <1>1, <1>5 DEF Tried
<1>6. QED
    BY <1>2, <1>3, <1>4, <1>5

(* ud_decide_by_pattern and ud_decide_by_rule accept nothing new because of *)
(* upgradeonly.                                                             *)
LEMMA UpgradeonlyAddsNothing ==
    ASSUME NEW said, 1 \in DOMAIN said, NEW meets, NEW known,
           said[1] = "upgradeonly", Decision(said, meets, known) = "upgrade"
    PROVE  known # 0
<1>1. SUFFICES ASSUME known = 0 PROVE FALSE
    OBVIOUS
<1>2. 1 \in {i \in DOMAIN said : said[i] = "error" \/ Refuses(said[i], known)}
    BY <1>1 DEF Refuses
<1>3. QED
    BY <1>2 DEF Decision

-----------------------------------------------------------------------------
(* The inductive invariant                                                 *)

(* While the rules are read the target is what the list says it was; then  *)
(* each package is still that or already what it is to become.             *)
InStep(p) ==
    /\ pc = "read" => packages[p] = list[p].inuse
    /\ pc = "install" => packages[p] \in {list[p].inuse, Result(list[p])}
    /\ pc = "predelete" => packages[p] \in {list[p].inuse, 0}

(* What the history of the run says of an entry *)
Justified(p) ==
    /\ pc # "idle" /\ p \notin cleared =>
          ~list[p].deleted /\ Current(list[p]) >= list[p].inuse
    /\ p \in held => ~list[p].deleted
    /\ list[p].fromnew /\ list[p].inuse = 0 => p \in invited

IInv ==
    /\ TypeOK
    /\ pc = "predelete" => command = "predelete"
    /\ \A p \in Package : InStep(p) /\ Justified(p)

(* The invariant holds before the first command.                           *)
LEMMA InitIInv == Init => IInv
<1> SUFFICES ASSUME Init PROVE IInv
    OBVIOUS
<1>1. \A p \in Package : list[p] = Unlisted
    BY DEF Init, Empty
<1>2. list \in [Package -> Entry] /\ \A p \in Package : Sound(list[p])
    BY UnlistedSound DEF Init, Empty, Sound
<1>3. TypeOK
    BY <1>2 DEF Init, TypeOK
<1>4. \A p \in Package : InStep(p) /\ Justified(p)
    BY <1>1 DEF Init, InStep, Justified, Unlisted
<1>5. QED
    BY <1>3, <1>4 DEF IInv, Init

(* What is installed is one of the versions, or nothing.                   *)
LEMMA ResultType ==
    ASSUME NEW e, Sound(e)
    PROVE  Result(e) \in 0..MaxVersion
BY DEF Sound, Result

(* The list that is read from the target agrees with it.                   *)
LEMMA InitializeIInv == IInv /\ Initialize => IInv'
<1> SUFFICES ASSUME IInv, Initialize PROVE IInv'
    OBVIOUS
<1>1. \A p \in Package : list'[p] = InUse(packages[p]) /\ packages[p] \in 0..MaxVersion
    BY DEF Initialize, IInv, TypeOK
<1>2. \A p \in Package : Sound(list'[p])
    BY <1>1, InUseSound
<1>3. list' \in [Package -> Entry]
    BY <1>1, <1>2 DEF Initialize, Sound
<1>4. TypeOK'
    BY <1>2, <1>3 DEF Initialize, IInv, TypeOK, Sound
<1>5. ASSUME NEW p \in Package PROVE InStep(p)' /\ Justified(p)'
    <2> DEFINE v == packages[p]
    <2>1. /\ InUse(v).inuse = v /\ ~InUse(v).fromnew /\ ~InUse(v).deleted
          /\ Current(InUse(v)) = v
        BY DEF InUse, Current
    <2>2. InStep(p)'
        BY <1>1, <2>1 DEF Initialize, InStep
    <2>3. Justified(p)'
        BY <1>1, <2>1 DEF Initialize, Justified
    <2>4. QED
        BY <2>2, <2>3
<1>6. QED
    BY <1>4, <1>5 DEF IInv, Initialize

(* A delete rule has spoken of every package, and keeps the invariant.     *)
LEMMA DeleteAllIInv == IInv /\ DeleteAll => IInv'
<1> SUFFICES ASSUME IInv, DeleteAll PROVE IInv'
    OBVIOUS
<1>1. \A p \in Package : list'[p] = Cleared(list[p]) /\ Sound(list[p])
    BY DEF DeleteAll, IInv, TypeOK
<1>2. \A p \in Package : Sound(list'[p]) /\ list'[p].inuse = list[p].inuse
    BY <1>1, ClearedSound
<1>3. list' \in [Package -> Entry]
    BY <1>1, <1>2 DEF DeleteAll, Sound
<1>4. TypeOK'
    BY <1>2, <1>3 DEF DeleteAll, IInv, TypeOK, process, Sound
<1>5. ASSUME NEW p \in Package PROVE InStep(p)' /\ Justified(p)'
    <2>1. list'[p].fromnew <=> list[p].fromnew
        BY <1>1, ClearedFields DEF Sound
    <2>2. InStep(p)'
        BY <1>2 DEF DeleteAll, IInv, InStep
    <2>3. Justified(p)'
        BY <1>2, <2>1 DEF DeleteAll, IInv, Justified
    <2>4. QED
        BY <2>2, <2>3
<1>6. QED
    BY <1>4, <1>5 DEF IInv, DeleteAll, process

(* The first list that is asked is that of the rule.                       *)
LEMMA AskedFirst ==
    ASSUME NEW action, NEW src, NEW bin
    PROVE  1 \in DOMAIN Asked(action, src, bin) /\ Asked(action, src, bin)[1] = action
BY DEF Asked, AskedByRule, AskedByPattern

(* An offer changes one entry, and keeps the invariant.                    *)
LEMMA OfferIInv == IInv /\ Offer => IInv'
<1> SUFFICES ASSUME IInv, Offer PROVE IInv'
    OBVIOUS
<1>0. PICK q \in Package, v \in Version : \E said, meets :
          TryPackage(q, v, said, meets) /\ 1 \in DOMAIN said
    BY AskedFirst DEF Offer
<1>1. PICK said, meets : TryPackage(q, v, said, meets) /\ 1 \in DOMAIN said
    BY <1>0
<1> DEFINE e == list[q]
           d == Decision(said, meets, Current(e))
           asked == Asks(e, v)
           t == Tried(e, v, d)
<1>2. /\ pc = "read" /\ pc' = "read" /\ UNCHANGED <<packages, source, process, todo>>
      /\ list' = [list EXCEPT ![q] = t]
      /\ cleared' = IF asked /\ d = "supersede" THEN cleared \cup {q} ELSE cleared
      /\ invited' = IF asked /\ d = "upgrade" /\ said[1] # "upgradeonly"
                        THEN invited \cup {q} ELSE invited
      /\ held' = IF ~asked THEN held
                 ELSE IF d = "hold" THEN held \cup {q}
                 ELSE IF d = "supersede" THEN held \ {q} ELSE held
    BY <1>1 DEF TryPackage
<1>3. list \in [Package -> Entry] /\ Sound(e) /\ Justified(q) /\ packages[q] = e.inuse
    BY <1>2 DEF IInv, TypeOK, InStep
<1>4. Sound(t) /\ t.inuse = e.inuse
    BY <1>3, TriedSound
<1>5. list'[q] = t /\ \A p \in Package \ {q} : list'[p] = list[p]
    BY <1>2, <1>3
<1>6. ~e.deleted /\ ~(asked /\ d = "supersede") =>
          ~t.deleted /\ (Current(e) >= e.inuse => Current(t) >= e.inuse)
    BY <1>3, TriedNewer
<1>7. asked /\ d \in {"upgrade", "hold"} => ~t.deleted
    BY <1>3, TriedKeeps
<1>8. t.fromnew => e.fromnew \/ (asked /\ d = "upgrade")
    BY <1>3, TriedCandidate
<1>9. d = "upgrade" /\ said[1] = "upgradeonly" => Current(e) # 0
    BY <1>1, UpgradeonlyAddsNothing
<1> HIDE DEF d, asked, t
<1>10. TypeOK'
    <2>1. list' \in [Package -> Entry]
        BY <1>2, <1>3, <1>4 DEF Sound
    <2>2. \A p \in Package : Sound(list'[p])
        BY <1>4, <1>5 DEF IInv, TypeOK
    <2>3. cleared' \cup invited' \cup held' \subseteq Package
        BY <1>2 DEF IInv, TypeOK
    <2>4. QED
        BY <1>2, <2>1, <2>2, <2>3 DEF IInv, TypeOK, process, Sound
<1>11. InStep(q)' /\ Justified(q)'
    <2>1. InStep(q)'
        BY <1>2, <1>3, <1>4, <1>5 DEF InStep
    <2>2. q \notin cleared' => ~t.deleted /\ Current(t) >= t.inuse
        BY <1>2, <1>3, <1>4, <1>6 DEF Justified
    <2>3. q \in held' => ~t.deleted
        BY <1>2, <1>3, <1>6, <1>7 DEF Justified
    <2>4. ASSUME t.fromnew, t.inuse = 0 PROVE q \in invited'
        <3>1. CASE e.fromnew
            BY <1>2, <1>3, <1>4, <2>4, <3>1 DEF Justified
        <3>2. CASE ~e.fromnew
            <4>1. Current(e) = 0
                BY <1>4, <2>4, <3>2 DEF Current
            <4>2. QED
                BY <1>2, <1>8, <1>9, <2>4, <3>2, <4>1
        <3>3. QED
            BY <3>1, <3>2
    <2>5. Justified(q)'
        BY <1>5, <2>2, <2>3, <2>4 DEF Justified
    <2>6. QED
        BY <2>1, <2>5
<1>12. ASSUME NEW p \in Package, p # q PROVE InStep(p)' /\ Justified(p)'
    <2>1. InStep(p) /\ Justified(p) /\ list'[p] = list[p]
        BY <1>5, <1>12 DEF IInv
    <2>2. /\ p \in cleared => p \in cleared'
          /\ p \in held' => p \in held
          /\ p \in invited => p \in invited'
        BY <1>2, <1>12
    <2>3. QED
        BY <1>2, <2>1, <2>2 DEF InStep, Justified
<1>13. QED
    BY <1>2, <1>10, <1>11, <1>12 DEF IInv

(* When the work on the list begins nothing has changed yet.               *)
LEMMA EnqueueIInv == IInv /\ Enqueue => IInv'
<1> SUFFICES ASSUME IInv, Enqueue PROVE IInv'
    OBVIOUS
<1>1. TypeOK'
    BY DEF Enqueue, IInv, TypeOK, process, history, Sound
<1>2. ASSUME NEW p \in Package PROVE InStep(p)' /\ Justified(p)'
    BY DEF Enqueue, IInv, InStep, Justified, process, history
<1>3. QED
    BY <1>1, <1>2 DEF IInv, Enqueue, process

(* A round of upgradelist_install makes one package what its entry says.   *)
LEMMA InstallIInv == IInv /\ Install => IInv'
<1> SUFFICES ASSUME IInv, Install PROVE IInv'
    OBVIOUS
<1> DEFINE q == Head(todo)
<1>1. q \in Package /\ todo' \in Seq(Package)
    BY DEF Install, IInv, TypeOK
<1>2. /\ pc = "install" /\ UNCHANGED <<source, pc, process, list, history>>
      /\ packages' = IF ToInstall(list[q]) \/ ToRemove(list[q])
                        THEN [packages EXCEPT ![q] = Result(list[q])] ELSE packages
    BY DEF Install
<1> HIDE DEF q
<1>3. Result(list[q]) \in 0..MaxVersion
    BY <1>1, ResultType DEF IInv, TypeOK
<1>4. packages' \in [Package -> 0..MaxVersion]
    BY <1>1, <1>2, <1>3 DEF IInv, TypeOK
<1>5. TypeOK'
    BY <1>1, <1>2, <1>4 DEF IInv, TypeOK, process, history, Sound
<1>6. ASSUME NEW p \in Package PROVE InStep(p)' /\ Justified(p)'
    <2>1. packages'[p] \in {packages[p], Result(list[p])}
        BY <1>1, <1>2 DEF IInv, TypeOK
    <2>2. QED
        BY <1>2, <2>1 DEF IInv, InStep, Justified, history
<1>7. QED
    BY <1>2, <1>5, <1>6 DEF IInv, process

(* A round of upgradelist_predelete removes at most one package.           *)
LEMMA PredeleteIInv == IInv /\ Predelete => IInv'
<1> SUFFICES ASSUME IInv, Predelete PROVE IInv'
    OBVIOUS
<1> DEFINE q == Head(todo)
<1>1. q \in Package /\ todo' \in Seq(Package)
    BY DEF Predelete, IInv, TypeOK
<1>2. /\ pc = "predelete" /\ UNCHANGED <<source, pc, process, list, history>>
      /\ packages' = IF ToPredelete(list[q]) THEN [packages EXCEPT ![q] = 0] ELSE packages
    BY DEF Predelete
<1> HIDE DEF q
<1>3. packages' \in [Package -> 0..MaxVersion]
    BY <1>1, <1>2 DEF IInv, TypeOK
<1>4. TypeOK'
    BY <1>1, <1>2, <1>3 DEF IInv, TypeOK, process, history, Sound
<1>5. ASSUME NEW p \in Package PROVE InStep(p)' /\ Justified(p)'
    <2>1. packages'[p] \in {packages[p], 0}
        BY <1>1, <1>2 DEF IInv, TypeOK
    <2>2. QED
        BY <1>2, <2>1 DEF IInv, InStep, Justified, history
<1>6. QED
    BY <1>2, <1>4, <1>5 DEF IInv, process

(* Without a list there is nothing left to justify.                        *)
LEMMA FreeIInv == IInv /\ Free => IInv'
<1> SUFFICES ASSUME IInv, Free PROVE IInv'
    OBVIOUS
<1>1. \A p \in Package : list'[p] = Unlisted
    BY DEF Free, Empty
<1>2. list' \in [Package -> Entry] /\ \A p \in Package : Sound(list'[p])
    BY UnlistedSound DEF Free, Empty, Sound
<1>3. TypeOK'
    BY <1>2 DEF Free, IInv, TypeOK, Sound
<1>4. \A p \in Package : InStep(p)' /\ Justified(p)'
    BY <1>1 DEF Free, InStep, Justified, Unlisted
<1>5. QED
    BY <1>3, <1>4 DEF IInv, Free

(* No step disturbs the invariant.                                         *)
LEMMA Inductive == IInv /\ [Next]_vars => IInv'
<1>1. ASSUME IInv, UNCHANGED vars PROVE IInv'
    BY <1>1 DEF IInv, TypeOK, InStep, Justified, vars, process, history, Sound
<1>2. QED
    BY <1>1, InitializeIInv, DeleteAllIInv, OfferIInv, EnqueueIInv, InstallIInv,
       PredeleteIInv, FreeIInv DEF Next

(* At any time the list of a target is made of sound entries, and the rest *)
(* of the state has its type.                                              *)
THEOREM InvariantHolds == Spec => []IInv
BY InitIInv, Inductive, PTL DEF Spec

(* The state keeps its type: entries stay sound (what is candidate is      *)
(* never the version in use), whatever rules are processed.                *)
THEOREM TypeCorrect == Spec => []TypeOK
<1>1. IInv => TypeOK
    BY DEF IInv
<1>2. QED
    BY <1>1, InvariantHolds, PTL

-----------------------------------------------------------------------------
(* The action properties                                                   *)

(* Only the loops of upgradelist_install and upgradelist_predelete change  *)
(* the target, and only to what the entry of the package says.             *)
LEMMA OnlyWorkChanges ==
    ASSUME IInv, [Next]_vars, NEW p \in Package, packages'[p] # packages[p]
    PROVE  \/ pc = "predelete" /\ command = "predelete"
           \/ pc = "install" /\ packages'[p] = Result(list[p])
              /\ (ToInstall(list[p]) \/ ToRemove(list[p]))
<1>1. CASE Install
    <2>1. Head(todo) \in Package
        BY <1>1 DEF Install, IInv, TypeOK
    <2>2. QED
        BY <1>1, <2>1 DEF Install, IInv, TypeOK
<1>2. CASE Predelete
    BY <1>2 DEF Predelete, IInv
<1>3. CASE ~Install /\ ~Predelete
    BY <1>3 DEF Next, vars, Initialize, DeleteAll, Offer, TryPackage, Enqueue, Free
<1>4. QED
    BY <1>1, <1>2, <1>3

(* A step that keeps to the entries of the list downgrades only what a     *)
(* delete rule or a supersede has spoken of.                               *)
LEMMA NeverDowngradesStep ==
    ASSUME IInv, [Next]_vars, NEW p \in Package, packages'[p] < packages[p]
    PROVE  command = "predelete" \/ p \in cleared
<1>1. SUFFICES ASSUME command # "predelete", p \notin cleared PROVE FALSE
    OBVIOUS
<1>2. packages[p] \in Nat /\ Sound(list[p]) /\ InStep(p) /\ Justified(p)
    BY DEF IInv, TypeOK
<1>3. pc = "install" /\ packages'[p] = Result(list[p])
    <2>1. packages'[p] # packages[p]
        BY <1>2
    <2>2. QED
        BY <1>1, <2>1, OnlyWorkChanges
<1>4. ~list[p].deleted /\ Current(list[p]) >= list[p].inuse
    BY <1>1, <1>2, <1>3 DEF Justified
<1>5. Result(list[p]) >= list[p].inuse
    BY <1>2, <1>4 DEF Result, ToInstall, ToRemove, Current, Sound
<1>6. Result(list[p]) \in Nat /\ list[p].inuse \in Nat
    BY <1>2, ResultType DEF Sound
<1>7. packages[p] \in {list[p].inuse, Result(list[p])}
    BY <1>2, <1>3 DEF InStep
<1>8. QED
    BY <1>3, <1>5, <1>6, <1>7

(* Without a delete rule or a supersede nothing is downgraded or removed,  *)
(* whatever the rules and lists say, in whatever order they are read, and  *)
(* wherever the work on the list stops.                                    *)
THEOREM NothingDowngraded == Spec => NeverDowngrades
<1>1. IInv /\ [Next]_vars =>
          [\A p \in Package :
              packages'[p] < packages[p] => command = "predelete" \/ p \in cleared]_vars
    BY NeverDowngradesStep
<1>2. QED
    BY <1>1, InvariantHolds, PTL DEF Spec, NeverDowngrades

(* A step that keeps to the entries of the list adds only what was         *)
(* accepted with more than upgradeonly.                                    *)
LEMMA AddedWereInvitedStep ==
    ASSUME IInv, [Next]_vars, NEW p \in Package, packages[p] = 0, packages'[p] # 0
    PROVE  p \in invited \/ list[p].inuse # 0
<1>1. Sound(list[p]) /\ InStep(p) /\ Justified(p)
    BY DEF IInv, TypeOK
<1>2. packages'[p] # packages[p]
    OBVIOUS
<1>3. pc = "install" \/ pc = "predelete"
    BY <1>2, OnlyWorkChanges
<1>4. CASE pc = "predelete"
    <2>1. packages'[p] \in {packages[p], 0}
        <3>1. CASE Predelete
            <4>1. Head(todo) \in Package
                BY <3>1 DEF Predelete, IInv, TypeOK
            <4>2. QED
                BY <3>1, <4>1 DEF Predelete, IInv, TypeOK
        <3>2. CASE ~Predelete
            BY <1>4, <3>2 DEF Next, vars, Initialize, DeleteAll, Offer, TryPackage, Enqueue,
                              Install, Free
        <3>3. QED
            BY <3>1, <3>2
    <2>2. QED
        BY <2>1
<1>5. CASE pc = "install"
    <2>1. packages'[p] = Result(list[p]) /\ (ToInstall(list[p]) \/ ToRemove(list[p]))
        BY <1>2, <1>5, OnlyWorkChanges
    <2>2. ToInstall(list[p])
        BY <2>1 DEF Result
    <2>3. QED
        BY <1>1, <2>2 DEF ToInstall, Justified
<1>6. QED
    BY <1>3, <1>4, <1>5

(* Nothing is added to a target that only rules with upgradeonly offered,  *)
(* whatever is deleted, superseded or held besides.                        *)
THEOREM NothingAddedByUpgradeonly == Spec => AddedWereInvited
<1>1. IInv /\ [Next]_vars =>
          [\A p \in Package :
              packages[p] = 0 /\ packages'[p] # 0 => p \in invited \/ list[p].inuse # 0]_vars
    BY AddedWereInvitedStep
<1>2. QED
    BY <1>1, InvariantHolds, PTL DEF Spec, AddedWereInvited

(* A step that keeps to the entries of the list does not remove a held     *)
(* package.                                                                *)
LEMMA HeldStayStep ==
    ASSUME IInv, [Next]_vars, NEW p \in held, packages[p] # 0, packages'[p] = 0
    PROVE  command = "predelete"
<1>1. p \in Package
    BY DEF IInv, TypeOK
<1>2. Sound(list[p]) /\ Justified(p)
    BY <1>1 DEF IInv, TypeOK
<1>3. packages'[p] # packages[p]
    OBVIOUS
<1>4. SUFFICES ASSUME pc = "install" PROVE FALSE
    BY <1>1, <1>3, OnlyWorkChanges
<1>5. Result(list[p]) = 0 /\ (ToInstall(list[p]) \/ ToRemove(list[p]))
    BY <1>1, <1>3, <1>4, OnlyWorkChanges
<1>6. ~list[p].deleted
    BY <1>2 DEF Justified
<1>7. ToInstall(list[p])
    BY <1>5, <1>6 DEF ToRemove
<1>8. list[p].new # 0
    BY <1>2, <1>7 DEF ToInstall, Sound
<1>9. QED
    BY <1>5, <1>7, <1>8 DEF Result

(* A package that was held after the last delete rule stays in the target. *)
THEOREM HeldPackagesStay == Spec => HeldStay
<1>1. IInv /\ [Next]_vars =>
          [\A p \in held : packages[p] # 0 /\ packages'[p] = 0 => command = "predelete"]_vars
    BY HeldStayStep
<1>2. QED
    BY <1>1, InvariantHolds, PTL DEF Spec, HeldStay

-----------------------------------------------------------------------------
(* The list implements one mark per package                                *)

(* Without a list no package is marked.                                    *)
LEMMA ImplementsInit == Init => Marks!Init
<1> SUFFICES ASSUME Init PROVE Marks!Init
    OBVIOUS
<1>1. ~Unlisted.deleted /\ Current(Unlisted) = 0 /\ ~Listed(Unlisted)
    BY DEF Unlisted, Current, Listed
<1>2. MarkOf(Unlisted) = [best |-> 0, kept |-> FALSE]
    BY <1>1, MarkGone
<1>3. \A p \in Package : list[p] = Unlisted
    BY DEF Init, Empty
<1>4. [p \in Package |-> MarkOf(list[p])] = [p \in Package |-> Marks!Unmarked]
    BY <1>2, <1>3 DEF Marks!Unmarked
<1>5. QED
    BY <1>4 DEF Init, Stage, Marks!Init

(* Reading the target marks each package as kept in its version.           *)
LEMMA InitializeBegins == IInv /\ Initialize => Marks!Begin
<1> SUFFICES ASSUME IInv, Initialize PROVE Marks!Begin
    OBVIOUS
<1>1. ASSUME NEW p \in Package
      PROVE  MarkOf(list'[p]) = [best |-> packages[p], kept |-> packages[p] # 0]
    <2> DEFINE v == packages[p]
    <2>1. list'[p] = InUse(v)
        BY DEF Initialize
    <2>2. /\ ~InUse(v).deleted /\ Current(InUse(v)) = v /\ (Listed(InUse(v)) <=> v # 0)
        BY DEF InUse, Current, Listed
    <2>3. CASE v # 0
        <3>1. (v # 0) = TRUE
            BY <2>3
        <3>2. QED
            BY <2>1, <2>2, <2>3, <3>1, MarkKept
    <2>4. CASE v = 0
        <3>1. (v # 0) = FALSE
            BY <2>4
        <3>2. QED
            BY <2>1, <2>2, <2>4, <3>1, MarkGone
    <2>5. QED
        BY <2>3, <2>4
<1>2. [p \in Package |-> MarkOf(list[p])]' =
          [p \in Package |-> [best |-> packages[p], kept |-> packages[p] # 0]]
    BY <1>1
<1>3. QED
    BY <1>2 DEF Initialize, Stage, Marks!Begin

(* A delete rule marks all packages as not kept.                           *)
LEMMA DeleteAllRemoves == IInv /\ DeleteAll => Marks!RemoveAll
<1> SUFFICES ASSUME IInv, DeleteAll PROVE Marks!RemoveAll
    OBVIOUS
<1>1. ASSUME NEW p \in Package
      PROVE  MarkOf(list'[p]) = [MarkOf(list[p]) EXCEPT !.kept = FALSE]
    <2> DEFINE e == list[p]
               t == Cleared(e)
    <2>1. e \in Entry /\ list'[p] = t
        BY DEF DeleteAll, IInv, TypeOK
    <2>2. /\ t.inuse = e.inuse /\ t.new = e.new /\ (t.fromnew <=> e.fromnew)
          /\ t.deleted <=> Listed(e)
        BY <2>1, ClearedFields
    <2> HIDE DEF e, t
    <2>3. Current(t) = Current(e)
        BY <2>2 DEF Current
    <2>4. ~(Listed(t) /\ ~t.deleted)
        BY <2>2, <2>3 DEF Listed
    <2>5. MarkOf(t) = [MarkOf(e) EXCEPT !.kept = FALSE]
        BY <2>3, <2>4, MarkDeleted
    <2>6. QED
        BY <2>1, <2>5 DEF e
<1> DEFINE marks == [p \in Package |-> MarkOf(list[p])]
<1>2. \A p \in Package : marks[p] = MarkOf(list[p])
    OBVIOUS
<1>3. marks' = [p \in Package |-> [marks[p] EXCEPT !.kept = FALSE]]
    BY <1>1, <1>2
<1>4. QED
    BY <1>3 DEF DeleteAll, Stage, Marks!RemoveAll

(* An offer changes one mark as Selection allows, or none.                 *)
LEMMA OfferChooses ==
    IInv /\ Offer =>
        \/ UNCHANGED Marks!vars
        \/ \E p \in Package :
               \/ \E v \in 1..MaxVersion : Marks!Accept(p, v) \/ Marks!Supersede(p, v)
               \/ Marks!Hold(p)
<1> SUFFICES ASSUME IInv, Offer
             PROVE  \/ UNCHANGED Marks!vars
                    \/ \E p \in Package :
                           \/ \E v \in 1..MaxVersion : Marks!Accept(p, v) \/ Marks!Supersede(p, v)
                           \/ Marks!Hold(p)
    OBVIOUS
<1>0. PICK q \in Package, v \in Version : \E said, meets : TryPackage(q, v, said, meets)
    BY DEF Offer
<1>1. PICK said, meets : TryPackage(q, v, said, meets)
    BY <1>0
<1> DEFINE e == list[q]
           t == Tried(e, v, Decision(said, meets, Current(e)))
           marks == [p \in Package |-> MarkOf(list[p])]
<1>2. /\ Stage = "choosing" /\ Stage' = "choosing" /\ packages' = packages
      /\ list' = [list EXCEPT ![q] = t]
    BY <1>1 DEF TryPackage, Stage
<1>3. Sound(e) /\ list \in [Package -> Entry]
    BY DEF IInv, TypeOK
<1>4. \/ MarkOf(t) = MarkOf(e)
      \/ (MarkOf(e).kept => v > MarkOf(e).best) /\ MarkOf(t) = [best |-> v, kept |-> TRUE]
      \/ MarkOf(e).best # 0 /\ MarkOf(t) = [MarkOf(e) EXCEPT !.kept = TRUE]
      \/ (MarkOf(e).kept => v > MarkOf(e).best) /\ MarkOf(t) = [MarkOf(e) EXCEPT !.kept = FALSE]
    BY <1>3, TriedMark
<1> HIDE DEF t
<1>5. marks' = [marks EXCEPT ![q] = MarkOf(t)] /\ marks[q] = MarkOf(e)
    BY <1>2, <1>3
<1> HIDE DEF e, marks
<1>6. CASE MarkOf(t) = MarkOf(e)
    <2>1. marks' = marks
        BY <1>5, <1>6 DEF marks
    <2>2. QED
        BY <1>2, <2>1 DEF Marks!vars, marks
<1>7. CASE (MarkOf(e).kept => v > MarkOf(e).best) /\ MarkOf(t) = [best |-> v, kept |-> TRUE]
    <2>1. Marks!Accept(q, v)
        BY <1>2, <1>5, <1>7 DEF Marks!Accept, Marks!Choose, marks
    <2>2. QED
        BY <2>1 DEF Version
<1>8. CASE MarkOf(e).best # 0 /\ MarkOf(t) = [MarkOf(e) EXCEPT !.kept = TRUE]
    <2>1. Marks!Hold(q)
        BY <1>2, <1>5, <1>8 DEF Marks!Hold, Marks!Choose, marks
    <2>2. QED
        BY <2>1
<1>9. CASE /\ MarkOf(e).kept => v > MarkOf(e).best
           /\ MarkOf(t) = [MarkOf(e) EXCEPT !.kept = FALSE]
    <2>1. Marks!Supersede(q, v)
        BY <1>2, <1>5, <1>9 DEF Marks!Supersede, Marks!Choose, marks
    <2>2. QED
        BY <2>1 DEF Version
<1>10. QED
    BY <1>4, <1>6, <1>7, <1>8, <1>9

(* A round of upgradelist_install carries one mark out.                    *)
LEMMA InstallCarriesOut ==
    IInv /\ Install => UNCHANGED Marks!vars \/ \E p \in Package : Marks!CarryOut(p)
<1> SUFFICES ASSUME IInv, Install
             PROVE  UNCHANGED Marks!vars \/ \E p \in Package : Marks!CarryOut(p)
    OBVIOUS
<1> DEFINE q == Head(todo)
           e == list[q]
           marks == [p \in Package |-> MarkOf(list[p])]
<1>1. q \in Package /\ Sound(e)
    BY DEF Install, IInv, TypeOK
<1>2. /\ Stage = "acting" /\ UNCHANGED Stage /\ marks' = marks /\ marks[q] = MarkOf(e)
      /\ packages' = IF ToInstall(e) \/ ToRemove(e)
                        THEN [packages EXCEPT ![q] = Result(e)] ELSE packages
    BY <1>1 DEF Install, Stage
<1>3. ToInstall(e) => MarkOf(e).kept /\ MarkOf(e).best = Result(e)
    BY <1>1, MarkFields DEF ToInstall, Current, Listed, Result, Sound
<1>4. ToRemove(e) => ~MarkOf(e).kept /\ Result(e) = 0
    BY <1>1, MarkFields DEF ToRemove, ToInstall, Result
<1> HIDE DEF q, e, marks
<1>5. CASE ToInstall(e) \/ ToRemove(e)
    <2>1. Result(e) = IF marks[q].kept THEN marks[q].best ELSE 0
        BY <1>2, <1>3, <1>4, <1>5
    <2>2. Marks!CarryOut(q)
        BY <1>2, <1>5, <2>1 DEF Marks!CarryOut, marks
    <2>3. QED
        BY <1>1, <2>2
<1>6. CASE ~(ToInstall(e) \/ ToRemove(e))
    BY <1>2, <1>6 DEF Marks!vars, marks
<1>7. QED
    BY <1>5, <1>6

(* A round of upgradelist_predelete removes what has to make room.         *)
LEMMA PredeleteMakesRoom ==
    IInv /\ Predelete => UNCHANGED Marks!vars \/ \E p \in Package : Marks!MakeRoom(p)
<1> SUFFICES ASSUME IInv, Predelete
             PROVE  UNCHANGED Marks!vars \/ \E p \in Package : Marks!MakeRoom(p)
    OBVIOUS
<1> DEFINE q == Head(todo)
           e == list[q]
           marks == [p \in Package |-> MarkOf(list[p])]
<1>1. q \in Package /\ Sound(e)
    BY DEF Predelete, IInv, TypeOK
<1>2. packages[q] \in {e.inuse, 0}
    BY <1>1 DEF Predelete, IInv, InStep
<1>3. /\ Stage = "clearing" /\ UNCHANGED Stage /\ marks' = marks /\ marks[q] = MarkOf(e)
      /\ packages' = IF ToPredelete(e) THEN [packages EXCEPT ![q] = 0] ELSE packages
    BY <1>1 DEF Predelete, Stage
<1>4. ToPredelete(e) => packages[q] # MarkOf(e).best \/ ~MarkOf(e).kept
    BY <1>1, <1>2, MarkFields DEF ToPredelete, Current, Sound
<1> HIDE DEF q, e, marks
<1>5. CASE ToPredelete(e)
    <2>1. Marks!MakeRoom(q)
        BY <1>3, <1>4, <1>5 DEF Marks!MakeRoom, marks
    <2>2. QED
        BY <1>1, <2>1
<1>6. CASE ~ToPredelete(e)
    BY <1>3, <1>6 DEF Marks!vars, marks
<1>7. QED
    BY <1>5, <1>6

(* Freeing the list forgets the marks.                                     *)
LEMMA FreeGivesUp == Free => Marks!GiveUp
<1> SUFFICES ASSUME Free PROVE Marks!GiveUp
    OBVIOUS
<1>1. ~Unlisted.deleted /\ Current(Unlisted) = 0 /\ ~Listed(Unlisted)
    BY DEF Unlisted, Current, Listed
<1>2. MarkOf(Unlisted) = [best |-> 0, kept |-> FALSE]
    BY <1>1, MarkGone
<1>3. \A p \in Package : list'[p] = Unlisted
    BY DEF Free, Empty
<1>4. [p \in Package |-> MarkOf(list[p])]' = [p \in Package |-> Marks!Unmarked]
    BY <1>2, <1>3 DEF Marks!Unmarked
<1>5. QED
    BY <1>4 DEF Free, Stage, Marks!GiveUp

(* Every step of the list is one of Selection or changes no mark.          *)
LEMMA ImplementsNext == IInv /\ [Next]_vars => [Marks!Next]_(Marks!vars)
<1>1. ASSUME UNCHANGED vars PROVE UNCHANGED Marks!vars
    BY <1>1 DEF vars, Stage, Marks!vars
<1>2. Enqueue => Marks!Decided
    BY DEF Enqueue, Stage, Marks!Decided
<1>3. QED
    BY <1>1, <1>2, InitializeBegins, DeleteAllRemoves, OfferChooses, InstallCarriesOut,
       PredeleteMakesRoom, FreeGivesUp DEF Next, Marks!Next

(* The three versions, the pointers that may be the same and the flag of   *)
(* struct package_data amount to one mark per package, and what is         *)
(* installed and removed is what the marks say, for any number of rules,   *)
(* packages and versions.                                                  *)
THEOREM ImplementsSelection == Spec => Selects
<1>1. Init => Marks!Init
    BY ImplementsInit
<1>2. IInv /\ [Next]_vars => [Marks!Next]_(Marks!vars)
    BY ImplementsNext
<1>3. QED
    BY <1>1, <1>2, InvariantHolds, PTL DEF Spec, Selects, Marks!Spec

=============================================================================
