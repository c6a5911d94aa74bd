---------------------------- MODULE UpdatesProofs ----------------------------
(***************************************************************************)
(* Proofs about Updates, for any distributions, rules, contents of the     *)
(* indices and failures: the lines written down say what was processed,    *)
(* and --onlysmalldeletes keeps its word.                                  *)
(*                                                                         *)
(* The list of a target is the rules of its Update: or Pull: line applied  *)
(* one after the other, a recursive function; what holds of it is shown by *)
(* induction over the rules, as the impossibility of a first one where it  *)
(* would fail.                                                             *)
(***************************************************************************)
EXTENDS Updates, TLAPS, FiniteSetTheorems, WellFoundedInduction

---------------------------------------------------------------------------
(* Induction over the rules *)

(* A set of numbers has a least one. *)
LEMMA LeastNumber ==
    ASSUME NEW S \in SUBSET Nat, S # {}
    PROVE  \E n \in S : \A m \in S : n <= m
<1>1. PICK n \in S : \A m \in S : ~(<<m, n>> \in OpToRel(<, Nat))
    BY NatLessThanWellFounded, WFMin
<1>2. \A m \in S : ~(m < n)
    BY <1>1, Zenon DEF OpToRel
<1> QED
    BY <1>2

(* searchformissing: there is a list after each of the rules, made of *)
(* the one before.                                                    *)
LEMMA ListForSteps ==
    ASSUME NEW t, NEW rules, Len(rules) \in Nat
    PROVE  \E g : /\ g = [n \in 0..Len(rules) |->
                            IF n = 0 THEN [p \in Package |-> InUse(packages[t][p])]
                            ELSE Processed(g[n - 1], rules[n])]
                  /\ ListFor(t, rules) = g[Len(rules)]
<1> DEFINE Base == [p \in Package |-> InUse(packages[t][p])]
<1> DEFINE Good(g, k) == g = [n \in 0..k |-> IF n = 0 THEN Base ELSE Processed(g[n - 1], rules[n])]
<1> DEFINE Bad == {k \in Nat : ~\E g : Good(g, k)}
<1> DEFINE after[n \in 0..Len(rules)] == IF n = 0 THEN Base ELSE Processed(after[n - 1], rules[n])
<1>1. ASSUME Bad # {} PROVE FALSE
    <2>1. PICK k \in Bad : \A m \in Bad : k <= m
      <3> HIDE DEF Good
      <3> QED BY <1>1, LeastNumber
    <2>2. CASE k = 0
      <3>1. Good([n \in 0..0 |-> Base], 0)
        OBVIOUS
      <3> HIDE DEF Good
      <3> QED BY <2>2, <3>1
    <2>3. CASE k # 0
      <3>1. PICK g : Good(g, k - 1)
        <4> HIDE DEF Good
        <4> QED BY <2>1, <2>3
      <3> DEFINE h == [n \in 0..k |-> IF n = k THEN Processed(g[k - 1], rules[k]) ELSE g[n]]
      <3>2. k \in Nat \ {0}
        BY <2>3
      <3>3. Good(h, k)
        <4>1. SUFFICES ASSUME NEW n \in 0..k
                       PROVE  h[n] = IF n = 0 THEN Base ELSE Processed(h[n - 1], rules[n])
          OBVIOUS
        <4> HIDE DEF Base
        <4>2. CASE n = k
          BY <3>2, <4>2
        <4>3. CASE n # k
          BY <3>1, <3>2, <4>3
        <4> QED BY <4>2, <4>3
      <3> HIDE DEF Good, h
      <3> QED BY <3>3
    <2> QED BY <2>2, <2>3
<1>2. \E g : Good(g, Len(rules))
    <2> HIDE DEF Good
    <2> QED BY <1>1
<1>3. Good(after, Len(rules))
    <2> HIDE DEF Base
    <2> QED BY <1>2, Zenon
<1>4. ListFor(t, rules) = after[Len(rules)]
    BY DEF ListFor
<1> HIDE DEF after
<1> QED BY <1>3, <1>4

-----------------------------------------------------------------------------
(* The lists                                                               *)

USE UpgradeAssumption, UpdatesAssumption

(* A candidate is a version, not the NULL pointer. *)
RealEntry == {e \in Entry : /\ e.inuse \in Version /\ e.new \in Version
                            /\ e.fromnew => e.new # 0}

RealList == [Package -> RealEntry]

(* The versions are numbers, and what an index offers is one of them. *)
LEMMA Versions ==
    /\ Version \subseteq Nat /\ 0 \in Version
    /\ \A s \in Snapshots, p \in Package : s[p] \in Version
BY DEF Version

(* The cursor over a target meets every package, after finitely many *)
(* steps.                                                            *)
LEMMA PackagesListed ==
    /\ Package = {Packages[i] : i \in 1..Len(Packages)}
    /\ Len(Packages) \in Nat
BY DEF ToSet

(* upgradelist_trypackage keeps a record in order and the version in use *)
(* as it was, whatever the decision.                                     *)
LEMMA TriedIsReal ==
    ASSUME NEW e \in RealEntry, NEW v \in Version \ {0}, NEW d
    PROVE  Tried(e, v, d) \in RealEntry /\ Tried(e, v, d).inuse = e.inuse
<1> v \in Nat /\ v # 0
    BY Versions
<1>1. Noticed(e, v) \in RealEntry /\ Noticed(e, v).inuse = e.inuse
    BY DEF Noticed, RealEntry, Entry
<1>2. Kept(e, v) \in RealEntry /\ Kept(e, v).inuse = e.inuse
    BY DEF Kept, RealEntry, Entry
<1>3. Entered(e, v) \in RealEntry /\ Entered(e, v).inuse = e.inuse
    BY DEF Entered, RealEntry, Entry
<1>4. \A g \in BOOLEAN : LET f == [e EXCEPT !.deleted = g]
                         IN  f \in RealEntry /\ f.inuse = e.inuse
    BY DEF RealEntry, Entry
<1>5. Listed(e) \in BOOLEAN
    BY DEF Listed
<1> QED
    BY <1>1, <1>2, <1>3, <1>4, <1>5 DEF Tried

(* So does upgradelist_deleteall. *)
LEMMA ClearedIsReal ==
    ASSUME NEW e \in RealEntry
    PROVE  Cleared(e) \in RealEntry /\ Cleared(e).inuse = e.inuse
BY DEF Cleared, RealEntry, Entry, Listed

(* A rule keeps a list in order and the versions in use as they were. *)
LEMMA ProcessedIsReal ==
    ASSUME TypeOK, NEW list \in RealList, NEW rule \in Rule(Index) \cup Rule(Target)
    PROVE  /\ Processed(list, rule) \in RealList
           /\ \A p \in Package : Processed(list, rule)[p].inuse = list[p].inuse
<1>1. SUFFICES ASSUME NEW p \in Package
               PROVE  /\ Processed(list, rule)[p] \in RealEntry
                      /\ Processed(list, rule)[p].inuse = list[p].inuse
    BY DEF Processed, RealList
<1>2. list[p] \in RealEntry
    BY DEF RealList
<1>3. CASE rule.from = Delete
    BY <1>2, <1>3, ClearedIsReal DEF Processed
<1>4. CASE rule.from # Delete
    <2>1. rule.from \in Index \cup Target
      BY <1>4 DEF Rule
    <2>2. Offered(rule.from, p) \in Version
      BY <2>1, Versions DEF Offered, TypeOK
    <2>3. CASE Offered(rule.from, p) = 0
      BY <1>2, <1>4, <2>3 DEF Processed
    <2>4. CASE Offered(rule.from, p) # 0
      <3> DEFINE v == Offered(rule.from, p)
                 d == Decision(<<rule.action, "unchanged", "unchanged">>, TRUE, Current(list[p]))
      <3>1. Processed(list, rule)[p] = Tried(list[p], v, d)
        BY <1>4, <2>4 DEF Processed
      <3> HIDE DEF v, d
      <3>2. v \in Version \ {0}
        BY <2>2, <2>4 DEF v
      <3> QED
        BY <3>1, <3>2, <1>2, TriedIsReal
    <2> QED
      BY <2>3, <2>4
<1> QED
    BY <1>3, <1>4

(* So do all rules: the list of a target knows what the target has. *)
LEMMA ListForIsReal ==
    ASSUME TypeOK, NEW t \in Target,
           NEW rules \in Seq(Rule(Index)) \cup Seq(Rule(Target))
    PROVE  /\ ListFor(t, rules) \in RealList
           /\ \A p \in Package : ListFor(t, rules)[p].inuse = packages[t][p]
<1>1. Len(rules) \in Nat /\ \A n \in 1..Len(rules) : rules[n] \in Rule(Index) \cup Rule(Target)
    OBVIOUS
<1> DEFINE Base == [p \in Package |-> InUse(packages[t][p])]
<1>2. PICK g : /\ g = [n \in 0..Len(rules) |-> IF n = 0 THEN Base ELSE Processed(g[n - 1], rules[n])]
               /\ ListFor(t, rules) = g[Len(rules)]
    BY <1>1, ListForSteps, Zenon
<1> DEFINE Fine(list) == list \in RealList /\ \A p \in Package : list[p].inuse = packages[t][p]
<1> DEFINE Bad == {n \in 0..Len(rules) : ~Fine(g[n])}
<1>3. ASSUME Bad # {} PROVE FALSE
    <2>1. Bad \in SUBSET Nat
      OBVIOUS
    <2>2. PICK n \in Bad : \A m \in Bad : n <= m
      <3> HIDE DEF Bad
      <3> QED BY <1>3, <2>1, LeastNumber
    <2>3. n \in 0..Len(rules) /\ ~Fine(g[n])
      BY <2>2
    <2>4. CASE n = 0
      <3>1. g[0] = Base
        <4> HIDE DEF Base
        <4> QED BY <1>1, <1>2
      <3>2. \A p \in Package : InUse(packages[t][p]) \in RealEntry
                               /\ InUse(packages[t][p]).inuse = packages[t][p]
        <4>1. SUFFICES ASSUME NEW p \in Package
                       PROVE  /\ InUse(packages[t][p]) \in RealEntry
                              /\ InUse(packages[t][p]).inuse = packages[t][p]
          OBVIOUS
        <4>2. packages[t][p] \in Version
          BY DEF TypeOK
        <4>3. packages[t][p] \in Nat /\ 0 \in Version
          BY <4>2, Versions
        <4> QED BY <4>2, <4>3 DEF InUse, RealEntry, Entry
      <3>3. Fine(Base)
        BY <3>2 DEF RealList
      <3> QED
        BY <2>3, <2>4, <3>1, <3>3, Zenon
    <2>5. CASE n # 0
      <3>1. n - 1 \in 0..Len(rules) /\ n \in 1..Len(rules) /\ n - 1 \notin Bad
        BY <1>1, <2>2, <2>3, <2>5
      <3>2. Fine(g[n - 1])
        BY <3>1
      <3>3. g[n] = Processed(g[n - 1], rules[n])
        <4> HIDE DEF Base
        <4>1. n \in 0..Len(rules) /\ n # 0
          BY <2>3, <2>5
        <4>2. g[n] = IF n = 0 THEN Base ELSE Processed(g[n - 1], rules[n])
          BY <1>2, <4>1, Zenon
        <4> QED BY <4>1, <4>2, Zenon
      <3>4. g[n - 1] \in RealList /\ rules[n] \in Rule(Index) \cup Rule(Target)
        BY <1>1, <3>1, <3>2
      <3>5. Fine(Processed(g[n - 1], rules[n]))
        <4> DEFINE list == g[n - 1]
        <4>1. /\ Processed(list, rules[n]) \in RealList
              /\ \A p \in Package : Processed(list, rules[n])[p].inuse = list[p].inuse
          <5> HIDE DEF list
          <5>1. list \in RealList
            BY <3>4 DEF list
          <5> QED BY <5>1, <3>4, ProcessedIsReal
        <4> QED BY <4>1, <3>2
      <3> QED
        BY <2>3, <3>3, <3>5, Zenon
    <2> QED
      BY <2>4, <2>5
<1>4. Fine(g[Len(rules)])
    <2>1. Len(rules) \in 0..Len(rules)
      BY <1>1
    <2>2. Len(rules) \notin Bad
      <3> HIDE DEF Bad
      <3> QED BY <1>3
    <2> HIDE DEF Fine
    <2> QED BY <2>1, <2>2
<1> QED
    BY <1>2, <1>4, Zenon
-----------------------------------------------------------------------------
(* The inductive invariant                                                 *)

(* The targets a command reads and changes *)
Chosen == {t \in selected \ nothingnew : DistributionOf(t) \notin omitted}

(* No command runs. *)
Quiet ==
    pc = "idle" =>
        /\ small = FALSE /\ selected = {} /\ nothingnew = {} /\ omitted = {}
        /\ todo = {} /\ incomplete = {} /\ done = {}
        /\ before = packages

(* Only the lists of targets that were read are installed. *)
Queued == pc \in {"install", "pull", "predelete"} => todo \subseteq Chosen

(* The lists are of the packages there were when they were read, *)
(* and their candidates are versions.                            *)
ListsTrue ==
    /\ lists \in [Target -> RealList]
    /\ pc # "idle" => \A t \in Target :
          IF t \in Chosen THEN \A p \in Package : lists[t][p].inuse = before[t][p]
                          ELSE lists[t] = NoList

(* Each package is still what it was, or what the list made of it. *)
Halfway ==
    pc # "predelete" => \A t \in Target, p \in Package :
        \/ packages[t][p] = before[t][p]
        \/ t \in Chosen /\ packages[t][p] = Result(lists[t][p])

(* With --onlysmalldeletes no list deletes too much. *)
SmallOnly == small /\ pc # "predelete" => \A t \in Target : ~IsBigDelete(lists[t])

(* What is written down of a target has a line for each rule. *)
LineForEach ==
    \A t \in Target : lastseen[t] = NoLines \/ Len(lastseen[t]) = Len(Updates[t])

(* What a running update skips or is through with was processed with *)
(* the indices as they are.                                          *)
Fresh ==
    pc \in {"download", "install", "mark"} =>
        /\ \A t \in nothingnew \ passedover : LinesOf(t) \in {NoLines} \cup processed[t]
        /\ \A t \in done : LinesOf(t) \in processed[t]

IInv ==
    /\ TypeOK /\ Quiet /\ Queued /\ ListsTrue /\ Halfway /\ SmallOnly
    /\ LineForEach /\ Fresh /\ SkippedWereProcessed

-----------------------------------------------------------------------------

(* A target is one of its distribution. *)
LEMMA DistributionOfTarget ==
    ASSUME NEW t \in Target
    PROVE  DistributionOf(t) \in Distribution /\ t \in ToSet(TargetsOf[DistributionOf(t)])
<1>1. \E d \in Distribution : t \in ToSet(TargetsOf[d])
    BY DEF Target
<1> QED
    BY <1>1 DEF DistributionOf

(* A target that was not read has an empty list, which deletes nothing. *)
LEMMA NoListIsReal ==
    /\ NoList \in RealList
    /\ \A p \in Package : NoList[p].inuse = 0 /\ ~NoList[p].deleted
    /\ ~IsBigDelete(NoList)
<1>1. Unlisted \in RealEntry
    BY Versions DEF Unlisted, RealEntry, Entry
<1>2. \A p \in Package : NoList[p].inuse = 0 /\ ~NoList[p].deleted
    BY DEF NoList, Unlisted
<1>3. {p \in {q \in Package : NoList[q].inuse # 0} : NoList[p].deleted} = {}
    BY <1>2
<1>4. ~(Cardinality({}) >= BigCount)
    BY FS_EmptySet
<1> QED
    BY <1>1, <1>2, <1>3, <1>4, Zenon DEF NoList, RealList, IsBigDelete

(* The lists with real candidates are lists. *)
LEMMA RealListIsList == RealList \subseteq List
BY DEF RealList, List, RealEntry

(* The targets ts have been read, in a command with or without *)
(* --onlysmalldeletes.                                         *)
HaveRead(ts, onlysmall) ==
    /\ omitted' \subseteq Distribution
    /\ lists' \in [Target -> RealList]
    /\ \A t \in Target :
         IF t \in ts /\ DistributionOf(t) \notin omitted'
         THEN \A p \in Package : lists'[t][p].inuse = packages[t][p]
         ELSE lists'[t] = NoList
    /\ onlysmall => \A t \in Target : ~IsBigDelete(lists'[t])
    /\ ~onlysmall => omitted' = {}

(* updates_calculate_indices and pull_update: the targets read get lists *)
(* of what they have, those left out none, and with --onlysmalldeletes   *)
(* no list that is kept deletes too much.                                *)
LEMMA ReadLists ==
    ASSUME TypeOK
    PROVE  \A ts \in SUBSET Target, Rules \in {Updates, Pulls} : \A onlysmall :
               Read(ts, Rules, onlysmall) => HaveRead(ts, onlysmall)
<1> SUFFICES ASSUME NEW ts \in SUBSET Target, NEW Rules \in {Updates, Pulls}, NEW onlysmall,
                    Read(ts, Rules, onlysmall)
             PROVE  HaveRead(ts, onlysmall)
    OBVIOUS
<1> DEFINE all == [t \in Target |-> IF t \in ts THEN ListFor(t, Rules[t]) ELSE NoList]
<1>1. /\ omitted' = {d \in Distribution : onlysmall /\ TooBig(d, all)}
      /\ lists' = [t \in Target |-> IF DistributionOf(t) \in omitted' THEN NoList ELSE all[t]]
    BY Zenon DEF Read
<1>2. ASSUME NEW t \in Target
      PROVE  /\ all[t] \in RealList
             /\ IF t \in ts THEN \A p \in Package : all[t][p].inuse = packages[t][p]
                            ELSE all[t] = NoList
    <2>1. Rules[t] \in Seq(Rule(Index)) \cup Seq(Rule(Target))
      OBVIOUS
    <2> QED
      BY <2>1, ListForIsReal, NoListIsReal
<1>3. ASSUME NEW t \in Target, onlysmall
      PROVE  ~IsBigDelete(lists'[t])
    <2>1. CASE DistributionOf(t) \in omitted'
      <3> HIDE DEF all
      <3> QED BY <1>1, <2>1, NoListIsReal
    <2>2. CASE DistributionOf(t) \notin omitted'
      <3> HIDE DEF all
      <3>1. ~TooBig(DistributionOf(t), all)
        BY <1>1, <1>3, <2>2, DistributionOfTarget
      <3>2. ~IsBigDelete(all[t])
        BY <3>1, DistributionOfTarget DEF TooBig
      <3> QED
        BY <1>1, <2>2, <3>2
    <2> QED
      BY <2>1, <2>2
<1> HIDE DEF all
<1> QED
    BY <1>1, <1>2, <1>3, NoListIsReal DEF HaveRead

(* A failure is counted. *)
LEMMA FaultType == ASSUME TypeOK, Fault PROVE faults' \in 0..MaxFaults
BY DEF TypeOK, Fault

(* A list installs versions there are. *)
LEMMA ResultIsVersion ==
    ASSUME NEW e \in RealEntry
    PROVE  Result(e) \in Version /\ e.inuse \in Version
BY Versions DEF Result, RealEntry

(* What a target is like after the first n packages were worked off *)
LEMMA WorkedOffType ==
    ASSUME TypeOK, NEW t \in Target, NEW n, NEW after \in [Package -> Version],
           packages' = WorkedOff(t, n, after)
    PROVE  /\ packages' \in [Target -> [Package -> Version]]
           /\ \A u \in Target, p \in Package :
                 packages'[u][p] = packages[u][p] \/ (u = t /\ packages'[u][p] = after[p])
<1> DEFINE new == [p \in Package |-> IF \E i \in 1..n : Packages[i] = p THEN after[p] ELSE packages[t][p]]
<1>1. packages' = [packages EXCEPT ![t] = new]
    BY DEF WorkedOff
<1>2. new \in [Package -> Version] /\ \A p \in Package : new[p] \in {packages[t][p], after[p]}
    BY DEF TypeOK
<1> HIDE DEF new
<1> QED
    BY <1>1, <1>2 DEF TypeOK

(* The invariant holds of an archive without packages. *)
LEMMA Initially == Init => IInv
<1> SUFFICES ASSUME Init PROVE IInv
    OBVIOUS
<1>1. TypeOK
    <2>1. packages \in [Target -> [Package -> Version]] /\ before \in [Target -> [Package -> Version]]
      BY Versions DEF Init
    <2>2. <<>> \in Seq(Line) /\ lastseen \in [Target -> Seq(Line)]
      BY DEF Init, NoLines
    <2>3. lists \in [Target -> List]
      BY NoListIsReal, RealListIsList DEF Init
    <2>4. changes \in 0..MaxChanges /\ faults \in 0..MaxFaults
      BY DEF Init
    <2> QED
      BY <2>1, <2>2, <2>3, <2>4 DEF Init, TypeOK
<1>2. Quiet /\ Queued /\ Halfway /\ SmallOnly /\ LineForEach /\ Fresh /\ SkippedWereProcessed
    BY DEF Init, Quiet, Queued, Halfway, SmallOnly, LineForEach, Fresh, SkippedWereProcessed
<1>3. ListsTrue
    BY NoListIsReal DEF Init, ListsTrue
<1> QED
    BY <1>1, <1>2, <1>3 DEF IInv

-----------------------------------------------------------------------------
(* The end of a command, and what goes on                                  *)

(* The end of a command keeps the invariant if the packages and the *)
(* lines written down stay in order.                                *)
LEMMA QuitKeeps ==
    ASSUME IInv, Quit,
           packages' \in [Target -> [Package -> Version]],
           remote' = remote, changes' = changes, faults' \in 0..MaxFaults,
           lastseen' \in [Target -> Seq(Line)],
           processed' \in [Target -> SUBSET Seq(Line)],
           passedover' \in SUBSET Target,
           LineForEach', SkippedWereProcessed'
    PROVE  IInv'
<1>1. lists' \in [Target -> RealList]
    BY NoListIsReal DEF Quit
<1>2. TypeOK'
    BY <1>1, RealListIsList DEF Quit, IInv, TypeOK
<1>3. Quiet' /\ Queued' /\ Fresh'
    BY DEF Quit, Quiet, Queued, Fresh
<1>4. ListsTrue'
    BY <1>1 DEF Quit, ListsTrue
<1>5. Halfway' /\ SmallOnly'
    BY DEF Quit, Halfway, SmallOnly
<1> QED
    BY <1>2, <1>3, <1>4, <1>5 DEF IInv

(* The command goes on with the same lists. *)
SameRun == UNCHANGED <<remote, changes, small, selected, nothingnew, omitted, lists, before>>

(* A step that goes on with the lists it has, and changes packages as *)
(* they say, keeps what the invariant says of the lists.              *)
LEMMA SameRunFacts ==
    ASSUME IInv, SameRun, pc # "idle", pc' # "idle",
           pc' \in {"download", "install", "pull", "predelete", "mark"},
           (pc = "predelete") <=> (pc' = "predelete"),
           packages' \in [Target -> [Package -> Version]],
           faults' \in 0..MaxFaults,
           lastseen' \in [Target -> Seq(Line)],
           processed' \in [Target -> SUBSET Seq(Line)],
           passedover' \in SUBSET Target, done' \in SUBSET Target,
           incomplete' \in SUBSET selected,
           todo' \subseteq IF pc' = "mark" THEN Distribution ELSE Target,
           pc # "predelete" => \A t \in Target, p \in Package :
               \/ packages'[t][p] = packages[t][p]
               \/ t \in Chosen /\ packages'[t][p] = Result(lists[t][p])
    PROVE  /\ TypeOK' /\ Quiet' /\ ListsTrue' /\ Halfway' /\ SmallOnly'
           /\ Chosen' = Chosen
           /\ \A t : LinesOf(t)' = LinesOf(t)
<1>1. Chosen' = Chosen /\ \A t : LinesOf(t)' = LinesOf(t)
    BY DEF SameRun, Chosen, LinesOf
<1>2. TypeOK'
    BY DEF SameRun, IInv, TypeOK
<1>3. Quiet'
    BY DEF Quiet
<1>4. ListsTrue'
    BY <1>1 DEF SameRun, IInv, ListsTrue
<1>5. Halfway'
    BY <1>1 DEF SameRun, IInv, Halfway
<1>6. SmallOnly'
    BY DEF SameRun, IInv, SmallOnly
<1> QED
    BY <1>1, <1>2, <1>3, <1>4, <1>5, <1>6

(* Only the marks touch the lines written down. *)
LEMMA LinesKept ==
    ASSUME IInv, lastseen' = lastseen, passedover' = passedover,
           \A t \in Target : processed[t] \subseteq processed'[t]
    PROVE  LineForEach' /\ SkippedWereProcessed'
BY DEF IInv, LineForEach, SkippedWereProcessed

(* A function over 1..n is a sequence. *)
LEMMA IsASeq == ASSUME NEW n \in Nat, NEW S, NEW f \in [1..n -> S] PROVE f \in Seq(S)
OBVIOUS

(* A target has a line for each of its rules. *)
LEMMA LinesType ==
    ASSUME TypeOK, NEW t \in Target
    PROVE  /\ LinesOf(t) \in Seq(Line)
           /\ Len(LinesOf(t)) = Len(Updates[t])
           /\ Updates[t] = <<>> => LinesOf(t) = NoLines
<1>1. Updates[t] \in Seq(Rule(Index)) /\ Len(Updates[t]) \in Nat
    OBVIOUS
<1>2. ASSUME NEW i \in 1..Len(Updates[t])
      PROVE  LinesOf(t)[i] \in Line
    <2>1. Updates[t][i] \in Rule(Index)
      BY <1>1
    <2>2. Updates[t][i].from \in Index \cup {Delete}
      BY <2>1 DEF Rule
    <2> QED
      BY <2>2, <1>1 DEF LinesOf, Line, TypeOK
<1>3. LinesOf(t) = [i \in 1..Len(Updates[t]) |-> LinesOf(t)[i]]
    BY <1>1 DEF LinesOf
<1>4. LinesOf(t) \in [1..Len(Updates[t]) -> Line]
    BY <1>2, <1>3
<1>5. Len(LinesOf(t)) = Len(Updates[t])
    BY <1>1, <1>3
<1>6. Updates[t] = <<>> => LinesOf(t) = <<>>
    BY <1>1 DEF LinesOf
<1>7. LinesOf(t) \in Seq(Line)
    <2> DEFINE n == Len(Updates[t])
    <2>1. n \in Nat /\ LinesOf(t) \in [1..n -> Line]
      BY <1>1, <1>4
    <2> HIDE DEF n
    <2> QED BY <2>1, IsASeq
<1> QED
    BY <1>5, <1>6, <1>7 DEF NoLines

(* Another content of an index, between two commands, keeps the *)
(* invariant.                                                   *)
LEMMA RemoteChangesKeeps == ASSUME IInv, RemoteChanges PROVE IInv'
<1>1. remote' \in [Index -> Snapshots] /\ changes' \in 0..MaxChanges
    BY DEF IInv, TypeOK, RemoteChanges
<1>2. TypeOK'
    BY <1>1 DEF IInv, TypeOK, RemoteChanges, process, history
<1>3. Quiet' /\ Queued'
    BY DEF IInv, Quiet, Queued, RemoteChanges, process, history
<1>4. ListsTrue' /\ Fresh'
    BY DEF IInv, ListsTrue, Fresh, RemoteChanges, process, history
<1>5. Halfway'
    BY DEF IInv, Halfway, Quiet, RemoteChanges, process, history
<1>6. SmallOnly'
    BY DEF IInv, SmallOnly, RemoteChanges, process, history
<1>7. LineForEach' /\ SkippedWereProcessed'
    BY LinesKept DEF RemoteChanges, process, history
<1> QED
    BY <1>2, <1>3, <1>4, <1>5, <1>6, <1>7 DEF IInv

(* The death of the process keeps the invariant. *)
LEMMA CrashKeeps == ASSUME IInv, Crash PROVE IInv'
<1>1. LineForEach' /\ SkippedWereProcessed' /\ faults' \in 0..MaxFaults
    BY LinesKept, FaultType DEF Crash, IInv
<1> QED
    BY <1>1, QuitKeeps DEF Crash, IInv, TypeOK

(* A failed download keeps the invariant. *)
LEMMA GiveUpKeeps == ASSUME IInv, GiveUp PROVE IInv'
<1>1. LineForEach' /\ SkippedWereProcessed' /\ faults' \in 0..MaxFaults
    BY LinesKept, FaultType DEF GiveUp, IInv
<1> QED
    BY <1>1, QuitKeeps DEF GiveUp, IInv, TypeOK

(* A finished download keeps the invariant. *)
LEMMA DownloadKeeps == ASSUME IInv, Download PROVE IInv'
<1>1. /\ SameRun /\ pc = "download" /\ pc' = "install" /\ todo' = Chosen
      /\ UNCHANGED <<packages, lastseen, incomplete, bounds, history>>
    BY DEF Download, SameRun, Chosen, bounds, history
<1>2. LineForEach' /\ SkippedWereProcessed'
    BY <1>1, LinesKept DEF history
<1>3. Chosen \subseteq Target
    BY DEF Chosen, IInv, TypeOK
<1>4. /\ TypeOK' /\ Quiet' /\ ListsTrue' /\ Halfway' /\ SmallOnly'
      /\ Chosen' = Chosen /\ \A t : LinesOf(t)' = LinesOf(t)
    <2>1. /\ packages' = packages /\ faults' = faults /\ lastseen' = lastseen
          /\ processed' = processed /\ passedover' = passedover /\ done' = done
          /\ incomplete' = incomplete
      BY <1>1 DEF bounds, history
    <2> QED
      BY <1>1, <1>3, <2>1, SameRunFacts DEF IInv, TypeOK
<1>5. Queued' /\ Fresh'
    BY <1>1, <1>4 DEF Queued, Fresh, IInv, history, SameRun
<1> QED
    BY <1>2, <1>4, <1>5 DEF IInv

-----------------------------------------------------------------------------
(* Installing                                                              *)

(* After a failure or the last target the indices are marked, or that was it. *)
LEMMA LeaveKeeps ==
    ASSUME IInv, pc \in {"install", "pull"},
           NEW t \in todo, NEW failed \in SUBSET {t}, Leave(failed),
           packages' \in [Target -> [Package -> Version]],
           \A u \in Target, p \in Package :
               \/ packages'[u][p] = packages[u][p]
               \/ u \in Chosen /\ packages'[u][p] = Result(lists[u][p]),
           UNCHANGED <<remote, lastseen, changes, passedover>>,
           faults' \in 0..MaxFaults,
           processed' \in [Target -> SUBSET Seq(Line)],
           \A u \in Target : processed[u] \subseteq processed'[u],
           pc' # "idle" => \/ done' = done
                           \/ done' = done \cup {t} /\ LinesOf(t) \in processed'[t]
    PROVE  IInv'
<1>1. LineForEach' /\ SkippedWereProcessed'
    BY LinesKept
<1>2. lastseen' \in [Target -> Seq(Line)] /\ passedover' \in SUBSET Target
    BY DEF IInv, TypeOK
<1>3. CASE Quit
    BY <1>1, <1>2, <1>3, QuitKeeps
<1>4. CASE ~Quit
    <2>1. /\ pc = "install" /\ pc' = "mark"
          /\ todo' = Marking(selected, omitted)
          /\ incomplete' = incomplete \cup failed
          /\ UNCHANGED <<small, selected, nothingnew, omitted, lists, before>>
      BY <1>4 DEF Leave
    <2>2. t \in Chosen /\ t \in selected /\ t \in Target
      BY <2>1 DEF IInv, Queued, Chosen, TypeOK
    <2>3. done' \in SUBSET Target /\ incomplete' \in SUBSET selected /\ todo' \subseteq Distribution
      BY <2>1, <2>2 DEF IInv, TypeOK, Marking
    <2>4. /\ TypeOK' /\ Quiet' /\ ListsTrue' /\ Halfway' /\ SmallOnly'
          /\ Chosen' = Chosen /\ \A u : LinesOf(u)' = LinesOf(u)
      BY <1>2, <2>1, <2>3, SameRunFacts DEF SameRun
    <2>5. Queued'
      BY <2>1 DEF Queued
    <2>6. Fresh'
      <3>1. ASSUME NEW u \in done' PROVE LinesOf(u)' \in processed'[u]
        <4>1. u \in Target
          BY <2>3
        <4>2. u \in done => LinesOf(u) \in processed[u]
          BY <2>1 DEF IInv, Fresh
        <4> QED
          BY <2>1, <2>4, <4>1, <4>2
      <3>2. ASSUME NEW u \in nothingnew' \ passedover'
            PROVE  LinesOf(u)' \in {NoLines} \cup processed'[u]
        <4>1. u \in Target
          BY <2>1 DEF IInv, TypeOK
        <4>2. LinesOf(u) \in {NoLines} \cup processed[u]
          BY <2>1 DEF IInv, Fresh
        <4> QED
          BY <2>4, <4>1, <4>2
      <3> QED
        BY <3>1, <3>2 DEF Fresh
    <2> QED
      BY <1>1, <2>4, <2>5, <2>6 DEF IInv
<1> QED
    BY <1>3, <1>4

(* On to the next target *)
LEMMA NextTargetKeeps ==
    ASSUME IInv, pc \in {"install", "pull"},
           NEW t \in todo, todo' = todo \ {t},
           UNCHANGED <<pc, small, selected, nothingnew, omitted, lists, incomplete, before>>,
           packages' \in [Target -> [Package -> Version]],
           \A u \in Target, p \in Package :
               \/ packages'[u][p] = packages[u][p]
               \/ u \in Chosen /\ packages'[u][p] = Result(lists[u][p]),
           UNCHANGED <<remote, lastseen, changes, passedover>>,
           faults' \in 0..MaxFaults,
           processed' \in [Target -> SUBSET Seq(Line)],
           \A u \in Target : processed[u] \subseteq processed'[u],
           done' = done \cup {t}, pc = "install" => LinesOf(t) \in processed'[t]
    PROVE  IInv'
<1>1. LineForEach' /\ SkippedWereProcessed'
    BY LinesKept
<1>2. lastseen' \in [Target -> Seq(Line)] /\ passedover' \in SUBSET Target
    BY DEF IInv, TypeOK
<1>3. t \in Target /\ todo \subseteq Target
    BY DEF IInv, TypeOK
<1>4. done' \in SUBSET Target /\ incomplete' \in SUBSET selected
    BY <1>3 DEF IInv, TypeOK
<1>5. /\ TypeOK' /\ Quiet' /\ ListsTrue' /\ Halfway' /\ SmallOnly'
      /\ Chosen' = Chosen /\ \A u : LinesOf(u)' = LinesOf(u)
    BY <1>2, <1>3, <1>4, SameRunFacts DEF SameRun
<1>6. Queued'
    BY <1>5 DEF IInv, Queued
<1>7. Fresh'
    <2>1. ASSUME pc = "install", NEW u \in done' PROVE LinesOf(u)' \in processed'[u]
      <3>1. u \in Target
        BY <1>4
      <3>2. u \in done => LinesOf(u) \in processed[u]
        BY <2>1 DEF IInv, Fresh
      <3> QED
        BY <1>5, <2>1, <3>1, <3>2
    <2>2. ASSUME pc = "install", NEW u \in nothingnew' \ passedover'
          PROVE  LinesOf(u)' \in {NoLines} \cup processed'[u]
      <3>1. u \in Target
        BY DEF IInv, TypeOK
      <3>2. LinesOf(u) \in {NoLines} \cup processed[u]
        BY <2>2 DEF IInv, Fresh
      <3> QED
        BY <1>5, <3>1, <3>2
    <2> QED
      BY <2>1, <2>2 DEF Fresh
<1> QED
    BY <1>1, <1>5, <1>6, <1>7 DEF IInv

(* What installing the first n packages of a target's list does *)
LEMMA InstalledPackages ==
    ASSUME IInv, pc \in {"install", "pull"}, NEW t \in todo, NEW n,
           packages' = WorkedOff(t, n, AfterInstall(t))
    PROVE  /\ packages' \in [Target -> [Package -> Version]]
           /\ \A u \in Target, p \in Package :
                 \/ packages'[u][p] = packages[u][p]
                 \/ u \in Chosen /\ packages'[u][p] = Result(lists[u][p])
<1>1. t \in Target /\ t \in Chosen
    BY DEF IInv, TypeOK, Queued
<1>2. lists[t] \in RealList
    BY <1>1 DEF IInv, ListsTrue
<1>3. AfterInstall(t) \in [Package -> Version]
    BY <1>2, ResultIsVersion DEF AfterInstall, RealList
<1>4. \A p \in Package : AfterInstall(t)[p] = Result(lists[t][p])
    BY DEF AfterInstall
<1>5. TypeOK
    BY DEF IInv
<1> QED
    BY <1>1, <1>3, <1>4, <1>5, WorkedOffType

(* Installing a target keeps the invariant. *)
LEMMA InstallKeeps == ASSUME IInv, NEW t \in Target, Install(t) PROVE IInv'
<1>1. /\ pc \in {"install", "pull"} /\ t \in todo
      /\ packages' = WorkedOff(t, Len(Packages), AfterInstall(t))
      /\ processed' = IF pc = "install" THEN [processed EXCEPT ![t] = @ \cup {LinesOf(t)}]
                                        ELSE processed
      /\ pc' # "idle" => done' = done \cup {t}
      /\ UNCHANGED <<remote, lastseen, changes, passedover>>
    BY DEF Install, IsNext
<1>2. /\ packages' \in [Target -> [Package -> Version]]
      /\ \A u \in Target, p \in Package :
            \/ packages'[u][p] = packages[u][p]
            \/ u \in Chosen /\ packages'[u][p] = Result(lists[u][p])
    BY <1>1, InstalledPackages
<1>3. /\ processed' \in [Target -> SUBSET Seq(Line)]
      /\ \A u \in Target : processed[u] \subseteq processed'[u]
      /\ pc = "install" => LinesOf(t) \in processed'[t]
    <2>1. LinesOf(t) \in Seq(Line) /\ processed \in [Target -> SUBSET Seq(Line)]
      BY LinesType DEF IInv, TypeOK
    <2> QED
      BY <1>1, <2>1
<1>4. faults' \in 0..MaxFaults
    BY FaultType DEF Install, IInv, TypeOK
<1>5. CASE Leave({})
    <2>1. pc' # "idle" => pc = "install"
      BY <1>5 DEF Leave, Quit
    <2> QED
      BY <1>1, <1>2, <1>3, <1>4, <1>5, <2>1, LeaveKeeps
<1>6. CASE ~Leave({})
    <2>1. /\ todo' = todo \ {t}
          /\ UNCHANGED <<pc, small, selected, nothingnew, omitted, lists, incomplete, before>>
      BY <1>6 DEF Install, Continue
    <2> QED
      BY <1>1, <1>2, <1>3, <1>4, <2>1, NextTargetKeeps
<1> QED
    BY <1>5, <1>6

(* A failure in the middle of a target keeps the invariant. *)
LEMMA InstallFailsKeeps ==
    ASSUME IInv, NEW t \in Target, NEW n \in 0..Len(Packages), InstallFails(t, n)
    PROVE  IInv'
<1>1. /\ pc \in {"install", "pull"} /\ t \in todo
      /\ packages' = WorkedOff(t, n, AfterInstall(t))
      /\ Leave({t})
      /\ pc' # "idle" => done' = done
      /\ UNCHANGED <<remote, lastseen, changes, processed, passedover>>
    BY DEF InstallFails, IsNext
<1>2. /\ packages' \in [Target -> [Package -> Version]]
      /\ \A u \in Target, p \in Package :
            \/ packages'[u][p] = packages[u][p]
            \/ u \in Chosen /\ packages'[u][p] = Result(lists[u][p])
    BY <1>1, InstalledPackages
<1>3. faults' \in 0..MaxFaults /\ processed' \in [Target -> SUBSET Seq(Line)]
    BY <1>1, FaultType DEF InstallFails, IInv, TypeOK
<1> QED
    BY <1>1, <1>2, <1>3, LeaveKeeps

-----------------------------------------------------------------------------
(* predelete                                                               *)

(* What predeleting the first n packages of a target leaves are *)
(* versions.                                                    *)
LEMMA PredeletedPackages ==
    ASSUME IInv, pc = "predelete", NEW t \in todo, NEW n,
           packages' = WorkedOff(t, n, AfterPredelete(t))
    PROVE  packages' \in [Target -> [Package -> Version]]
<1>1. t \in Target /\ lists[t] \in RealList
    BY DEF IInv, TypeOK, ListsTrue
<1>2. \A p \in Package : lists[t][p].inuse \in Version
    BY <1>1 DEF RealList, RealEntry
<1>3. AfterPredelete(t) \in [Package -> Version]
    BY <1>2, Versions DEF AfterPredelete
<1> QED
    BY <1>1, <1>3, WorkedOffType DEF IInv

(* A step of updates_predelete keeps the invariant, whether there are *)
(* more targets or not.                                               *)
LEMMA PredeletingKeeps ==
    ASSUME IInv, pc = "predelete", NEW t \in todo,
           Continue(t, Quit) \/ Quit,
           packages' \in [Target -> [Package -> Version]],
           UNCHANGED <<remote, lastseen, changes, processed, passedover>>,
           faults' \in 0..MaxFaults,
           pc' # "idle" => done' = done
    PROVE  IInv'
<1>1. LineForEach' /\ SkippedWereProcessed'
    BY LinesKept
<1>2. CASE Quit
    BY <1>1, <1>2, QuitKeeps DEF IInv, TypeOK
<1>3. CASE ~Quit
    <2>1. /\ todo' = todo \ {t}
          /\ UNCHANGED <<pc, small, selected, nothingnew, omitted, lists, incomplete, before>>
          /\ done' = done
      BY <1>3 DEF Continue
    <2>2. /\ lastseen' \in [Target -> Seq(Line)] /\ passedover' \in SUBSET Target
          /\ processed' \in [Target -> SUBSET Seq(Line)]
          /\ done' \in SUBSET Target /\ incomplete' \in SUBSET selected
          /\ todo' \subseteq Target
      BY <2>1 DEF IInv, TypeOK
    <2>3. /\ TypeOK' /\ Quiet' /\ ListsTrue' /\ Halfway' /\ SmallOnly'
          /\ Chosen' = Chosen
      BY <2>1, <2>2, SameRunFacts DEF SameRun
    <2>4. Queued' /\ Fresh'
      BY <2>1, <2>3 DEF IInv, Queued, Fresh
    <2> QED
      BY <1>1, <2>3, <2>4 DEF IInv
<1> QED
    BY <1>2, <1>3

(* Predeleting a target keeps the invariant. *)
LEMMA PredeleteKeeps == ASSUME IInv, NEW t \in Target, Predelete(t) PROVE IInv'
<1>1. packages' \in [Target -> [Package -> Version]]
    BY PredeletedPackages DEF Predelete, IsNext
<1> QED
    BY <1>1, PredeletingKeeps DEF Predelete, IsNext, bounds, IInv, TypeOK

(* A failure while predeleting keeps the invariant. *)
LEMMA PredeleteFailsKeeps == ASSUME IInv, NEW t \in Target, PredeleteFails(t) PROVE IInv'
<1>1. packages' \in [Target -> [Package -> Version]]
    BY PredeletedPackages DEF PredeleteFails, IsNext, IInv, TypeOK
<1>2. faults' \in 0..MaxFaults
    BY FaultType DEF PredeleteFails, IInv
<1> QED
    BY <1>1, <1>2, PredeletingKeeps DEF PredeleteFails, IsNext

-----------------------------------------------------------------------------
(* Marking                                                                 *)

(* What is marked has been processed, or is noted as passed over. *)
LEMMA MarkedLines ==
    ASSUME IInv, pc = "mark", NEW d \in Distribution,
           lastseen' = Marked(d), processed' = processed,
           passedover' = (passedover \ (ToSet(TargetsOf[d]) \ nothingnew))
                \cup ((ToSet(TargetsOf[d]) \cap (selected \ incomplete)) \ (done \cup nothingnew))
    PROVE  /\ LineForEach' /\ SkippedWereProcessed'
           /\ lastseen' \in [Target -> Seq(Line)] /\ passedover' \in SUBSET Target
<1>1. passedover' \in SUBSET Target
    BY DEF IInv, TypeOK
<1>2. NoLines \in Seq(Line)
    BY DEF NoLines
<1>3. lastseen' \in [Target -> Seq(Line)]
    BY <1>2, LinesType DEF Marked, IInv, TypeOK
<1>4. ASSUME NEW t \in Target
      PROVE  lastseen'[t] = NoLines \/ Len(lastseen'[t]) = Len(Updates[t])
    BY LinesType DEF Marked, IInv, LineForEach
<1>5. ASSUME NEW t \in Target \ passedover', lastseen'[t] # NoLines
      PROVE  lastseen'[t] \in processed'[t]
    <2>1. CASE t \notin ToSet(TargetsOf[d])
      BY <1>5, <2>1 DEF Marked, IInv, SkippedWereProcessed
    <2>2. CASE t \in ToSet(TargetsOf[d])
      <3>1. t \in selected \ incomplete /\ lastseen'[t] = LinesOf(t)
        BY <1>5, <2>2 DEF Marked
      <3>2. t \in done \/ t \in nothingnew \ passedover
        BY <2>2, <3>1
      <3> QED
        BY <1>5, <3>1, <3>2 DEF IInv, Fresh
    <2> QED
      BY <2>1, <2>2
<1> QED
    BY <1>1, <1>3, <1>4, <1>5 DEF LineForEach, SkippedWereProcessed

(* Marking a distribution keeps the invariant. *)
LEMMA MarkKeeps == ASSUME IInv, NEW d \in Distribution, Mark(d) PROVE IInv'
<1>1. /\ pc = "mark" /\ d \in todo
      /\ UNCHANGED <<packages, remote, changes, processed>>
      /\ Continue(d, Quit)
      /\ pc' # "idle" => done' = done
    BY DEF Mark, IsNextDistribution
<1>2. /\ faults' \in 0..MaxFaults
      /\ \/ UNCHANGED <<lastseen, passedover>>
         \/ /\ lastseen' = Marked(d)
            /\ passedover' = (passedover \ (ToSet(TargetsOf[d]) \ nothingnew))
                \cup ((ToSet(TargetsOf[d]) \cap (selected \ incomplete)) \ (done \cup nothingnew))
    BY FaultType DEF Mark, IInv, TypeOK
<1>3. /\ LineForEach' /\ SkippedWereProcessed'
      /\ lastseen' \in [Target -> Seq(Line)] /\ passedover' \in SUBSET Target
    <2>1. CASE UNCHANGED <<lastseen, passedover>>
      BY <1>1, <2>1, LinesKept DEF IInv, TypeOK
    <2>2. CASE ~UNCHANGED <<lastseen, passedover>>
      BY <1>1, <1>2, <2>2, MarkedLines
    <2> QED
      BY <2>1, <2>2
<1>4. /\ packages' \in [Target -> [Package -> Version]]
      /\ processed' \in [Target -> SUBSET Seq(Line)]
    BY <1>1 DEF IInv, TypeOK
<1>5. CASE Quit
    BY <1>1, <1>2, <1>3, <1>4, <1>5, QuitKeeps
<1>6. CASE ~Quit
    <2>1. /\ todo' = todo \ {d} /\ done' = done
          /\ UNCHANGED <<pc, small, selected, nothingnew, omitted, lists, incomplete, before>>
      BY <1>1, <1>6 DEF Continue
    <2>2. /\ done' \in SUBSET Target /\ incomplete' \in SUBSET selected
          /\ todo' \subseteq Distribution
      BY <1>1, <2>1 DEF IInv, TypeOK
    <2>3. /\ TypeOK' /\ Quiet' /\ ListsTrue' /\ Halfway' /\ SmallOnly'
          /\ Chosen' = Chosen /\ \A u : LinesOf(u)' = LinesOf(u)
      BY <1>1, <1>2, <1>3, <1>4, <2>1, <2>2, SameRunFacts DEF SameRun
    <2>4. Queued'
      BY <1>1, <2>1 DEF Queued
    <2>5. Fresh'
      <3>1. nothingnew \ passedover' \subseteq nothingnew \ passedover
        BY <1>2
      <3> QED
        BY <1>1, <2>1, <2>3, <3>1 DEF IInv, Fresh
    <2> QED
      BY <1>3, <2>3, <2>4, <2>5 DEF IInv
<1> QED
    BY <1>5, <1>6

-----------------------------------------------------------------------------
(* Starting                                                                *)

(* A prefix as long as the whole is the whole. *)
LEMMA WholePrefix ==
    ASSUME NEW S, NEW s \in Seq(S), NEW u \in Seq(S), Len(s) = Len(u), IsPrefix(s, u)
    PROVE  s = u
<1>1. SubSeq(s, 1, Len(s)) = SubSeq(u, 1, Len(u))
    BY DEF IsPrefix
<1>2. ASSUME NEW w \in Seq(S) PROVE SubSeq(w, 1, Len(w)) = w
    OBVIOUS
<1> QED
    BY <1>1, <1>2

(* What is skipped as old was processed with the indices as they are. *)
LEMMA OldWasProcessed ==
    ASSUME IInv, NEW ts \in SUBSET Target, NEW skipold \in BOOLEAN,
           NEW t \in Nothing(ts, skipold) \ passedover
    PROVE  LinesOf(t) \in {NoLines} \cup processed[t]
<1>1. t \in Target
    BY DEF Nothing
<1>2. CASE Updates[t] = <<>>
    BY <1>1, <1>2, LinesType DEF IInv
<1>3. CASE Updates[t] # <<>>
    <2>1. lastseen[t] # NoLines /\ IsPrefix(LinesOf(t), lastseen[t])
      BY <1>3 DEF Nothing, IsOld
    <2>2. /\ LinesOf(t) \in Seq(Line) /\ lastseen[t] \in Seq(Line)
          /\ Len(LinesOf(t)) = Len(lastseen[t])
      BY <1>1, <2>1, LinesType DEF IInv, LineForEach, TypeOK
    <2>3. LinesOf(t) = lastseen[t]
      BY <2>1, <2>2, WholePrefix
    <2> QED
      BY <1>1, <2>1, <2>3 DEF IInv, SkippedWereProcessed
<1> QED
    BY <1>2, <1>3

(* A command that has just read its lists *)
LEMMA Started ==
    ASSUME IInv, NEW ts \in SUBSET Target, NEW old \in SUBSET ts,
           NEW onlysmall,
           StartCommand(ts), nothingnew' = old, HaveRead(ts \ old, onlysmall),
           onlysmall = small' \/ pc' = "predelete",
           pc' \in {"download", "pull", "predelete", "mark"},
           todo' \subseteq IF pc' = "mark" THEN Distribution ELSE Target,
           processed' \in [Target -> SUBSET Seq(Line)],
           \A t \in Target : processed[t] \subseteq processed'[t],
           done' \in SUBSET Target
    PROVE  /\ TypeOK' /\ Quiet' /\ ListsTrue' /\ Halfway' /\ SmallOnly'
           /\ LineForEach' /\ SkippedWereProcessed'
           /\ Chosen' = {t \in ts \ old : DistributionOf(t) \notin omitted'}
           /\ \A t : LinesOf(t)' = LinesOf(t)
<1>1. /\ pc = "idle" /\ small' \in BOOLEAN /\ selected' = ts /\ before' = packages
      /\ UNCHANGED <<packages, remote, lastseen, incomplete, bounds, passedover>>
      /\ incomplete = {}
    BY DEF StartCommand, IInv, Quiet
<1>2. TypeOK'
    <2>1. lists' \in [Target -> List]
      BY RealListIsList DEF HaveRead
    <2> QED
      BY <1>1, <2>1 DEF HaveRead, IInv, TypeOK, bounds
<1>3. Chosen' = {t \in ts \ old : DistributionOf(t) \notin omitted'}
    BY <1>1 DEF Chosen, DistributionOf
<1>4. ListsTrue'
    BY <1>1, <1>3 DEF HaveRead, ListsTrue
<1>5. Quiet' /\ Halfway'
    BY <1>1 DEF Quiet, Halfway
<1>6. SmallOnly'
    BY <1>1 DEF HaveRead, SmallOnly, IsBigDelete
<1>7. LineForEach' /\ SkippedWereProcessed'
    BY <1>1, LinesKept
<1>8. \A t : LinesOf(t)' = LinesOf(t)
    BY <1>1 DEF LinesOf
<1> QED
    BY <1>2, <1>3, <1>4, <1>5, <1>6, <1>7, <1>8

(* The start of a pull keeps the invariant. *)
LEMMA StartPullKeeps == ASSUME IInv, NEW ts \in SUBSET Target, StartPull(ts) PROVE IInv'
<1>1. /\ StartCommand(ts) /\ pc' = "pull" /\ nothingnew' = {} /\ small' \in BOOLEAN
      /\ Read(ts, Pulls, small')
      /\ todo' = {t \in ts : DistributionOf(t) \notin omitted'}
      /\ UNCHANGED <<done, processed>>
    BY DEF StartPull, StartCommand
<1>2. PICK onlysmall \in BOOLEAN : onlysmall = small'
    BY <1>1
<1>3. HaveRead(ts \ {}, onlysmall)
    <2>1. ts \ {} = ts /\ TypeOK /\ Pulls \in {Updates, Pulls} /\ ts \in SUBSET Target
      BY DEF IInv
    <2>2. HaveRead(ts, onlysmall)
      BY <1>1, <1>2, <2>1, ReadLists, Zenon
    <2> QED
      BY <2>1, <2>2, Zenon
<1>4. /\ todo' \subseteq Target /\ done' \in SUBSET Target
      /\ processed' \in [Target -> SUBSET Seq(Line)] /\ processed' = processed
    BY <1>1 DEF IInv, TypeOK
<1>5. /\ TypeOK' /\ Quiet' /\ ListsTrue' /\ Halfway' /\ SmallOnly'
      /\ LineForEach' /\ SkippedWereProcessed'
      /\ Chosen' = {t \in ts \ {} : DistributionOf(t) \notin omitted'}
    <2>1. /\ {} \in SUBSET ts
          /\ \A t \in Target : processed[t] \subseteq processed'[t]
          /\ todo' \subseteq IF pc' = "mark" THEN Distribution ELSE Target
          /\ onlysmall = small' \/ pc' = "predelete"
          /\ pc' \in {"download", "pull", "predelete", "mark"}
      BY <1>1, <1>2, <1>4
    <2> QED
      BY <1>1, <1>3, <1>4, <2>1, Started
<1>6. Queued' /\ Fresh'
    BY <1>1, <1>5 DEF Queued, Fresh
<1> QED
    BY <1>5, <1>6 DEF IInv

(* The start of a predelete keeps the invariant. *)
LEMMA StartPredeleteKeeps ==
    ASSUME IInv, NEW ts \in SUBSET Target, NEW skipold \in BOOLEAN, StartPredelete(ts, skipold)
    PROVE  IInv'
<1> DEFINE old == Nothing(ts, skipold)
<1>1. /\ StartCommand(ts) /\ pc' = "predelete" /\ nothingnew' = old
      /\ Read(ts \ old, Updates, FALSE)
      /\ todo' = ts \ old
      /\ UNCHANGED <<done, processed>>
    BY DEF StartPredelete
<1>2. old \in SUBSET ts
    BY DEF Nothing
<1>3. /\ todo' \subseteq Target /\ done' \in SUBSET Target
      /\ processed' \in [Target -> SUBSET Seq(Line)] /\ processed' = processed
    BY <1>1, <1>2 DEF IInv, TypeOK
<1> HIDE DEF old
<1>7. HaveRead(ts \ old, FALSE)
    <2>1. ts \ old \in SUBSET Target /\ Updates \in {Updates, Pulls} /\ TypeOK
      BY DEF IInv
    <2> QED
      BY <1>1, <2>1, ReadLists, Zenon
<1>4. /\ TypeOK' /\ Quiet' /\ ListsTrue' /\ Halfway' /\ SmallOnly'
      /\ LineForEach' /\ SkippedWereProcessed'
      /\ Chosen' = {t \in ts \ old : DistributionOf(t) \notin omitted'}
    BY <1>1, <1>2, <1>3, <1>7, Started
<1>5. omitted' = {}
    BY <1>7 DEF HaveRead
<1>6. Queued' /\ Fresh'
    BY <1>1, <1>4, <1>5 DEF Queued, Fresh
<1> QED
    BY <1>4, <1>6 DEF IInv

(* The start of an update keeps the invariant. *)
LEMMA StartUpdateKeeps ==
    ASSUME IInv, NEW ts \in SUBSET Target, NEW skipold \in BOOLEAN, StartUpdate(ts, skipold)
    PROVE  IInv'
<1> DEFINE old == Nothing(ts, skipold)
           read == {t \in ts \ old : DistributionOf(t) \notin omitted'}
<1>1. /\ StartCommand(ts) /\ nothingnew' = old /\ small' \in BOOLEAN
      /\ Read(ts \ old, Updates, small')
      /\ \/ /\ pc' = "download" /\ todo' = {} /\ done' = {}
            /\ processed' = processed
         \/ /\ pc' = "mark" /\ todo' = Marking(ts, omitted') /\ done' = read
            /\ processed' = [t \in Target |-> IF t \in read
                                THEN processed[t] \cup {LinesOf(t)} ELSE processed[t]]
    BY DEF StartUpdate, StartCommand
<1>2. old \in SUBSET ts /\ read \in SUBSET Target
    BY DEF Nothing
<1>3. PICK onlysmall \in BOOLEAN : onlysmall = small'
    BY <1>1
<1>4. HaveRead(ts \ old, onlysmall)
    <2>1. ts \ old \in SUBSET Target /\ Updates \in {Updates, Pulls} /\ TypeOK
      BY DEF IInv
    <2> HIDE DEF old
    <2> QED
      BY <1>1, <1>3, <2>1, ReadLists, Zenon
<1>5. \A t \in Target : LinesOf(t) \in Seq(Line)
    BY LinesType DEF IInv
<1> HIDE DEF old, read
<1>6. /\ processed' \in [Target -> SUBSET Seq(Line)]
      /\ \A t \in Target : processed[t] \subseteq processed'[t]
      /\ done' \in SUBSET Target
      /\ todo' \subseteq IF pc' = "mark" THEN Distribution ELSE Target
      /\ \A t \in done' : LinesOf(t) \in processed'[t]
    <2>1. processed \in [Target -> SUBSET Seq(Line)]
      BY DEF IInv, TypeOK
    <2>2. Marking(ts, omitted') \subseteq Distribution
      BY DEF Marking
    <2>3. CASE pc' = "download"
      BY <1>1, <2>1, <2>3
    <2>4. CASE pc' = "mark"
      <3>1. /\ todo' = Marking(ts, omitted') /\ done' = read
            /\ processed' = [t \in Target |-> IF t \in read
                                THEN processed[t] \cup {LinesOf(t)} ELSE processed[t]]
        BY <1>1, <2>4
      <3>2. processed' \in [Target -> SUBSET Seq(Line)]
        BY <1>5, <2>1, <3>1
      <3> QED
        BY <1>2, <2>2, <2>4, <3>1, <3>2
    <2> QED
      BY <1>1, <2>3, <2>4
<1>7. /\ TypeOK' /\ Quiet' /\ ListsTrue' /\ Halfway' /\ SmallOnly'
      /\ LineForEach' /\ SkippedWereProcessed'
      /\ \A t : LinesOf(t)' = LinesOf(t)
    <2>1. /\ onlysmall = small' \/ pc' = "predelete"
          /\ pc' \in {"download", "pull", "predelete", "mark"}
      BY <1>1, <1>3
    <2> QED
      BY <1>1, <1>2, <1>4, <1>6, <2>1, Started
<1>8. Queued'
    BY <1>1 DEF Queued
<1>9. Fresh'
    <2>1. passedover' = passedover
      BY <1>1 DEF StartCommand
    <2>2. ASSUME NEW t \in nothingnew' \ passedover'
          PROVE  LinesOf(t)' \in {NoLines} \cup processed'[t]
      <3>1. t \in Nothing(ts, skipold) \ passedover /\ t \in Target
        BY <1>1, <1>2, <2>1, <2>2 DEF old
      <3>2. LinesOf(t) \in {NoLines} \cup processed[t]
        BY <3>1, OldWasProcessed
      <3> QED
        BY <1>6, <1>7, <3>1, <3>2
    <2> QED
      BY <1>6, <1>7, <2>2 DEF Fresh
<1> QED
    BY <1>7, <1>8, <1>9 DEF IInv

-----------------------------------------------------------------------------

(* Every step keeps the invariant. *)
LEMMA NextKeeps == ASSUME IInv, [Next]_vars PROVE IInv'
<1>1. CASE Start
    <2>1. PICK ts \in Selections :
              \/ \E skipold \in BOOLEAN : StartUpdate(ts, skipold) \/ StartPredelete(ts, skipold)
              \/ StartPull(ts)
      BY <1>1 DEF Start
    <2>2. ts \in SUBSET Target
      OBVIOUS
    <2> QED
      BY <2>1, <2>2, StartUpdateKeeps, StartPredeleteKeeps, StartPullKeeps
<1>2. CASE Step
    BY <1>2, DownloadKeeps, GiveUpKeeps, CrashKeeps, InstallKeeps, InstallFailsKeeps,
       PredeleteKeeps, PredeleteFailsKeeps, MarkKeeps, Zenon DEF Step
<1>3. CASE RemoteChanges
    BY <1>3, RemoteChangesKeeps
<1>4. CASE UNCHANGED vars
    <2>1. UNCHANGED <<packages, remote, lastseen, pc, small, selected, nothingnew, omitted, lists,
                      todo, incomplete, changes, faults, before, done, processed, passedover>>
      BY <1>4 DEF vars, process, bounds, history
    <2>2. TypeOK' /\ Quiet' /\ Queued' /\ Halfway' /\ LineForEach' /\ SkippedWereProcessed'
      BY <2>1 DEF IInv, TypeOK, Quiet, Queued, Chosen, Halfway, LineForEach, SkippedWereProcessed
    <2>3. ListsTrue' /\ SmallOnly' /\ Fresh'
      BY <2>1 DEF IInv, ListsTrue, Chosen, SmallOnly, Fresh, LinesOf
    <2> QED
      BY <2>2, <2>3 DEF IInv
<1> QED
    BY <1>1, <1>2, <1>3, <1>4 DEF Next

(* The invariant holds in every run. *)
LEMMA Invariance == Spec => []IInv
<1>1. Init => IInv
    BY Initially
<1>2. IInv /\ [Next]_vars => IInv'
    BY NextKeeps
<1> QED
    BY <1>1, <1>2, PTL DEF Spec

(* The variables keep their types, and the lists hold only versions that *)
(* were somewhere to be read.                                            *)
THEOREM TypeCorrect == Spec => []TypeOK
<1>1. IInv => TypeOK
    BY DEF IInv
<1> QED
    BY <1>1, Invariance, PTL

(* markdone and markold (donefile.c, updates.c): the lines written down *)
(* of a target are of indices it was processed with, after any history  *)
(* of updates, failures and crashes, unless the target was passed over. *)
(* So an update skips nothing that is new.                              *)
THEOREM NothingNewIsSkipped == Spec => []SkippedWereProcessed
<1>1. IInv => SkippedWereProcessed
    BY DEF IInv
<1> QED
    BY <1>1, Invariance, PTL

-----------------------------------------------------------------------------
(* Small losses                                                            *)

(* all/deleted of the code rounds down, so it is at least BigShare only *)
(* if all is at least BigShare times deleted.                           *)
LEMMA Division ==
    ASSUME NEW a \in Nat, NEW d \in Nat \ {0}, NEW b \in Nat, ~(a \div d < b)
    PROVE  d * b <= a
<1> DEFINE q == a \div d
<1>1. q \in Int /\ d * q <= a
    OBVIOUS
<1>2. q >= b
    OBVIOUS
<1> HIDE DEF q
<1>3. d * b <= d * q
    BY <1>1, <1>2
<1> DEFINE x == d * b
           y == d * q
<1>4. x \in Int /\ y \in Int /\ x <= y /\ y <= a
    BY <1>1, <1>3
<1> HIDE DEF x, y
<1>5. x <= a
    BY <1>4
<1> QED
    BY <1>5 DEF x

(* There are finitely many packages. *)
LEMMA PackageFinite == IsFiniteSet(Package)
<1>1. Packages \in Surjection(1..Len(Packages), Package)
    BY PackagesListed, SMTT(30) DEF Surjection
<1>2. IsFiniteSet(1..Len(Packages))
    BY PackagesListed, FS_Interval
<1> QED
    BY <1>1, <1>2, FS_Surjection

(* Of the packages that old has, new has lost fewer than BigCount or no *)
(* more than one in BigShare.                                           *)
SmallLoss(old, new) ==
    LET had == {p \in Package : old[p] # 0}
        lost == {p \in had : new[p] = 0}
    IN  \/ Cardinality(lost) < BigCount
        \/ Cardinality(lost) * BigShare <= Cardinality(had)

(* A list that does not delete too much, however far it was carried out *)
LEMMA FewAreLost ==
    ASSUME NEW list \in RealList, ~IsBigDelete(list),
           NEW old, NEW new,
           \A p \in Package : list[p].inuse = old[p],
           \A p \in Package : new[p] = old[p] \/ new[p] = Result(list[p])
    PROVE  SmallLoss(old, new)
<1> DEFINE had == {p \in Package : old[p] # 0}
           lost == {p \in had : new[p] = 0}
           deleted == {p \in had : list[p].deleted}
<1>1. had = {p \in Package : list[p].inuse # 0}
    OBVIOUS
<1>2. /\ ~(Cardinality(deleted) >= BigCount)
         \/ ~(Cardinality(had) \div Cardinality(deleted) < BigShare)
    BY <1>1 DEF IsBigDelete
<1>3. lost \subseteq deleted
    <2>1. SUFFICES ASSUME NEW p \in lost PROVE list[p].deleted
      OBVIOUS
    <2>2. /\ list[p] \in RealEntry /\ p \in Package
          /\ list[p].inuse # 0 /\ Result(list[p]) = 0
      BY <2>1 DEF RealList
    <2> QED
      BY <2>2 DEF Result, ToInstall, ToRemove, RealEntry, Entry
<1>4. /\ IsFiniteSet(had) /\ IsFiniteSet(deleted)
      /\ Cardinality(lost) <= Cardinality(deleted)
    <2>1. had \in SUBSET Package /\ deleted \in SUBSET had /\ lost \in SUBSET deleted
      BY <1>3
    <2> HIDE DEF had, deleted, lost
    <2>2. IsFiniteSet(had)
      BY <2>1, PackageFinite, FS_Subset
    <2>3. IsFiniteSet(deleted)
      BY <2>1, <2>2, FS_Subset
    <2> QED
      BY <2>1, <2>2, <2>3, FS_Subset
<1>5. IsFiniteSet(lost)
    BY <1>3, <1>4, FS_Subset
<1> HIDE DEF had, lost, deleted
<1>6. /\ Cardinality(had) \in Nat /\ Cardinality(deleted) \in Nat /\ Cardinality(lost) \in Nat
      /\ BigCount \in Nat \ {0} /\ BigShare \in Nat \ {0}
    BY <1>4, <1>5, FS_CardinalityType
<1>7. CASE Cardinality(lost) >= BigCount
    <2> DEFINE h == Cardinality(had)
               d == Cardinality(deleted)
               l == Cardinality(lost)
    <2>1. h \in Nat /\ d \in Nat \ {0} /\ l \in Nat /\ l <= d /\ ~(h \div d < BigShare)
      BY <1>2, <1>4, <1>6, <1>7
    <2> HIDE DEF h, d, l
    <2>2. d * BigShare <= h
      BY <1>6, <2>1, Division
    <2>3. l * BigShare <= d * BigShare
      BY <1>6, <2>1
    <2> DEFINE x == l * BigShare
               y == d * BigShare
    <2>4. x \in Int /\ y \in Int /\ x <= y /\ y <= h
      BY <1>6, <2>1, <2>2, <2>3
    <2> HIDE DEF x, y
    <2>5. x <= h
      BY <2>1, <2>4
    <2> QED
      BY <2>5 DEF x, h, l, had, lost, SmallLoss
<1> QED
    BY <1>6, <1>7 DEF had, lost, SmallLoss

(* A step of an update or a pull leaves each package what it was when the *)
(* command started, or makes of it what the list says.                    *)
LEMMA ChangedAsListed ==
    ASSUME IInv, [Next]_vars, pc \notin {"idle", "predelete"}
    PROVE  \A t \in Target, p \in Package :
               \/ packages'[t][p] = before[t][p]
               \/ t \in Chosen /\ packages'[t][p] = Result(lists[t][p])
<1>1. \A t \in Target, p \in Package :
         \/ packages[t][p] = before[t][p]
         \/ t \in Chosen /\ packages[t][p] = Result(lists[t][p])
    BY DEF IInv, Halfway
<1> DEFINE Installed == \E t \in todo : \E n :
                            /\ pc \in {"install", "pull"}
                            /\ packages' = WorkedOff(t, n, AfterInstall(t))
<1>2. packages' = packages \/ Installed
    <2>1. CASE Start
      BY <2>1 DEF Start, StartUpdate, StartPredelete, StartPull, StartCommand
    <2>2. CASE Step
      <3>1. Download \/ GiveUp \/ Crash => packages' = packages
        BY DEF Download, GiveUp, Crash
      <3>2. ASSUME NEW d \in Distribution PROVE Mark(d) => packages' = packages
        BY DEF Mark
      <3>3. ASSUME NEW t \in Target
            PROVE  Install(t) => Installed
        BY DEF Install, IsNext
      <3>4. ASSUME NEW t \in Target, NEW n \in 0..Len(Packages)
            PROVE  InstallFails(t, n) => Installed
        BY DEF InstallFails, IsNext
      <3>5. ASSUME NEW t \in Target PROVE ~Predelete(t) /\ ~PredeleteFails(t)
        BY DEF Predelete, PredeleteFails
      <3> HIDE DEF Installed
      <3> QED
        BY <2>2, <3>1, <3>2, <3>3, <3>4, <3>5, Zenon DEF Step
    <2>3. CASE RemoteChanges \/ UNCHANGED vars
      BY <2>3 DEF RemoteChanges, vars
    <2> QED
      BY <2>1, <2>2, <2>3 DEF Next
<1>3. CASE packages' = packages
    BY <1>1, <1>3
<1>4. CASE packages' # packages
    <2>1. PICK t \in todo : \E n : /\ pc \in {"install", "pull"}
                                   /\ packages' = WorkedOff(t, n, AfterInstall(t))
      BY <1>2, <1>4
    <2>2. PICK n : /\ pc \in {"install", "pull"}
                   /\ packages' = WorkedOff(t, n, AfterInstall(t))
      BY <2>1
    <2>3. \A u \in Target, p \in Package :
             \/ packages'[u][p] = packages[u][p]
             \/ u \in Chosen /\ packages'[u][p] = Result(lists[u][p])
      BY <2>2, InstalledPackages
    <2> QED
      BY <1>1, <2>3
<1> QED
    BY <1>3, <1>4

(* docs/reprepro.1, --onlysmalldeletes: no target loses BigCount       *)
(* packages or more that are more than one in BigShare of what it had, *)
(* at any point of an update or a pull, including one that fails half  *)
(* way.                                                                *)
THEOREM SmallLosses == Spec => OnlySmallLosses
<1>1. ASSUME IInv, [Next]_vars, small, pc # "predelete", NEW t \in Target
      PROVE  SmallLoss(before[t], packages'[t])
    <2>1. pc # "idle"
      BY <1>1 DEF IInv, Quiet
    <2>2. lists[t] \in RealList /\ ~IsBigDelete(lists[t])
      BY <1>1 DEF IInv, ListsTrue, SmallOnly
    <2>3. \A p \in Package : \/ packages'[t][p] = before[t][p]
                             \/ t \in Chosen /\ packages'[t][p] = Result(lists[t][p])
      BY <1>1, <2>1, ChangedAsListed
    <2>4. CASE t \in Chosen
      <3>1. \A p \in Package : lists[t][p].inuse = before[t][p]
        BY <1>1, <2>1, <2>4 DEF IInv, ListsTrue
      <3> DEFINE list == lists[t]
                 old == before[t]
                 new == packages'[t]
      <3>2. /\ list \in RealList /\ ~IsBigDelete(list)
            /\ \A p \in Package : list[p].inuse = old[p]
            /\ \A p \in Package : new[p] = old[p] \/ new[p] = Result(list[p])
        BY <2>2, <2>3, <3>1
      <3> HIDE DEF list, old, new
      <3>3. SmallLoss(old, new)
        BY <3>2, FewAreLost
      <3> QED
        BY <3>3 DEF old, new
    <2>5. CASE t \notin Chosen
      <3>1. {p \in {q \in Package : before[t][q] # 0} : packages'[t][p] = 0} = {}
        BY <2>3, <2>5
      <3>2. Cardinality({}) = 0 /\ 0 < BigCount
        BY FS_EmptySet
      <3> QED
        BY <3>1, <3>2, Zenon DEF SmallLoss
    <2> QED
      BY <2>4, <2>5
<1>2. IInv /\ [Next]_vars => [small /\ pc # "predelete" =>
                               \A t \in Target : SmallLoss(before[t], packages'[t])]_vars
    BY <1>1
<1>3. OnlySmallLosses <=> [][small /\ pc # "predelete" =>
                               \A t \in Target : SmallLoss(before[t], packages'[t])]_vars
    BY DEF OnlySmallLosses, SmallLoss
<1> QED
    BY <1>2, <1>3, Invariance, PTL DEF Spec
=============================================================================
