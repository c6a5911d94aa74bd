------------------------------ MODULE Updates ------------------------------
(***************************************************************************)
(* The commands update, predelete and pull (updates.c, pull.c, donefile.c).*)
(*                                                                         *)
(* An update reads the indices of all targets that have something new,     *)
(* gets the files, installs target after target, and at last writes down   *)
(* for each distribution which indices its targets have been processed     *)
(* with (lists/<codename>_lastseen), so that the next update can skip them.*)
(* Any step can fail; a failure while installing leaves the targets before *)
(* it changed, the one it happens in partly so, and those after it as they *)
(* were.  Nothing of this is undone, and the process can die at any point. *)
(*                                                                         *)
(* An index holds at most one version of a package here; with several,     *)
(* upgradelist_trypackage is called once for each (see UpgradeTarget).     *)
(***************************************************************************)
EXTENDS UpgradeList, SequencesExt

CONSTANTS
    Index,         \* the remote index files
    Delete,        \* the delete rule "-"
    Distributions, \* the distributions in the order of conf/distributions
    TargetsOf,     \* TargetsOf[d], the targets of distribution d, in order
    Updates,       \* Updates[t], the rules in Update: as they reach target t
    Pulls,         \* Pulls[t], the same for Pull:
    Packages,      \* the packages in the order of their names
    Snapshots,     \* bound: contents an index can have
    Selections,    \* bound: the sets of targets the command line can select
    MaxChanges,    \* bound: changes of the remote repository
    MaxFaults      \* bound: failures and crashes in a behaviour

Distribution == ToSet(Distributions)

Target == UNION {ToSet(TargetsOf[d]) : d \in Distribution}

DistributionOf(t) == CHOOSE d \in Distribution : t \in ToSet(TargetsOf[d])

(* What update_index_connector and pull_source keep of a rule *)
Rule(From) == [from : From \cup {Delete}, action : ListAction]

ASSUME UpdatesAssumption ==
    /\ Packages \in Seq(Package) /\ ToSet(Packages) = Package
    /\ Delete \notin Index \cup Target
    /\ Updates \in [Target -> Seq(Rule(Index))]
    /\ Pulls \in [Target -> Seq(Rule(Target))]
    /\ \A d, e \in Distribution : d # e => ToSet(TargetsOf[d]) \cap ToSet(TargetsOf[e]) = {}
    /\ Snapshots \subseteq [Package -> Nat]
    /\ Selections \subseteq SUBSET Target
    /\ {MaxChanges, MaxFaults} \subseteq Nat

VARIABLES
    packages,    \* packages[t][p], the version target t has of p, 0 for none
    remote,      \* the index files of the remote repository
    lastseen,    \* lastseen[t], what the file of t's distribution says of t
    \* of the running process
    pc,
    small,       \* --onlysmalldeletes
    selected,    \* the targets the command line selects
    nothingnew,  \* the targets with nothing new
    omitted,     \* the distributions left out because of --onlysmalldeletes
    lists,       \* the upgradelists
    todo,        \* the targets or distributions the loop has left
    incomplete,  \* the targets that failed
    \* bookkeeping of the model
    changes,     \* changes of the remote repository so far
    faults,      \* failures so far
    before,      \* the packages when the command started
    done,        \* the targets this run is through with
    processed,   \* what each target has ever been processed with
    passedover   \* the targets written down without having been processed

process == <<small, selected, nothingnew, omitted, lists, todo, incomplete>>
bounds == <<changes, faults>>
history == <<before, done, processed, passedover>>
vars == <<packages, remote, lastseen, pc, process, bounds, history>>

Version == {s[p] : s \in Snapshots, p \in Package} \cup {0}

(* An upgradelist of versions there are *)
List == [Package -> {e \in Entry : e.inuse \in Version /\ e.new \in Version}]

NoList == [p \in Package |-> Unlisted]

(***************************************************************************)
(* The lines of a lastseen file for one target: a delete rule, or an index *)
(* with its checksum, which stands for its content.                        *)
(***************************************************************************)
Line == [from : Index \cup {Delete}, content : Snapshots \cup {<<>>}]

NoLines == <<>>

LinesOf(t) ==
    [i \in DOMAIN Updates[t] |->
        LET from == Updates[t][i].from
        IN  [from |-> from, content |-> IF from = Delete THEN <<>> ELSE remote[from]]]

TypeOK ==
    /\ packages \in [Target -> [Package -> Version]]
    /\ remote \in [Index -> Snapshots]
    /\ lastseen \in [Target -> Seq(Line)]
    /\ pc \in {"idle", "download", "install", "pull", "predelete", "mark"}
    /\ small \in BOOLEAN
    /\ nothingnew \cup incomplete \subseteq selected /\ selected \subseteq Target
    /\ omitted \subseteq Distribution
    /\ lists \in [Target -> List]
    /\ todo \subseteq IF pc = "mark" THEN Distribution ELSE Target
    /\ changes \in 0..MaxChanges /\ faults \in 0..MaxFaults
    /\ before \in [Target -> [Package -> Version]]
    /\ done \cup passedover \subseteq Target
    /\ processed \in [Target -> SUBSET Seq(Line)]

Init ==
    /\ packages = [t \in Target |-> [p \in Package |-> 0]]
    /\ remote \in [Index -> Snapshots]
    /\ lastseen = [t \in Target |-> NoLines]
    /\ pc = "idle"
    /\ small = FALSE /\ selected = {} /\ nothingnew = {} /\ omitted = {}
    /\ lists = [t \in Target |-> NoList] /\ todo = {} /\ incomplete = {}
    /\ changes = 0 /\ faults = 0
    /\ before = packages /\ done = {}
    /\ processed = [t \in Target |-> {}] /\ passedover = {}

Fault == faults < MaxFaults /\ faults' = faults + 1

(* The process is done or dead, and the lists are gone. *)
Quit ==
    /\ pc' = "idle"
    /\ small' = FALSE /\ selected' = {} /\ nothingnew' = {} /\ omitted' = {}
    /\ lists' = [t \in Target |-> NoList] /\ todo' = {} /\ incomplete' = {}
    /\ before' = packages' /\ done' = {}

---------------------------------------------------------------------------
(* Reading                                                                 *)

(* What an index or the target of another distribution has of p *)
Offered(from, p) == IF from \in Index THEN remote[from][p] ELSE packages[from][p]

(* upgradelist_deleteall, upgradelist_update or upgradelist_pull for a rule *)
Processed(list, rule) ==
    [p \in Package |->
        IF rule.from = Delete THEN Cleared(list[p])
        ELSE LET v == Offered(rule.from, p)
                 said == <<rule.action, "unchanged", "unchanged">>
             IN  IF v = 0 THEN list[p]
                 ELSE Tried(list[p], v, Decision(said, TRUE, Current(list[p])))]

(* searchformissing or pull_searchformissing *)
ListFor(t, rules) ==
    LET after[n \in 0..Len(rules)] ==
            IF n = 0 THEN [p \in Package |-> InUse(packages[t][p])]
            ELSE Processed(after[n - 1], rules[n])
    IN  after[Len(rules)]

(* isbigdelete and pull_isbigdelete of a distribution that has been read *)
TooBig(d, ls) == \E t \in ToSet(TargetsOf[d]) : IsBigDelete(ls[t])

(***************************************************************************)
(* The lists of the targets ts; if only small losses are wanted, without   *)
(* those of distributions that would lose too much.                        *)
(***************************************************************************)
Read(ts, Rules, onlysmall) ==
    LET all == [t \in Target |-> IF t \in ts THEN ListFor(t, Rules[t]) ELSE NoList]
        big == {d \in Distribution : onlysmall /\ TooBig(d, all)}
    IN  /\ omitted' = big
        /\ lists' = [t \in Target |-> IF DistributionOf(t) \in big THEN NoList ELSE all[t]]

(* There is something to get or to delete. *)
Wanted(t) == WouldDelete(lists'[t]) \/ \E p \in Package : ToInstall(lists'[t][p])

(***************************************************************************)
(* Of what the loop has left, the next target or distribution.             *)
(* update_targets and pull_targets are put in front of those before them,  *)
(* and so are the distributions of an update.                              *)
(***************************************************************************)
Before(x, y, seq) == \E i, j \in DOMAIN seq : i < j /\ seq[i] = x /\ seq[j] = y

IsNext(t) ==
    /\ t \in todo
    /\ \A u \in todo \ {t} :
          LET d == DistributionOf(t)
              e == DistributionOf(u)
          IN  IF d = e THEN Before(u, t, TargetsOf[d])
              ELSE IF pc = "pull" THEN Before(d, e, Distributions)
              ELSE Before(e, d, Distributions)

IsNextDistribution(d) ==
    /\ d \in todo
    /\ \A e \in todo \ {d} : Before(e, d, Distributions)

(* A mutant: the checksums are not compared. *)
IsOldByName(t) ==
    /\ lastseen[t] # NoLines
    /\ \A i \in DOMAIN Updates[t] :
            i \in DOMAIN lastseen[t] /\ lastseen[t][i].from = Updates[t][i].from

(***************************************************************************)
(* markold: the lines of the target begin with what its rules are now.     *)
(* That there may be more lines goes unnoticed.                            *)
(***************************************************************************)
IsOld(t) == lastseen[t] # NoLines /\ IsPrefix(LinesOf(t), lastseen[t])

(* updates_preparelists: nothing is needed of the targets ts. *)
NothingToDo(ts) == \A t \in ts : \A rule \in ToSet(Updates[t]) : rule.from = Delete

Nothing(ts, skipold) == {t \in ts : Updates[t] = <<>> \/ (skipold /\ IsOld(t))}

(* The distributions that are to be marked *)
Marking(ts, big) == {d \in Distribution \ big : ToSet(TargetsOf[d]) \cap ts # {}}

StartCommand(ts) ==
    /\ pc = "idle"
    /\ small' \in BOOLEAN
    /\ selected' = ts
    /\ before' = packages
    /\ UNCHANGED <<packages, remote, lastseen, incomplete, bounds, passedover>>

(***************************************************************************)
(* updates_update up to the download: what is to be skipped, the lists of  *)
(* the other targets, and whether there is anything to get or to delete.   *)
(* If not, the indices are only noted as processed; a command that has     *)
(* nothing to note either does nothing at all.                             *)
(***************************************************************************)
StartUpdate(ts, skipold) ==
    LET old == Nothing(ts, skipold)
        read == {t \in ts \ old : DistributionOf(t) \notin omitted'}
        wanted == \E t \in read : Wanted(t)
    IN  /\ skipold => ~NothingToDo(ts \ old)
        /\ StartCommand(ts)
        /\ nothingnew' = old
        /\ Read(ts \ old, Updates, small')
        /\ IF wanted
               THEN /\ pc' = "download" /\ todo' = {} /\ done' = {}
                    /\ UNCHANGED processed
               ELSE /\ pc' = "mark" /\ todo' = Marking(ts, omitted') /\ done' = read
                    /\ todo' # {}
                    /\ processed' = [t \in Target |-> IF t \in read
                                        THEN processed[t] \cup {LinesOf(t)} ELSE processed[t]]

StartPredelete(ts, skipold) ==
    LET old == Nothing(ts, skipold)
    IN  /\ ts \ old # {} /\ (skipold => ~NothingToDo(ts \ old))
        /\ StartCommand(ts)
        /\ pc' = "predelete"
        /\ nothingnew' = old
        /\ Read(ts \ old, Updates, FALSE)
        /\ todo' = ts \ old
        /\ UNCHANGED <<done, processed>>

(* pull_update reads all targets before it changes the first. *)
StartPull(ts) ==
    /\ StartCommand(ts)
    /\ pc' = "pull"
    /\ nothingnew' = {}
    /\ Read(ts, Pulls, small')
    /\ todo' = {t \in ts : DistributionOf(t) \notin omitted'}
    /\ todo' # {}
    /\ UNCHANGED <<done, processed>>

---------------------------------------------------------------------------
(* Installing                                                              *)

(* aptmethod_download: all files, or the command ends. *)
Download ==
    /\ pc = "download"
    /\ pc' = "install"
    /\ todo' = {t \in selected \ nothingnew : DistributionOf(t) \notin omitted}
    /\ UNCHANGED <<packages, remote, lastseen, small, selected, nothingnew, omitted, lists,
                   incomplete, bounds, history>>

GiveUp ==
    /\ pc = "download"
    /\ Fault
    /\ UNCHANGED <<packages, remote, lastseen, changes, processed, passedover>>
    /\ Quit

(* What upgradelist_install and upgradelist_predelete make of target t *)
AfterInstall(t) == [p \in Package |-> Result(lists[t][p])]

AfterPredelete(t) ==
    [p \in Package |-> IF ToPredelete(lists[t][p]) THEN 0 ELSE lists[t][p].inuse]

(* Either of them got through the first n packages. *)
WorkedOff(t, n, after) ==
    [packages EXCEPT ![t] =
        [p \in Package |-> IF \E i \in 1..n : Packages[i] = p THEN after[p] ELSE @[p]]]

(* What comes after the loop: an update marks, a pull is done. *)
Leave(failed) ==
    IF pc = "install" /\ Marking(selected, omitted) # {}
        THEN /\ pc' = "mark"
             /\ todo' = Marking(selected, omitted)
             /\ incomplete' = incomplete \cup failed
             /\ UNCHANGED <<small, selected, nothingnew, omitted, lists, before>>
        ELSE Quit

(* On to the next, or to what comes after the last *)
Continue(x, Ending) ==
    IF todo = {x}
        THEN Ending
        ELSE /\ todo' = todo \ {x}
             /\ UNCHANGED <<pc, small, selected, nothingnew, omitted, lists, incomplete, before>>

(* One target of updates_install or pull_install *)
Install(t) ==
    /\ pc \in {"install", "pull"} /\ IsNext(t)
    /\ packages' = WorkedOff(t, Len(Packages), AfterInstall(t))
    /\ processed' = IF pc = "install" THEN [processed EXCEPT ![t] = @ \cup {LinesOf(t)}]
                                       ELSE processed
    /\ \/ Continue(t, Leave({})) /\ UNCHANGED faults
       \/ /\ \* tracking_retrack fails after the last target
             \A u \in todo \ {t} : DistributionOf(u) # DistributionOf(t)
          /\ Fault
          /\ Leave({})
    /\ pc' # "idle" => done' = done \cup {t}
    /\ UNCHANGED <<remote, lastseen, changes, passedover>>

(* A failure, or a signal, after the first n packages *)
InstallFails(t, n) ==
    /\ pc \in {"install", "pull"} /\ IsNext(t)
    /\ Fault
    /\ packages' = WorkedOff(t, n, AfterInstall(t))
    /\ Leave({t})
    /\ pc' # "idle" => done' = done
    /\ UNCHANGED <<remote, lastseen, changes, processed, passedover>>

(* One target of updates_predelete *)
Predelete(t) ==
    /\ pc = "predelete" /\ IsNext(t)
    /\ packages' = WorkedOff(t, Len(Packages), AfterPredelete(t))
    /\ Continue(t, Quit)
    /\ pc' # "idle" => done' = done
    /\ UNCHANGED <<remote, lastseen, bounds, processed, passedover>>

(* It goes on with the next target if it cannot read one, but not if it *)
(* cannot remove a package.                                             *)
PredeleteFails(t) ==
    /\ pc = "predelete" /\ IsNext(t)
    /\ Fault
    /\ \/ UNCHANGED packages /\ Continue(t, Quit)
       \/ /\ \E n \in 0..Len(Packages) : packages' = WorkedOff(t, n, AfterPredelete(t))
          /\ Quit
    /\ pc' # "idle" => done' = done
    /\ UNCHANGED <<remote, lastseen, changes, processed, passedover>>

(* A mutant: failed targets are marked, too. *)
MarkedAll(d) ==
    [t \in Target |->
        IF t \notin ToSet(TargetsOf[d]) THEN lastseen[t]
        ELSE IF t \in selected THEN LinesOf(t) ELSE NoLines]

(***************************************************************************)
(* markdone: the file is written anew with the targets the command selects *)
(* and that did not fail, whether they have been processed or not.         *)
(***************************************************************************)
Marked(d) ==
    [t \in Target |->
        IF t \notin ToSet(TargetsOf[d]) THEN lastseen[t]
        ELSE IF t \in selected \ incomplete THEN LinesOf(t) ELSE NoLines]

Mark(d) ==
    /\ pc = "mark" /\ IsNextDistribution(d)
    /\ LET noted == ToSet(TargetsOf[d]) \cap (selected \ incomplete)
       IN  \/ /\ lastseen' = Marked(d)
              /\ passedover' = (passedover \ (ToSet(TargetsOf[d]) \ nothingnew))
                                    \cup (noted \ (done \cup nothingnew))
              /\ UNCHANGED faults
           \/ Fault /\ UNCHANGED <<lastseen, passedover>>
    /\ UNCHANGED <<packages, remote, changes, processed>>
    /\ Continue(d, Quit)
    /\ pc' # "idle" => done' = done

(* The process is killed. *)
Crash ==
    /\ pc # "idle"
    /\ Fault
    /\ UNCHANGED <<packages, remote, lastseen, changes, processed, passedover>>
    /\ Quit

(* The remote repository publishes something else.  A run in progress has *)
(* its copies of the indices.                                             *)
RemoteChanges ==
    /\ pc = "idle" /\ changes < MaxChanges
    /\ \E i \in Index : \E s \in Snapshots \ {remote[i]} : remote' = [remote EXCEPT ![i] = s]
    /\ changes' = changes + 1
    /\ UNCHANGED <<packages, lastseen, pc, process, faults, history>>

Start ==
    \E ts \in Selections :
        \/ \E skipold \in BOOLEAN : StartUpdate(ts, skipold) \/ StartPredelete(ts, skipold)
        \/ StartPull(ts)

Step ==
    \/ Download \/ GiveUp \/ Crash
    \/ \E t \in Target :
          \/ Install(t) \/ Predelete(t) \/ PredeleteFails(t)
          \/ \E n \in 0..Len(Packages) : InstallFails(t, n)
    \/ \E d \in Distribution : Mark(d)

Next == Start \/ Step \/ RemoteChanges

Spec == Init /\ [][Next]_vars

(* update is run again and again without --onlysmalldeletes, and a command *)
(* that was started goes on.                                               *)
FairSpec ==
    /\ Spec
    /\ WF_vars(Step)
    /\ SF_vars(StartUpdate(Target, TRUE) /\ ~small')

---------------------------------------------------------------------------
(* What the runs check                                                     *)

(***************************************************************************)
(* The lines of a target are of indices it has been processed with, so     *)
(* that nothing new is skipped.  The targets updates_update writes down    *)
(* although it never came to them are an exception (see AllProcessed).     *)
(***************************************************************************)
SkippedWereProcessed ==
    \A t \in Target \ passedover : lastseen[t] # NoLines => lastseen[t] \in processed[t]

(***************************************************************************)
(* markdone: "mark index files as processed, so they won't process a       *)
(* second time": what is marked has been processed.                        *)
(***************************************************************************)
AllProcessed == \A t \in Target : lastseen[t] # NoLines => lastseen[t] \in processed[t]

(***************************************************************************)
(* docs/reprepro.1, --onlysmalldeletes: "The pull and update commands will *)
(* skip every distribution in which one target loses more than 20% of its  *)
(* packages (and at least 10)": with it neither makes any target lose so   *)
(* much, however far it gets.                                              *)
(***************************************************************************)
OnlySmallLosses ==
    [][small /\ pc # "predelete" => \A t \in Target :
          LET had == {p \in Package : before[t][p] # 0}
              lost == {p \in had : packages'[t][p] = 0}
          IN  \/ Cardinality(lost) < BigCount
              \/ Cardinality(lost) * BigShare <= Cardinality(had)]_vars

(***************************************************************************)
(* What the remote repository has arrives if it stays as it is and the     *)
(* failures end: no lastseen file hides it from the updates for good,      *)
(* again with the exception of targets that were passed over.              *)
(***************************************************************************)
NewsArrive ==
    <>[](\A t \in Target : Updates[t] = <<>> \/ t \in passedover \/ LinesOf(t) \in processed[t])

=============================================================================
