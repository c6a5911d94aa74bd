# reprepro in TLA+

Models of reprepro, a manager of local Debian package repositories, with the
TLC configurations that check them and TLAPS proofs about eight of them.
Every definition is translated from the C sources; `PROJECT.json` maps each
one to the lines it stands for.

    tlc -config PackageRefs_faults.cfg MCPackageRefs.tla
    tlc -config Algorithms.cfg MCAlgorithms.tla
    tlapm PackageRefsProofs.tla

and likewise `PoolRun`, `Tracking`, `Release`, `UpgradeTarget`, `Updates` and `Process`,
each with its `_faults.cfg` (`_marks.cfg` for `UpgradeTarget`), its MC module and its
module of proofs.

## 1. The system

reprepro is a command line program. A run takes a lock, executes one command
over a handful of Berkeley DB tables and two directory trees, and ends. There
is no transaction around a command: every table write, rename and unlink takes
effect when it is made, any of them may fail, and the process may be killed
between any two. What is hard is therefore not parallelism in the usual sense
but the order of writes: which intermediate states a failure, a signal or a
crash leaves behind, what the next run makes of them, and which facts are kept
in memory only.

| Component | Source | State | Operations |
|---|---|---|---|
| Targets and references | `target.c`, `reference.c` | `packages.db` (records per codename/component/architecture), `references.db` (a bag of pairs file, user) | add, replace, archive, trim, remove, rereference |
| Pool and checksums | `pool.c`, `files.c` | files below `pool/`, `checksums.db`, flags of files changed in this run | include, expect, dereference, tidy, delete |
| Course of a run | `main.c`, `outhook.c` | phase, the list of events for the outhook | action, tidy, report, export, clean-up |
| Tracking | `tracking.c` | `tracking.db` (source versions with files, types and counts), one track in memory, the "remembered" list | insert, remove, finish, tidy, retrack, removetrack, removesrc |
| Export | `release.c`, `exports.c`, `distribution.c` | files below `dists/`, `release.caches.db`, "modified" marks in memory | write `.new`, prepare, rename, store, report |
| Database layer | `database.c` | lock file, `version`, `packages.db` and `packagenames.db` in the layout of this or an older version | lock, open, create, translate, close |
| Downloads | `aptmethod.c`, `downloadcache.c`, `remoterepository.c`, `diffindex.c`, `rredpatch.c` | queue of requests per method, items wanted | enqueue, answer, fail, redirect, restart |
| Incoming | `incoming.c`, `checkin*.c`, `changes.c`, `uploaderslist.c` | the incoming directory, candidates with files, TempDir, lists of files to delete | read, check, prepare, add, clean; include |
| Updates and pulls | `updates.c`, `pull.c`, `upgradelist.c`, `filterlist.c` | the list of versions to install or delete, `lastseen` files | decide, dump, install |
| Copies, floods | `copypackages.c`, `archallflood.c` | lists of packages to copy, per target | copy, move, restore, flood |
| Conditions | `dpkgversions.c`, `globmatch.c`, `terms.c`, `termdecide.c`, `filterlist.c` | the cursor of a filter list | compare, match, compile, evaluate, find |
| Checksums | `checksums.c` | what is known of a file: size and some hashes | parse, compare, combine, complete |
| Signatures | `signature.c`, `signature_check.c` | known keys | read a signed file, verify a Release file |
| Reports | `sourcecheck.c`, `needbuild.c` | sorted lists of sources | unusedsources, sourcemissing, reportcruft, build-needing |
| rredtool | `rredtool.c`, `rredpatch.c` | a directory of patches and its `Index` | merge patches; export |
| Notification | `log.c` | a queue of scripts to run, their processes and pipes | log, feed, wait |
| Configuration, reading of packages, changestool | `configparser.c`, `chunks.c`, `debfile.c`, `dscfile.c`, `tool.c`, ... | none that outlives a call | |

How they interact. A command (*main*) lets *checkin*, *updates* or *copypackages*
put files into the *pool*, which registers them in `checksums.db`, and packages into
*targets*. A target first references the files in `references.db`, then writes its
record, keeps *tracking* informed, and drops the references of what was replaced; a
replaced package may be added to an *archive* distribution, which is another target.
A file whose last reference goes is only remembered by *pool*. When the command is
over *main* deletes new files nobody uses, tells the outhook what is new, *exports*
the modified distributions and deletes files without references, unless there was an
error. The tables meet in one promise: **what is listed is referenced, what is
referenced is registered, and what is registered is on disk**.

What makes each component correct:

- *targets*: a listed package's files are referenced by its target, at any point
  where the process may die; between operations exactly once per package;
- *pool*: no used file is deleted; no garbage stays without an error; the mirrors fed
  by the outhook have the files of the pool; a published index never lists a missing file;
- *tracking*: the counts are the packages that use a file; a record's files are
  referenced; nothing needed is untracked and nothing unneeded stays;
- *export*: a signed `Release` lists checksums of what is in `dists/`; the cache never
  vouches for another file; `Release` changes last;
- *downloads*: every request ends in one callback, whatever the method does;
- *incoming*: what is published and tracked is whole whoever writes to the directory
  meanwhile, and a file is deleted there only when it was taken in (or so configured);
- *updates*: the version installed is the one the rules ask for, whatever their order allows;
- *database*: one process at a time; no table lost by a crash while translating;
- *notification*: a script is told of each change once, in order, and waited for;
- *conditions*: `dpkgversions_cmp` is a total order; globs, formulas, filter lists,
  `Uploaders` files and `VerifyRelease` conditions mean what they say, in whatever order
  their parts were read and whatever was asked before;
- *checksums*: a combination never forgets or contradicts one;
- *copies, floods*: all or nothing is chosen, nothing a move takes away is lost, a flood
  never downgrades;
- *reports*: with and without tracking the same is reported;
- *rredtool*: a patch offered for an old file makes the new one of it.

`PROJECT.json` lists, under `hazards`, the places where this may go wrong in a way a
test hardly reaches.

## 2. Plan

Order: first the promise the tables make to each other, as everything else leans on
it; then what publishes it; then what feeds it; last the algorithms.

| Module | Models | Step of the plan | State |
|---|---|---|---|
| `PackageRefs` | `target.c`, `reference.c`, write by write | 1 | done, proved |
| `PoolRun` | `pool.c`, `files.c` and the course of a run in `main.c` | 1 | done, proved |
| `Tracking` | `tracking.c` and its callers | 1 | done, proved |
| `Release` | export of a distribution | 1 | done but for Contents files, hooks, symlinks; proved |
| `UpgradeList` | the entries of `upgradelist.c`, the decisions of `updates.c`, `pull.c`, `filterlist.c` | 1 | done |
| `UpgradeTarget`, `Selection` | one target's list from reading to installing; what it promises | 1 | done, proved |
| `Updates` | the course of update, predelete and pull over several distributions; `donefile.c` | 1 | done, proved |
| `Downloads` | `aptmethod.c`, `downloadcache.c`, `remoterepository.c`: a method, its queue, the indices | 1 | done but for several methods and runs without Release files |
| `Archive`, `Incoming`, `Checkin`, `Intake` | `incoming.c`, `checkin*.c`: what both share, processincoming, include, and both over one directory | 2 | done, proved |
| `Database`, `Notifiers`, `Process` | `database.c`, `log.c`, and `callaction` of `main.c` around them | 2 | done, proved |
| `RredPatch`, `PatchIndex` | `rredpatch.c`; `rredtool.c` as an export hook | 3 | done |
| `Conditions`, `Checksums`, `Signatures`, `Uploaders`, `Flood`, `Reports`, `Copying` | the algorithms, each next to a reference definition | 3 | done |
| `Algorithms` | an input of one of those, or an export of `PatchIndex` | 3 | done |
| Contents files and the other parts of an export | `contents.c`, `exports.c` | 4 | left out (section 7) |

Composition. `PoolRun` adds or removes a package in one step, with the references that leaves
(`refs`), a failing step with each of the states `PackageRefs` reaches write by write, the
damaged targets of `PackageRefs` included (`PackagesReferenced`, `ReferencesExact`); `Tracking`
holds the references of tracks next to those of targets. That promise is proved as invariants
of `PackageRefs`, not as a refinement of a machine with sets of packages: a failing operation
stops between the writes it would do in one step there, and the invariants hold at those
points, too. `UpgradeTarget` and `Updates` share `UpgradeList`, the one with every decision and
offer but a single target, the other with the whole course of the commands but fixed rules;
`UpgradeTarget` implements `Selection`. `Downloads` is what is behind the one step `Download`
of `Updates`: that ends with everything there or with an error. `Intake` extends `Incoming` and
`Checkin`, which both extend `Archive` and take turns on its state; `Process` extends
`Database` and has an instance of `Notifiers` for each command; `Algorithms` extends
`PatchIndex` and has an instance of each of the algorithms.

Proofs. In this order: `PackageRefs` (accounting, limits, archiving), `UpgradeTarget`
(action properties and the refinement), `PoolRun`, `Tracking`, `Release`, `Process`,
`Updates`, `Intake`; for each of them its types and every safety property its run checks.
Section 5 says along which invariant. Left are `Downloads`, `PatchIndex` and the
algorithms, for the reasons given there.

## 3. The modules

**PackageRefs** (`target.c`, `reference.c`). A distribution has one target.
`packages[t]` is the set of its records, `refs[t][f]` how often it references a file
(Berkeley DB keeps duplicates, so it is a bag). A call of `target_addpackage`,
`target_removepackage` or `target_rereference` is an activation record `frame[t]` whose
`pc` says which write comes next; actions are single writes: `InsertOne` (one element of
`references_insert`), `ArchivePackage`/`ArchiveReturn` (the nested call into the
archive's target), `DeleteOld`, `AddNew`, `UnrefOne` (one element of
`references_delete`), `TrimNext`/`RemoveRecord` (the iterator that enforces `Limit`), and
`ForgetOne`/`RelistOne` for rereference. `AddFrames` decides what is replaced, trimmed or
skipped. Every write may fail (`Fault`), `Crash` forgets all frames. `damaged` and `leaky`
are history variables: targets that went through one of the ways known to lose
references, or to leave one too many.

**PoolRun** (`main.c`, `pool.c`, `files.c`, `distribution_exportlist`). Runs follow each
other: `StartRun`, the command (`CopyFile`, `ExpectFile`, `AddPackage`, `AddPackageFails`,
`RemovePackage`, `DeleteUnreferenced`), `EndAction`, then the phases tidy (`TidyAdded`), report
(`SendNewFiles`), `Export`, clean-up (`RemoveUnreferenced`), `EndRun`. Deleting is two
steps (`DeletePoolFile` unlinks, `ForgetFile` removes the record), as is adding.
`refs[t][f]` counts the references of a target to a file. `AddPackageFails` has the four places
an addition fails at: a new reference, the archiving or deletion of the old version (the
old record stays, its references go; the target is `damaged`), the new record, an old
reference; trimming goes on after each. With `--export=never` (`ExportWhen`) nothing is exported
and the clean-up deletes all the same, so that what the run changed is `unexported` from then on.
`published[t]` is what the index in `dists/` names, `mirror` what a script fed with
POOLNEW and POOLDELETE has. `Interrupt` is a signal, which main only looks at between
phases; `Crash` loses flags, marks and events. `GenerateSnapshot` puts a snapshot's files in
place, then `ReferenceSnapshotFile` references what it names, one file after the other;
`UnreferenceSnapshotFile` gives that up, after the directory was removed as the manual
asks. There is one snapshot at a time, its name is used again once it is unreferenced.
`bare` remembers that the making of the snapshot was cut short.

**Tracking** (`tracking.c`; callers in `checkin*.c`, `copypackages.c`, `main.c`). The record at
hand is in memory (`current`, `counts`), those changed beside it are saved and `remembered`;
`Finish`, `FinishNext`, `TidyFile`, `TidySave` are the walk of `trackingdata_finish`.
`retrack`, `tidytracks`, `removetrack`, `removesrc` and `rereference` are further commands that
use the same steps. Counts may be outdated, as the code has a mark for that (`staletracking`),
and the model a variable. A copy, move or archiving is counted under the version of the package
itself (`CopiedAs`), whatever its source has; `misfiled` are the sources this gave a wrong
count. `setting` is what a behaviour has to do with: the mode, and the packages and further
files that are uploaded to the distribution.

**Release** (`distribution.c`, `exports.c`, `release.c`). `StartExport`, then for each target
`KeepTarget` (checksums from the cache) or `WriteTarget` (new `.new` files), `Prepare`
(Release, signatures), for each entry `Rename` or `FinishDelete`, `Store` (the cache),
`Report`, which only writes lines to the .outlog of the run (`outlog`), and `CallOuthook` at
its end: the script is not called after a signal, may fail with some of the lines worked off,
and only one that succeeds has followed all of them. `touched` are the files this run has
changed in `dists/`, `unsent` those of runs whose lines were not followed. A file's content is
the state of the target it was written from. `Lose` removes a file behind reprepro's back.

**UpgradeList** (`upgradelist.c`, `filterlist.c`, `ud_decide_by_pattern`,
`ud_decide_by_rule`) has no state of its own. An `Entry` is a `struct package_data`: the
version in use, the candidate, whether the version settled on is the candidate (in C: the
two pointers are the same), and the mark for deletion. `Decision` is what the filter
lists say of an offer, `Tried` what `upgradelist_trypackage` makes of an entry, `Cleared`
what a delete rule does, `Result` what `upgradelist_install` leaves.

**UpgradeTarget** is one target in an `update`, `predelete` or `pull`: `Initialize` reads
it, `DeleteAll` and `Offer` are the rules, `Enqueue` ends the reading, `Install` and
`Predelete` are single rounds of the loops over the list, and `Free` gives the list up at
any point (an error, a signal, a crash, or the end). `cleared`, `invited`, `held` are
history: what the rules of this run have said of a package. **Selection** is what it
promises: one mark per package, "the best version so far, and whether it is kept".

**Updates** (`updates.c`, `pull.c`, `donefile.c`) is the course of the three commands over
all distributions: `StartUpdate` skips the targets whose indices the `lastseen` file
knows (`IsOld`), reads the others, leaves out distributions that would lose too much
(`IsBigDelete`, `--onlysmalldeletes`), and finds out whether there is anything to do;
then `Download` or `GiveUp`, `Install` or `InstallFails` target by target, and `Mark`
writes the `lastseen` files. `StartPredelete`, `StartPull` share these steps as far as
the code does. The remote repository changes by itself. `processed` remembers what each
target has really been processed with, `passedover` the targets the code notes without
having come to them (finding 9).

**Downloads** (`aptmethod.c`, `remoterepository.c`, `downloadcache.c`, the queue in
`uncompression.c`) is the three downloads of an update: `Start` asks for the Release
files, `ReadRelease` for the indices, `ReadIndices` for files. `todo` is the method's list
of requests, the first `sent` of them sent. What a method may do are actions of their own:
`Capabilities`, `Delivers` (any content), `Fails`, `Redirects`, `Writes` (a part of a
file), `Complains`, `MethodEnds`. The callbacks (`GotRelease`, `GotIndex`, `GotDiffIndex`,
`GotPatch`, `GotFile`, `NotGot`, `Unpacked`, `Patched`) are functions of a record of
everything they may change, as they call each other: an answer queues the next encoding
(`NextEncoding`), patch (`NextDiff`) or uncompression, and `Answered` is the handler as a
whole. Contents are numbers: the version of the remote distribution they are of. The
method answers in order (finding 14), Release files list uncompressed indices, and the
uncompressors are external programs; the built-in ones do the same at once.

**Archive** is what `processincoming` and `include` share: the incoming directory, the pool
(registration and file in one, module `PoolRun` takes them apart), the distributions with what
their packages and tracking data hold, `AddPackage` (`target_addpackage` with `Limit: 1`),
`AddFile`, and the end of a command, which tidies the pool. `Put` is somebody else in the
directory: any file may appear, vanish or change at any time. **Incoming** (`incoming.c`) lists
the directory once and then goes through the `.changes` files in any order:
`Refused`/`Accepted` (fields, signature, distribution), `ReadPackage`, `PrepareFile` and
`CopyLog` (copies in TempDir, compared after copying), `CheckFails`, `NothingToDo`,
`CheckSucceeds` (for every distribution and package), `RunHooks`, `LinkFile` into the pool,
`LinkLogs` into LogDir (which files is settled when the copying starts: `logfiles`),
`StartInto`, `AddPart` and `FinishInto` for each distribution, and `Added`, which only marks
what is to be deleted; `CleanFile` deletes in the end, into MorgueDir if there is one, which is
an error for a file that has vanished. **Checkin** (`checkin.c`, `checkindsc.c`,
`checkindeb.c`) is `include` of a `.changes` file: `Examine`, `CopyEntry` into the pool,
`CheckPackages` there, `IncludeChangesFile`, `AddEntry`, `SaveTracking`, `DeleteChanges`,
`DeleteLeftover`; and of a single package: `PreInclude`, `IncludePart`, `AddIncluded`,
`DeleteIncluded`. **Intake** lets commands of both kinds follow each other.

**Database** (`database.c`) has the files of the database directory as variables and for
each command a `job`, the place in the code and what is known there: `Begin`, `Acquire`,
`TryAgain` and `GiveUp` at the lock; `Create`, `CreateTable`, `Created` for a new database;
`OpenPackages`, `OpenPrimary`, `OpenSecondary` for each table; `TranslateLegacy`,
`TranslatePrimary`, `TranslateTable` and `Translated` for the database of an older version,
whose keys lack the version (`keyed`). `Visible` is what one finds through the secondary
database. Every system call may fail, in the midst of a table that is copied, too
(`CopiedInPart`); that a database without `tracking.db` counts as new, or with unused tables as
in order, is a choice of `ToCreate`. `Kill` may come anywhere and leaves the lock file,
which somebody may delete then (`DeleteLockfile`). **Notifiers** (`log.c`) is the list of
`struct notification_process` of one command: `Enqueue` and `EnqueueOnly` (fork works or
not), `WaitTurn` and `IdleTurn` (children that ended are caught, the next is started),
`ScriptEnds`, `Abandon`. **Process** is the course of a command around both: `StartAction`,
`Change` a record and tell the notifiers one by one (`TellNext`), `EndAction`, waiting
(`Turn`, `Waited`), `Tidy`, close. Several commands run at once, as far as the lock lets them.

**RredPatch** (`rredpatch.c`) reads ed commands into modifications (`PatchLoad`), merges two
patches (`CombinePatches`), prints and applies them; `PatchesAgree` compares with an
editor. **PatchIndex** (`rredtool.c`) is the export hook that keeps patches and an `Index` of
them besides an index file: `Export` writes the new ones, and what `release_finish` puts
in place is a list of renames and deletions (`pending`) worked off by `Finish`, which may
fail or die between any two; `damaged` and `reused` are history.

**Conditions**, **Checksums**, **Signatures**, **Uploaders**, **Flood**, **Reports** and
**Copying** have no state. Each translates the functions of its files on small data, as
globs over numbers for characters, fingerprints as sequences, packages as records, and
ends with what they are to compute, stated from the manual in terms of sets and
quantifiers: `GlobAgrees`, `VersionsOrdered`, `FormulaDecides`, `FilterFinds`;
`ClaimsAdded`, `ListsKept`; `ReleaseTrusted`; `UploadDecided`; `FloodPrefers`;
`ReportsAgree`, `BuildsListed`; `CopiesExactly`, `RestoresExactly`. These references share
no operator with the translation where the code is known to read something otherwise:
`Holds` in `Uploaders` is of what the manual says a condition is about, and what `include`
asks instead is an exception by name (`ReadOtherwise`). What is state in the
code and carries over (the cursors of lists, keys loaded before, the group known by an
earlier line) is handed from step to step of a fold, as the order is where these may go
wrong. **Algorithms** chooses an input, one per behaviour, so that TLC does it for all.

The MC modules give the constants values that make the interesting cases happen: versions
that share files, builds of the same version, an archive, two files of one target.

## 4. The runs

| Run | Instance | Shows |
|---|---|---|
| `refs_faults` | two targets, one the archive of the other, the other with `Limit: 2`; four builds of three versions over three files; one failure or crash | listed files stay referenced, references are exact, and what is replaced is archived first; limits hold, operations end |
| `pool_faults` | two distributions, two versions sharing a file, a snapshot; one failure (of an archiving, too), signal or crash; any run may be called with `--export=never` | no file that is used, published or part of a snapshot is deleted, no garbage stays, mirrors follow |
| `pool_stale_index` | the same, no crash | **finding**: a file an unexported index names is deleted by a later run |
| `tracking_faults` | two versions of a source sharing a file, a source with a .changes file, or with its binary in two targets, or a binary copied under the version of another source, in one or two of the modes keep, all and minimal; one failure, error or crash | counts, records and references agree, files are given up exactly when the mode says |
| `tracking_removesrc` | two sources and a binary | **finding**: removesrc leaves binaries and forgets their track |
| `release_faults` | a target with two index files and one with one, two changes, two failures of any kind, among them a signal before the outhook and a script that fails midway | Release lists what is there, the cache tells the truth, Release is last, mirrors follow |
| `upgrades_marks` | one package in three versions, six actions of a filter list, three of the command line, all three commands, any number of rules | an entry amounts to one mark (`Selects`); nothing is downgraded without a delete rule, added by upgradeonly, lost after a hold |
| `updates_faults` | two distributions, three targets, two indices, a delete rule, an update and a pull; the whole or one target selected; one change of the remote side, one failure or crash | what is skipped was processed, losses stay small, and news arrive in the end |
| `downloads_faults` | an index to be patched (twice), fetched packed or as it is, a file, three versions; a fallback, a redirection; anything may fail, end, be interrupted or killed at any time | only what was wanted is used (`ContentsTrue`), nothing is missing without an error (`AllThere`), every download ends (`Ends`) |
| `intake_faults` | two versions of a source with a common tar file, a log, a byhand file; three rules, include and includedsc; one change of the directory, failure, signal or death | what is published and tracked is whole (`PublishedWhole`), what is deleted as processed was taken in (`ProcessedAreIn`), include deletes only what the pool got (`MovedIsThere`) |
| `process_faults` | two commands over a new database or one of the old layout with two targets; two scripts; one failure, signal, kill (within the copying of a table, too) or stale lock file | one inside at a time (`OneInside`), scripts are called once and in order (`CallsInOrder`), no record is lost (`NothingLost`), everyone ends (`EveryoneEnds`) |
| `algorithms` | one input of each algorithm, or four exports of a file with patches | each computes what it is to: `EditsKept`, `IndexServes`, `RulesMean`, `RightsMean`, `HashesKept`, `CommandsMean` |

Bounds. `MaxFaults` bounds failing writes and crashes per behaviour. One failure at any of the
writes, followed by any number of further operations, covers the single points of failure;
`release_faults` takes two, as an error there is only harmful in a later export. `MaxChanges`
is the number of changes of a target's content in `Release` (two: the cache must tell the
current state from one earlier) and of the remote repository in `Updates` (one is enough for an
index to be old, then new; `Snapshots` has three contents of an index, one empty, so that a
change adds, upgrades and removes). `MaxUses` cuts off counts that grow by repeating a command
on outdated data. `MaxVersion` is three in `upgrades_marks`: older than, equal to and newer
than what is there, with room for a candidate that is superseded by a better one; the entries
of a list do not influence each other, so one package is enough there. `BigCount` and
`BigShare` are 10 and 5 in the code; `updates_faults` takes 1 and 2, so that a target of two
packages can lose too many. `downloads_faults` bounds no failures: there are finitely many
encodings, redirections and patches anyway. `Latest` is three, so that it takes two patches
from the oldest version to the newest, and the remote side may serve versions that are older or
newer than what its Release file lists; `MaxRedirects` is 10 in the code, one is enough to see
both sides of the limit. A second index multiplies the states by the ways to interleave two
such indices, which have nothing but the queue in common. `intake_faults` has a source as it
comes: the second version needs the tar file the first brought, so that it may be in the pool,
in the directory, damaged, or given up meanwhile. One rule leads into two distributions, one
deletes what it refuses, one knows no logs; one upload may be malformed and the other badly
signed. At first all files are there, but for one that is missing or damaged; among any number
of commands one more thing goes wrong. `process_faults` has two commands, as a third would only
wait as well; `MaxTries` is one (give up, or try once more), and `MaxWork` three, enough to
open both tables and change one or to change one twice. The inputs of `algorithms` are small
but complete: all globs of up to three elements, all triples of versions out of about thirty
with `~`, letters, leading zeros, epochs and revisions, patches of up to three commands,
formulas of up to four atoms, conditions of up to three terms, filter lists and lists of files
of up to three and two lines, distributions of two targets with up to three packages. Three is
where merging, operator precedence, or a cursor that looks forward first can go wrong.
Packages, files and targets are as few as make two packages of a target, two targets, or two
tracks share a file; `refs_faults` uses three versions so that a limit has something to trim.
The invariants that say "except" (`damaged`, `leaky`, `exposed`, `orphaned`, `misfiled`,
`suspect`, `torn`, `unsent`, `unexported`, `halfdeleted`, `bare`, `lossy`, `passedover`) name
the damage exactly: a history variable is set by the one write that fails, the crash point or
the early return that leaves the damage, never by a failure as such, so that the property still
speaks of every other target, file or record after a failure. They are kept apart from the
state they are about, so that a step that damages more than it says is found.

`pool_faults`, `tracking_faults` and `release_faults` are checked under a view (`MCView`) that
leaves out what neither an action nor a property looks at any more: the index of a damaged
target and the log of the outhook once something was lost; what was misfiled once the counts
are outdated; `.new` files without an entry and the copies of files that are to be reported
anew.

Deadlock is checked where the system runs on: a command can always be started or given
up. In `process_faults` each command is begun once, and in `algorithms` an input is chosen
once, so that both stop in the end; `EveryoneEnds` says of the first where.

Type invariants. Each module with state states one (`TypeOK`). They are proved for all
modules that have a module of proofs; the configurations check none of them, as all runs
would only repeat what the other invariants and the operators already depend on.

Fairness. `refs_faults`, `updates_faults`, `downloads_faults` and `process_faults` check a
liveness property each; in all but the third `MaxFaults` allows a failure or crash before
things settle. All ask that a running process goes on with its operation (weak fairness of
`Step`), which is what a sequential program does. In `Downloads` that includes the method and
the uncompressor: there is no timeout in `readwrite` ("TODO: think about a timeout"), the
methods of apt have theirs; no fairness makes a method deliver anything rather than fail. In
`PackageRefs` and `Process` commands need never be started. In `Process` a script ends at some
time: the code waits for it without a limit, so that one that does not end stops everyone, too.
No fairness makes anybody remove the lock file of a process that was killed; who waits for it
gives up after `MaxTries`. In `Updates` somebody runs `update` for all targets again and again
(as a cron job does), without `--onlysmalldeletes`, which may rightly withhold a change for
ever; the fairness is strong because other commands may run in between.

## 5. What is proved

Each module of proofs has an inductive invariant, `IInv`, the facts that `Init` establishes
it and that every step preserves it, and theorems that follow from it. They hold for every
value of the constants that satisfies the named assumptions of the module: any number of
targets, packages, files, commands, failures and crashes.

`PackageRefsProofs` (also for chains of archives and any limits):

- `TypeCorrect`: `Spec => []TypeOK`; `BooksBalance`: `Spec => []Accounting`
- `ReferencesSurvive`: `Spec => []PackagesReferenced`
- `ReferencesAreExact`: `Spec => []ReferencesExact`
- `LimitsAreKept`: `Spec => []LimitEnforced`
- `NothingLostUnarchived`: `Spec => ArchivedBeforeRemoval`

The inductive invariant is `IInv == TypeOK /\ Accounting`. Types alone are not inductive:
that a step looks up `Files[fr.new]` of a package and not of `NoPackage` follows from what
`FrameOK` knows of the activation. `PackagesReferenced` is not inductive either: while
files are being dropped one by one, whether the next is still needed by another package
depends on how many references there are. `Accounts` therefore counts: a target that is
not damaged holds at least `Balance`, that is one reference per listed package and file
plus one for each file in `Owed`, those the unfinished operation has inserted for a
package not yet listed, or not yet dropped for one no longer listed; and exactly that many
if it never failed. The proof has a lemma per group of actions (each about one target's
`Accounts`, with pointwise facts on `refs`), lemmas on how `Count` changes when a package
is added or removed (from the cardinality theorems of `FiniteSetTheorems`), and a step
per action. For the last two theorems `KeepInv` adds `Limits` (how many versions there may
be at which point of an addition), `Chain` (one activation works, those that wait for it
form a chain of calls) and `Archivals` (what a target is about to remove, the archive has
or is just adding). Assumed is that `NoTarget`, `NoPackage` are not members, that a target
is not its own archive, and that the set of packages is finite.

`PoolRunProofs`:

- `TypeCorrect`; `UsedFilesStay`: `Spec => []UsedFilesKept`
- `ClientsFindFiles`: `Spec => []PublishedFilesExist` (but for damaged targets and
  those changed by a run that did not export them, as `--export=never` asks for)
- `RunsLeaveNoGarbage`: `Spec => []NoNewGarbage`; `MirrorIsTold`: `Spec => []MirrorMatchesPool`

`Kept` says what the marks of `pool.c` mean in which phase (`FlagsTrue`), that a walk only
deletes registered files without reference (`DoomedUnused`), that a target that is not damaged
holds at least one reference for each of its packages with a file (`Covered`), and that files
it references are registered (`UsedRegistered`). `Covered` counts, like `Accounting` above, as
an addition may drop references to files other versions share; the set of packages is assumed
to be finite. `ExportInv` relates the indices: one that is not stale names registered files
that are not new in this run, and a target that was changed is exported before anything is
deleted. `GarbageMarked`, `PoolKnown`, `AddedInTime` and `MirrorTold` say for each phase what
is still on its way: a file without reference is marked or waits in the walk; pool and database
differ by the file in between; what the mirror lacks is in the events for the outhook.

`TrackingProofs`:

- `TypeCorrect`; `TracksHoldTheirFiles`: `Spec => []ReferencesExact`
- `NothingUnneededStays`: `Spec => []OnlyNeededTracked`
- `UsesAreCounted`: `Spec => []CountsExact`
- `TracksKeepFiles`: `FilesListed /\ Spec => FilesKept`

`IInv` places the record in memory and the loops (`Placed`), bounds the references of a
track from both sides (`NoExcess`, `HeldReferenced`, while all are made anew
`Rereferencing`), and says that a record that is perhaps untidy is remembered
(`UntidyRemembered`). `CountsInv` balances the counts: `Balanced` has the uses of a file,
and those the command is still to add, equal to the packages that use it and those it is
still to take away; `RetrackKnown` has the same for the part of the packages a retrack was
at. Both are about the sources that are not `misfiled`: a copy, a move and archiving count a
package under its own version, which is not that of its source if a binary has a version of
its own (finding 7), and the counts of the two records this concerns are wrong until a
retrack. That the damage stays within these two is part of what is proved.
`FilesListed`, that each package has a file, is true of every package reprepro accepts.

`ReleaseProofs`:

- `TypeCorrect`; `ReleaseListsWhatIsThere`: `Spec => []IndexConsistent`
- `CacheIsTrue`: `Spec => []CacheTruthful`; `ExportsAreCurrent`: `Spec => []ExportCurrent`
- `CopyIsTold`: `Spec => []MirrorMatchesDists`

The invariant is about the list of entries: each file has at most one, and has it when its
target is done (`Listing`); an entry is `Written`, with its file waiting as `.new` or in place,
or `Kept`, with the checksums of the cache (`IndexEntries`); `Release` and the signatures hold
what the entries list once they are in place (`SpecialEntries`); what is still `.new` after the
renames means an error (`Failures`). `MirrorTold` says that the copy differs from `dists/` only
in files this run has touched or an earlier one left `unsent`, and `Reporting` that there is an
entry, and then a line, for every file touched. Assumed is that different targets have
different files.

`UpgradeTargetProofs` (any filter list, any rules and offers in any order, interrupted anywhere):

- `TypeCorrect`; `NothingDowngraded`: `Spec => NeverDowngrades`
- `NothingAddedByUpgradeonly`: `Spec => AddedWereInvited`
- `HeldPackagesStay`: `Spec => HeldStay`
- `ImplementsSelection`: `Spec => Selects`, that is the specification of `Selection` with
  `marks` and `stage` computed from the list

Its inductive invariant has three parts. `TypeOK` says that entries are `Sound` (the
candidate is never the version in use: otherwise the list would fetch what is there).
`InStep` ties the target to the list: what the list says is in use is what the target has
while rules are read, and afterwards it has that or already the result; without it the
list could not be said to make anything of the target. `Justified` ties the entries to
the history: what is marked for deletion, or older than what is in use, was spoken of by
a delete rule or a supersede; what is held is not marked; a candidate for a package that
was not there was invited. Each of these is a lemma about `Tried` (`TriedSound`,
`TriedNewer`, `TriedKeeps`, `TriedCandidate`, `UpgradeonlyAddsNothing`), so that the proof
that an offer preserves the invariant only puts them together. For the refinement
`TriedMark` says that an offer leaves the mark of its package alone or changes it as
accepting, holding or superseding does.

`UpdatesProofs` (any distributions, targets, indices and lists of rules):

- `TypeCorrect`; `NothingNewIsSkipped`: `Spec => []SkippedWereProcessed`
- `SmallLosses`: `Spec => OnlySmallLosses`

Beside the course of the commands (`Quiet`, `Queued`) the invariant says that a list is of
the packages there were when it was read (`ListsTrue`), that every package is still what it
was or what the list made of it (`Halfway`), that with `--onlysmalldeletes` no list deletes
too much (`SmallOnly`), and that what a running update skips or is through with was
processed with the indices as they are (`Fresh`). That the fold over the rules of a target
keeps entries real is an induction over data; it is made as an argument about the least
rule after which an entry is not (`LeastNumber`). `SmallLosses` follows through the integer
division of `upgradelist_isbigdelete`: what a half installed list has taken away is a
subset of what the whole list deletes.

`ProcessProofs` (any number of commands, tables and scripts):

- `TypeCorrect`; `OneInsideAlways`: `Spec => []OneInside`
- `CallsInOrderAlways`: `Spec => []CallsInOrder`; `NothingLostAlways`: `Spec => []NothingLost`

`LockHeld` gives `OneInside`, together with `Quiet`: no scripts are there before the first
change or after an end that was not forced. For `NothingLost` the invariant knows what is in
the three files at each point of an opening or translation: where an opening returns to
(`Returns`), what was created or is translated by then (`Placed`, `GoodFiles`), and that,
unless `torn` (a table was left without its secondary one), a table in `packages.db` has its
secondary one or is just being made (`Paired`), so that `packages.db` is not renamed over a
`packages.legacy.db` that still holds something. `Lines` relates the list of `log.c` to the
calls due and the calls made: the first ones due were made, and the list is the rest in its
order.

`IntakeProofs` (any uploads, packages, distributions and rules; any changes of the directory):

- `TypesHold`: `Spec => []TypeOK`; `WholeIsPublished`: `Spec => []PublishedWhole`
- `MarkedAreIn`: `Spec => []ProcessedAreIn`
- `MovedAreThere`: `Spec => MovedIsThere`

The invariant follows an upload through `candidate_add`. `Candidate`: a copy in TempDir is
what the `.changes` file lists, whatever lies in the directory by now. `Prepared`: what was
prepared is not in conflict with the pool, and its copies have been made. As only the
command itself changes the pool, that still holds when files are linked, so that
(`Linking`, with the lemma `LinksSuffice`) each file of a package to be added is in the pool
or made by a link still to come, and (`Linked`) all are there before the first package is
added. `Arrived`: skipped and added packages are in. For include, `Included` says that the
entries of the `.changes` file are in the pool as listed from `CheckPackages` to the last
deletion. At the end `CommandEnds` needs that a pool file is only deleted if no package and
no tracking data names it. Assumed is what the checks of the parsers establish:
a `.changes` file lists its packages with the contents they are known by
(`ArchiveAssumption`), and no name or package is `None` (`NonesApart`). The proof
covers two cases the instance of `intake_faults` does not have: a needed file that is in the
upload under another name (`Twin`), and two packages of an upload that want different files
under one name in the pool.

The type invariants and `BooksBalance` have no run of their own: they are the invariants
the others follow from.

Only model-checked: `OperationsFinish`, `NewsArrive`, `Ends` and `EveryoneEnds`, as liveness
is out of the prover's reach; the safety properties of `Downloads`, whose handlers call each
other through a record of everything they may change, so that nearly every step may do
nearly everything (an inductive invariant of it has not been worked out); `PatchIndex` and
what the other algorithms compute, over bounded inputs: most are recursive over their
input, so that a statement about every input would need an induction with an operator as
parameter, and several use RECURSIVE operators, which the provers do not take.

## 6. Findings

Shown by a run; the lines that say otherwise are in `PROJECT.json`:

1. `main.c:4415`: files kept after an error "to keep the files in the still existing index
   files from vanishing" are deleted by the next run that drops their last other user.
2. `tracking.c:1257`: removesrc takes the version of a binary from its file name together
   with the architecture, finds nothing, and removes the track nevertheless.

Seen while modelling; no run asks for the property. Where "(TLC)" is added, it was shown
by a counterexample before the property was stated with the exception:

3. `target.c:526`: after archiving into a read-only archive failed the old record is kept but
   its references are dropped (TLC); `damaged` in `PackageRefs` and `PoolRun`.
4. `release.c:1758`: after one rename failed the others are made and the outhook is to be
   told, but an assertion (entries "should already be in place") ends the process first.
5. `updates.c:1721`: `--restrict-bin` alone does not hold source packages in an update (it
   does in a pull), against `docs/reprepro.1:485`.
6. `pool.c:556`: with `--keepunusednewfiles` a file added and superseded in one run is
   reported as new (POOLNEW) and deleted without a POOLDELETE later in the same run
   (`docs/manual.html:1230` has each deletion reported).
7. `copypackages.c:278`: copies are tracked under the version of the binary, not of its
   source (`docs/reprepro.1:1567`), so that the source's files can be given up while a
   binary of it with a version of its own is still listed (TLC); `misfiled` in `Tracking`.
8. `upgradelist.c:355`: a package offered in the version the target has is not asked
   about, so that supersede removes it only if the source is strictly newer, where
   `docs/reprepro.1:1890` has it marked "unless the current package version is higher".
9. `updates.c:2258`: when one target fails while installing, the targets after it are not
   installed any more but noted in the `lastseen` file as processed; the next update skips
   them until their index changes or `--noskipold` is given. `AllProcessed` in `Updates`
   states what `markdone` promises; `SkippedWereProcessed` leaves these targets out.
10. `updates.c:2036`: a target whose last rules were removed still counts as old, as
   `markold` does not look for further lines of the `lastseen` file.
11. `upgradelist.c:604`: predelete removes a package that is to be replaced; if only an
   upgradeonly rule offers it, the update that follows does not bring it back, as it is
   not known any more.
12. `aptmethod.c:1091`: a method that exits with code 0 before it answered is no error.
   Without a Release file the update fails for lack of it; without an index the assertion
   of `remote_index_file` ends the process; missing files are only found when installing.
   `AllThere` leaves these runs out (`quiet`).
13. `aptmethod.c:1009`: after a signal `senddata` refuses to send what is queued, but the
   loop of `aptmethod_download` ("TODO: check interrupted here") goes on as long as
   something is, at full speed until the method ends; `Ends` leaves these runs out.
   A method to be started after a signal is waited for though it has no pipes.
14. `aptmethod.c:511`: if the last request in the queue is answered before the others,
   `lasttobedone` becomes NULL, and the next request takes the place of all the others.
15. `aptmethod.c:672`: a method that ended quietly is started again by the next download;
   if it asks for its configuration again there is none, and the process dies.
16. `uncompression.c:186`: an uncompression that cannot be started stays in the queue
   without its callback being called ("TODO: call callback"), and the loop tries for ever.

Incoming and include:

17. `incoming.c:2506`: after a signal every following upload fails with
   `RET_ERROR_INTERRUPTED`, and `Cleanup: on_error` deletes it (TLC;
   `docs/reprepro.1:2815` has only no new operations started).
18. `checkin.c:1617`: include with one `--delete`, when a package was not newer, keeps the
   `.changes` file but deletes the files it lists, and the pool drops the new ones (TLC;
   `docs/manual.html:731`).
19. `checkin.c:590`: the `$Component` override of the first file is taken for all following
   files (`docs/reprepro.1:2094`).
20. `incoming.c:655`, `checkin.c:440`: errors in parsing or reading a `.changes` file never
   lead to `Cleanup: on_error`; `changes_parsefilelines` stops only at `RET_ERROR`;
   `candidate_prepare_logdir` asserts that the directory could be made; when the
   subdirectory of MorgueDir cannot be made, the files are deleted.
21. `checkin.c:1400`: include compares the name of a byhand file with the
   `Uploaders` condition, processincoming its section, as documented (`docs/reprepro.1:2336`), and
   include looks for sections in other source files as well (TLC);
   `ReadOtherwise` in `Uploaders`.

Database and scripts:

22. `database.c:2070`, `database_openpackages`: a `packages.db` of an older version that is
    first opened for writing gets an empty `packagenames.db`, and its records stay hidden;
    translating it again appends the version to the keys a second time; after a death between
    creating the two files of a table the next reader renames `packages.db` over
    `packages.legacy.db` (all TLC; `torn`).
23. `createnewdatabase`: dying before `version` is written leaves a database of version
   "0" for ever. `translate_legacy_checksums` keeps the lock when a file cannot be deleted, and
   leaves entries of `checksums.db` after the last key of `files.db`.
24. `logger_warn_waiting` lists the call that is being made as missed.
25. The configuration is read before the lock is waited for, and may be outdated then.

Algorithms:

26. `rredtool.c`: two deaths around a revert leave an `Index` that lists deleted patches, and
   exports of the same second reuse names, so that after a death wrong patches are merged (TLC;
   "TODO" in the code); `damaged`, `reused` in `PatchIndex`.
27. `terms.c`: only one `)` is accepted after an atom; formulas ending in `))` are refused.
28. `filterlist.c`: a plain package name on the command line is copied with a length
   computed from a NULL pointer.
29. `uploaderslist.c:806`: after `byhand` eight characters are skipped instead of six, so that
   conditions written as documented are refused; without names it never matches.
   A rule `key <fingerprint>+` with more than 16 digits never matches.
30. `signature_check.c:178`: an id that is the end of several keys is ambiguous for gpg but found
   among keys loaded by an earlier condition, so the result depends on the order (TLC).
31. `checksums.c:506`: two claims without an md5sum combine to one whose md5sum is "-" of
   length one, which contradicts a true md5sum until it is stored and read (TLC).
32. `archallflood.c:430`: for a name that is new to the target it is forgotten that the candidate
   has a sibling, so that an older one with a sibling or a newer one without may
   replace it (TLC; `docs/reprepro.1:1045`); with several versions of a name in a target flood ends
   with "Package database is not sorted".
33. `copypackages.c:81`: restore puts the packages of all targets into the list of the first
   (TLC; `docs/reprepro.1:956`). Moving from a distribution to itself removes the
   packages (TLC). Several versions of a name copied to a distribution with
   `Limit: 1` leave the lowest there, a move loses the others (TLC). A name given both
   with and without its newest version is refused as given twice.
34. `sourcecheck.c:264`: unusedsources, sourcemissing and reportcruft say nothing of an untracked
   distribution without any source package (TLC); for sourcemissing a source that only tracking
   keeps counts as missing, where "only kept by package tracking is enough"
   (`docs/reprepro.1:1070`, TLC); `ReportsAgree` leaves both out.
35. `needbuild.c:75`: the check for what is built of architecture all compares the name of a
    binary with a whole file key and never matches (`docs/reprepro.1:1007`); with tracking, a
    source without a track or with an empty Binary field is never listed.
36. `distribution.c:870`: when `release_finish` fails, `distribution_snapshot` returns the result
   of an earlier call: gensnapshot reports success and nothing is referenced; `bare`.
37. `tracking.c:739`: the sum of the three modes is one at most, as `+` binds tighter than
   `?:`; two modes in one Tracking header are not refused ("Only one of 'keep','all' or
   'minimal' can be in one Tracking header").

## 7. Not modelled

- Parsing of text (configuration, control files, `.changes`, options) and unpacking of
  archives: sequential code without state that outlives a call, whose results appear as
  constants; a model would be the parser again. The parsers whose result depends on the
  order of what they read (formulas, `Uploaders` files, filter lists, lists of files, ed
  patches) are modelled from their tokens on.
- Digests, creating signatures, Berkeley DB's own files: external or arithmetic on bytes.
- `--export=force`, which exports after an error, too.
- Contents files, export hooks but rredtool, Release files of directories, symlinks.
- `reoverride`, `redochecksums`, `repairdescriptions` (replacement of records in place),
  the translation of old checksums tables, cursors of tables.
- Updates without Release files (`IgnoreRelease`) or without downloading, several apt
  methods at once and answers out of order, free space, the text of `.diff/Index`.
- The tracking data of copies between two distributions; module `Tracking` has
  those within one.
- The morgue of the pool, hard links, removal of empty directories.
- Log files' lines and the options that choose notification scripts.
- Memory exhaustion, except where it is one more way for a write to fail.
- `changestool`: a separate program.
