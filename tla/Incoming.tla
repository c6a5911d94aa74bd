------------------------------ MODULE Incoming ------------------------------
(***************************************************************************)
(* processincoming: incoming.c.  The directory is listed once; each        *)
(* .changes file of that list is read, checked, copied file by file to     *)
(* TempDir, prepared, tried and finally added to every distribution it is  *)
(* for; what is to be deleted is only marked, and deleted when all uploads *)
(* have been looked at.  Meanwhile uploaders go on writing to the          *)
(* directory, signals arrive, and steps fail.                              *)
(***************************************************************************)
EXTENDS Archive

CONSTANTS
    Permitted,    \* Permitted[u], distributions whose Uploaders let it in
    Hooked,       \* byhand files a ByHandHook matches
    Rules         \* the rules of conf/incoming for this directory

(* A rule: where the Allow pairs of each name in the Distribution field of *)
(* an upload lead, the Default distribution, the flags, and whether there  *)
(* are a LogDir and a MorgueDir.                                           *)
Rule == [allow : [Uploads -> Seq(Seq(Distributions))],
         default : Distributions \cup {None},
         cleanup : SUBSET {"on_deny", "on_error", "unused_files",
                           "unused_buildinfo_files"},
         permit : SUBSET {"unused_files", "older_version"},
         options : SUBSET {"multiple_distributions"},
         logdir : BOOLEAN, morguedir : BOOLEAN]

ASSUME IncomingAssumption ==
    /\ Rules \subseteq Rule
    /\ Permitted \in [Uploads -> SUBSET Distributions]

VARIABLES
    rule,       \* the rule given with the command
    step,       \* where process_incoming is
    listing,    \* the names found when it began
    left,       \* .changes files still to be looked at
    processed,  \* marks: taken in
    deleting,   \* marks: to be deleted
    upload,     \* the candidate
    temp,       \* temp[f], the copies in TempDir
    used,       \* the candidate's files with a use
    into,       \* distributions it still has to be added to
    at,         \* the distribution it is being added to
    todo,       \* what the current walk has left; when linking, the filekeys
                \* with the files of the candidate they are made of
    logfiles,   \* files for LogDir
    skipped     \* <<d, m>>: already there

candidate == <<upload, temp, used, into, at, todo, logfiles, skipped>>
queue == <<rule, step, listing, left, processed, deleting, candidate>>

Step == {"off", "next", "read", "prepare", "logs", "check", "hooks", "link",
         "loglink", "into", "clean"}

QueueTypeOK ==
    /\ rule \in Rules \cup {None}
    /\ step \in Step /\ listing \subseteq Names /\ left \subseteq Uploads
    /\ processed \cup deleting \subseteq Names
    /\ upload \in Uploads \cup {None}
    /\ DOMAIN temp \cup used \cup logfiles \subseteq Names
    /\ into \subseteq Distributions /\ at \in Distributions \cup {None}
    /\ todo \subseteq IF step = "link" THEN Names \X Names ELSE Names
    /\ skipped \subseteq Distributions \X Names

NoFunction == [x \in {} |-> None]

QueueInit ==
    /\ rule = None /\ step = "off" /\ listing = {} /\ left = {}
    /\ processed = {} /\ deleting = {}
    /\ upload = None /\ temp = NoFunction /\ used = {}
    /\ into = {} /\ at = None /\ todo = {} /\ logfiles = {} /\ skipped = {}

Listed(u) == DOMAIN Lists[u]
Masters(u) == {f \in Listed(u) : Master(f)}

(* candidate_free *)
Forget(next) ==
    /\ step' = next /\ upload' = None /\ temp' = NoFunction /\ used' = {}
    /\ into' = {} /\ at' = None /\ todo' = {} /\ logfiles' = {} /\ skipped' = {}

(* incoming_init, incoming_prepare: rule and directory are read.  A name   *)
(* given with the command limits it to that .changes file.                 *)
ProcessIncoming(r) ==
    /\ StartCommand("processincoming")
    /\ rule' = r /\ step' = "next"
    /\ listing' = {n \in Names : incoming[n] # None}
    /\ \E only \in {Uploads} \cup {{u} : u \in Uploads} : left' = listing' \cap only
    /\ processed' = {} /\ deleting' = {}
    /\ UNCHANGED candidate

-----------------------------------------------------------------------------
(* Where an upload goes.                                                   *)

(* The first of the distributions the pairs of one name lead to that lets  *)
(* the upload in.                                                          *)
FirstAllowed(u, pairs) ==
    {pairs[j] : j \in {i \in DOMAIN pairs :
        pairs[i] \in Permitted[u] /\ \A h \in 1..(i - 1) : pairs[h] \notin Permitted[u]}}

(* Every name of the Distribution field in turn, one only unless           *)
(* multiple_distributions is set; Default if none took it.                 *)
Destinations(u) ==
    LET names == {k \in DOMAIN rule.allow[u] : FirstAllowed(u, rule.allow[u][k]) # {}}
        looked == IF "multiple_distributions" \in rule.options THEN names
                  ELSE {k \in names : \A h \in names : k <= h}
    IN  IF names # {} THEN UNION {FirstAllowed(u, rule.allow[u][k]) : k \in looked}
        ELSE {rule.default} \cap Permitted[u]

(* The marks of an upload that was refused or that failed.                 *)
CleanedOnDeny(u) == IF "on_deny" \in rule.cleanup THEN {u} \cup Listed(u) ELSE {}
CleanedOnError(u) == IF "on_error" \in rule.cleanup THEN {u} \cup Listed(u) ELSE {}

(* candidate_read, candidate_parse: the .changes file is gone or names a   *)
(* file that was not there when the directory was listed: left for later.  *)
Incomplete(u) ==
    /\ step = "next" /\ u \in left
    /\ incoming[u] # None => ~(Listed(u) \subseteq listing)
    /\ left' = left \ {u} /\ failed' = TRUE
    /\ UNCHANGED <<rule, step, listing, processed, deleting, candidate, incoming, morgue,
                   logdir, store, command, signalled, faults>>

(* candidate_earlychecks fails, no distribution takes it, or it is signed  *)
(* with invalid signatures only.                                           *)
Refused(u) ==
    /\ step = "next" /\ u \in left
    /\ incoming[u] # None /\ Listed(u) \subseteq listing
    /\ Destinations(u) # {} => incoming[u] \in Malformed \cup BadSignature
    /\ left' = left \ {u} /\ failed' = TRUE
    /\ deleting' = deleting \cup IF incoming[u] \notin Malformed /\ Destinations(u) = {}
                                 THEN CleanedOnDeny(u) ELSE CleanedOnError(u)
    /\ UNCHANGED <<rule, step, listing, processed, candidate, incoming, morgue, logdir,
                   store, command, signalled, faults>>

Accepted(u) ==
    /\ step = "next" /\ u \in left
    /\ incoming[u] # None /\ Listed(u) \subseteq listing
    /\ incoming[u] \notin Malformed \cup BadSignature /\ Destinations(u) # {}
    /\ left' = left \ {u}
    /\ step' = "read" /\ upload' = u /\ into' = Destinations(u)
    /\ temp' = [n \in {u} |-> incoming[u]] /\ used' = {u}
    /\ todo' = Masters(u)
    /\ UNCHANGED <<rule, listing, processed, deleting, at, logfiles, skipped, archive>>

(* process_changes: candidate_add returned an error, whatever it was.      *)
GiveUp ==
    /\ failed' = TRUE
    /\ deleting' = deleting \cup CleanedOnError(upload)
    /\ Forget("next")
    /\ UNCHANGED <<rule, listing, left, processed, incoming, morgue, logdir, command,
                   signalled>>

-----------------------------------------------------------------------------
(* Reading and preparing.                                                  *)

(* A mutant: the copy is not compared. *)
UsableUnchecked(f) == f \notin DOMAIN temp => incoming[f] # None

(* candidate_usefile: copied once and compared with what is listed.        *)
Usable(f) == f \notin DOMAIN temp => incoming[f] = Lists[upload][f]
Copied(S) == [f \in DOMAIN temp \cup S |->
                IF f \in DOMAIN temp THEN temp[f] ELSE incoming[f]]

UnchangedReading == UNCHANGED <<rule, listing, left, processed, deleting, upload, into,
                                at, logfiles, skipped, archive>>

(* candidate_read_files *)
ReadPackage(f) ==
    /\ step = "read" /\ f \in todo /\ Usable(f)
    /\ temp' = Copied({f}) /\ used' = used \cup {f}
    /\ todo' = todo \ {f} /\ step' = step
    /\ UnchangedReading

HookFiles == Hooked \cap Listed(upload)

(* What the tracking of a distribution wants besides the packages. *)
Extras == {f \in Listed(upload) \cup {upload} : \E d \in into : Kind[f] \in TrackExtras[d]}

(* The source files the upload's packages name, and with which contents. *)
Needed == UNION {DOMAIN Inside[m].needs : m \in Masters(upload)}
Wanted(f) == {Inside[m].needs[f] : m \in {n \in Masters(upload) : f \in DOMAIN Inside[n].needs}}

(* prepare_for_distribution: what is to be looked at for any of them.      *)
ToPrepare == Masters(upload) \cup Needed \cup Extras \cup HookFiles

StartPrepare ==
    /\ step = "read" /\ todo = {}
    /\ step' = "prepare"
    /\ todo' = ToPrepare
    /\ temp' = temp /\ used' = used
    /\ UnchangedReading

(* The checksums of a file of the candidate *)
SumsOf(f) == IF f = upload THEN temp[f] ELSE Lists[upload][f]

(* prepare_source_file finds a file of its name in the upload, or else the *)
(* first one with the same content under another name.                     *)
Twins(f, c) == IF f \in Listed(upload) THEN {f} ELSE {g \in Listed(upload) : Lists[upload][g] = c}
Twin(f, c) == CHOOSE g \in Twins(f, c) : TRUE

(* files_canadd finds something else in the pool, the .dsc and the         *)
(* .changes file contradict each other, or there is no such file.          *)
Mismatch(f) ==
    \/ f \in Masters(upload) \cup Extras /\ ~Absent(f) /\ ~Present(f, SumsOf(f))
    \/ \E c \in Wanted(f) :
          \/ ~Absent(f) /\ ~Present(f, c)
          \/ f \in Listed(upload) /\ Lists[upload][f] # c
          \/ Absent(f) /\ Twins(f, c) = {}

(* The files of the candidate that are copied for f.  A source file that   *)
(* is in the pool already is not, but the candidate's counts as used.      *)
Sources(f) ==
    {g \in {f} : f \in Masters(upload) \cup Extras \cup HookFiles}
        \cup {Twin(f, c) : c \in {w \in Wanted(f) : Absent(f)}}

PrepareFile(f) ==
    /\ step = "prepare" /\ f \in todo /\ ~Mismatch(f)
    /\ \A g \in Sources(f) : Usable(g)
    /\ temp' = Copied(Sources(f))
    /\ used' = used \cup Sources(f) \cup ({f} \cap Needed \cap Listed(upload))
    /\ todo' = todo \ {f} /\ step' = step
    /\ UnchangedReading

(* The .changes file, logs, and the byhand files nothing uses so far.      *)
Logs == {upload} \cup
    {f \in Listed(upload) :
        Kind[f] \in {"log", "buildinfo"} \/ (Kind[f] = "byhand" /\ f \notin used)}

(* candidate_prepare_logdir.  When a directory cannot be made, an          *)
(* assertion ends the process (Crash).                                     *)
StartLogs ==
    /\ step = "prepare" /\ todo = {}
    /\ step' = "logs"
    /\ logfiles' = IF rule.logdir THEN Logs ELSE {}
    /\ todo' = logfiles'
    /\ UNCHANGED <<rule, listing, left, processed, deleting, upload, temp, used, into, at,
                   skipped, archive>>

CopyLog(f) ==
    /\ step = "logs" /\ f \in todo /\ Usable(f)
    /\ temp' = Copied({f}) /\ used' = used \cup {f}
    /\ todo' = todo \ {f} /\ step' = step
    /\ UnchangedReading

(* A file is missing, changed, or in conflict with the pool; when it is    *)
(* linked, with another one of the same upload.                            *)
CannotUse ==
    /\ \E f \in todo :
          \/ step \in {"read", "logs"} /\ ~Usable(f)
          \/ step = "prepare" /\ Mismatch(f)
          \/ step = "prepare" /\ ~Mismatch(f) /\ \E g \in Sources(f) : ~Usable(g)
          \/ step = "link" /\ ~Absent(f[1]) /\ ~Present(f[1], temp[f[2]])
    /\ GiveUp
    /\ UNCHANGED <<store, faults>>

-----------------------------------------------------------------------------
(* Trying and adding.                                                      *)

UnchangedQueue == UNCHANGED <<rule, listing, left, processed, deleting, upload, logfiles>>

UnusedFiles == {f \in Listed(upload) \ used : Kind[f] # "buildinfo"}

EndLogs ==
    /\ step = "logs" /\ todo = {}
    /\ UnusedFiles # {} => "unused_files" \in rule.permit
    /\ step' = "check"
    /\ UnchangedQueue /\ UNCHANGED <<temp, used, into, at, todo, skipped, archive>>

HasUnusedFiles ==
    /\ step = "logs" /\ todo = {}
    /\ UnusedFiles # {} /\ "unused_files" \notin rule.permit
    /\ GiveUp
    /\ UNCHANGED <<store, faults>>

(* candidate_checkadd_into for every distribution: one run without writing *)
(* a thing.                                                                *)
Pairs == into \X Masters(upload)
Refusing == {x \in Pairs : Older(x[1], x[2]) /\ "older_version" \notin rule.permit}
There == {x \in Pairs : Equal(x[1], x[2])}
SkippedIn(d, pairs) == {m \in Masters(upload) : <<d, m>> \notin pairs} = {}

(* The marks of an upload that is done with. *)
DoneWith ==
    {upload} \cup used
        \cup (IF "unused_files" \in rule.cleanup THEN Listed(upload) ELSE {})
        \cup (IF "unused_buildinfo_files" \in rule.cleanup
              THEN {f \in Listed(upload) : Kind[f] = "buildinfo"} ELSE {})

CheckFails ==
    /\ step = "check"
    /\ ~signalled => Refusing # {}
    /\ GiveUp
    /\ UNCHANGED <<store, faults>>

(* All packages of all distributions are there already.                    *)
NothingToDo ==
    /\ step = "check" /\ ~signalled /\ Refusing = {}
    /\ Pairs \ There = {} /\ HookFiles = {}
    /\ deleting' = deleting \cup DoneWith
    /\ Forget("next")
    /\ UNCHANGED <<rule, listing, left, processed, archive>>

CheckSucceeds ==
    /\ step = "check" /\ ~signalled /\ Refusing = {}
    /\ Pairs \ There = {} => HookFiles # {}
    /\ step' = "hooks" /\ skipped' = There
    /\ UnchangedQueue /\ UNCHANGED <<temp, used, into, at, todo, archive>>

(* candidate_addfiles: what packages that are not skipped need and what    *)
(* tracking wants, if the pool did not have it, with the candidate's file. *)
ToLink ==
    LET parts == {x[2] : x \in Pairs \ skipped}
    IN  {<<f, f>> : f \in {g \in parts \cup Extras : Absent(g)}}
        \cup UNION {{<<f, Twin(f, Inside[m].needs[f])>> :
                        f \in {g \in DOMAIN Inside[m].needs : Absent(g)}} : m \in parts}

(* The byhand hooks are called before anything is added. *)
RunHooks ==
    /\ step = "hooks"
    /\ step' = "link" /\ todo' = ToLink
    /\ UnchangedQueue /\ UNCHANGED <<temp, used, into, at, skipped, archive>>

LinkFile(f, g) ==
    /\ step = "link" /\ <<f, g>> \in todo
    /\ IF Present(f, temp[g]) THEN UNCHANGED <<pool, fresh, dropped>>
       ELSE Absent(f) /\ AddFile(f, temp[g])
    /\ todo' = todo \ {<<f, g>>}
    /\ UnchangedQueue
    /\ UNCHANGED <<step, temp, used, into, at, skipped, incoming, morgue, logdir,
                   packages, tracked, command, failed, signalled, faults>>

(* candidate_finish_logdir *)
LinkLogs ==
    /\ step = "link" /\ todo = {} /\ ~signalled
    /\ logdir' = logdir \cup logfiles
    /\ step' = "loglink"
    /\ UnchangedQueue
    /\ UNCHANGED <<temp, used, into, at, todo, skipped, incoming, morgue, store,
                   command, failed, signalled, faults>>

EndLink ==
    /\ step = "loglink" /\ ~signalled
    /\ step' = "into"
    /\ UnchangedQueue /\ UNCHANGED <<temp, used, into, at, todo, skipped, archive>>

(* candidate_add_into, one distribution after the other; those where every *)
(* package is skipped are left out, be there a signal or not.              *)
StartInto(d) ==
    /\ step = "into" /\ at = None /\ d \in into
    /\ into' = into \ {d}
    /\ \/ /\ SkippedIn(d, skipped)
          /\ at' = at /\ todo' = todo
       \/ /\ ~SkippedIn(d, skipped) /\ ~signalled
          /\ at' = d /\ todo' = {m \in Masters(upload) : <<d, m>> \notin skipped}
    /\ UnchangedQueue /\ UNCHANGED <<step, temp, used, skipped, archive>>

AddPart(m) ==
    /\ step = "into" /\ at # None /\ m \in todo /\ ~signalled
    /\ AddPackage(at, m)
    /\ todo' = todo \ {m}
    /\ UnchangedQueue
    /\ UNCHANGED <<step, temp, used, into, at, skipped, incoming, morgue, logdir,
                   pool, fresh, tracked, command, failed, signalled, faults>>

(* The tracking data takes the files its distribution wants kept.          *)
FinishInto ==
    /\ step = "into" /\ at # None /\ todo = {}
    /\ tracked' = [tracked EXCEPT ![at] = @ \cup
            {f \in Listed(upload) \cup {upload} : ~Master(f) /\ Kind[f] \in TrackExtras[at]}]
    /\ at' = None
    /\ UnchangedQueue
    /\ UNCHANGED <<step, temp, used, into, todo, skipped, incoming, morgue, logdir,
                   pool, fresh, dropped, packages, command, failed, signalled, faults>>

(* interrupted() is looked at before and after files are linked to LogDir, *)
(* before each distribution that is not skipped and before each package.   *)
Interrupted ==
    /\ signalled
    /\ \/ step = "link" /\ todo = {}
       \/ step = "loglink"
       \/ step = "into" /\ at = None /\ \E d \in into : ~SkippedIn(d, skipped)
       \/ step = "into" /\ at # None /\ todo # {}
    /\ GiveUp
    /\ UNCHANGED <<store, faults>>

(* A hook fails, the disk is full, a database cannot be written.           *)
AddFails ==
    /\ Fault
    /\ \/ step = "hooks"
       \/ step = "link" /\ todo \cup logfiles # {}
       \/ step = "into" /\ at # None
    /\ GiveUp
    /\ UNCHANGED store

(* A mutant: done after the first distribution. *)
AddedOnce ==
    /\ step = "into" /\ at = None
    /\ processed' = processed \cup {upload} \cup used
    /\ deleting' = deleting \cup DoneWith
    /\ Forget("next")
    /\ UNCHANGED <<rule, listing, left, archive>>

Added ==
    /\ step = "into" /\ at = None /\ into = {}
    /\ processed' = processed \cup {upload} \cup used
    /\ deleting' = deleting \cup DoneWith
    /\ Forget("next")
    /\ UNCHANGED <<rule, listing, left, archive>>

-----------------------------------------------------------------------------
(* Cleaning up.                                                            *)

StartClean ==
    /\ step = "next" /\ left = {}
    /\ step' = "clean" /\ todo' = deleting
    /\ UnchangedQueue /\ UNCHANGED <<temp, used, into, at, skipped, archive>>

(* What was not taken in goes to MorgueDir; a file that cannot be moved    *)
(* there is deleted, one that has vanished is an error.                    *)
ForMorgue(n) == rule.morguedir /\ n \notin processed

CleanFile(n) ==
    /\ step = "clean" /\ n \in todo
    /\ todo' = todo \ {n}
    /\ incoming' = [incoming EXCEPT ![n] = None]
    /\ \/ /\ morgue' = IF ForMorgue(n) /\ incoming[n] # None
                       THEN morgue \cup {<<n, incoming[n]>>} ELSE morgue
          /\ failed' = (failed \/ (ForMorgue(n) /\ incoming[n] = None))
          /\ UNCHANGED faults
       \/ ForMorgue(n) /\ Fault /\ failed' = TRUE /\ morgue' = morgue
    /\ UnchangedQueue
    /\ UNCHANGED <<step, temp, used, into, at, skipped, logdir, store, command, signalled>>

EndProcessing ==
    /\ step = "clean" /\ todo = {}
    /\ EndCommand
    /\ rule' = None /\ listing' = {} /\ left' = {} /\ processed' = {} /\ deleting' = {}
    /\ Forget("off")

CrashProcessing ==
    /\ step # "off"
    /\ Die
    /\ rule' = None /\ listing' = {} /\ left' = {} /\ processed' = {} /\ deleting' = {}
    /\ Forget("off")

IncomingStep ==
    \/ \E u \in Uploads : Incomplete(u) \/ Refused(u) \/ Accepted(u)
    \/ \E f \in Names : ReadPackage(f) \/ PrepareFile(f) \/ CopyLog(f) \/ AddPart(f)
    \/ \E f, g \in Names : LinkFile(f, g)
    \/ StartPrepare \/ StartLogs \/ CannotUse
    \/ EndLogs \/ HasUnusedFiles
    \/ CheckFails \/ NothingToDo \/ CheckSucceeds
    \/ RunHooks \/ EndLink \/ LinkLogs
    \/ \E d \in Distributions : StartInto(d)
    \/ FinishInto \/ Interrupted \/ Added
    \/ StartClean \/ EndProcessing
    \/ \E n \in Names : CleanFile(n)

IncomingFault == AddFails \/ CrashProcessing

=============================================================================
