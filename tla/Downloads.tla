------------------------------ MODULE Downloads ------------------------------
(***************************************************************************)
(* What an update downloads (aptmethod.c, remoterepository.c,              *)
(* downloadcache.c, the queue of uncompression.c): the Release files of a  *)
(* remote distribution, then its indices, as a whole or by patching those  *)
(* of an earlier run, then the files of packages.                          *)
(*                                                                         *)
(* The work is done by a child process, an apt method, that gets requests  *)
(* and answers them through pipes, and by uncompressors.  The method may   *)
(* say of any file that it is not to be had, send reprepro elsewhere,      *)
(* deliver another content than is wanted, complain, end or be killed.     *)
(* It answers requests in their order, as the methods of apt do; an answer *)
(* that is in the pipe when the method ends is lost, which is as if it had *)
(* not been given.  What one Release file lists is one version of the      *)
(* remote distribution; the remote side may serve others, too.             *)
(***************************************************************************)
EXTENDS Integers, SequencesExt, FiniteSetsExt

CONSTANTS
    Index,        \* the index files that are needed
    Diff, Plain,  \* ways to get one: by its .diff/Index, uncompressed,
    Packed,       \* or compressed in one of these
    Encodings,    \* those to try, in this order
    Listed,       \* those Release has checksums of; the others are forced
    Verify,       \* Release is checked against Release.gpg
    InRelease,    \* InRelease is tried first
    Fallback,     \* there is a fallback URI
    MaxRedirects, \* aptmethod.c: 10
    File,         \* files of packages
    Latest        \* bound: versions of the remote distribution

ASSUME DownloadsAssumption ==
    /\ Encodings \in Seq({Diff, Plain} \cup Packed)
    /\ Plain \in Listed
    /\ {Verify, InRelease, Fallback} \subseteq BOOLEAN
    /\ MaxRedirects \in Nat
    /\ Latest \in Nat \ {0}
    /\ Diff # Plain

VARIABLES
    lists,       \* lists[i], what is in lists/ of index i
    pool,        \* pool[f], what is in pool/ of file f
    registered,  \* the files in checksums.db
    \* of the running process
    pc,          \* which aptmethod_download is going on
    result,      \* "ok" or "error"
    interrupted, \* a signal has come
    method,      \* the apt method: [status, child, config]
    todo,        \* its requests: method->tobedone
    sent,        \* how many of them it has been sent: up to method->nexttosend
    release,     \* the Release files got: [inline, plain, gpg]
    wanted,      \* the version the accepted Release file lists
    index,       \* the struct remote_index of each index
    unpacking,   \* the queue of uncompressions, the first of them running
    asked,       \* the items of the download cache
    quiet        \* history: a method ended without an error

mode == <<pc, interrupted>>
queue == <<todo, sent>>
disk == <<lists, pool, registered>>
vars == <<disk, mode, result, method, queue, release, wanted, index, unpacking, asked, quiet>>

(* Contents: none, a part of something, or the version it is of *)
None == 0
Broken == -1
Content == {None, Broken} \cup 1..Latest

NoRelease == [inline |-> None, plain |-> None, gpg |-> None]

(* struct tobedone *)
Request(what, of) == [what |-> what, of |-> of, lasttry |-> ~Fallback, redirects |-> 0]

Requests ==
    [what : {"InRelease", "Release", "Release.gpg", "index", "diffindex", "patch", "file"},
     of : Index \cup File \cup {None}, lasttry : BOOLEAN, redirects : 0..MaxRedirects]

(* struct remote_index: tried counts the encodings tried so far, old is    *)
(* whether there is an olduncompressed, patches are the contents there are *)
(* patches for that have not been applied.                                 *)
Untried == [tried |-> 0, old |-> FALSE, patches |-> {}, got |-> FALSE]

NoMethod == [status |-> "notstarted", child |-> "none", config |-> TRUE]

Job(what, i, content) == [what |-> what, of |-> i, content |-> content]

TypeOK ==
    /\ lists \in [Index -> Content] /\ pool \in [File -> {"none", "broken", "good"}]
    /\ registered \subseteq File
    /\ pc \in {"idle", "meta", "lists", "packages"}
    /\ result \in {"ok", "error"} /\ interrupted \in BOOLEAN
    /\ method \in [status : {"notstarted", "waitforcapabilities", "ok", "failed"},
                   child : {"none", "running", "exited", "died"}, config : BOOLEAN]
    /\ todo \in Seq(Requests) /\ sent \in 0..Len(todo)
    /\ release \in [inline : Content, plain : Content, gpg : Content]
    /\ wanted \in 0..Latest
    /\ index \in [Index -> [tried : 0..Len(Encodings), old : BOOLEAN,
                            patches : SUBSET (1..Latest), got : BOOLEAN]]
    /\ unpacking \in Seq([what : {"index", "patch"}, of : Index, content : Content])
    /\ asked \subseteq File
    /\ quiet \in BOOLEAN

Idle ==
    /\ pc = "idle" /\ result = "ok" /\ interrupted = FALSE
    /\ method = NoMethod /\ todo = <<>> /\ sent = 0
    /\ release = NoRelease /\ wanted = None
    /\ index = [i \in Index |-> Untried]
    /\ unpacking = <<>> /\ asked = {} /\ quiet = FALSE

Init ==
    /\ lists \in [Index -> Content]
    /\ registered \in SUBSET File
    /\ pool \in [File -> {"none", "broken", "good"}]
    /\ \A f \in registered : pool[f] = "good"
    /\ Idle

---------------------------------------------------------------------------
(* The callbacks and what they queue.  They are functions of a record s of *)
(* all that they may change.                                               *)

Now == [todo |-> todo, lists |-> lists, pool |-> pool, registered |-> registered,
        release |-> release, index |-> index, unpacking |-> unpacking, result |-> result]

Becomes(s) ==
    /\ todo' = s.todo /\ lists' = s.lists /\ pool' = s.pool /\ registered' = s.registered
    /\ release' = s.release /\ index' = s.index /\ unpacking' = s.unpacking
    /\ result' = s.result

(* aptmethod_enqueue, aptmethod_enqueueindex *)
Enqueued(s, what, of) == [s EXCEPT !.todo = Append(@, Request(what, of))]

Failed(s) == [s EXCEPT !.result = "error"]

(* remote_distribution_enqueuemetalists, enqueue_old_release_files *)
OldReleaseFiles(s) ==
    LET plain == Enqueued(s, "Release", None)
    IN  IF Verify THEN Enqueued(plain, "Release.gpg", None) ELSE plain

MetaLists(s) == IF InRelease THEN Enqueued(s, "InRelease", None) ELSE OldReleaseFiles(s)

(***************************************************************************)
(* find_requested_encoding and queue_next_encoding: the next of the        *)
(* encodings; diffs need something to patch.  The uncompressed file is     *)
(* always listed: without its checksum nothing says what an index should   *)
(* be.                                                                     *)
(***************************************************************************)
Usable(s, i) ==
    {e \in s.index[i].tried + 1 .. Len(Encodings) : Encodings[e] = Diff => s.index[i].old}

(* remove_old_uncompressed *)
WithoutOld(s, i) ==
    IF s.index[i].old THEN [s EXCEPT !.lists[i] = None, !.index[i].old = FALSE] ELSE s

TryNext(s, i) ==
    LET e == Min(Usable(s, i))
        t == [s EXCEPT !.index[i].tried = e]
    IN  IF Encodings[e] = Diff THEN Enqueued(t, "diffindex", i)
        ELSE IF Encodings[e] = Plain THEN Enqueued(WithoutOld(t, i), "index", i)
        ELSE Enqueued(t, "index", i)

(* A mutant: the lack of another encoding is no error. *)
NextEncodingAtAnyCost(s, i) == IF Usable(s, i) = {} THEN s ELSE TryNext(s, i)

NextEncoding(s, i) ==
    IF Usable(s, i) = {}
        THEN Failed([s EXCEPT !.index[i].tried = Len(Encodings)])
        ELSE TryNext(s, i)

(* queueindex *)
QueuedIndex(s, i, want) ==
    IF s.lists[i] = want THEN [s EXCEPT !.index[i].got = TRUE]
    ELSE NextEncoding([s EXCEPT !.index[i].old = s.lists[i] # None], i)

(* remote_distribution_enqueuelists stops at the first error. *)
QueuedIndices(s, want) ==
    LET Queue(t, i) == IF t.result = "error" THEN t ELSE QueuedIndex(t, i, want)
    IN  FoldLeft(Queue, s, SetToSeq(Index))

(* queue_next_diff *)
NextDiff(s, i) ==
    IF s.lists[i] \in s.index[i].patches
        THEN Enqueued([s EXCEPT !.index[i].patches = @ \ {s.lists[i]}], "patch", i)
        ELSE NextEncoding(s, i)

(* downloadcache_add with files_expect: what is there is registered, what *)
(* is not what it should be is deleted, and the rest is asked for.        *)
QueuedFile(s, f) ==
    IF f \in s.registered THEN s
    ELSE IF s.pool[f] = "good" THEN [s EXCEPT !.registered = @ \cup {f}]
    ELSE Enqueued([s EXCEPT !.pool[f] = "none"], "file", f)

(* release_callback, index_callback, diff_callback, diff_got_callback and *)
(* downloaditem_callback, told that the file is not to be had             *)
NotGot(s, r) ==
    CASE r.what = "InRelease" -> OldReleaseFiles(s)
      [] r.what \in {"index", "diffindex", "patch"} -> NextEncoding(s, r.of)
      [] OTHER -> Failed(s)

(***************************************************************************)
(* The same callbacks when it was got.  content is the version of the file *)
(* or of what is in it.  What is listed but not what is listed is an       *)
(* error.                                                                  *)
(***************************************************************************)
GotRelease(s, what, content) ==
    CASE what = "InRelease" -> [s EXCEPT !.release.inline = content]
      [] what = "Release" -> [s EXCEPT !.release.plain = content]
      [] what = "Release.gpg" -> [s EXCEPT !.release.gpg = content]

GotIndex(s, i, content) ==
    LET enc == Encodings[s.index[i].tried]
        t == IF enc = Plain THEN [s EXCEPT !.lists[i] = content] ELSE s
    IN  IF enc \in Listed /\ content # wanted THEN Failed(t)
        ELSE IF enc = Plain THEN [t EXCEPT !.index[i].got = TRUE]
        ELSE [t EXCEPT !.lists[i] = None, !.index[i].old = FALSE,
                       !.unpacking = Append(@, Job("index", i, content))]

(* patches are the contents it has patches for; it may be listed and       *)
(* nevertheless outdated.                                                  *)
GotDiffIndex(s, i, content, patches) ==
    IF content = Broken /\ Diff \in Listed THEN Failed(s)
    ELSE IF content # wanted THEN NextEncoding(s, i)
    ELSE NextDiff([s EXCEPT !.index[i].patches = patches], i)

GotPatch(s, i, content) == [s EXCEPT !.unpacking = Append(@, Job("patch", i, content))]

GotFile(s, f, content) ==
    IF content = wanted THEN [s EXCEPT !.pool[f] = "good", !.registered = @ \cup {f}]
    ELSE Failed([s EXCEPT !.pool[f] = "none"])

Got(s, r, content, patches) ==
    CASE r.what = "index" -> GotIndex(s, r.of, content)
      [] r.what = "diffindex" -> GotDiffIndex(s, r.of, content, patches)
      [] r.what = "patch" -> GotPatch(s, r.of, content)
      [] r.what = "file" -> GotFile(s, r.of, content)
      [] OTHER -> GotRelease(s, r.what, content)

(* A mutant: what was unpacked is not looked at. *)
UnpackedUnchecked(s, i, content) == [s EXCEPT !.lists[i] = content, !.index[i].got = TRUE]

(* indexfile_unpacked *)
Unpacked(s, i, content) ==
    LET t == [s EXCEPT !.lists[i] = content]
    IN  IF content = wanted THEN [t EXCEPT !.index[i].got = TRUE] ELSE Failed(t)

(***************************************************************************)
(* diff_uncompressed: a patch with the right checksum makes the next       *)
(* version; if it cannot be applied nothing is left.                       *)
(***************************************************************************)
Patched(s, i, content, applied) ==
    LET t == [s EXCEPT !.lists[i] = @ + 1]
    IN  IF content = Broken THEN Failed(s)
        ELSE IF ~applied THEN Failed(WithoutOld(s, i))
        ELSE IF t.lists[i] = wanted
            THEN [t EXCEPT !.index[i].got = TRUE, !.index[i].old = FALSE]
        ELSE NextDiff(t, i)

---------------------------------------------------------------------------
(* The method and the loop of aptmethod_download                           *)

(***************************************************************************)
(* aptmethod_startup, for what has been queued.  After a signal there is   *)
(* no child, though its answer is waited for.                              *)
(***************************************************************************)
Startup(s) ==
    IF s.todo = <<>> \/ method.child # "none" THEN Becomes(s) /\ UNCHANGED method
    ELSE /\ Becomes(IF interrupted THEN Failed(s) ELSE s)
         /\ method' = [method EXCEPT !.status = "waitforcapabilities",
                                    !.child = IF interrupted THEN "none" ELSE "running"]

Answering == pc # "idle" /\ method.child = "running"

Quit ==
    /\ pc' = "idle" /\ result' = "ok" /\ interrupted' = FALSE
    /\ method' = NoMethod /\ todo' = <<>> /\ sent' = 0
    /\ release' = NoRelease /\ wanted' = None
    /\ index' = [i \in Index |-> Untried]
    /\ unpacking' = <<>> /\ asked' = {} /\ quiet' = FALSE

(* remote_startup, and the first part of remote_preparemetalists *)
Start ==
    /\ pc = "idle"
    /\ pc' = "meta"
    /\ Startup(MetaLists(Now))
    /\ UNCHANGED <<interrupted, sent, wanted, asked, quiet>>

(***************************************************************************)
(* gotcapabilities: the configuration is only there the first time; a      *)
(* method started again that asks for it kills the process.                *)
(***************************************************************************)
Capabilities ==
    /\ Answering /\ method.status = "waitforcapabilities"
    /\ \/ method' = [method EXCEPT !.status = "ok", !.config = FALSE]
          /\ UNCHANGED <<disk, mode, result, queue, release, wanted, index, unpacking, asked, quiet>>
       \/ ~method.config /\ Quit /\ UNCHANGED disk

(* senddata: after a signal it only says so, again and again. *)
Send ==
    /\ pc # "idle" /\ method.status = "ok" /\ sent < Len(todo)
    /\ IF interrupted THEN result' = "error" /\ UNCHANGED sent
       ELSE sent' = sent + 1 /\ UNCHANGED result
    /\ UNCHANGED <<disk, mode, method, todo, release, wanted, index, unpacking, asked, quiet>>

(* An answer can come to what was sent. *)
Due == Answering /\ method.status = "ok" /\ sent > 0

(* The first request is taken off the list, before or after the callback. *)
Answered(s) ==
    /\ Becomes(s)
    /\ sent' = sent - 1
    /\ UNCHANGED <<mode, method, wanted, asked, quiet>>

First == Head(todo)

WithoutFirst == [Now EXCEPT !.todo = Tail(todo)]

(* requeue_or_fail *)
Requeued(s, r) ==
    IF r.lasttry THEN NotGot(s, r)
    ELSE [s EXCEPT !.todo = Append(@, [r EXCEPT !.lasttry = TRUE, !.redirects = 0])]

(* A mutant: redirections are not counted. *)
RedirectedForever(s, r) == [s EXCEPT !.todo = Append(@, r)]

(* uriredirect *)
Redirected(s, r) ==
    IF r.redirects < MaxRedirects
        THEN [s EXCEPT !.todo = Append(@, [r EXCEPT !.redirects = @ + 1])]
        ELSE Requeued(s, r)

(* 201 URI Done, 400 URI Failure, 103 Redirect *)
Delivers ==
    /\ Due
    /\ \E content \in Content \ {None}, patches \in SUBSET (1..Latest - 1) :
        /\ First.what # "diffindex" => patches = {}
        /\ Answered(Got(WithoutFirst, First, content, patches))

Fails == Due /\ Answered(Requeued(WithoutFirst, First))

Redirects == Due /\ Answered(Redirected(WithoutFirst, First))

(* A part of the file is where it is to be. *)
Writes ==
    /\ Due
    /\ \/ /\ First.what = "index" /\ Encodings[index[First.of].tried] = Plain
          /\ lists' = [lists EXCEPT ![First.of] = Broken]
          /\ UNCHANGED pool
       \/ /\ First.what = "file"
          /\ pool' = [pool EXCEPT ![First.of] = "broken"]
          /\ UNCHANGED lists
    /\ UNCHANGED <<registered, mode, result, method, queue, release, wanted, index, unpacking,
                   asked, quiet>>

(* 401 General Failure, or something that cannot be understood *)
Complains ==
    /\ Answering /\ method.status \in {"waitforcapabilities", "ok"}
    /\ \E status \in {method.status, "failed"} : method' = [method EXCEPT !.status = status]
    /\ result' = "error"
    /\ UNCHANGED <<disk, mode, queue, release, wanted, index, unpacking, asked, quiet>>

(* The method ends by itself or is killed. *)
MethodEnds ==
    /\ Answering
    /\ \E how \in {"exited", "died"} :
            /\ method' = [method EXCEPT !.child = how]
            /\ quiet' = (quiet \/ how = "exited")
    /\ UNCHANGED <<disk, mode, result, queue, release, wanted, index, unpacking, asked>>

(* checkchilds *)
CheckChild ==
    /\ pc # "idle" /\ method.child \in {"exited", "died"}
    /\ method' = [method EXCEPT
                    !.child = "none",
                    !.status = IF @ = "failed" /\ method.child = "exited" THEN @ ELSE "notstarted"]
    /\ result' = IF method.child = "died" THEN "error" ELSE result
    /\ UNCHANGED <<disk, mode, queue, release, wanted, index, unpacking, asked, quiet>>

(* uncompress_checkpid: a child is done, and the next one started. *)
Uncompress ==
    /\ pc # "idle" /\ unpacking # <<>>
    /\ LET job == Head(unpacking)
           s == [Now EXCEPT !.unpacking = Tail(unpacking)]
       IN  \/ job.what = "index" /\ Becomes(Unpacked(s, job.of, job.content))
           \/ \E applied \in BOOLEAN :
                 job.what = "patch" /\ Becomes(Patched(s, job.of, job.content, applied))
           \/ Becomes(Failed(s))
    /\ UNCHANGED <<mode, method, sent, wanted, asked, quiet>>

(* workleft in readwrite *)
WorkLeft ==
    \/ method.status = "waitforcapabilities"
    \/ method.status = "ok" /\ todo # <<>>

Finished == ~WorkLeft /\ unpacking = <<>>

GiveUp ==
    /\ pc # "idle" /\ Finished /\ result = "error"
    /\ Quit
    /\ UNCHANGED disk

(* Which Release file is used, and whether it can be *)
Used == IF release.inline # None THEN release.inline ELSE release.plain

Accepted ==
    /\ Used \notin {None, Broken}
    /\ Verify /\ release.inline = None => release.gpg = release.plain

(* process_remoterelease, and the first part of remote_preparelists *)
ReadRelease ==
    /\ pc = "meta" /\ Finished /\ result = "ok"
    /\ IF Accepted /\ QueuedIndices(Now, Used).result = "ok"
           THEN /\ pc' = "lists"
                /\ wanted' = Used
                /\ Startup(QueuedIndices(Now, Used))
                /\ UNCHANGED <<interrupted, sent, asked, quiet>>
           ELSE /\ Quit
                /\ lists' = IF Accepted THEN QueuedIndices(Now, Used).lists ELSE lists
                /\ UNCHANGED <<pool, registered>>

(***************************************************************************)
(* The indices are read, unless the process dies of the assertion that     *)
(* they are there, and the files they name are asked for.                  *)
(***************************************************************************)
ReadIndices ==
    /\ pc = "lists" /\ Finished /\ result = "ok"
    /\ IF \A i \in Index : index[i].got
           THEN \E files \in SUBSET File :
                    /\ pc' = "packages"
                    /\ asked' = files
                    /\ Startup(FoldLeft(QueuedFile, Now, SetToSeq(files)))
                    /\ UNCHANGED <<interrupted, sent, wanted, quiet>>
           ELSE Quit /\ UNCHANGED disk

Done ==
    /\ pc = "packages" /\ Finished /\ result = "ok"
    /\ Quit
    /\ UNCHANGED disk

(* SIGINT, SIGTERM, SIGHUP; if select is interrupted that is an error, and *)
(* only uncompressions keep the loop going.                                *)
Interrupt ==
    /\ pc # "idle"
    /\ \/ /\ interrupted' = TRUE
          /\ \E r \in {result, "error"} : result' = r
          /\ UNCHANGED <<pc, method, queue, release, wanted, index, unpacking, asked, quiet>>
       \/ WorkLeft /\ unpacking = <<>> /\ Quit
    /\ UNCHANGED disk

(* The process is killed; what was being written stays as it is. *)
Crash ==
    /\ pc # "idle"
    /\ Quit
    /\ UNCHANGED <<pool, registered>>
    /\ \/ UNCHANGED lists
       \/ /\ unpacking # <<>>
          /\ \E left \in {None, Broken} : lists' = [lists EXCEPT ![Head(unpacking).of] = left]

Step ==
    \/ Capabilities \/ Send \/ Delivers \/ Fails \/ Redirects \/ CheckChild \/ Uncompress
    \/ GiveUp \/ ReadRelease \/ ReadIndices \/ Done

Next == Start \/ Step \/ Writes \/ Complains \/ MethodEnds \/ Interrupt \/ Crash

Spec == Init /\ [][Next]_vars

(* The method and the uncompressors get on with what they are asked for. *)
FairSpec == Spec /\ WF_vars(Step)

---------------------------------------------------------------------------
(* What the run checks                                                     *)

(***************************************************************************)
(* An index is only used if it is what the Release file lists, and a file  *)
(* only registered if it is what the index says, whatever was left over,   *)
(* delivered, unpacked or patched.                                         *)
(***************************************************************************)
ContentsTrue ==
    /\ \A i \in Index : index[i].got => lists[i] = wanted
    /\ \A f \in registered : pool[f] = "good"

(***************************************************************************)
(* A download that ends without an error has got everything, so that the   *)
(* assertion of remote_index_file holds and packages can be added; a       *)
(* method that ends by itself is the exception.                            *)
(***************************************************************************)
AllThere ==
    pc # "idle" /\ Finished /\ result = "ok" /\ ~quiet =>
        /\ pc = "meta" => Used # None
        /\ pc = "lists" => \A i \in Index : index[i].got
        /\ pc = "packages" => asked \subseteq registered

(***************************************************************************)
(* Every download comes to its end, however often the method fails or      *)
(* redirects, unless a signal comes while something is still to be sent.   *)
(***************************************************************************)
Ends == pc # "idle" ~> pc = "idle" \/ interrupted

=============================================================================
