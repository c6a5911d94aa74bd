------------------------------ MODULE Process ------------------------------
(***************************************************************************)
(* main.c's callaction around a command, with the database directory it    *)
(* must have for itself and the notification scripts it starts: several    *)
(* commands are started at any time, and each may be told to stop or be    *)
(* killed at any time.                                                     *)
(***************************************************************************)
EXTENDS Database

CONSTANTS Notifier, MaxWork

VARIABLES processes, due, ran,
    telling,    \* Command -> what is being told, and to whom next
    worked      \* bound: the tables the commands opened and the changes they made

MayBeTold == [what : {"add", "remove"}, target : Target, package : Package]

ASSUME NotifierAssumption ==
    /\ Notifier \in Seq(SUBSET MayBeTold)
    /\ None \notin [next : DOMAIN Notifier, what : MayBeTold]
    /\ MaxWork \in Nat

N == INSTANCE Notifiers WITH Owner <- Command

notifiers == <<processes, due, ran>>
vars == <<database, notifiers, telling, worked>>

Init ==
    /\ DatabaseInit /\ N!NotifiersInit
    /\ telling = [c \in Command |-> None] /\ worked = 0

TypeOK ==
    /\ DatabaseTypeOK
    /\ processes \in [Command -> Seq([call : N!Call, state : N!State])]
    /\ due \in [Command -> Seq(N!Call)] /\ ran \in [Command -> Seq(N!Call)]
    /\ telling \in [Command -> {None} \cup [next : DOMAIN Notifier, what : MayBeTold]]
    /\ worked \in 0..MaxWork

-----------------------------------------------------------------------------
(* callaction                                                              *)

(* The other databases, and the outhook's log, are opened, and nothing is  *)
(* begun after a signal.                                                   *)
StartAction(c) ==
    /\ At(c, "start")
    /\ Goto(c, IF job[c].interrupted THEN "wait again" ELSE "work")
    /\ UNCHANGED <<files, stored, torn, faults, notifiers, telling, worked>>

StartFails(c) ==
    /\ At(c, "start") /\ Fault
    /\ job' = [job EXCEPT ![c].at = "wait again", ![c].failed = TRUE]
    /\ UNCHANGED <<files, stored, torn, notifiers, telling, worked>>

Work == worked < MaxWork /\ worked' = worked + 1

(* logger_log: a change is told to one notifier after the other.           *)
Tell(c, p, what) ==
    /\ Work
    /\ telling' = [telling EXCEPT ![c] = IF Notifier = <<>> THEN None ELSE
         [next |-> 1, what |-> [what |-> what, target |-> job[c].table, package |-> p]]]
    /\ UNCHANGED notifiers

Change(c) ==
    /\ telling[c] = None
    /\ \E p \in Package :
         \/ AddRecord(c, p) /\ Tell(c, p, "add")
         \/ RemoveRecord(c, p) /\ Tell(c, p, "remove")

TellNext(c) ==
    /\ telling[c] # None
    /\ LET s == telling[c].next
           what == telling[c].what
       IN  \/ N!Enqueue(c, s, what) /\ UNCHANGED faults
           \/ N!EnqueueOnly(c, s, what) /\ Fault
    /\ telling' = [telling EXCEPT ![c] =
         IF @.next = Len(Notifier) THEN None
                               ELSE [next |-> @.next + 1, what |-> @.what]]
    /\ UNCHANGED <<files, stored, torn, job, worked>>

(* The action returns; what follows besides the notifiers is the matter of *)
(* PoolRun and Release.                                                    *)
EndAction(c) ==
    /\ At(c, "work")
    /\ Goto(c, "wait")
    /\ UNCHANGED <<files, stored, torn, faults, notifiers, telling, worked>>

(* logger_wait                                                             *)
Turn(c) ==
    /\ job[c].at \in {"wait", "wait again"}
    /\ ~job[c].interrupted /\ processes[c] # <<>>
    /\ \/ N!WaitTurn(c) /\ UNCHANGED faults
       \/ N!IdleTurn(c) /\ Fault
    /\ UNCHANGED <<files, stored, torn, job, telling, worked>>

Waited(c) ==
    /\ job[c].at \in {"wait", "wait again"}
    /\ processes[c] # <<>> => job[c].interrupted
    /\ Goto(c, IF At(c, "wait") THEN "tidy" ELSE "close")
    /\ UNCHANGED <<files, stored, torn, faults, notifiers, telling, worked>>

(* pool_tidyadded, the exports, pool_removeunreferenced and the outhook    *)
Tidy(c) ==
    /\ At(c, "tidy")
    /\ Goto(c, "wait again")
    /\ UNCHANGED <<files, stored, torn, faults, notifiers, telling, worked>>

-----------------------------------------------------------------------------

DatabaseStep(c) ==
    \/ Begin(c) \/ Acquire(c) \/ TryAgain(c) \/ GiveUp(c)
    \/ Create(c) \/ CreateTable(c) \/ CreatedNew(c) \/ Created(c)
    \/ OpenPrimary(c) \/ OpenSecondary(c)
    \/ TranslateLegacy(c) \/ TranslatePrimary(c) \/ TranslateTable(c) \/ Translated(c)
    \/ EnvironmentFails(c) \/ VersionUnreadable(c) \/ OpenFails(c) \/ TranslateFails(c)

CallStep(c) ==
    \/ StartAction(c) \/ StartFails(c) \/ EndAction(c) \/ Waited(c) \/ Tidy(c) \/ Change(c)
    \/ TellNext(c) \/ Turn(c)

Step(c) ==
    \/ /\ \E t \in Target, ro \in BOOLEAN : OpenPackages(c, t, ro)
       /\ Work /\ UNCHANGED <<notifiers, telling>>
    \/ DatabaseStep(c) /\ UNCHANGED <<notifiers, telling, worked>>
    \/ /\ CloseTable(c) /\ telling[c] = None
       /\ UNCHANGED <<notifiers, telling, worked>>
    \/ (Close(c) \/ CloseFails(c)) /\ N!Abandon(c) /\ UNCHANGED <<telling, worked>>
    \/ CallStep(c)

Next ==
    \/ \E c \in Command :
         \/ Step(c)
         \/ N!ScriptEnds(c) /\ UNCHANGED <<database, telling, worked>>
         \/ Signal(c) /\ UNCHANGED <<notifiers, telling, worked>>
         \/ /\ Kill(c) /\ N!Abandon(c)
            /\ telling' = [telling EXCEPT ![c] = None] /\ UNCHANGED worked
    \/ DeleteLockfile /\ UNCHANGED <<notifiers, telling, worked>>

(* A process goes on, and a script ends at some time.                      *)
Spec ==
    /\ Init /\ [][Next]_vars
    /\ \A c \in Command :
         /\ WF_vars(Step(c) /\ ~At(c, "new"))
         /\ WF_vars(N!ScriptEnds(c) /\ UNCHANGED <<database, telling, worked>>)

-----------------------------------------------------------------------------

(* "Only one process can access the database at the same time", and the    *)
(* scripts told of its changes are part of it: another command begins only *)
(* when all of them are done, unless the first was stopped or killed.      *)
Busy(c) ==
    \/ Inside(c)
    \/ job[c].at = "ended" /\ ~job[c].interrupted
       /\ \E i \in DOMAIN processes[c] : N!IsRunning(processes[c][i])

OneInside == \A c, d \in Command : Busy(c) /\ Busy(d) => c = d

(* Scripts are run one at a time and in the order of the changes, and when *)
(* a command has ended by itself all of them were, even those fork failed  *)
(* for at first ("wait for package specific loggers").                     *)
CallsInOrder ==
    \A c \in Command :
        /\ Len(ran[c]) <= Len(due[c])
        /\ \A i \in DOMAIN ran[c] : ran[c][i] = due[c][i]
        /\ \A i, j \in DOMAIN processes[c] :
              N!IsRunning(processes[c][i]) /\ N!IsRunning(processes[c][j]) => i = j
        /\ job[c].at = "ended" /\ ~job[c].interrupted => ran[c] = due[c]

(* What a package database was told to hold is in packages.db or, while it *)
(* is translated and after that failed, in packages.legacy.db, unless the  *)
(* creation of a table was torn: then the next command that reads it takes *)
(* packages.db for one of the old layout and renames it over the legacy    *)
(* file.                                                                   *)
NothingLost ==
    torn \/ stored \subseteq
        {<<r.target, r.package>> : r \in Records(packages) \cup Records(legacy)}

(* Who waits for the lock gets it or gives up, and who has it ends: in the *)
(* end nobody is left of the commands begun, as each is begun only once.   *)
EveryoneEnds == <>[](\A c \in Command : Over(c))

=============================================================================
