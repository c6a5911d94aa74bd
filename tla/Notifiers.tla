----------------------------- MODULE Notifiers -----------------------------
(***************************************************************************)
(* log.c: the notification scripts of Log: lines.  Every change of a       *)
(* package is told to each script that wants it, by a process started      *)
(* besides the command, one after the other.                               *)
(***************************************************************************)
EXTENDS Integers, Sequences, FiniteSets

CONSTANTS
    Owner,       \* the commands
    Notifier,    \* the scripts, a sequence of what each wants to be told
    MayBeTold    \* what can happen

VARIABLES
    processes,   \* Owner -> the calls not done, the first of them may be running
    due,         \* history: Owner -> the calls that were to be made
    ran          \* history: Owner -> the calls made

notifiers == <<processes, due, ran>>

Call == [script : DOMAIN Notifier, what : MayBeTold]
State == {"waiting", "running", "exited"}

NotifiersInit ==
    /\ processes = [o \in Owner |-> <<>>]
    /\ due = [o \in Owner |-> <<>>] /\ ran = [o \in Owner |-> <<>>]

IsRunning(entry) == entry.state = "running"
IsDone(entry) == entry.state = "exited"

(* The entries of a list at some places, in their order.                   *)
EntriesAt(list, places) ==
    [k \in 1..Cardinality(places) |->
        list[CHOOSE i \in places : Cardinality({j \in places : j <= i}) = k]]

(* A mutant: a script that is done is found only at the head of the list,  *)
(* and taken for one still running.                                        *)
NotCaught(list) == list

(* catchchildren                                                           *)
Caught(list) == EntriesAt(list, {i \in DOMAIN list : ~IsDone(list[i])})

(* runningchildren() < 1                                                   *)
NoneRuns(list) == list # <<>> => list[1].state = "waiting"

(* A mutant: the newest is started first. *)
StartsNewest(list) == Len(list)

(* startchild: the first not yet started                                   *)
StartsAt(list) ==
    CHOOSE i \in DOMAIN list : list[i].state = "waiting"
        /\ \A j \in 1..i - 1 : list[j].state # "waiting"

(* What becomes of the list when a child is to be started if none runs.    *)
StartChild(o, list) ==
    IF NoneRuns(list) /\ list # <<>>
      THEN LET i == StartsAt(list) IN
           /\ processes' = [processes EXCEPT ![o] = [list EXCEPT ![i].state = "running"]]
           /\ ran' = [ran EXCEPT ![o] = Append(@, list[i].call)]
      ELSE processes' = [processes EXCEPT ![o] = list] /\ UNCHANGED ran

(* fork fails: the call stays where it is, to be started some time later.  *)
ForkFails(o, list) ==
    /\ NoneRuns(list) /\ list # <<>>
    /\ processes' = [processes EXCEPT ![o] = list] /\ UNCHANGED ran

Wants(s, what) == what \in Notifier[s]

(* notificator_enqueue                                                     *)
Enqueued(o, s, what) ==
    LET list == Caught(processes[o])
    IN  IF Wants(s, what)
          THEN Append(list, [call |-> [script |-> s, what |-> what], state |-> "waiting"])
          ELSE list

Due(o, s, what) ==
    due' = [due EXCEPT ![o] = IF Wants(s, what) THEN Append(@, [script |-> s, what |-> what]) ELSE @]

Enqueue(o, s, what) == StartChild(o, Enqueued(o, s, what)) /\ Due(o, s, what)
EnqueueOnly(o, s, what) == ForkFails(o, Enqueued(o, s, what)) /\ Due(o, s, what)

(* One turn of the loop of logger_wait.                                    *)
WaitTurn(o) == StartChild(o, Caught(processes[o])) /\ UNCHANGED due
IdleTurn(o) == ForkFails(o, Caught(processes[o])) /\ UNCHANGED due

(* A script ends in its own time.                                          *)
ScriptEnds(o) ==
    /\ \E i \in DOMAIN processes[o] :
         /\ IsRunning(processes[o][i])
         /\ processes' = [processes EXCEPT ![o][i].state = "exited"]
    /\ UNCHANGED <<due, ran>>

(* The process is over: what it did not start nobody will, what runs goes  *)
(* on running.                                                             *)
Abandon(o) ==
    /\ processes' = [processes EXCEPT ![o] = EntriesAt(@, {i \in DOMAIN @ : IsRunning(@[i])})]
    /\ UNCHANGED <<due, ran>>

=============================================================================
