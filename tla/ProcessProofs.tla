--------------------------- MODULE ProcessProofs ---------------------------
(***************************************************************************)
(* Proofs about Process: there is never more than one command inside, what *)
(* the databases were told to hold is found again, and the scripts are     *)
(* called once and in order.                                               *)
(***************************************************************************)
EXTENDS Process, FiniteSetTheorems, TLAPS

-----------------------------------------------------------------------------
(* The inductive invariant.                                                *)

(* The process that is inside has the lock.                                *)
LockHeld ==
    \A c \in Command : Inside(c) =>
        lockfile /\ \A d \in Command : Inside(d) => c = d

(* Where a table is opened while a database is created.                    *)
Creating == {"createnew", "creating"}

(* Where one goes on after a table was opened or closed.                   *)
Returns ==
    \A c \in Command :
        /\ (job[c].at = "open" => job[c].back = "work" /\ job[c].table \in Target)
        /\ (job[c].at = "close table" => job[c].back \in Creating /\ ~job[c].ro)
        /\ (job[c].at \in {"translate", "copy"} => job[c].table \in Target)
        /\ (job[c].at \in {"primary", "secondary"} =>
                /\ job[c].table \in Target
                /\ job[c].back \in Creating \cup {"work"}
                /\ (job[c].back \in Creating => ~job[c].ro))

(* Scripts are only there between the first change and the last turn.      *)
Early(c) ==
    \/ job[c].at \in {"new", "lock", "create", "createnew", "creating", "start"}
    \/ job[c].at \in {"primary", "secondary", "close table"} /\ job[c].back \in Creating

Quiet ==
    \A c \in Command :
        /\ (Early(c) => processes[c] = <<>>)
        /\ (job[c].at \in {"close", "ended"} /\ ~job[c].interrupted => processes[c] = <<>>)
        /\ (telling[c] # None => job[c].at = "open")

Pairs(file) == {<<r.target, r.package>> : r \in Records(file)}

(* What a process that opened a table, or translates, finds in the files.  *)
Placed ==
    \A c \in Command :
        /\ (job[c].at \in {"secondary", "open", "close table"} /\ ~job[c].ro =>
                job[c].table \in Tables(packages))
        /\ (job[c].at = "open" /\ ~job[c].ro => names # None)
        /\ (job[c].at = "copy" => job[c].back \in Tables(packages))
        /\ (job[c].at \in {"translate", "copy"} =>
                /\ legacy # None
                /\ \A r \in Records(legacy) :
                    \/ r.target \in job[c].make
                    \/ job[c].at = "copy" /\ r.target = job[c].back
                    \/ <<r.target, r.package>> \in Pairs(packages))

GoodFiles ==
    /\ \A r \in Records(packages) : r.target \in Tables(packages)
    /\ \A r \in Records(legacy) : r.target \in Tables(legacy)

(* The tables between the creation of the primary and of the secondary.    *)
Underway(t) ==
    \E c \in Command :
        \/ job[c].at = "secondary" /\ ~job[c].ro /\ job[c].table = t
        \/ job[c].at = "copy" /\ job[c].back = t

(* While there is something left to translate packages.db is not taken for *)
(* one of the old layout.                                                  *)
Paired ==
    ~torn /\ legacy # None =>
        \A t \in Tables(packages) : t \in Tables(names) \/ Underway(t)

Started(list) == IF list # <<>> /\ list[1].state # "waiting" THEN 1 ELSE 0

(* Of what a command has to tell, what is in the list and what was told.   *)
QueueOf(list, d, r) ==
    /\ \A i \in DOMAIN list : i > 1 => list[i].state = "waiting"
    /\ Len(r) =< Len(d)
    /\ \A i \in DOMAIN r : r[i] = d[i]
    /\ Len(d) + Started(list) = Len(r) + Len(list)
    /\ \A i \in Started(list) + 1..Len(list) : d[Len(r) + i - Started(list)] = list[i].call

Lines ==
    \A c \in Command :
        /\ \A i \in DOMAIN processes[c] : i > 1 => processes[c][i].state = "waiting"
        /\ Len(ran[c]) =< Len(due[c]) /\ \A i \in DOMAIN ran[c] : ran[c][i] = due[c][i]
        /\ (job[c].at \notin {"ended", "died"} => QueueOf(processes[c], due[c], ran[c]))
        /\ (job[c].at = "ended" /\ ~job[c].interrupted => ran[c] = due[c])

IInv ==
    /\ TypeOK /\ LockHeld /\ Returns /\ Quiet
    /\ Placed /\ GoodFiles /\ Paired /\ NothingLost
    /\ Lines

-----------------------------------------------------------------------------
(* The list of the notifiers.                                              *)

EntryOf == [call : N!Call, state : N!State]
Waits(e) == e.state = "waiting"

Kept(list) == N!EntriesAt(list, {i \in DOMAIN list : N!IsRunning(list[i])})

LEMMA SameCardinality == \A S : N!Cardinality(S) = Cardinality(S)
BY DEF N!Cardinality, Cardinality

LEMMA Interval ==
    ASSUME NEW a \in Int, NEW i \in Int, a =< i
    PROVE  N!Cardinality(a..i) = i - a + 1
BY FS_Interval, SameCardinality

(* EntriesAt drops what is before the place a.                             *)
LEMMA EntriesFrom ==
    ASSUME NEW S, NEW list \in Seq(S), NEW a \in 1..Len(list) + 1
    PROVE  /\ N!EntriesAt(list, a..Len(list)) \in Seq(S)
           /\ Len(N!EntriesAt(list, a..Len(list))) = Len(list) - a + 1
           /\ \A k \in 1..Len(list) - a + 1 :
                 N!EntriesAt(list, a..Len(list))[k] = list[k + a - 1]
<1>n. PICK n \in Nat : n = Len(list)
    OBVIOUS
<1>p. PICK P : P = a..n
    OBVIOUS
<1>e. PICK e : e = N!EntriesAt(list, P)
    OBVIOUS
<1>0. n \in Int /\ a \in Int /\ a >= 1 /\ a =< n + 1
    BY <1>n
<1>1. N!Cardinality(P) = n - a + 1
    <2>1. N!Cardinality(a..n) = IF a > n THEN 0 ELSE n - a + 1
        BY <1>0, FS_Interval, SameCardinality
    <2>2. QED
        BY <1>0, <1>p, <2>1
<1>2. ASSUME NEW k \in 1..n - a + 1
      PROVE  (CHOOSE i \in P : N!Cardinality({j \in P : j =< i}) = k) = k + a - 1
    <2>1. \A i \in P : N!Cardinality({j \in P : j =< i}) = i - a + 1
        <3> SUFFICES ASSUME NEW i \in P PROVE N!Cardinality({j \in P : j =< i}) = i - a + 1
            OBVIOUS
        <3>1. {j \in P : j =< i} = a..i
            BY <1>0, <1>p
        <3>2. i \in Int /\ a =< i
            BY <1>0, <1>p
        <3>4. N!Cardinality(a..i) = i - a + 1
            BY <1>0, <3>2, Interval
        <3>3. QED
            BY <1>0, <3>1, <3>2, <3>4
    <2>2. k + a - 1 \in P /\ \A i \in P : i \in Int
        BY <1>0, <1>p
    <2>3. \A i \in P : N!Cardinality({j \in P : j =< i}) = k <=> i = k + a - 1
        BY <1>0, <2>1, <2>2
    <2>4. \E i \in P : N!Cardinality({j \in P : j =< i}) = k
        BY <2>2, <2>3
    <2>5. QED
        BY <2>3, <2>4
<1>3. e = [k \in 1..n - a + 1 |-> list[CHOOSE i \in P : N!Cardinality({j \in P : j =< i}) = k]]
    <2>1. e = [k \in 1..N!Cardinality(P) |->
                  list[CHOOSE i \in P : N!Cardinality({j \in P : j =< i}) = k]]
        BY Zenon, <1>e DEF N!EntriesAt
    <2>2. QED
        BY Zenon, <1>1, <2>1
<1>4. \A k \in 1..n - a + 1 : e[k] = list[k + a - 1]
    BY <1>2, <1>3
<1>5. \A k \in 1..n - a + 1 : e[k] \in S
    BY <1>0, <1>n, <1>4
<1>6. n - a + 1 \in Nat
    BY <1>0
<1>7. e \in [1..n - a + 1 -> S]
    BY <1>3, <1>5
<1>8. e \in Seq(S) /\ Len(e) = n - a + 1
    BY <1>6, <1>7
<1>9. QED
    BY <1>4, <1>8, <1>n, <1>p, <1>e

LEMMA EntriesNone == ASSUME NEW list PROVE N!EntriesAt(list, {}) = <<>>
<1>1. N!Cardinality({}) = 0
    BY FS_EmptySet, SameCardinality
<1>2. N!EntriesAt(list, {}) = [k \in 1..0 |->
          list[CHOOSE i \in {} : N!Cardinality({j \in {} : j =< i}) = k]]
    BY Zenon, <1>1 DEF N!EntriesAt
<1>3. DOMAIN N!EntriesAt(list, {}) = 1..0
    BY Zenon, <1>2
<1>4. PICK e : e = N!EntriesAt(list, {})
    OBVIOUS
<1>5. e = [k \in DOMAIN e |-> e[k]] /\ DOMAIN e = 1..0
    BY Zenon, <1>2, <1>3, <1>4
<1>6. e = <<>>
    BY <1>5
<1>7. QED
    BY <1>4, <1>6

LEMMA EntriesFirst ==
    ASSUME NEW S, NEW list \in Seq(S), list # <<>>
    PROVE  N!EntriesAt(list, {1}) = <<list[1]>>
<1>1. N!Cardinality({1}) = 1
    BY FS_Singleton, SameCardinality
<1>3. (CHOOSE i \in {1} : N!Cardinality({j \in {1} : j =< i}) = 1) = 1
    <2>1. {j \in {1} : j =< 1} = {1}
        OBVIOUS
    <2>2. \E i \in {1} : N!Cardinality({j \in {1} : j =< i}) = 1
        BY <1>1, <2>1
    <2>3. QED
        BY Zenon, <2>2
<1>4. N!EntriesAt(list, {1}) =
          [k \in 1..1 |-> list[CHOOSE i \in {1} : N!Cardinality({j \in {1} : j =< i}) = k]]
    BY Zenon, <1>1 DEF N!EntriesAt
<1>5. PICK e : e = N!EntriesAt(list, {1})
    OBVIOUS
<1>6. DOMAIN e = 1..1 /\ e = [k \in DOMAIN e |-> e[k]]
    BY Zenon, <1>4, <1>5
<1>7. 1 \in 1..1
    OBVIOUS
<1>8. e[1] = list[CHOOSE i \in {1} : N!Cardinality({j \in {1} : j =< i}) = 1]
    BY Zenon, <1>4, <1>5, <1>7
<1>9. e[1] = list[1]
    BY Zenon, <1>8, <1>3
<1>10. e = <<list[1]>>
    BY <1>6, <1>9
<1>11. QED
    BY <1>5, <1>10

LEMMA Elements ==
    ASSUME NEW S, NEW s \in Seq(S)
    PROVE  /\ Len(s) \in Nat /\ DOMAIN s = 1..Len(s)
           /\ \A i \in 1..Len(s) : s[i] \in S
OBVIOUS

LEMMA Replaced ==
    ASSUME NEW S, NEW s \in Seq(S), NEW i \in 1..Len(s), NEW e \in S
    PROVE  /\ [s EXCEPT ![i] = e] \in Seq(S)
           /\ Len([s EXCEPT ![i] = e]) = Len(s)
           /\ [s EXCEPT ![i] = e][i] = e
           /\ \A j \in 1..Len(s) : j # i => [s EXCEPT ![i] = e][j] = s[j]
<1>1. PICK n \in Nat : n = Len(s) /\ s \in [1..n -> S]
    BY Elements
<1>2. [s EXCEPT ![i] = e] \in [1..n -> S]
    BY <1>1
<1>3. QED
    BY <1>1, <1>2

LEMMA Queued ==
    ASSUME NEW list \in Seq(EntryOf), \A i \in DOMAIN list : i > 1 => list[i].state = "waiting"
    PROVE  /\ N!Caught(list) = IF list # <<>> /\ list[1].state = "exited" THEN Tail(list) ELSE list
           /\ Kept(list) = IF list # <<>> /\ list[1].state = "running" THEN <<list[1]>> ELSE <<>>
<1>s. \A i \in DOMAIN list : list[i].state \in {"waiting", "running", "exited"}
    <2>1. \A i \in DOMAIN list : list[i] \in EntryOf
        BY Elements
    <2>2. QED
        BY <2>1 DEF EntryOf, N!State
<1>n. PICK n \in Nat : n = Len(list) /\ DOMAIN list = 1..n
    OBVIOUS
<1>1. ASSUME list # <<>>, list[1].state = "exited" PROVE N!Caught(list) = Tail(list)
    <2>1. {i \in DOMAIN list : ~N!IsDone(list[i])} = 2..n
        BY <1>1, <1>s, <1>n DEF N!IsDone
    <2>2. 2 \in 1..n + 1 /\ n - 2 + 1 = n - 1
        BY <1>1, <1>n
    <2>3. PICK e : e = N!EntriesAt(list, 2..n)
        OBVIOUS
    <2>4. e \in Seq(EntryOf) /\ Len(e) = n - 1 /\ \A k \in 1..n - 1 : e[k] = list[k + 2 - 1]
        <3>1. 2 \in 1..Len(list) + 1
            BY <2>2, <1>n
        <3>2. /\ N!EntriesAt(list, 2..Len(list)) \in Seq(EntryOf)
              /\ Len(N!EntriesAt(list, 2..Len(list))) = Len(list) - 2 + 1
              /\ \A k \in 1..Len(list) - 2 + 1 :
                    N!EntriesAt(list, 2..Len(list))[k] = list[k + 2 - 1]
            BY <3>1, EntriesFrom
        <3>3. QED
            BY <3>2, <2>2, <2>3, <1>n
    <2>5. e = Tail(list)
        BY <1>1, <1>n, <2>4
    <2>6. QED
        BY <2>1, <2>3, <2>5 DEF N!Caught
<1>2. ASSUME ~(list # <<>> /\ list[1].state = "exited") PROVE N!Caught(list) = list
    <2>1. {i \in DOMAIN list : ~N!IsDone(list[i])} = 1..n
        BY <1>2, <1>s, <1>n DEF N!IsDone
    <2>2. 1 \in 1..n + 1 /\ n - 1 + 1 = n
        BY <1>n
    <2>3. PICK e : e = N!EntriesAt(list, 1..n)
        OBVIOUS
    <2>4. e \in Seq(EntryOf) /\ Len(e) = n /\ \A k \in 1..n : e[k] = list[k + 1 - 1]
        BY SMTT(30), <2>2, <2>3, <1>n, EntriesFrom
    <2>5. e = list
        BY <1>n, <2>4
    <2>6. QED
        BY <2>1, <2>3, <2>5 DEF N!Caught
<1>3. ASSUME list # <<>>, list[1].state = "running" PROVE Kept(list) = <<list[1]>>
    <2>1. {i \in DOMAIN list : N!IsRunning(list[i])} = {1}
        BY <1>3, <1>n DEF N!IsRunning
    <2>2. QED
        BY <1>3, <2>1, EntriesFirst DEF Kept
<1>4. ASSUME ~(list # <<>> /\ list[1].state = "running") PROVE Kept(list) = <<>>
    <2>1. {i \in DOMAIN list : N!IsRunning(list[i])} = {}
        BY <1>4, <1>n DEF N!IsRunning
    <2>2. QED
        BY <2>1, EntriesNone DEF Kept
<1>5. QED
    BY <1>1, <1>2, <1>3, <1>4

LEMMA QueueCaught ==
    ASSUME NEW list \in Seq(EntryOf), NEW d \in Seq(N!Call), NEW r \in Seq(N!Call), QueueOf(list, d, r)
    PROVE  N!Caught(list) \in Seq(EntryOf) /\ QueueOf(N!Caught(list), d, r)
<1>1. N!Caught(list) = IF list # <<>> /\ list[1].state = "exited" THEN Tail(list) ELSE list
    BY Queued DEF QueueOf
<1>2. ASSUME list # <<>>, list[1].state = "exited"
      PROVE  Tail(list) \in Seq(EntryOf) /\ QueueOf(Tail(list), d, r)
    <2>n. PICK n \in Nat : n = Len(list) /\ n > 0 /\ 1 \in DOMAIN list
        BY <1>2
    <2>1. PICK t : t = Tail(list)
        OBVIOUS
    <2>2. t \in Seq(EntryOf) /\ Len(t) = n - 1 /\ \A i \in 1..n - 1 : t[i] = list[i + 1]
        BY <2>n, <2>1, <1>2
    <2>3. \A i \in DOMAIN t : t[i].state = "waiting"
        <3>1. TAKE i \in DOMAIN t
        <3>2. i \in 1..n - 1 /\ i + 1 \in DOMAIN list /\ i + 1 > 1
            BY <2>n, <2>2, Elements
        <3>3. QED
            BY <2>2, <3>2 DEF QueueOf
    <2>4. Started(list) = 1 /\ Started(t) = 0
        BY <1>2, <2>n, <2>2, <2>3 DEF Started
    <2>5. QueueOf(t, d, r)
        BY <2>n, <2>2, <2>3, <2>4 DEF QueueOf
    <2>6. QED
        BY <2>1, <2>2, <2>5
<1>3. QED
    BY <1>1, <1>2

LEMMA QueueAppend ==
    ASSUME NEW list \in Seq(EntryOf), NEW d \in Seq(N!Call), NEW r \in Seq(N!Call),
           QueueOf(list, d, r), NEW call \in N!Call
    PROVE  /\ Append(list, [call |-> call, state |-> "waiting"]) \in Seq(EntryOf)
           /\ QueueOf(Append(list, [call |-> call, state |-> "waiting"]), Append(d, call), r)
<1>e. PICK e \in EntryOf : e = [call |-> call, state |-> "waiting"]
    BY DEF EntryOf, N!State
<1>f. e.call = call /\ e.state = "waiting"
    BY <1>e
<1>1. PICK l : l = Append(list, e)
    OBVIOUS
<1>2. PICK g : g = Append(d, call)
    OBVIOUS
<1>3. l \in Seq(EntryOf) /\ Len(l) = Len(list) + 1 /\ l[Len(list) + 1] = e
      /\ \A i \in 1..Len(list) : l[i] = list[i]
    BY <1>1
<1>4. g \in Seq(N!Call) /\ Len(g) = Len(d) + 1 /\ g[Len(d) + 1] = call
      /\ \A i \in 1..Len(d) : g[i] = d[i]
    BY <1>2
<1>5. Started(l) = Started(list) /\ Started(list) \in {0, 1}
    BY <1>3, <1>f DEF Started
<1>6. \A i \in DOMAIN l : i > 1 => l[i].state = "waiting"
    BY <1>3, <1>f DEF QueueOf
<1>7. Len(r) =< Len(g) /\ \A i \in DOMAIN r : r[i] = g[i]
    <2>1. Len(r) =< Len(d) /\ DOMAIN r = 1..Len(r) /\ Len(r) \in Nat /\ Len(d) \in Nat
          /\ \A i \in DOMAIN r : r[i] = d[i]
        BY DEF QueueOf
    <2>2. QED
        BY <1>4, <2>1
<1>8. Len(g) + Started(l) = Len(r) + Len(l)
    BY <1>3, <1>4, <1>5 DEF QueueOf
<1>9. \A i \in Started(l) + 1..Len(l) : g[Len(r) + i - Started(l)] = l[i].call
    <2>1. TAKE i \in Started(l) + 1..Len(l)
    <2>2. CASE i = Len(list) + 1
        BY <2>2, <1>3, <1>4, <1>5, <1>8, <1>f
    <2>3. CASE i # Len(list) + 1
        <3>1. i \in Started(list) + 1..Len(list)
            BY <2>3, <1>3, <1>5
        <3>2. Len(r) + i - Started(list) \in 1..Len(d)
            BY <3>1, <1>5 DEF QueueOf
        <3>3. d[Len(r) + i - Started(list)] = list[i].call
            BY <3>1 DEF QueueOf
        <3>4. l[i] = list[i]
            BY <1>3, <1>5, <3>1
        <3>5. QED
            BY <1>4, <1>5, <3>2, <3>3, <3>4
    <2>4. QED
        BY <2>2, <2>3
<1>10. QueueOf(l, g, r)
    BY <1>6, <1>7, <1>8, <1>9 DEF QueueOf
<1>11. QED
    BY <1>1, <1>2, <1>3, <1>10, <1>e

LEMMA QueueStarts ==
    ASSUME NEW list \in Seq(EntryOf), NEW d \in Seq(N!Call), NEW r \in Seq(N!Call),
           QueueOf(list, d, r), list # <<>>, N!NoneRuns(list)
    PROVE  /\ [list EXCEPT ![N!StartsAt(list)].state = "running"] \in Seq(EntryOf)
           /\ Append(r, list[N!StartsAt(list)].call) \in Seq(N!Call)
           /\ QueueOf([list EXCEPT ![N!StartsAt(list)].state = "running"], d,
                      Append(r, list[N!StartsAt(list)].call))
<1>n. PICK n \in Nat : n = Len(list) /\ n > 0 /\ DOMAIN list = 1..n
    OBVIOUS
<1>w. list[1].state = "waiting" /\ 1 \in DOMAIN list
    BY <1>n DEF N!NoneRuns
<1>1. N!StartsAt(list) = 1
    <2>1. \A i \in DOMAIN list : list[i].state = "waiting"
        BY <1>n, <1>w DEF QueueOf
    <2>2. \A i \in DOMAIN list :
              (list[i].state = "waiting" /\ \A j \in 1..i - 1 : list[j].state # "waiting") <=> i = 1
        BY <1>n, <2>1
    <2>3. QED
        BY <1>w, <2>2 DEF N!StartsAt
<1>h. list[1] \in EntryOf
    BY <1>n, Elements
<1>e. PICK e \in EntryOf : e = [list[1] EXCEPT !.state = "running"]
    BY <1>h DEF EntryOf, N!State
<1>f. e.call = list[1].call /\ e.state = "running" /\ list[1].call \in N!Call
    BY <1>h, <1>e DEF EntryOf
<1>2. PICK l : l = [list EXCEPT ![1].state = "running"]
    OBVIOUS
<1>3. l \in Seq(EntryOf) /\ Len(l) = n /\ l[1] = e /\ \A i \in 2..n : l[i] = list[i]
    <2>1. l = [list EXCEPT ![1] = e]
        BY <1>2, <1>e, <1>n, <1>w
    <2>2. 1 \in 1..Len(list)
        BY <1>n
    <2>3. QED
        BY <2>1, <2>2, <1>n, Replaced
<1>4. PICK q : q = Append(r, list[1].call)
    OBVIOUS
<1>5. q \in Seq(N!Call) /\ Len(q) = Len(r) + 1 /\ q[Len(r) + 1] = list[1].call
      /\ \A i \in 1..Len(r) : q[i] = r[i]
    BY <1>4, <1>f
<1>6. Started(list) = 0 /\ Started(l) = 1
    BY <1>3, <1>f, <1>n, <1>w DEF Started
<1>7. Len(d) = Len(r) + n /\ \A i \in 1..n : d[Len(r) + i] = list[i].call
    BY <1>6, <1>n DEF QueueOf
<1>8. Len(q) =< Len(d) /\ \A i \in DOMAIN q : q[i] = d[i]
    <2>1. Len(q) =< Len(d)
        BY <1>5, <1>7, <1>n
    <2>2. d[Len(r) + 1] = list[1].call
        BY <1>7, <1>n
    <2>3. QED
        BY SMTT(30), <2>1, <2>2, <1>5 DEF QueueOf
<1>9. \A i \in DOMAIN l : i > 1 => l[i].state = "waiting"
    <2>1. \A i \in 2..n : list[i].state = "waiting"
        BY <1>n DEF QueueOf
    <2>2. QED
        BY <1>3, <2>1, Elements
<1>10. Len(d) + Started(l) = Len(q) + Len(l)
    BY <1>3, <1>5, <1>6, <1>7
<1>11. \A i \in Started(l) + 1..Len(l) : d[Len(q) + i - Started(l)] = l[i].call
    BY <1>3, <1>5, <1>6, <1>7, <1>n
<1>12. QueueOf(l, d, q)
    BY <1>8, <1>9, <1>10, <1>11 DEF QueueOf
<1>13. QED
    BY <1>1, <1>2, <1>3, <1>4, <1>5, <1>12

LEMMA QueueEnds ==
    ASSUME NEW list \in Seq(EntryOf), \A i \in DOMAIN list : i > 1 => list[i].state = "waiting",
           NEW i \in DOMAIN list, N!IsRunning(list[i])
    PROVE  /\ [list EXCEPT ![i].state = "exited"] \in Seq(EntryOf)
           /\ \A k \in DOMAIN [list EXCEPT ![i].state = "exited"] :
                  k > 1 => [list EXCEPT ![i].state = "exited"][k].state = "waiting"
           /\ \A d \in Seq(N!Call), r \in Seq(N!Call) :
                  QueueOf(list, d, r) => QueueOf([list EXCEPT ![i].state = "exited"], d, r)
<1>n. PICK n \in Nat : n = Len(list) /\ DOMAIN list = 1..n
    OBVIOUS
<1>1. i = 1 /\ n > 0
    BY <1>n DEF N!IsRunning
<1>h. list[1] \in EntryOf
    BY <1>1, <1>n, Elements
<1>e. PICK e \in EntryOf : e = [list[1] EXCEPT !.state = "exited"]
    BY <1>h DEF EntryOf, N!State
<1>f. e.call = list[1].call /\ e.state = "exited"
    BY <1>h, <1>e DEF EntryOf
<1>2. PICK l : l = [list EXCEPT ![i].state = "exited"]
    OBVIOUS
<1>3. l \in Seq(EntryOf) /\ Len(l) = n /\ l[1] = e /\ \A k \in 2..n : l[k] = list[k]
    <2>1. l = [list EXCEPT ![1] = e]
        BY <1>1, <1>2, <1>e, <1>n
    <2>2. 1 \in 1..Len(list)
        BY <1>1, <1>n
    <2>3. QED
        BY <2>1, <2>2, <1>n, Replaced
<1>4. Started(list) = 1 /\ Started(l) = 1
    BY <1>1, <1>3, <1>f, <1>n DEF Started, N!IsRunning
<1>5. \A k \in DOMAIN l : k > 1 => l[k].state = "waiting"
    BY <1>3, <1>n
<1>6. ASSUME NEW d \in Seq(N!Call), NEW r \in Seq(N!Call), QueueOf(list, d, r)
      PROVE  QueueOf(l, d, r)
    BY <1>3, <1>4, <1>5, <1>6, <1>n DEF QueueOf
<1>7. QED
    BY <1>2, <1>3, <1>5, <1>6

-----------------------------------------------------------------------------
(* What the steps do to the place a command is at.                         *)

JobType == {[at |-> "new"]} \cup [at : {"ended", "died"}, interrupted : BOOLEAN] \cup Working

LEMMA WorkingWhere ==
    ASSUME TypeOK, NEW c \in Command, job[c].at \notin {"new", "ended", "died"}
    PROVE  job[c] \in Working
BY DEF TypeOK, DatabaseTypeOK

LEMMA KindsAndTries == MaxTries \in Nat
BY DatabaseAssumption

(* The files when a command ends early: as they are, or with a table that  *)
(* is copied in part.                                                      *)
FilesLeft(c) ==
    \/ packages' = packages /\ names' = names /\ torn' = (torn \/ Halfway(c))
    \/ CopiedInPart(c)

LEMMA DoesBegin ==
    ASSUME TypeOK, Returns, NEW c \in Command, Begin(c), UNCHANGED <<notifiers, telling, worked>>
    PROVE  /\ job[c].at = "new"
           /\ \A d \in Command : d # c => job'[d] = job[d]
           /\ job' \in [Command -> JobType]
           /\ job'[c] \in Working
           /\ job'[c].at = "lock"
           /\ ~job'[c].interrupted
           /\ lockfile' = lockfile
           /\ packages' = packages
           /\ names' = names
           /\ legacy' = legacy
           /\ stored' = stored
           /\ torn' = torn
           /\ processes' = processes
           /\ due' = due
           /\ ran' = ran
           /\ telling' = telling
<1>0. job \in [Command -> JobType]
    BY DEF TypeOK, DatabaseTypeOK, JobType
<1>1. job[c].at = "new"
    BY <1>0 DEF Begin, Goto, Leave, At, Over, files, notifiers, Fault, Tell, Work,
       N!Abandon, N!notifiers, Kept, ReleaseLock, Free, OldLayout, Tables
<1>2. job[c].at = "new"
    BY <1>1
<1>q. PICK k \in Kinds : job' = [job EXCEPT ![c] =
            [at |-> "lock", kind |-> k, tries |-> 0, interrupted |-> FALSE, failed |-> FALSE,
             new |-> FALSE, make |-> {}, table |-> None, ro |-> FALSE, back |-> None]]
    BY Zenon, <1>0 DEF Begin
<1>r. 0 \in 0..MaxTries
    BY DatabaseAssumption
<1>3. /\ job'[c] \in Working /\ job'[c].at = "lock" /\ ~job'[c].interrupted
      /\ job'[c] \in JobType
    BY <1>0, <1>q, <1>r DEF Working, Place, JobType
<1>4. job' \in [Command -> JobType] /\ \A d \in Command : d # c => job'[d] = job[d]
    BY <1>0, <1>q, <1>3
<1>8. /\ lockfile' = lockfile
      /\ packages' = packages
      /\ names' = names
      /\ legacy' = legacy
      /\ stored' = stored
      /\ torn' = torn
      /\ processes' = processes
      /\ due' = due
      /\ ran' = ran
      /\ telling' = telling
    BY <1>0, <1>1, <1>2 DEF Begin, Goto, Leave, At, Over, files, notifiers, Fault, Tell,
       Work, N!Abandon, N!notifiers, Kept, ReleaseLock, Free
<1>9. QED
    BY <1>2, <1>3, <1>4, <1>8

LEMMA DoesAcquire ==
    ASSUME TypeOK, Returns, NEW c \in Command, Acquire(c), UNCHANGED <<notifiers, telling, worked>>
    PROVE  /\ job[c].at = "lock"
           /\ ~lockfile
           /\ job[c] \in Working
           /\ \A d \in Command : d # c => job'[d] = job[d]
           /\ job' \in [Command -> JobType]
           /\ job'[c] \in Working
           /\ job'[c].at = "create"
           /\ job'[c].interrupted = job[c].interrupted
           /\ job'[c].failed = job[c].failed
           /\ job'[c].make = job[c].make
           /\ job'[c].table = job[c].table
           /\ job'[c].ro = job[c].ro
           /\ job'[c].back = job[c].back
           /\ lockfile' = TRUE
           /\ packages' = packages
           /\ names' = names
           /\ legacy' = legacy
           /\ stored' = stored
           /\ torn' = torn
           /\ processes' = processes
           /\ due' = due
           /\ ran' = ran
           /\ telling' = telling
<1>0. job \in [Command -> JobType]
    BY DEF TypeOK, DatabaseTypeOK, JobType
<1>1. job[c].at = "lock" /\ ~lockfile
    BY <1>0 DEF Acquire, Goto, Leave, At, Over, files, notifiers, Fault, Tell, Work,
       N!Abandon, N!notifiers, Kept, ReleaseLock, Free, OldLayout, Tables
<1>2. job[c].at = "lock" /\ ~lockfile /\ job[c] \in Working
    BY <1>1, WorkingWhere
<1>q. job' = [job EXCEPT ![c] = [job[c] EXCEPT !.at = "create"]]
    BY <1>0 DEF Acquire, Goto, Leave
<1>3. /\ job'[c] = [job[c] EXCEPT !.at = "create"]
      /\ \A d \in Command : d # c => job'[d] = job[d]
    BY <1>0, <1>q
<1>m. DEFINE j == job[c]
             k == job'[c]
<1>4. k = [j EXCEPT !.at = "create"] /\ j \in Working /\ j.at = "lock" /\ ~lockfile /\ j \in Working
    BY <1>2, <1>3
<1> HIDE DEF j, k
<1>w. k \in Working
    BY <1>4, KindsAndTries DEF Working, Place
<1>5. /\ k \in Working
      /\ k.at = "create"
      /\ k.interrupted = j.interrupted
      /\ k.failed = j.failed
      /\ k.make = j.make
      /\ k.table = j.table
      /\ k.ro = j.ro
      /\ k.back = j.back
    BY <1>w, <1>4 DEF Working, Place, Creating
<1>6. /\ job'[c] \in Working
      /\ job'[c].at = "create"
      /\ job'[c].interrupted = job[c].interrupted
      /\ job'[c].failed = job[c].failed
      /\ job'[c].make = job[c].make
      /\ job'[c].table = job[c].table
      /\ job'[c].ro = job[c].ro
      /\ job'[c].back = job[c].back
    BY <1>5 DEF j, k
<1>7. job' \in [Command -> JobType]
    <2>1. job'[c] \in JobType
        BY <1>6 DEF JobType
    <2>2. QED
        BY <1>0, <2>1, <1>q
<1>8. /\ lockfile' = TRUE
      /\ packages' = packages
      /\ names' = names
      /\ legacy' = legacy
      /\ stored' = stored
      /\ torn' = torn
      /\ processes' = processes
      /\ due' = due
      /\ ran' = ran
      /\ telling' = telling
    BY <1>0, <1>1, <1>2 DEF Acquire, Goto, Leave, At, Over, files, notifiers, Fault, Tell,
       Work, N!Abandon, N!notifiers, Kept, ReleaseLock, Free
<1>9. QED
    BY <1>2, <1>3, <1>6, <1>7, <1>8

LEMMA DoesTryAgain ==
    ASSUME TypeOK, Returns, NEW c \in Command, TryAgain(c), UNCHANGED <<notifiers, telling, worked>>
    PROVE  /\ job[c].at = "lock"
           /\ job[c].tries < MaxTries
           /\ job[c] \in Working
           /\ \A d \in Command : d # c => job'[d] = job[d]
           /\ job' \in [Command -> JobType]
           /\ job'[c] \in Working
           /\ job'[c].at = job[c].at
           /\ job'[c].interrupted = job[c].interrupted
           /\ job'[c].failed = job[c].failed
           /\ job'[c].make = job[c].make
           /\ job'[c].table = job[c].table
           /\ job'[c].ro = job[c].ro
           /\ job'[c].back = job[c].back
           /\ lockfile' = lockfile
           /\ packages' = packages
           /\ names' = names
           /\ legacy' = legacy
           /\ stored' = stored
           /\ torn' = torn
           /\ processes' = processes
           /\ due' = due
           /\ ran' = ran
           /\ telling' = telling
<1>0. job \in [Command -> JobType]
    BY DEF TypeOK, DatabaseTypeOK, JobType
<1>1. job[c].at = "lock" /\ job[c].tries < MaxTries
    BY <1>0 DEF TryAgain, Goto, Leave, At, Over, files, notifiers, Fault, Tell, Work,
       N!Abandon, N!notifiers, Kept, ReleaseLock, Free, OldLayout, Tables
<1>2. job[c].at = "lock" /\ job[c].tries < MaxTries /\ job[c] \in Working
    BY <1>1, WorkingWhere
<1>q. job' = [job EXCEPT ![c] = [job[c] EXCEPT !.tries = @ + 1]]
    BY <1>0 DEF TryAgain, Goto, Leave
<1>3. /\ job'[c] = [job[c] EXCEPT !.tries = @ + 1]
      /\ \A d \in Command : d # c => job'[d] = job[d]
    BY <1>0, <1>q
<1>m. DEFINE j == job[c]
             k == job'[c]
<1>4. k = [j EXCEPT !.tries = @ + 1] /\ j \in Working /\ j.at = "lock" /\ j.tries < MaxTries /\ j \in Working
    BY <1>2, <1>3
<1> HIDE DEF j, k
<1>w. k \in Working
    <2>1. j.tries + 1 \in 0..MaxTries
        BY <1>4, KindsAndTries DEF Working
    <2>2. QED
        BY <1>4, <2>1 DEF Working
<1>5. /\ k \in Working
      /\ k.at = j.at
      /\ k.interrupted = j.interrupted
      /\ k.failed = j.failed
      /\ k.make = j.make
      /\ k.table = j.table
      /\ k.ro = j.ro
      /\ k.back = j.back
    BY <1>w, <1>4 DEF Working, Place, Creating
<1>6. /\ job'[c] \in Working
      /\ job'[c].at = job[c].at
      /\ job'[c].interrupted = job[c].interrupted
      /\ job'[c].failed = job[c].failed
      /\ job'[c].make = job[c].make
      /\ job'[c].table = job[c].table
      /\ job'[c].ro = job[c].ro
      /\ job'[c].back = job[c].back
    BY <1>5 DEF j, k
<1>7. job' \in [Command -> JobType]
    <2>1. job'[c] \in JobType
        BY <1>6 DEF JobType
    <2>2. QED
        BY <1>0, <2>1, <1>q
<1>8. /\ lockfile' = lockfile
      /\ packages' = packages
      /\ names' = names
      /\ legacy' = legacy
      /\ stored' = stored
      /\ torn' = torn
      /\ processes' = processes
      /\ due' = due
      /\ ran' = ran
      /\ telling' = telling
    BY <1>0, <1>1, <1>2 DEF TryAgain, Goto, Leave, At, Over, files, notifiers, Fault, Tell,
       Work, N!Abandon, N!notifiers, Kept, ReleaseLock, Free
<1>9. QED
    BY <1>2, <1>3, <1>6, <1>7, <1>8

LEMMA DoesGiveUp ==
    ASSUME TypeOK, Returns, NEW c \in Command, GiveUp(c), UNCHANGED <<notifiers, telling, worked>>
    PROVE  /\ job[c].at = "lock"
           /\ job[c] \in Working
           /\ \A d \in Command : d # c => job'[d] = job[d]
           /\ job' \in [Command -> JobType]
           /\ job'[c].at = "ended"
           /\ job'[c].interrupted = job[c].interrupted
           /\ lockfile' = lockfile
           /\ packages' = packages
           /\ names' = names
           /\ legacy' = legacy
           /\ stored' = stored
           /\ torn' = torn
           /\ processes' = processes
           /\ due' = due
           /\ ran' = ran
           /\ telling' = telling
<1>0. job \in [Command -> JobType]
    BY DEF TypeOK, DatabaseTypeOK, JobType
<1>1. job[c].at = "lock"
    BY <1>0 DEF GiveUp, Goto, Leave, At, Over, files, notifiers, Fault, Tell, Work,
       N!Abandon, N!notifiers, Kept, ReleaseLock, Free, OldLayout, Tables
<1>2. job[c].at = "lock" /\ job[c] \in Working
    BY <1>1, WorkingWhere
<1>q. job' = [job EXCEPT ![c] = [at |-> "ended", interrupted |-> job[c].interrupted]]
    BY <1>0 DEF GiveUp, Goto, Leave
<1>i. job[c].interrupted \in BOOLEAN
    BY <1>2 DEF Working
<1>r. [at |-> "ended", interrupted |-> job[c].interrupted] \in JobType
    BY <1>i DEF JobType
<1>3. /\ job'[c] = [at |-> "ended", interrupted |-> job[c].interrupted]
      /\ \A d \in Command : d # c => job'[d] = job[d]
      /\ job' \in [Command -> JobType]
    BY <1>0, <1>q, <1>r
<1>8. /\ lockfile' = lockfile
      /\ packages' = packages
      /\ names' = names
      /\ legacy' = legacy
      /\ stored' = stored
      /\ torn' = torn
      /\ processes' = processes
      /\ due' = due
      /\ ran' = ran
      /\ telling' = telling
    BY <1>0, <1>1, <1>2 DEF GiveUp, Goto, Leave, At, Over, files, notifiers, Fault, Tell,
       Work, N!Abandon, N!notifiers, Kept, ReleaseLock, Free
<1>9. QED
    BY <1>2, <1>3, <1>8

LEMMA DoesEnvironmentFails ==
    ASSUME TypeOK, Returns, NEW c \in Command, EnvironmentFails(c), UNCHANGED <<notifiers, telling, worked>>
    PROVE  /\ job[c].at = "create"
           /\ job[c] \in Working
           /\ \A d \in Command : d # c => job'[d] = job[d]
           /\ job' \in [Command -> JobType]
           /\ job'[c].at = "ended"
           /\ job'[c].interrupted = job[c].interrupted
           /\ lockfile' \in BOOLEAN
           /\ packages' = packages
           /\ names' = names
           /\ legacy' = legacy
           /\ stored' = stored
           /\ torn' = torn
           /\ processes' = processes
           /\ due' = due
           /\ ran' = ran
           /\ telling' = telling
<1>0. job \in [Command -> JobType]
    BY DEF TypeOK, DatabaseTypeOK, JobType
<1>1. job[c].at = "create"
    BY <1>0 DEF EnvironmentFails, Goto, Leave, At, Over, files, notifiers, Fault, Tell,
       Work, N!Abandon, N!notifiers, Kept, ReleaseLock, Free, OldLayout, Tables
<1>2. job[c].at = "create" /\ job[c] \in Working
    BY <1>1, WorkingWhere
<1>q. job' = [job EXCEPT ![c] = [at |-> "ended", interrupted |-> job[c].interrupted]]
    BY <1>0 DEF EnvironmentFails, Goto, Leave
<1>i. job[c].interrupted \in BOOLEAN
    BY <1>2 DEF Working
<1>r. [at |-> "ended", interrupted |-> job[c].interrupted] \in JobType
    BY <1>i DEF JobType
<1>3. /\ job'[c] = [at |-> "ended", interrupted |-> job[c].interrupted]
      /\ \A d \in Command : d # c => job'[d] = job[d]
      /\ job' \in [Command -> JobType]
    BY <1>0, <1>q, <1>r
<1>8. /\ lockfile' \in BOOLEAN
      /\ packages' = packages
      /\ names' = names
      /\ legacy' = legacy
      /\ stored' = stored
      /\ torn' = torn
      /\ processes' = processes
      /\ due' = due
      /\ ran' = ran
      /\ telling' = telling
    BY <1>0, <1>1, <1>2 DEF EnvironmentFails, Goto, Leave, At, Over, files, notifiers,
       Fault, Tell, Work, N!Abandon, N!notifiers, Kept, ReleaseLock, Free
<1>9. QED
    BY <1>2, <1>3, <1>8

LEMMA DoesVersionUnreadable ==
    ASSUME TypeOK, Returns, NEW c \in Command, VersionUnreadable(c), UNCHANGED <<notifiers, telling, worked>>
    PROVE  /\ job[c].at = "create"
           /\ job[c] \in Working
           /\ \A d \in Command : d # c => job'[d] = job[d]
           /\ job' \in [Command -> JobType]
           /\ job'[c].at = "ended"
           /\ job'[c].interrupted = job[c].interrupted
           /\ lockfile' = FALSE
           /\ packages' = packages
           /\ names' = names
           /\ legacy' = legacy
           /\ stored' = stored
           /\ torn' = torn
           /\ processes' = processes
           /\ due' = due
           /\ ran' = ran
           /\ telling' = telling
<1>0. job \in [Command -> JobType]
    BY DEF TypeOK, DatabaseTypeOK, JobType
<1>1. job[c].at = "create"
    BY <1>0 DEF VersionUnreadable, Goto, Leave, At, Over, files, notifiers, Fault, Tell,
       Work, N!Abandon, N!notifiers, Kept, ReleaseLock, Free, OldLayout, Tables
<1>2. job[c].at = "create" /\ job[c] \in Working
    BY <1>1, WorkingWhere
<1>q. job' = [job EXCEPT ![c] = [at |-> "ended", interrupted |-> job[c].interrupted]]
    BY <1>0 DEF VersionUnreadable, Goto, Leave
<1>i. job[c].interrupted \in BOOLEAN
    BY <1>2 DEF Working
<1>r. [at |-> "ended", interrupted |-> job[c].interrupted] \in JobType
    BY <1>i DEF JobType
<1>3. /\ job'[c] = [at |-> "ended", interrupted |-> job[c].interrupted]
      /\ \A d \in Command : d # c => job'[d] = job[d]
      /\ job' \in [Command -> JobType]
    BY <1>0, <1>q, <1>r
<1>8. /\ lockfile' = FALSE
      /\ packages' = packages
      /\ names' = names
      /\ legacy' = legacy
      /\ stored' = stored
      /\ torn' = torn
      /\ processes' = processes
      /\ due' = due
      /\ ran' = ran
      /\ telling' = telling
    BY <1>0, <1>1, <1>2 DEF VersionUnreadable, Goto, Leave, At, Over, files, notifiers,
       Fault, Tell, Work, N!Abandon, N!notifiers, Kept, ReleaseLock, Free
<1>9. QED
    BY <1>2, <1>3, <1>8

LEMMA DoesCreate ==
    ASSUME TypeOK, Returns, NEW c \in Command, Create(c), UNCHANGED <<notifiers, telling, worked>>
    PROVE  /\ job[c].at = "create"
           /\ job[c] \in Working
           /\ \A d \in Command : d # c => job'[d] = job[d]
           /\ job' \in [Command -> JobType]
           /\ job'[c] \in Working
           /\ job'[c].at \in {"createnew", "creating"}
           /\ job'[c].interrupted = job[c].interrupted
           /\ job'[c].failed = job[c].failed
           /\ job'[c].table = job[c].table
           /\ job'[c].ro = job[c].ro
           /\ job'[c].back = job[c].back
           /\ lockfile' = lockfile
           /\ packages' = packages
           /\ names' = names
           /\ legacy' = legacy
           /\ stored' = stored
           /\ torn' = torn
           /\ processes' = processes
           /\ due' = due
           /\ ran' = ran
           /\ telling' = telling
<1>0. job \in [Command -> JobType]
    BY DEF TypeOK, DatabaseTypeOK, JobType
<1>1. job[c].at = "create"
    BY <1>0 DEF Create, Goto, Leave, At, Over, files, notifiers, Fault, Tell, Work,
       N!Abandon, N!notifiers, Kept, ReleaseLock, Free, OldLayout, Tables
<1>2. job[c].at = "create" /\ job[c] \in Working
    BY <1>1, WorkingWhere
<1>q. PICK e1 \in BOOLEAN, e2 \in SUBSET Target, e3 \in {"createnew", "creating"} :
        job' = [job EXCEPT ![c] = [job[c] EXCEPT !.new = e1, !.make = e2, !.at = e3]]
    <2>1. PICK nothing \in BOOLEAN :
            job' = [job EXCEPT ![c].new = nothing, ![c].make = ToCreate(job[c].kind, nothing),
                               ![c].at = IF nothing /\ ~job[c].kind.nopackages
                                         THEN "createnew" ELSE "creating"]
        BY DEF Create
    <2>2. ToCreate(job[c].kind, nothing) \subseteq Target
        BY DEF ToCreate, TypeOK, DatabaseTypeOK, File
    <2>3. PICK e2 : e2 = ToCreate(job[c].kind, nothing)
        OBVIOUS
    <2>4. PICK e3 : e3 = IF nothing /\ ~job[c].kind.nopackages THEN "createnew" ELSE "creating"
        OBVIOUS
    <2>5. job' = [job EXCEPT ![c] = [job[c] EXCEPT !.new = nothing, !.make = e2, !.at = e3]]
        BY <1>0, <2>1, <2>3, <2>4
    <2>6. QED
        BY <2>2, <2>3, <2>4, <2>5
<1>3. /\ job'[c] = [job[c] EXCEPT !.new = e1, !.make = e2, !.at = e3]
      /\ \A d \in Command : d # c => job'[d] = job[d]
    BY <1>0, <1>q
<1>m. DEFINE j == job[c]
             k == job'[c]
<1>4. k = [j EXCEPT !.new = e1, !.make = e2, !.at = e3] /\ j \in Working /\ j.at = "create" /\ j \in Working
    BY <1>2, <1>3
<1> HIDE DEF j, k
<1>w. k \in Working
    BY ZenonT(40), <1>4 DEF Working, Place
<1>5. /\ k \in Working
      /\ k.at = e3
      /\ k.interrupted = j.interrupted
      /\ k.failed = j.failed
      /\ k.table = j.table
      /\ k.ro = j.ro
      /\ k.back = j.back
    BY <1>w, <1>4 DEF Working, Place, Creating
<1>6. /\ job'[c] \in Working
      /\ job'[c].at = e3
      /\ job'[c].interrupted = job[c].interrupted
      /\ job'[c].failed = job[c].failed
      /\ job'[c].table = job[c].table
      /\ job'[c].ro = job[c].ro
      /\ job'[c].back = job[c].back
    BY <1>5 DEF j, k
<1>7. job' \in [Command -> JobType]
    <2>1. job'[c] \in JobType
        BY <1>6 DEF JobType
    <2>2. QED
        BY <1>0, <2>1, <1>q
<1>8. /\ lockfile' = lockfile
      /\ packages' = packages
      /\ names' = names
      /\ legacy' = legacy
      /\ stored' = stored
      /\ torn' = torn
      /\ processes' = processes
      /\ due' = due
      /\ ran' = ran
      /\ telling' = telling
    BY <1>0, <1>1, <1>2 DEF Create, Goto, Leave, At, Over, files, notifiers, Fault, Tell,
       Work, N!Abandon, N!notifiers, Kept, ReleaseLock, Free
<1>9. QED
    BY <1>2, <1>3, <1>6, <1>7, <1>8

LEMMA DoesCreateTable ==
    ASSUME TypeOK, Returns, NEW c \in Command, CreateTable(c), UNCHANGED <<notifiers, telling, worked>>
    PROVE  /\ job[c].at \in {"createnew", "creating"}
           /\ job[c] \in Working
           /\ \A d \in Command : d # c => job'[d] = job[d]
           /\ job' \in [Command -> JobType]
           /\ job'[c] \in Working
           /\ job'[c].at = "primary"
           /\ job'[c].interrupted = job[c].interrupted
           /\ job'[c].failed = job[c].failed
           /\ job'[c].ro = FALSE
           /\ job'[c].back = job[c].at
           /\ job'[c].table \in Target
           /\ lockfile' = lockfile
           /\ packages' = packages
           /\ names' = names
           /\ legacy' = legacy
           /\ stored' = stored
           /\ torn' = torn
           /\ processes' = processes
           /\ due' = due
           /\ ran' = ran
           /\ telling' = telling
<1>0. job \in [Command -> JobType]
    BY DEF TypeOK, DatabaseTypeOK, JobType
<1>1. job[c].at \in {"createnew", "creating"}
    BY <1>0 DEF CreateTable, Goto, Leave, At, Over, files, notifiers, Fault, Tell, Work,
       N!Abandon, N!notifiers, Kept, ReleaseLock, Free, OldLayout, Tables
<1>2. job[c].at \in {"createnew", "creating"} /\ job[c] \in Working
    BY <1>1, WorkingWhere
<1>o. PICK t \in job[c].make : job' = [job EXCEPT ![c].make = @ \ {t}, ![c].table = t, ![c].ro = FALSE, ![c].back = job[c].at, ![c].at = "primary"]
    BY Zenon DEF CreateTable
<1>p. job' = [job EXCEPT ![c] = [job[c] EXCEPT !.make = @ \ {t}, !.table = t, !.ro = FALSE, !.back = job[c].at, !.at = "primary"]] /\ t \in job[c].make
    BY <1>0, <1>o
<1>3. /\ job'[c] = [job[c] EXCEPT !.make = @ \ {t}, !.table = t, !.ro = FALSE, !.back = job[c].at, !.at = "primary"]
      /\ \A d \in Command : d # c => job'[d] = job[d]
    BY <1>0, <1>p
<1>m. DEFINE j == job[c]
             k == job'[c]
<1>4. k = [j EXCEPT !.make = @ \ {t}, !.table = t, !.ro = FALSE, !.back = j.at, !.at = "primary"] /\ j \in Working /\ j.at \in {"createnew", "creating"} /\ j \in Working /\ t \in j.make
    BY <1>2, <1>3, <1>p
<1> HIDE DEF j, k
<1>w. k \in Working
    BY <1>4, KindsAndTries DEF Working, Place
<1>5. /\ k \in Working
      /\ k.at = "primary"
      /\ k.interrupted = j.interrupted
      /\ k.failed = j.failed
      /\ k.ro = FALSE
      /\ k.back = j.at
      /\ k.table \in Target
      /\ k.make = j.make \ {t}
      /\ k.table = t
    BY <1>p, <1>w, <1>4 DEF Working, Place, Creating
<1>6. /\ job'[c] \in Working
      /\ job'[c].at = "primary"
      /\ job'[c].interrupted = job[c].interrupted
      /\ job'[c].failed = job[c].failed
      /\ job'[c].ro = FALSE
      /\ job'[c].back = job[c].at
      /\ job'[c].table \in Target
      /\ job'[c].make = job[c].make \ {t}
      /\ job'[c].table = t
    BY <1>5 DEF j, k
<1>7. job' \in [Command -> JobType]
    <2>1. job'[c] \in JobType
        BY <1>6 DEF JobType
    <2>2. QED
        BY <1>0, <2>1, <1>p
<1>8. /\ lockfile' = lockfile
      /\ packages' = packages
      /\ names' = names
      /\ legacy' = legacy
      /\ stored' = stored
      /\ torn' = torn
      /\ processes' = processes
      /\ due' = due
      /\ ran' = ran
      /\ telling' = telling
    BY <1>0, <1>1, <1>2 DEF CreateTable, Goto, Leave, At, Over, files, notifiers, Fault,
       Tell, Work, N!Abandon, N!notifiers, Kept, ReleaseLock, Free
<1>9. QED
    BY <1>2, <1>p, <1>3, <1>6, <1>7, <1>8

LEMMA DoesCreatedNew ==
    ASSUME TypeOK, Returns, NEW c \in Command, CreatedNew(c), UNCHANGED <<notifiers, telling, worked>>
    PROVE  /\ job[c].at = "createnew"
           /\ job[c] \in Working
           /\ \A d \in Command : d # c => job'[d] = job[d]
           /\ job' \in [Command -> JobType]
           /\ job'[c] \in Working
           /\ job'[c].at = (IF job[c].failed THEN "close" ELSE "start")
           /\ job'[c].interrupted = job[c].interrupted
           /\ job'[c].failed = job[c].failed
           /\ job'[c].make = job[c].make
           /\ job'[c].table = job[c].table
           /\ job'[c].ro = job[c].ro
           /\ job'[c].back = job[c].back
           /\ lockfile' = lockfile
           /\ packages' = packages
           /\ names' = names
           /\ legacy' = legacy
           /\ stored' = stored
           /\ torn' = torn
           /\ processes' = processes
           /\ due' = due
           /\ ran' = ran
           /\ telling' = telling
<1>0. job \in [Command -> JobType]
    BY DEF TypeOK, DatabaseTypeOK, JobType
<1>1. job[c].at = "createnew"
    BY <1>0 DEF CreatedNew, Goto, Leave, At, Over, files, notifiers, Fault, Tell, Work,
       N!Abandon, N!notifiers, Kept, ReleaseLock, Free, OldLayout, Tables
<1>2. job[c].at = "createnew" /\ job[c] \in Working
    BY <1>1, WorkingWhere
<1>q. job' = [job EXCEPT ![c] = [job[c] EXCEPT !.at = IF job[c].failed THEN "close" ELSE "start"]]
    BY <1>0 DEF CreatedNew, Goto, Leave
<1>3. /\ job'[c] = [job[c] EXCEPT !.at = IF job[c].failed THEN "close" ELSE "start"]
      /\ \A d \in Command : d # c => job'[d] = job[d]
    BY <1>0, <1>q
<1>m. DEFINE j == job[c]
             k == job'[c]
<1>e. PICK e1 : e1 = (IF job[c].failed THEN "close" ELSE "start")
    OBVIOUS
<1>f. e1 = (IF j.failed THEN "close" ELSE "start")
    BY <1>e
<1>4. k = [j EXCEPT !.at = e1] /\ j \in Working /\ j.at = "createnew" /\ j \in Working
    BY <1>2, <1>3, <1>e
<1> HIDE DEF j, k
<1>w. k \in Working
    BY <1>f, <1>4, KindsAndTries DEF Working, Place
<1>5. /\ k \in Working
      /\ k.at = e1
      /\ k.interrupted = j.interrupted
      /\ k.failed = j.failed
      /\ k.make = j.make
      /\ k.table = j.table
      /\ k.ro = j.ro
      /\ k.back = j.back
    BY <1>w, <1>4 DEF Working, Place, Creating
<1>6. /\ job'[c] \in Working
      /\ job'[c].at = e1
      /\ job'[c].interrupted = job[c].interrupted
      /\ job'[c].failed = job[c].failed
      /\ job'[c].make = job[c].make
      /\ job'[c].table = job[c].table
      /\ job'[c].ro = job[c].ro
      /\ job'[c].back = job[c].back
    BY <1>5 DEF j, k
<1>7. job' \in [Command -> JobType]
    <2>1. job'[c] \in JobType
        BY <1>6 DEF JobType
    <2>2. QED
        BY <1>0, <2>1, <1>q
<1>8. /\ lockfile' = lockfile
      /\ packages' = packages
      /\ names' = names
      /\ legacy' = legacy
      /\ stored' = stored
      /\ torn' = torn
      /\ processes' = processes
      /\ due' = due
      /\ ran' = ran
      /\ telling' = telling
    BY <1>0, <1>1, <1>2 DEF CreatedNew, Goto, Leave, At, Over, files, notifiers, Fault,
       Tell, Work, N!Abandon, N!notifiers, Kept, ReleaseLock, Free
<1>9. QED
    BY <1>2, <1>e, <1>3, <1>6, <1>7, <1>8

LEMMA DoesCreated ==
    ASSUME TypeOK, Returns, NEW c \in Command, Created(c), UNCHANGED <<notifiers, telling, worked>>
    PROVE  /\ job[c].at = "creating"
           /\ job[c] \in Working
           /\ \A d \in Command : d # c => job'[d] = job[d]
           /\ job' \in [Command -> JobType]
           /\ job'[c] \in Working
           /\ job'[c].at = "start"
           /\ job'[c].interrupted = job[c].interrupted
           /\ job'[c].failed = job[c].failed
           /\ job'[c].make = job[c].make
           /\ job'[c].table = job[c].table
           /\ job'[c].ro = job[c].ro
           /\ job'[c].back = job[c].back
           /\ lockfile' = lockfile
           /\ packages' = packages
           /\ names' = names
           /\ legacy' = legacy
           /\ stored' = stored
           /\ torn' = torn
           /\ processes' = processes
           /\ due' = due
           /\ ran' = ran
           /\ telling' = telling
<1>0. job \in [Command -> JobType]
    BY DEF TypeOK, DatabaseTypeOK, JobType
<1>1. job[c].at = "creating"
    BY <1>0 DEF Created, Goto, Leave, At, Over, files, notifiers, Fault, Tell, Work,
       N!Abandon, N!notifiers, Kept, ReleaseLock, Free, OldLayout, Tables
<1>2. job[c].at = "creating" /\ job[c] \in Working
    BY <1>1, WorkingWhere
<1>q. job' = [job EXCEPT ![c] = [job[c] EXCEPT !.at = "start"]]
    BY <1>0 DEF Created, Goto, Leave
<1>3. /\ job'[c] = [job[c] EXCEPT !.at = "start"]
      /\ \A d \in Command : d # c => job'[d] = job[d]
    BY <1>0, <1>q
<1>m. DEFINE j == job[c]
             k == job'[c]
<1>4. k = [j EXCEPT !.at = "start"] /\ j \in Working /\ j.at = "creating" /\ j \in Working
    BY <1>2, <1>3
<1> HIDE DEF j, k
<1>w. k \in Working
    BY <1>4, KindsAndTries DEF Working, Place
<1>5. /\ k \in Working
      /\ k.at = "start"
      /\ k.interrupted = j.interrupted
      /\ k.failed = j.failed
      /\ k.make = j.make
      /\ k.table = j.table
      /\ k.ro = j.ro
      /\ k.back = j.back
    BY <1>w, <1>4 DEF Working, Place, Creating
<1>6. /\ job'[c] \in Working
      /\ job'[c].at = "start"
      /\ job'[c].interrupted = job[c].interrupted
      /\ job'[c].failed = job[c].failed
      /\ job'[c].make = job[c].make
      /\ job'[c].table = job[c].table
      /\ job'[c].ro = job[c].ro
      /\ job'[c].back = job[c].back
    BY <1>5 DEF j, k
<1>7. job' \in [Command -> JobType]
    <2>1. job'[c] \in JobType
        BY <1>6 DEF JobType
    <2>2. QED
        BY <1>0, <2>1, <1>q
<1>8. /\ lockfile' = lockfile
      /\ packages' = packages
      /\ names' = names
      /\ legacy' = legacy
      /\ stored' = stored
      /\ torn' = torn
      /\ processes' = processes
      /\ due' = due
      /\ ran' = ran
      /\ telling' = telling
    BY <1>0, <1>1, <1>2 DEF Created, Goto, Leave, At, Over, files, notifiers, Fault, Tell,
       Work, N!Abandon, N!notifiers, Kept, ReleaseLock, Free
<1>9. QED
    BY <1>2, <1>3, <1>6, <1>7, <1>8

LEMMA DoesOpenPackages ==
    ASSUME TypeOK, Returns, NEW c \in Command, NEW t \in Target, NEW ro \in BOOLEAN, OpenPackages(c, t, ro), Work, UNCHANGED <<notifiers, telling>>
    PROVE  /\ job[c].at = "work"
           /\ job[c] \in Working
           /\ \A d \in Command : d # c => job'[d] = job[d]
           /\ job' \in [Command -> JobType]
           /\ job'[c] \in Working
           /\ job'[c].at = "primary"
           /\ job'[c].interrupted = job[c].interrupted
           /\ job'[c].failed = job[c].failed
           /\ job'[c].make = job[c].make
           /\ job'[c].table = t
           /\ job'[c].ro = ro
           /\ job'[c].back = "work"
           /\ lockfile' = lockfile
           /\ packages' = packages
           /\ names' = names
           /\ legacy' = legacy
           /\ stored' = stored
           /\ torn' = torn
           /\ processes' = processes
           /\ due' = due
           /\ ran' = ran
           /\ telling' = telling
<1>0. job \in [Command -> JobType]
    BY DEF TypeOK, DatabaseTypeOK, JobType
<1>1. job[c].at = "work"
    BY <1>0 DEF OpenPackages, Goto, Leave, At, Over, files, notifiers, Fault, Tell, Work,
       N!Abandon, N!notifiers, Kept, ReleaseLock, Free, OldLayout, Tables
<1>2. job[c].at = "work" /\ job[c] \in Working
    BY <1>1, WorkingWhere
<1>q. job' = [job EXCEPT ![c] = [job[c] EXCEPT !.table = t, !.ro = ro, !.back = "work", !.at = "primary"]]
    BY <1>0 DEF OpenPackages, Goto, Leave
<1>3. /\ job'[c] = [job[c] EXCEPT !.table = t, !.ro = ro, !.back = "work", !.at = "primary"]
      /\ \A d \in Command : d # c => job'[d] = job[d]
    BY <1>0, <1>q
<1>m. DEFINE j == job[c]
             k == job'[c]
<1>4. k = [j EXCEPT !.table = t, !.ro = ro, !.back = "work", !.at = "primary"] /\ j \in Working /\ j.at = "work" /\ j \in Working
    BY <1>2, <1>3
<1> HIDE DEF j, k
<1>w. k \in Working
    BY <1>4, KindsAndTries DEF Working, Place
<1>5. /\ k \in Working
      /\ k.at = "primary"
      /\ k.interrupted = j.interrupted
      /\ k.failed = j.failed
      /\ k.make = j.make
      /\ k.table = t
      /\ k.ro = ro
      /\ k.back = "work"
    BY <1>w, <1>4 DEF Working, Place, Creating
<1>6. /\ job'[c] \in Working
      /\ job'[c].at = "primary"
      /\ job'[c].interrupted = job[c].interrupted
      /\ job'[c].failed = job[c].failed
      /\ job'[c].make = job[c].make
      /\ job'[c].table = t
      /\ job'[c].ro = ro
      /\ job'[c].back = "work"
    BY <1>5 DEF j, k
<1>7. job' \in [Command -> JobType]
    <2>1. job'[c] \in JobType
        BY <1>6 DEF JobType
    <2>2. QED
        BY <1>0, <2>1, <1>q
<1>8. /\ lockfile' = lockfile
      /\ packages' = packages
      /\ names' = names
      /\ legacy' = legacy
      /\ stored' = stored
      /\ torn' = torn
      /\ processes' = processes
      /\ due' = due
      /\ ran' = ran
      /\ telling' = telling
    BY <1>0, <1>1, <1>2 DEF OpenPackages, Goto, Leave, At, Over, files, notifiers, Fault,
       Tell, Work, N!Abandon, N!notifiers, Kept, ReleaseLock, Free
<1>9. QED
    BY <1>2, <1>3, <1>6, <1>7, <1>8

LEMMA DoesOpenPrimary ==
    ASSUME TypeOK, Returns, NEW c \in Command, OpenPrimary(c), UNCHANGED <<notifiers, telling, worked>>
    PROVE  /\ job[c].at = "primary"
           /\ job[c] \in Working
           /\ \A d \in Command : d # c => job'[d] = job[d]
           /\ job' \in [Command -> JobType]
           /\ job'[c] \in Working
           /\ job'[c].at = "secondary"
           /\ job'[c].interrupted = job[c].interrupted
           /\ job'[c].failed = job[c].failed
           /\ job'[c].make = job[c].make
           /\ job'[c].table = job[c].table
           /\ job'[c].ro = job[c].ro
           /\ job'[c].back = job[c].back
           /\ lockfile' = lockfile
           /\ packages' = IF job[c].ro THEN packages ELSE WithTable(packages, job[c].table)
           /\ names' = names
           /\ legacy' = legacy
           /\ stored' = stored
           /\ torn' = torn
           /\ processes' = processes
           /\ due' = due
           /\ ran' = ran
           /\ telling' = telling
<1>0. job \in [Command -> JobType]
    BY DEF TypeOK, DatabaseTypeOK, JobType
<1>1. job[c].at = "primary"
    BY <1>0 DEF OpenPrimary, Goto, Leave, At, Over, files, notifiers, Fault, Tell, Work,
       N!Abandon, N!notifiers, Kept, ReleaseLock, Free, OldLayout, Tables
<1>2. job[c].at = "primary" /\ job[c] \in Working
    BY <1>1, WorkingWhere
<1>q. job' = [job EXCEPT ![c] = [job[c] EXCEPT !.at = "secondary"]]
    BY <1>0 DEF OpenPrimary, Goto, Leave
<1>3. /\ job'[c] = [job[c] EXCEPT !.at = "secondary"]
      /\ \A d \in Command : d # c => job'[d] = job[d]
    BY <1>0, <1>q
<1>m. DEFINE j == job[c]
             k == job'[c]
<1>4. k = [j EXCEPT !.at = "secondary"] /\ j \in Working /\ j.at = "primary" /\ j \in Working
    BY <1>2, <1>3
<1> HIDE DEF j, k
<1>w. k \in Working
    BY <1>4, KindsAndTries DEF Working, Place
<1>5. /\ k \in Working
      /\ k.at = "secondary"
      /\ k.interrupted = j.interrupted
      /\ k.failed = j.failed
      /\ k.make = j.make
      /\ k.table = j.table
      /\ k.ro = j.ro
      /\ k.back = j.back
    BY <1>w, <1>4 DEF Working, Place, Creating
<1>6. /\ job'[c] \in Working
      /\ job'[c].at = "secondary"
      /\ job'[c].interrupted = job[c].interrupted
      /\ job'[c].failed = job[c].failed
      /\ job'[c].make = job[c].make
      /\ job'[c].table = job[c].table
      /\ job'[c].ro = job[c].ro
      /\ job'[c].back = job[c].back
    BY <1>5 DEF j, k
<1>7. job' \in [Command -> JobType]
    <2>1. job'[c] \in JobType
        BY <1>6 DEF JobType
    <2>2. QED
        BY <1>0, <2>1, <1>q
<1>8. /\ lockfile' = lockfile
      /\ packages' = IF job[c].ro THEN packages ELSE WithTable(packages, job[c].table)
      /\ names' = names
      /\ legacy' = legacy
      /\ stored' = stored
      /\ torn' = torn
      /\ processes' = processes
      /\ due' = due
      /\ ran' = ran
      /\ telling' = telling
    BY <1>0, <1>1, <1>2 DEF OpenPrimary, Goto, Leave, At, Over, files, notifiers, Fault,
       Tell, Work, N!Abandon, N!notifiers, Kept, ReleaseLock, Free
<1>9. QED
    BY <1>2, <1>3, <1>6, <1>7, <1>8

LEMMA DoesOpenSecondary ==
    ASSUME TypeOK, Returns, NEW c \in Command, OpenSecondary(c), UNCHANGED <<notifiers, telling, worked>>
    PROVE  /\ job[c].at = "secondary"
           /\ job[c] \in Working
           /\ \A d \in Command : d # c => job'[d] = job[d]
           /\ job' \in [Command -> JobType]
           /\ job'[c] \in Working
           /\ job'[c].at = (IF job[c].back = "work" THEN "open" ELSE "close table")
           /\ job'[c].interrupted = job[c].interrupted
           /\ job'[c].failed = job[c].failed
           /\ job'[c].make = job[c].make
           /\ job'[c].table = job[c].table
           /\ job'[c].ro = job[c].ro
           /\ job'[c].back = job[c].back
           /\ lockfile' = lockfile
           /\ packages' = packages
           /\ names' = IF job[c].ro THEN names ELSE WithTable(names, job[c].table)
           /\ legacy' = legacy
           /\ stored' = stored
           /\ torn' = torn
           /\ processes' = processes
           /\ due' = due
           /\ ran' = ran
           /\ telling' = telling
<1>0. job \in [Command -> JobType]
    BY DEF TypeOK, DatabaseTypeOK, JobType
<1>1. job[c].at = "secondary"
    BY <1>0 DEF OpenSecondary, Goto, Leave, At, Over, files, notifiers, Fault, Tell, Work,
       N!Abandon, N!notifiers, Kept, ReleaseLock, Free, OldLayout, Tables
<1>2. job[c].at = "secondary" /\ job[c] \in Working
    BY <1>1, WorkingWhere
<1>q. job' = [job EXCEPT ![c] = [job[c] EXCEPT !.at = IF job[c].back = "work" THEN "open" ELSE "close table"]]
    BY <1>0 DEF OpenSecondary, Goto, Leave
<1>3. /\ job'[c] = [job[c] EXCEPT !.at = IF job[c].back = "work" THEN "open" ELSE "close table"]
      /\ \A d \in Command : d # c => job'[d] = job[d]
    BY <1>0, <1>q
<1>m. DEFINE j == job[c]
             k == job'[c]
<1>e. PICK e1 : e1 = (IF job[c].back = "work" THEN "open" ELSE "close table")
    OBVIOUS
<1>f. e1 = (IF j.back = "work" THEN "open" ELSE "close table")
    BY <1>e
<1>4. k = [j EXCEPT !.at = e1] /\ j \in Working /\ j.at = "secondary" /\ j \in Working
    BY <1>2, <1>3, <1>e
<1> HIDE DEF j, k
<1>w. k \in Working
    BY <1>f, <1>4, KindsAndTries DEF Working, Place
<1>5. /\ k \in Working
      /\ k.at = e1
      /\ k.interrupted = j.interrupted
      /\ k.failed = j.failed
      /\ k.make = j.make
      /\ k.table = j.table
      /\ k.ro = j.ro
      /\ k.back = j.back
    BY <1>w, <1>4 DEF Working, Place, Creating
<1>6. /\ job'[c] \in Working
      /\ job'[c].at = e1
      /\ job'[c].interrupted = job[c].interrupted
      /\ job'[c].failed = job[c].failed
      /\ job'[c].make = job[c].make
      /\ job'[c].table = job[c].table
      /\ job'[c].ro = job[c].ro
      /\ job'[c].back = job[c].back
    BY <1>5 DEF j, k
<1>7. job' \in [Command -> JobType]
    <2>1. job'[c] \in JobType
        BY <1>6 DEF JobType
    <2>2. QED
        BY <1>0, <2>1, <1>q
<1>8. /\ lockfile' = lockfile
      /\ packages' = packages
      /\ names' = IF job[c].ro THEN names ELSE WithTable(names, job[c].table)
      /\ legacy' = legacy
      /\ stored' = stored
      /\ torn' = torn
      /\ processes' = processes
      /\ due' = due
      /\ ran' = ran
      /\ telling' = telling
    BY <1>0, <1>1, <1>2 DEF OpenSecondary, Goto, Leave, At, Over, files, notifiers, Fault,
       Tell, Work, N!Abandon, N!notifiers, Kept, ReleaseLock, Free
<1>9. QED
    BY <1>2, <1>e, <1>3, <1>6, <1>7, <1>8

LEMMA DoesOpenFails ==
    ASSUME TypeOK, Returns, NEW c \in Command, OpenFails(c), UNCHANGED <<notifiers, telling, worked>>
    PROVE  /\ job[c].at \in {"primary", "secondary"}
           /\ job[c] \in Working
           /\ \A d \in Command : d # c => job'[d] = job[d]
           /\ job' \in [Command -> JobType]
           /\ job'[c] \in Working
           /\ job'[c].at = (IF job[c].back = "creating" THEN "close" ELSE job[c].back)
           /\ job'[c].interrupted = job[c].interrupted
           /\ job'[c].failed = TRUE
           /\ job'[c].make = (IF job[c].back = "createnew" THEN job[c].make ELSE {})
           /\ job'[c].table = None
           /\ job'[c].ro = FALSE
           /\ job'[c].back = None
           /\ lockfile' = lockfile
           /\ packages' = packages
           /\ names' = names
           /\ legacy' = legacy
           /\ stored' = stored
           /\ torn' = (torn \/ Halfway(c))
           /\ processes' = processes
           /\ due' = due
           /\ ran' = ran
           /\ telling' = telling
<1>0. job \in [Command -> JobType]
    BY DEF TypeOK, DatabaseTypeOK, JobType
<1>1. job[c].at \in {"primary", "secondary"}
    BY <1>0 DEF OpenFails, Goto, Leave, At, Over, files, notifiers, Fault, Tell, Work,
       N!Abandon, N!notifiers, Kept, ReleaseLock, Free, OldLayout, Tables
<1>2. job[c].at \in {"primary", "secondary"} /\ job[c] \in Working
    BY <1>1, WorkingWhere
<1>q. job' = [job EXCEPT ![c] = [job[c] EXCEPT !.failed = TRUE, !.table = None, !.ro = FALSE, !.make = IF job[c].back = "createnew" THEN @ ELSE {}, !.at = IF job[c].back = "creating" THEN "close" ELSE job[c].back, !.back = None]]
    BY <1>0 DEF OpenFails, Goto, Leave
<1>3. /\ job'[c] = [job[c] EXCEPT !.failed = TRUE, !.table = None, !.ro = FALSE, !.make = IF job[c].back = "createnew" THEN @ ELSE {}, !.at = IF job[c].back = "creating" THEN "close" ELSE job[c].back, !.back = None]
      /\ \A d \in Command : d # c => job'[d] = job[d]
    BY <1>0, <1>q
<1>m. DEFINE j == job[c]
             k == job'[c]
<1>e. PICK e1, e2 : e1 = (IF job[c].back = "createnew" THEN job[c].make ELSE {}) /\ e2 = (IF job[c].back = "creating" THEN "close" ELSE job[c].back)
    OBVIOUS
<1>f. e1 = (IF j.back = "createnew" THEN j.make ELSE {}) /\ e2 = (IF j.back = "creating" THEN "close" ELSE j.back)
    BY <1>e
<1>4. k = [j EXCEPT !.failed = TRUE, !.table = None, !.ro = FALSE, !.make = e1, !.at = e2, !.back = None] /\ j \in Working /\ j.at \in {"primary", "secondary"} /\ j \in Working /\ j.back \in Creating \cup {"work"}
    BY <1>2, <1>3, <1>e DEF Returns
<1> HIDE DEF j, k
<1>w. k \in Working
    <2>1. k.make \subseteq Target /\ k.at \in Place
        BY <1>4, <1>f DEF Working, Place, Creating
    <2>2. QED
        BY <1>4, <2>1 DEF Working
<1>5. /\ k \in Working
      /\ k.at = e2
      /\ k.interrupted = j.interrupted
      /\ k.failed = TRUE
      /\ k.make = e1
      /\ k.table = None
      /\ k.ro = FALSE
      /\ k.back = None
    BY <1>w, <1>4 DEF Working, Place, Creating
<1>6. /\ job'[c] \in Working
      /\ job'[c].at = e2
      /\ job'[c].interrupted = job[c].interrupted
      /\ job'[c].failed = TRUE
      /\ job'[c].make = e1
      /\ job'[c].table = None
      /\ job'[c].ro = FALSE
      /\ job'[c].back = None
    BY <1>5 DEF j, k
<1>7. job' \in [Command -> JobType]
    <2>1. job'[c] \in JobType
        BY <1>6 DEF JobType
    <2>2. QED
        BY <1>0, <2>1, <1>q
<1>8. /\ lockfile' = lockfile
      /\ packages' = packages
      /\ names' = names
      /\ legacy' = legacy
      /\ stored' = stored
      /\ torn' = (torn \/ Halfway(c))
      /\ processes' = processes
      /\ due' = due
      /\ ran' = ran
      /\ telling' = telling
    BY <1>0, <1>1, <1>2 DEF OpenFails, Goto, Leave, At, Over, files, notifiers, Fault, Tell,
       Work, N!Abandon, N!notifiers, Kept, ReleaseLock, Free
<1>9. QED
    BY <1>2, <1>e, <1>3, <1>6, <1>7, <1>8

LEMMA DoesTranslateLegacy ==
    ASSUME TypeOK, Returns, NEW c \in Command, TranslateLegacy(c), UNCHANGED <<notifiers, telling, worked>>
    PROVE  /\ job[c].at = "secondary"
           /\ OldLayout(c)
           /\ packages \in File
           /\ job[c] \in Working
           /\ \A d \in Command : d # c => job'[d] = job[d]
           /\ job' \in [Command -> JobType]
           /\ job'[c] \in Working
           /\ job'[c].at = "translate"
           /\ job'[c].interrupted = job[c].interrupted
           /\ job'[c].failed = job[c].failed
           /\ job'[c].make = packages.tables
           /\ job'[c].table = job[c].table
           /\ job'[c].ro = job[c].ro
           /\ job'[c].back = job[c].back
           /\ lockfile' = lockfile
           /\ packages' = None
           /\ names' = names
           /\ legacy' = packages
           /\ stored' = stored
           /\ torn' = torn
           /\ processes' = processes
           /\ due' = due
           /\ ran' = ran
           /\ telling' = telling
<1>0. job \in [Command -> JobType]
    BY DEF TypeOK, DatabaseTypeOK, JobType
<1>1. job[c].at = "secondary" /\ OldLayout(c) /\ packages \in File
    BY <1>0 DEF TypeOK, DatabaseTypeOK, TranslateLegacy, Goto, Leave, At, Over, files,
       notifiers, Fault, Tell, Work, N!Abandon, N!notifiers, Kept, ReleaseLock, Free,
       OldLayout, Tables
<1>2. job[c].at = "secondary" /\ OldLayout(c) /\ packages \in File /\ job[c] \in Working
    BY <1>1, WorkingWhere
<1>q. job' = [job EXCEPT ![c] = [job[c] EXCEPT !.make = packages.tables, !.at = "translate"]]
    BY <1>0 DEF TranslateLegacy, Goto, Leave
<1>3. /\ job'[c] = [job[c] EXCEPT !.make = packages.tables, !.at = "translate"]
      /\ \A d \in Command : d # c => job'[d] = job[d]
    BY <1>0, <1>q
<1>m. DEFINE j == job[c]
             k == job'[c]
<1>4. k = [j EXCEPT !.make = packages.tables, !.at = "translate"] /\ j \in Working /\ j.at = "secondary" /\ OldLayout(c) /\ packages \in File /\ j \in Working
    BY <1>2, <1>3
<1> HIDE DEF j, k
<1>w. k \in Working
    <2>1. packages.tables \subseteq Target
        BY <1>2 DEF File
    <2>2. QED
        BY <1>4, <2>1 DEF Working, Place
<1>5. /\ k \in Working
      /\ k.at = "translate"
      /\ k.interrupted = j.interrupted
      /\ k.failed = j.failed
      /\ k.make = packages.tables
      /\ k.table = j.table
      /\ k.ro = j.ro
      /\ k.back = j.back
    BY <1>w, <1>4 DEF Working, Place, Creating, File
<1>6. /\ job'[c] \in Working
      /\ job'[c].at = "translate"
      /\ job'[c].interrupted = job[c].interrupted
      /\ job'[c].failed = job[c].failed
      /\ job'[c].make = packages.tables
      /\ job'[c].table = job[c].table
      /\ job'[c].ro = job[c].ro
      /\ job'[c].back = job[c].back
    BY <1>5 DEF j, k
<1>7. job' \in [Command -> JobType]
    <2>1. job'[c] \in JobType
        BY <1>6 DEF JobType
    <2>2. QED
        BY <1>0, <2>1, <1>q
<1>8. /\ lockfile' = lockfile
      /\ packages' = None
      /\ names' = names
      /\ legacy' = packages
      /\ stored' = stored
      /\ torn' = torn
      /\ processes' = processes
      /\ due' = due
      /\ ran' = ran
      /\ telling' = telling
    BY <1>0, <1>1, <1>2 DEF TranslateLegacy, Goto, Leave, At, Over, files, notifiers, Fault,
       Tell, Work, N!Abandon, N!notifiers, Kept, ReleaseLock, Free
<1>9. QED
    BY <1>2, <1>3, <1>6, <1>7, <1>8

LEMMA DoesTranslatePrimary ==
    ASSUME TypeOK, Returns, NEW c \in Command, TranslatePrimary(c), UNCHANGED <<notifiers, telling, worked>>
    PROVE  /\ job[c].at = "translate"
           /\ job[c] \in Working
           /\ \A d \in Command : d # c => job'[d] = job[d]
           /\ job' \in [Command -> JobType]
           /\ job'[c] \in Working
           /\ job'[c].at = "copy"
           /\ job'[c].interrupted = job[c].interrupted
           /\ job'[c].failed = job[c].failed
           /\ job'[c].table = job[c].table
           /\ job'[c].ro = job[c].ro
           /\ lockfile' = lockfile
           /\ names' = names
           /\ legacy' = legacy
           /\ stored' = stored
           /\ torn' = torn
           /\ processes' = processes
           /\ due' = due
           /\ ran' = ran
           /\ telling' = telling
           /\ packages' = WithTable(packages, job'[c].back) /\ job'[c].back \in job[c].make /\ job'[c].make = job[c].make \ {job'[c].back}
<1>0. job \in [Command -> JobType]
    BY DEF TypeOK, DatabaseTypeOK, JobType
<1>1. job[c].at = "translate"
    BY <1>0 DEF TranslatePrimary, Goto, Leave, At, Over, files, notifiers, Fault, Tell,
       Work, N!Abandon, N!notifiers, Kept, ReleaseLock, Free, OldLayout, Tables
<1>2. job[c].at = "translate" /\ job[c] \in Working
    BY <1>1, WorkingWhere
<1>o. PICK t \in job[c].make : job' = [job EXCEPT ![c].make = @ \ {t}, ![c].back = t, ![c].at = "copy"] /\ packages' = WithTable(packages, t)
    BY Zenon DEF TranslatePrimary
<1>p. job' = [job EXCEPT ![c] = [job[c] EXCEPT !.make = @ \ {t}, !.back = t, !.at = "copy"]] /\ t \in job[c].make /\ packages' = WithTable(packages, t)
    BY <1>0, <1>o
<1>3. /\ job'[c] = [job[c] EXCEPT !.make = @ \ {t}, !.back = t, !.at = "copy"]
      /\ \A d \in Command : d # c => job'[d] = job[d]
    BY <1>0, <1>p
<1>m. DEFINE j == job[c]
             k == job'[c]
<1>4. k = [j EXCEPT !.make = @ \ {t}, !.back = t, !.at = "copy"] /\ j \in Working /\ j.at = "translate" /\ j \in Working /\ t \in j.make
    BY <1>2, <1>3, <1>p
<1> HIDE DEF j, k
<1>w. k \in Working
    BY <1>4, KindsAndTries DEF Working, Place
<1>5. /\ k \in Working
      /\ k.at = "copy"
      /\ k.interrupted = j.interrupted
      /\ k.failed = j.failed
      /\ k.table = j.table
      /\ k.ro = j.ro
      /\ k.make = j.make \ {t}
      /\ k.back = t
    BY <1>p, <1>w, <1>4 DEF Working, Place, Creating
<1>6. /\ job'[c] \in Working
      /\ job'[c].at = "copy"
      /\ job'[c].interrupted = job[c].interrupted
      /\ job'[c].failed = job[c].failed
      /\ job'[c].table = job[c].table
      /\ job'[c].ro = job[c].ro
      /\ job'[c].make = job[c].make \ {t}
      /\ job'[c].back = t
    BY <1>5 DEF j, k
<1>7. job' \in [Command -> JobType]
    <2>1. job'[c] \in JobType
        BY <1>6 DEF JobType
    <2>2. QED
        BY <1>0, <2>1, <1>p
<1>8. /\ lockfile' = lockfile
      /\ names' = names
      /\ legacy' = legacy
      /\ stored' = stored
      /\ torn' = torn
      /\ processes' = processes
      /\ due' = due
      /\ ran' = ran
      /\ telling' = telling
      /\ packages' = WithTable(packages, job'[c].back) /\ job'[c].back \in job[c].make /\ job'[c].make = job[c].make \ {job'[c].back}
    BY <1>0, <1>p, <1>3, <1>4, <1>6, <1>1, <1>2 DEF TranslatePrimary, Goto, Leave, At, Over,
       files, notifiers, Fault, Tell, Work, N!Abandon, N!notifiers, Kept, ReleaseLock, Free
<1>9. QED
    BY <1>2, <1>p, <1>3, <1>6, <1>7, <1>8

LEMMA DoesTranslateTable ==
    ASSUME TypeOK, Returns, NEW c \in Command, TranslateTable(c), UNCHANGED <<notifiers, telling, worked>>
    PROVE  /\ job[c].at = "copy"
           /\ job[c] \in Working
           /\ \A d \in Command : d # c => job'[d] = job[d]
           /\ job' \in [Command -> JobType]
           /\ job'[c] \in Working
           /\ job'[c].at = "translate"
           /\ job'[c].interrupted = job[c].interrupted
           /\ job'[c].failed = job[c].failed
           /\ job'[c].make = job[c].make
           /\ job'[c].table = job[c].table
           /\ job'[c].ro = job[c].ro
           /\ job'[c].back = job[c].back
           /\ lockfile' = lockfile
           /\ packages' = [packages EXCEPT !.records = Copied(job[c].back, packages)]
           /\ names' = [WithTable(names, job[c].back) EXCEPT !.records = Copied(job[c].back, WithTable(names, job[c].back))]
           /\ legacy' = legacy
           /\ stored' = stored
           /\ torn' = torn
           /\ processes' = processes
           /\ due' = due
           /\ ran' = ran
           /\ telling' = telling
<1>0. job \in [Command -> JobType]
    BY DEF TypeOK, DatabaseTypeOK, JobType
<1>1. job[c].at = "copy"
    BY <1>0 DEF TranslateTable, Goto, Leave, At, Over, files, notifiers, Fault, Tell, Work,
       N!Abandon, N!notifiers, Kept, ReleaseLock, Free, OldLayout, Tables
<1>2. job[c].at = "copy" /\ job[c] \in Working
    BY <1>1, WorkingWhere
<1>q. job' = [job EXCEPT ![c] = [job[c] EXCEPT !.at = "translate"]]
    BY <1>0 DEF TranslateTable, Goto, Leave
<1>3. /\ job'[c] = [job[c] EXCEPT !.at = "translate"]
      /\ \A d \in Command : d # c => job'[d] = job[d]
    BY <1>0, <1>q
<1>m. DEFINE j == job[c]
             k == job'[c]
<1>4. k = [j EXCEPT !.at = "translate"] /\ j \in Working /\ j.at = "copy" /\ j \in Working
    BY <1>2, <1>3
<1> HIDE DEF j, k
<1>w. k \in Working
    BY <1>4, KindsAndTries DEF Working, Place
<1>5. /\ k \in Working
      /\ k.at = "translate"
      /\ k.interrupted = j.interrupted
      /\ k.failed = j.failed
      /\ k.make = j.make
      /\ k.table = j.table
      /\ k.ro = j.ro
      /\ k.back = j.back
    BY <1>w, <1>4 DEF Working, Place, Creating
<1>6. /\ job'[c] \in Working
      /\ job'[c].at = "translate"
      /\ job'[c].interrupted = job[c].interrupted
      /\ job'[c].failed = job[c].failed
      /\ job'[c].make = job[c].make
      /\ job'[c].table = job[c].table
      /\ job'[c].ro = job[c].ro
      /\ job'[c].back = job[c].back
    BY <1>5 DEF j, k
<1>7. job' \in [Command -> JobType]
    <2>1. job'[c] \in JobType
        BY <1>6 DEF JobType
    <2>2. QED
        BY <1>0, <2>1, <1>q
<1>8. /\ lockfile' = lockfile
      /\ packages' = [packages EXCEPT !.records = Copied(job[c].back, packages)]
      /\ names' = [WithTable(names, job[c].back) EXCEPT !.records = Copied(job[c].back, WithTable(names, job[c].back))]
      /\ legacy' = legacy
      /\ stored' = stored
      /\ torn' = torn
      /\ processes' = processes
      /\ due' = due
      /\ ran' = ran
      /\ telling' = telling
    BY <1>0, <1>1, <1>2 DEF TranslateTable, Goto, Leave, At, Over, files, notifiers, Fault,
       Tell, Work, N!Abandon, N!notifiers, Kept, ReleaseLock, Free
<1>9. QED
    BY <1>2, <1>3, <1>6, <1>7, <1>8

LEMMA DoesTranslateFails ==
    ASSUME TypeOK, Returns, NEW c \in Command, TranslateFails(c), UNCHANGED <<notifiers, telling, worked>>
    PROVE  /\ job[c].at \in {"translate", "copy"}
           /\ job[c] \in Working
           /\ \A d \in Command : d # c => job'[d] = job[d]
           /\ job' \in [Command -> JobType]
           /\ job'[c] \in Working
           /\ job'[c].at = "work"
           /\ job'[c].interrupted = job[c].interrupted
           /\ job'[c].failed = TRUE
           /\ job'[c].make = {}
           /\ job'[c].table = None
           /\ job'[c].ro = FALSE
           /\ job'[c].back = None
           /\ lockfile' = lockfile
           /\ FilesLeft(c)
           /\ legacy' = legacy
           /\ stored' = stored
           /\ processes' = processes
           /\ due' = due
           /\ ran' = ran
           /\ telling' = telling
<1>0. job \in [Command -> JobType]
    BY DEF TypeOK, DatabaseTypeOK, JobType
<1>1. job[c].at \in {"translate", "copy"}
    BY <1>0 DEF TranslateFails, Goto, Leave, At, Over, files, notifiers, Fault, Tell, Work,
       N!Abandon, N!notifiers, Kept, ReleaseLock, Free, OldLayout, Tables
<1>2. job[c].at \in {"translate", "copy"} /\ job[c] \in Working
    BY <1>1, WorkingWhere
<1>q. job' = [job EXCEPT ![c] = [job[c] EXCEPT !.at = "work", !.failed = TRUE, !.make = {}, !.table = None, !.ro = FALSE, !.back = None]]
    BY <1>0 DEF TranslateFails, Goto, Leave
<1>3. /\ job'[c] = [job[c] EXCEPT !.at = "work", !.failed = TRUE, !.make = {}, !.table = None, !.ro = FALSE, !.back = None]
      /\ \A d \in Command : d # c => job'[d] = job[d]
    BY <1>0, <1>q
<1>m. DEFINE j == job[c]
             k == job'[c]
<1>4. k = [j EXCEPT !.at = "work", !.failed = TRUE, !.make = {}, !.table = None, !.ro = FALSE, !.back = None] /\ j \in Working /\ j.at \in {"translate", "copy"} /\ j \in Working
    BY <1>2, <1>3
<1> HIDE DEF j, k
<1>w. k \in Working
    BY <1>4, KindsAndTries DEF Working, Place
<1>5. /\ k \in Working
      /\ k.at = "work"
      /\ k.interrupted = j.interrupted
      /\ k.failed = TRUE
      /\ k.make = {}
      /\ k.table = None
      /\ k.ro = FALSE
      /\ k.back = None
    BY ZenonT(40), <1>w, <1>4 DEF Working, Place, Creating
<1>6. /\ job'[c] \in Working
      /\ job'[c].at = "work"
      /\ job'[c].interrupted = job[c].interrupted
      /\ job'[c].failed = TRUE
      /\ job'[c].make = {}
      /\ job'[c].table = None
      /\ job'[c].ro = FALSE
      /\ job'[c].back = None
    BY <1>5 DEF j, k
<1>7. job' \in [Command -> JobType]
    <2>1. job'[c] \in JobType
        BY <1>6 DEF JobType
    <2>2. QED
        BY <1>0, <2>1, <1>q
<1>8. /\ lockfile' = lockfile
      /\ FilesLeft(c)
      /\ legacy' = legacy
      /\ stored' = stored
      /\ processes' = processes
      /\ due' = due
      /\ ran' = ran
      /\ telling' = telling
    BY <1>0, <1>1, <1>2 DEF TranslateFails, FilesLeft, Goto, Leave, At, Over, files, notifiers, Fault,
       Tell, Work, N!Abandon, N!notifiers, Kept, ReleaseLock, Free
<1>9. QED
    BY <1>2, <1>3, <1>6, <1>7, <1>8

LEMMA DoesTranslated ==
    ASSUME TypeOK, Returns, NEW c \in Command, Translated(c), UNCHANGED <<notifiers, telling, worked>>
    PROVE  /\ job[c].at = "translate"
           /\ job[c].make = {}
           /\ job[c] \in Working
           /\ \A d \in Command : d # c => job'[d] = job[d]
           /\ job' \in [Command -> JobType]
           /\ job'[c] \in Working
           /\ job'[c].at = "primary"
           /\ job'[c].interrupted = job[c].interrupted
           /\ job'[c].failed = job[c].failed
           /\ job'[c].make = job[c].make
           /\ job'[c].table = job[c].table
           /\ job'[c].ro = job[c].ro
           /\ job'[c].back = "work"
           /\ lockfile' = lockfile
           /\ packages' = packages
           /\ names' = names
           /\ legacy' = None
           /\ stored' = stored
           /\ torn' = torn
           /\ processes' = processes
           /\ due' = due
           /\ ran' = ran
           /\ telling' = telling
<1>0. job \in [Command -> JobType]
    BY DEF TypeOK, DatabaseTypeOK, JobType
<1>1. job[c].at = "translate" /\ job[c].make = {}
    BY <1>0 DEF Translated, Goto, Leave, At, Over, files, notifiers, Fault, Tell, Work,
       N!Abandon, N!notifiers, Kept, ReleaseLock, Free, OldLayout, Tables
<1>2. job[c].at = "translate" /\ job[c].make = {} /\ job[c] \in Working
    BY <1>1, WorkingWhere
<1>q. job' = [job EXCEPT ![c] = [job[c] EXCEPT !.at = "primary", !.back = "work"]]
    BY <1>0 DEF Translated, Goto, Leave
<1>3. /\ job'[c] = [job[c] EXCEPT !.at = "primary", !.back = "work"]
      /\ \A d \in Command : d # c => job'[d] = job[d]
    BY <1>0, <1>q
<1>m. DEFINE j == job[c]
             k == job'[c]
<1>4. k = [j EXCEPT !.at = "primary", !.back = "work"] /\ j \in Working /\ j.at = "translate" /\ j.make = {} /\ j \in Working
    BY <1>2, <1>3
<1> HIDE DEF j, k
<1>w. k \in Working
    BY <1>4, KindsAndTries DEF Working, Place
<1>5. /\ k \in Working
      /\ k.at = "primary"
      /\ k.interrupted = j.interrupted
      /\ k.failed = j.failed
      /\ k.make = j.make
      /\ k.table = j.table
      /\ k.ro = j.ro
      /\ k.back = "work"
    BY <1>w, <1>4 DEF Working, Place, Creating
<1>6. /\ job'[c] \in Working
      /\ job'[c].at = "primary"
      /\ job'[c].interrupted = job[c].interrupted
      /\ job'[c].failed = job[c].failed
      /\ job'[c].make = job[c].make
      /\ job'[c].table = job[c].table
      /\ job'[c].ro = job[c].ro
      /\ job'[c].back = "work"
    BY <1>5 DEF j, k
<1>7. job' \in [Command -> JobType]
    <2>1. job'[c] \in JobType
        BY <1>6 DEF JobType
    <2>2. QED
        BY <1>0, <2>1, <1>q
<1>8. /\ lockfile' = lockfile
      /\ packages' = packages
      /\ names' = names
      /\ legacy' = None
      /\ stored' = stored
      /\ torn' = torn
      /\ processes' = processes
      /\ due' = due
      /\ ran' = ran
      /\ telling' = telling
    BY <1>0, <1>1, <1>2 DEF Translated, Goto, Leave, At, Over, files, notifiers, Fault,
       Tell, Work, N!Abandon, N!notifiers, Kept, ReleaseLock, Free
<1>9. QED
    BY <1>2, <1>3, <1>6, <1>7, <1>8

LEMMA DoesAddRecord ==
    ASSUME TypeOK, Returns, NEW c \in Command, NEW p \in Package, AddRecord(c, p), Tell(c, p, "add"), telling[c] = None
    PROVE  /\ job[c].at = "open"
           /\ ~job[c].ro
           /\ job[c] \in Working
           /\ job' = job
           /\ lockfile' = lockfile
           /\ packages' = [packages EXCEPT !.records = @ \cup {[target |-> job[c].table, package |-> p, keyed |-> 1]}]
           /\ names' = [names EXCEPT !.records = @ \cup {[target |-> job[c].table, package |-> p, keyed |-> 1]}]
           /\ legacy' = legacy
           /\ stored' = stored \cup {<<job[c].table, p>>}
           /\ torn' = torn
           /\ processes' = processes
           /\ due' = due
           /\ ran' = ran
           /\ telling' \in [Command -> {None} \cup [next : DOMAIN Notifier, what : MayBeTold]] /\ \A d \in Command : d # c => telling'[d] = telling[d]
<1>0. job \in [Command -> JobType]
    BY DEF TypeOK, DatabaseTypeOK, JobType
<1>1. job[c].at = "open" /\ ~job[c].ro
    BY <1>0 DEF AddRecord, Goto, Leave, At, Over, files, notifiers, Fault, Tell, Work,
       N!Abandon, N!notifiers, Kept, ReleaseLock, Free, OldLayout, Tables
<1>2. job[c].at = "open" /\ ~job[c].ro /\ job[c] \in Working
    BY <1>1, WorkingWhere
<1>3. job' = job
    BY DEF AddRecord
<1>t. [what |-> "add", target |-> job[c].table, package |-> p] \in MayBeTold
    BY <1>2 DEF Returns, MayBeTold
<1>u. PICK w \in MayBeTold : telling' = [telling EXCEPT ![c] = IF Notifier = <<>> THEN None ELSE [next |-> 1, what |-> w]]
    BY Zenon, <1>t DEF Tell
<1>v. Notifier # <<>> => [next |-> 1, what |-> w] \in [next : DOMAIN Notifier, what : MayBeTold]
    BY NotifierAssumption
<1>x. /\ telling' \in [Command -> {None} \cup [next : DOMAIN Notifier, what : MayBeTold]]
      /\ \A d \in Command : d # c => telling'[d] = telling[d]
    BY <1>u, <1>v DEF TypeOK
<1>8. /\ lockfile' = lockfile
      /\ packages' = [packages EXCEPT !.records = @ \cup {[target |-> job[c].table, package |-> p, keyed |-> 1]}]
      /\ names' = [names EXCEPT !.records = @ \cup {[target |-> job[c].table, package |-> p, keyed |-> 1]}]
      /\ legacy' = legacy
      /\ stored' = stored \cup {<<job[c].table, p>>}
      /\ torn' = torn
      /\ processes' = processes
      /\ due' = due
      /\ ran' = ran
    BY <1>0, <1>1, <1>2 DEF AddRecord, Goto, Leave, At, Over, files, notifiers, Fault, Tell,
       Work, N!Abandon, N!notifiers, Kept, ReleaseLock, Free
<1>9. QED
    BY <1>2, <1>3, <1>x, <1>8

LEMMA DoesRemoveRecord ==
    ASSUME TypeOK, Returns, NEW c \in Command, NEW p \in Package, RemoveRecord(c, p), Tell(c, p, "remove"), telling[c] = None
    PROVE  /\ job[c].at = "open"
           /\ ~job[c].ro
           /\ job[c] \in Working
           /\ job' = job
           /\ lockfile' = lockfile
           /\ packages' = [packages EXCEPT !.records = @ \ {x \in names.records : x.target = job[c].table /\ x.package = p}]
           /\ names' = [names EXCEPT !.records = @ \ {x \in names.records : x.target = job[c].table /\ x.package = p}]
           /\ legacy' = legacy
           /\ stored' = stored \ {<<job[c].table, p>>}
           /\ torn' = torn
           /\ processes' = processes
           /\ due' = due
           /\ ran' = ran
           /\ telling' \in [Command -> {None} \cup [next : DOMAIN Notifier, what : MayBeTold]] /\ \A d \in Command : d # c => telling'[d] = telling[d]
<1>0. job \in [Command -> JobType]
    BY DEF TypeOK, DatabaseTypeOK, JobType
<1>1. job[c].at = "open" /\ ~job[c].ro
    BY <1>0 DEF RemoveRecord, Goto, Leave, At, Over, files, notifiers, Fault, Tell, Work,
       N!Abandon, N!notifiers, Kept, ReleaseLock, Free, OldLayout, Tables
<1>2. job[c].at = "open" /\ ~job[c].ro /\ job[c] \in Working
    BY <1>1, WorkingWhere
<1>3. job' = job
    BY DEF RemoveRecord
<1>t. [what |-> "remove", target |-> job[c].table, package |-> p] \in MayBeTold
    BY <1>2 DEF Returns, MayBeTold
<1>u. PICK w \in MayBeTold : telling' = [telling EXCEPT ![c] = IF Notifier = <<>> THEN None ELSE [next |-> 1, what |-> w]]
    BY Zenon, <1>t DEF Tell
<1>v. Notifier # <<>> => [next |-> 1, what |-> w] \in [next : DOMAIN Notifier, what : MayBeTold]
    BY NotifierAssumption
<1>x. /\ telling' \in [Command -> {None} \cup [next : DOMAIN Notifier, what : MayBeTold]]
      /\ \A d \in Command : d # c => telling'[d] = telling[d]
    BY <1>u, <1>v DEF TypeOK
<1>8. /\ lockfile' = lockfile
      /\ packages' = [packages EXCEPT !.records = @ \ {x \in names.records : x.target = job[c].table /\ x.package = p}]
      /\ names' = [names EXCEPT !.records = @ \ {x \in names.records : x.target = job[c].table /\ x.package = p}]
      /\ legacy' = legacy
      /\ stored' = stored \ {<<job[c].table, p>>}
      /\ torn' = torn
      /\ processes' = processes
      /\ due' = due
      /\ ran' = ran
    BY <1>0, <1>1, <1>2 DEF RemoveRecord, Goto, Leave, At, Over, files, notifiers, Fault,
       Tell, Work, N!Abandon, N!notifiers, Kept, ReleaseLock, Free
<1>9. QED
    BY <1>2, <1>3, <1>x, <1>8

LEMMA DoesCloseTable ==
    ASSUME TypeOK, Returns, NEW c \in Command, CloseTable(c), telling[c] = None, UNCHANGED <<notifiers, telling, worked>>
    PROVE  /\ job[c].at \in {"open", "close table"}
           /\ telling[c] = None
           /\ job[c] \in Working
           /\ \A d \in Command : d # c => job'[d] = job[d]
           /\ job' \in [Command -> JobType]
           /\ job'[c] \in Working
           /\ job'[c].at = job[c].back
           /\ job'[c].interrupted = job[c].interrupted
           /\ job'[c].failed = job[c].failed
           /\ job'[c].make = job[c].make
           /\ job'[c].table = None
           /\ job'[c].ro = FALSE
           /\ job'[c].back = None
           /\ lockfile' = lockfile
           /\ packages' = packages
           /\ names' = names
           /\ legacy' = legacy
           /\ stored' = stored
           /\ torn' = torn
           /\ processes' = processes
           /\ due' = due
           /\ ran' = ran
           /\ telling' = telling
<1>0. job \in [Command -> JobType]
    BY DEF TypeOK, DatabaseTypeOK, JobType
<1>1. job[c].at \in {"open", "close table"} /\ telling[c] = None
    BY <1>0 DEF CloseTable, Goto, Leave, At, Over, files, notifiers, Fault, Tell, Work,
       N!Abandon, N!notifiers, Kept, ReleaseLock, Free, OldLayout, Tables
<1>2. job[c].at \in {"open", "close table"} /\ telling[c] = None /\ job[c] \in Working
    BY <1>1, WorkingWhere
<1>q. job' = [job EXCEPT ![c] = [job[c] EXCEPT !.at = job[c].back, !.table = None, !.back = None, !.ro = FALSE]]
    BY <1>0 DEF CloseTable, Goto, Leave
<1>3. /\ job'[c] = [job[c] EXCEPT !.at = job[c].back, !.table = None, !.back = None, !.ro = FALSE]
      /\ \A d \in Command : d # c => job'[d] = job[d]
    BY <1>0, <1>q
<1>m. DEFINE j == job[c]
             k == job'[c]
<1>4. k = [j EXCEPT !.at = j.back, !.table = None, !.back = None, !.ro = FALSE] /\ j \in Working /\ j.at \in {"open", "close table"} /\ telling[c] = None /\ j \in Working /\ j.back \in Creating \cup {"work"}
    BY <1>2, <1>3 DEF Returns
<1> HIDE DEF j, k
<1>w. k \in Working
    BY <1>4, KindsAndTries DEF Working, Place, Creating
<1>5. /\ k \in Working
      /\ k.at = j.back
      /\ k.interrupted = j.interrupted
      /\ k.failed = j.failed
      /\ k.make = j.make
      /\ k.table = None
      /\ k.ro = FALSE
      /\ k.back = None
    BY ZenonT(40), <1>w, <1>4 DEF Working, Place, Creating
<1>6. /\ job'[c] \in Working
      /\ job'[c].at = job[c].back
      /\ job'[c].interrupted = job[c].interrupted
      /\ job'[c].failed = job[c].failed
      /\ job'[c].make = job[c].make
      /\ job'[c].table = None
      /\ job'[c].ro = FALSE
      /\ job'[c].back = None
    BY <1>5 DEF j, k
<1>7. job' \in [Command -> JobType]
    <2>1. job'[c] \in JobType
        BY <1>6 DEF JobType
    <2>2. QED
        BY <1>0, <2>1, <1>q
<1>8. /\ lockfile' = lockfile
      /\ packages' = packages
      /\ names' = names
      /\ legacy' = legacy
      /\ stored' = stored
      /\ torn' = torn
      /\ processes' = processes
      /\ due' = due
      /\ ran' = ran
      /\ telling' = telling
    BY <1>0, <1>1, <1>2 DEF CloseTable, Goto, Leave, At, Over, files, notifiers, Fault,
       Tell, Work, N!Abandon, N!notifiers, Kept, ReleaseLock, Free
<1>9. QED
    BY <1>2, <1>3, <1>6, <1>7, <1>8

LEMMA DoesClose ==
    ASSUME TypeOK, Returns, NEW c \in Command, Close(c), N!Abandon(c), UNCHANGED <<telling, worked>>
    PROVE  /\ job[c].at = "close"
           /\ job[c] \in Working
           /\ \A d \in Command : d # c => job'[d] = job[d]
           /\ job' \in [Command -> JobType]
           /\ job'[c].at = "ended"
           /\ job'[c].interrupted = job[c].interrupted
           /\ lockfile' = FALSE
           /\ packages' = packages
           /\ names' = names
           /\ legacy' = legacy
           /\ stored' = stored
           /\ torn' = torn
           /\ processes' = [processes EXCEPT ![c] = Kept(@)]
           /\ due' = due
           /\ ran' = ran
           /\ telling' = telling
<1>0. job \in [Command -> JobType]
    BY DEF TypeOK, DatabaseTypeOK, JobType
<1>1. job[c].at = "close"
    BY <1>0 DEF Close, Goto, Leave, At, Over, files, notifiers, Fault, Tell, Work,
       N!Abandon, N!notifiers, Kept, ReleaseLock, Free, OldLayout, Tables
<1>2. job[c].at = "close" /\ job[c] \in Working
    BY <1>1, WorkingWhere
<1>q. job' = [job EXCEPT ![c] = [at |-> "ended", interrupted |-> job[c].interrupted]]
    BY <1>0 DEF Close, Goto, Leave
<1>i. job[c].interrupted \in BOOLEAN
    BY <1>2 DEF Working
<1>r. [at |-> "ended", interrupted |-> job[c].interrupted] \in JobType
    BY <1>i DEF JobType
<1>3. /\ job'[c] = [at |-> "ended", interrupted |-> job[c].interrupted]
      /\ \A d \in Command : d # c => job'[d] = job[d]
      /\ job' \in [Command -> JobType]
    BY <1>0, <1>q, <1>r
<1>8. /\ lockfile' = FALSE
      /\ packages' = packages
      /\ names' = names
      /\ legacy' = legacy
      /\ stored' = stored
      /\ torn' = torn
      /\ processes' = [processes EXCEPT ![c] = Kept(@)]
      /\ due' = due
      /\ ran' = ran
      /\ telling' = telling
    BY <1>0, <1>1, <1>2 DEF Close, Goto, Leave, At, Over, files, notifiers, Fault, Tell,
       Work, N!Abandon, N!notifiers, Kept, ReleaseLock, Free
<1>9. QED
    BY <1>2, <1>3, <1>8

LEMMA DoesCloseFails ==
    ASSUME TypeOK, Returns, NEW c \in Command, CloseFails(c), N!Abandon(c), UNCHANGED <<telling, worked>>
    PROVE  /\ job[c].at = "close"
           /\ job[c] \in Working
           /\ \A d \in Command : d # c => job'[d] = job[d]
           /\ job' \in [Command -> JobType]
           /\ job'[c].at = "ended"
           /\ job'[c].interrupted = job[c].interrupted
           /\ lockfile' = FALSE
           /\ packages' = packages
           /\ names' = names
           /\ legacy' = legacy
           /\ stored' = stored
           /\ torn' = torn
           /\ processes' = [processes EXCEPT ![c] = Kept(@)]
           /\ due' = due
           /\ ran' = ran
           /\ telling' = telling
<1>0. job \in [Command -> JobType]
    BY DEF TypeOK, DatabaseTypeOK, JobType
<1>1. job[c].at = "close"
    BY <1>0 DEF CloseFails, Goto, Leave, At, Over, files, notifiers, Fault, Tell, Work,
       N!Abandon, N!notifiers, Kept, ReleaseLock, Free, OldLayout, Tables
<1>2. job[c].at = "close" /\ job[c] \in Working
    BY <1>1, WorkingWhere
<1>q. job' = [job EXCEPT ![c] = [at |-> "ended", interrupted |-> job[c].interrupted]]
    BY <1>0 DEF CloseFails, Goto, Leave
<1>i. job[c].interrupted \in BOOLEAN
    BY <1>2 DEF Working
<1>r. [at |-> "ended", interrupted |-> job[c].interrupted] \in JobType
    BY <1>i DEF JobType
<1>3. /\ job'[c] = [at |-> "ended", interrupted |-> job[c].interrupted]
      /\ \A d \in Command : d # c => job'[d] = job[d]
      /\ job' \in [Command -> JobType]
    BY <1>0, <1>q, <1>r
<1>8. /\ lockfile' = FALSE
      /\ packages' = packages
      /\ names' = names
      /\ legacy' = legacy
      /\ stored' = stored
      /\ torn' = torn
      /\ processes' = [processes EXCEPT ![c] = Kept(@)]
      /\ due' = due
      /\ ran' = ran
      /\ telling' = telling
    BY <1>0, <1>1, <1>2 DEF CloseFails, Goto, Leave, At, Over, files, notifiers, Fault,
       Tell, Work, N!Abandon, N!notifiers, Kept, ReleaseLock, Free
<1>9. QED
    BY <1>2, <1>3, <1>8

LEMMA DoesSignal ==
    ASSUME TypeOK, Returns, NEW c \in Command, Signal(c), UNCHANGED <<notifiers, telling, worked>>
    PROVE  /\ job[c].at \notin {"new", "ended", "died"}
           /\ job[c] \in Working
           /\ \A d \in Command : d # c => job'[d] = job[d]
           /\ job' \in [Command -> JobType]
           /\ job'[c] \in Working
           /\ job'[c].at = job[c].at
           /\ job'[c].interrupted = TRUE
           /\ job'[c].failed = job[c].failed
           /\ job'[c].make = job[c].make
           /\ job'[c].table = job[c].table
           /\ job'[c].ro = job[c].ro
           /\ job'[c].back = job[c].back
           /\ lockfile' = lockfile
           /\ packages' = packages
           /\ names' = names
           /\ legacy' = legacy
           /\ stored' = stored
           /\ torn' = torn
           /\ processes' = processes
           /\ due' = due
           /\ ran' = ran
           /\ telling' = telling
<1>0. job \in [Command -> JobType]
    BY DEF TypeOK, DatabaseTypeOK, JobType
<1>1. job[c].at \notin {"new", "ended", "died"}
    BY <1>0 DEF Signal, Goto, Leave, At, Over, files, notifiers, Fault, Tell, Work,
       N!Abandon, N!notifiers, Kept, ReleaseLock, Free, OldLayout, Tables
<1>2. job[c].at \notin {"new", "ended", "died"} /\ job[c] \in Working
    BY <1>1, WorkingWhere
<1>q. job' = [job EXCEPT ![c] = [job[c] EXCEPT !.interrupted = TRUE]]
    BY <1>0 DEF Signal, Goto, Leave
<1>3. /\ job'[c] = [job[c] EXCEPT !.interrupted = TRUE]
      /\ \A d \in Command : d # c => job'[d] = job[d]
    BY <1>0, <1>q
<1>m. DEFINE j == job[c]
             k == job'[c]
<1>4. k = [j EXCEPT !.interrupted = TRUE] /\ j \in Working /\ j.at \notin {"new", "ended", "died"} /\ j \in Working
    BY <1>2, <1>3
<1> HIDE DEF j, k
<1>w. k \in Working
    BY <1>4, KindsAndTries DEF Working, Place
<1>5. /\ k \in Working
      /\ k.at = j.at
      /\ k.interrupted = TRUE
      /\ k.failed = j.failed
      /\ k.make = j.make
      /\ k.table = j.table
      /\ k.ro = j.ro
      /\ k.back = j.back
    BY <1>w, <1>4 DEF Working, Place, Creating
<1>6. /\ job'[c] \in Working
      /\ job'[c].at = job[c].at
      /\ job'[c].interrupted = TRUE
      /\ job'[c].failed = job[c].failed
      /\ job'[c].make = job[c].make
      /\ job'[c].table = job[c].table
      /\ job'[c].ro = job[c].ro
      /\ job'[c].back = job[c].back
    BY <1>5 DEF j, k
<1>7. job' \in [Command -> JobType]
    <2>1. job'[c] \in JobType
        BY <1>6 DEF JobType
    <2>2. QED
        BY <1>0, <2>1, <1>q
<1>8. /\ lockfile' = lockfile
      /\ packages' = packages
      /\ names' = names
      /\ legacy' = legacy
      /\ stored' = stored
      /\ torn' = torn
      /\ processes' = processes
      /\ due' = due
      /\ ran' = ran
      /\ telling' = telling
    BY <1>0, <1>1, <1>2 DEF Signal, Goto, Leave, At, Over, files, notifiers, Fault, Tell,
       Work, N!Abandon, N!notifiers, Kept, ReleaseLock, Free
<1>9. QED
    BY <1>2, <1>3, <1>6, <1>7, <1>8

LEMMA DoesKill ==
    ASSUME TypeOK, Returns, NEW c \in Command, Kill(c), N!Abandon(c), telling' = [telling EXCEPT ![c] = None], UNCHANGED worked
    PROVE  /\ job[c].at \notin {"new", "ended", "died"}
           /\ job[c] \in Working
           /\ \A d \in Command : d # c => job'[d] = job[d]
           /\ job' \in [Command -> JobType]
           /\ job'[c].at = "died"
           /\ job'[c].interrupted = job[c].interrupted
           /\ lockfile' = lockfile
           /\ FilesLeft(c)
           /\ legacy' = legacy
           /\ stored' = stored
           /\ processes' = [processes EXCEPT ![c] = Kept(@)]
           /\ due' = due
           /\ ran' = ran
           /\ telling' = [telling EXCEPT ![c] = None]
<1>0. job \in [Command -> JobType]
    BY DEF TypeOK, DatabaseTypeOK, JobType
<1>1. job[c].at \notin {"new", "ended", "died"}
    BY <1>0 DEF Kill, Goto, Leave, At, Over, files, notifiers, Fault, Tell, Work, N!Abandon,
       N!notifiers, Kept, ReleaseLock, Free, OldLayout, Tables
<1>2. job[c].at \notin {"new", "ended", "died"} /\ job[c] \in Working
    BY <1>1, WorkingWhere
<1>q. job' = [job EXCEPT ![c] = [at |-> "died", interrupted |-> job[c].interrupted]]
    BY <1>0 DEF Kill, Goto, Leave
<1>i. job[c].interrupted \in BOOLEAN
    BY <1>2 DEF Working
<1>r. [at |-> "died", interrupted |-> job[c].interrupted] \in JobType
    BY <1>i DEF JobType
<1>3. /\ job'[c] = [at |-> "died", interrupted |-> job[c].interrupted]
      /\ \A d \in Command : d # c => job'[d] = job[d]
      /\ job' \in [Command -> JobType]
    BY <1>0, <1>q, <1>r
<1>8. /\ lockfile' = lockfile
      /\ FilesLeft(c)
      /\ legacy' = legacy
      /\ stored' = stored
      /\ processes' = [processes EXCEPT ![c] = Kept(@)]
      /\ due' = due
      /\ ran' = ran
      /\ telling' = [telling EXCEPT ![c] = None]
    BY <1>0, <1>1, <1>2 DEF Kill, FilesLeft, Goto, Leave, At, Over, files, notifiers, Fault, Tell,
       Work, N!Abandon, N!notifiers, Kept, ReleaseLock, Free
<1>9. QED
    BY <1>2, <1>3, <1>8

LEMMA DoesStartAction ==
    ASSUME TypeOK, Returns, NEW c \in Command, StartAction(c)
    PROVE  /\ job[c].at = "start"
           /\ job[c] \in Working
           /\ \A d \in Command : d # c => job'[d] = job[d]
           /\ job' \in [Command -> JobType]
           /\ job'[c] \in Working
           /\ job'[c].at = (IF job[c].interrupted THEN "wait again" ELSE "work")
           /\ job'[c].interrupted = job[c].interrupted
           /\ job'[c].failed = job[c].failed
           /\ job'[c].make = job[c].make
           /\ job'[c].table = job[c].table
           /\ job'[c].ro = job[c].ro
           /\ job'[c].back = job[c].back
           /\ lockfile' = lockfile
           /\ packages' = packages
           /\ names' = names
           /\ legacy' = legacy
           /\ stored' = stored
           /\ torn' = torn
           /\ processes' = processes
           /\ due' = due
           /\ ran' = ran
           /\ telling' = telling
<1>0. job \in [Command -> JobType]
    BY DEF TypeOK, DatabaseTypeOK, JobType
<1>1. job[c].at = "start"
    BY <1>0 DEF StartAction, Goto, Leave, At, Over, files, notifiers, Fault, Tell, Work,
       N!Abandon, N!notifiers, Kept, ReleaseLock, Free, OldLayout, Tables
<1>2. job[c].at = "start" /\ job[c] \in Working
    BY <1>1, WorkingWhere
<1>q. job' = [job EXCEPT ![c] = [job[c] EXCEPT !.at = IF job[c].interrupted THEN "wait again" ELSE "work"]]
    BY <1>0 DEF StartAction, Goto, Leave
<1>3. /\ job'[c] = [job[c] EXCEPT !.at = IF job[c].interrupted THEN "wait again" ELSE "work"]
      /\ \A d \in Command : d # c => job'[d] = job[d]
    BY <1>0, <1>q
<1>m. DEFINE j == job[c]
             k == job'[c]
<1>e. PICK e1 : e1 = (IF job[c].interrupted THEN "wait again" ELSE "work")
    OBVIOUS
<1>f. e1 = (IF j.interrupted THEN "wait again" ELSE "work")
    BY <1>e
<1>4. k = [j EXCEPT !.at = e1] /\ j \in Working /\ j.at = "start" /\ j \in Working
    BY <1>2, <1>3, <1>e
<1> HIDE DEF j, k
<1>w. k \in Working
    BY <1>f, <1>4, KindsAndTries DEF Working, Place
<1>5. /\ k \in Working
      /\ k.at = e1
      /\ k.interrupted = j.interrupted
      /\ k.failed = j.failed
      /\ k.make = j.make
      /\ k.table = j.table
      /\ k.ro = j.ro
      /\ k.back = j.back
    BY <1>w, <1>4 DEF Working, Place, Creating
<1>6. /\ job'[c] \in Working
      /\ job'[c].at = e1
      /\ job'[c].interrupted = job[c].interrupted
      /\ job'[c].failed = job[c].failed
      /\ job'[c].make = job[c].make
      /\ job'[c].table = job[c].table
      /\ job'[c].ro = job[c].ro
      /\ job'[c].back = job[c].back
    BY <1>5 DEF j, k
<1>7. job' \in [Command -> JobType]
    <2>1. job'[c] \in JobType
        BY <1>6 DEF JobType
    <2>2. QED
        BY <1>0, <2>1, <1>q
<1>8. /\ lockfile' = lockfile
      /\ packages' = packages
      /\ names' = names
      /\ legacy' = legacy
      /\ stored' = stored
      /\ torn' = torn
      /\ processes' = processes
      /\ due' = due
      /\ ran' = ran
      /\ telling' = telling
    BY <1>0, <1>1, <1>2 DEF StartAction, Goto, Leave, At, Over, files, notifiers, Fault,
       Tell, Work, N!Abandon, N!notifiers, Kept, ReleaseLock, Free
<1>9. QED
    BY <1>2, <1>e, <1>3, <1>6, <1>7, <1>8

LEMMA DoesStartFails ==
    ASSUME TypeOK, Returns, NEW c \in Command, StartFails(c)
    PROVE  /\ job[c].at = "start"
           /\ job[c] \in Working
           /\ \A d \in Command : d # c => job'[d] = job[d]
           /\ job' \in [Command -> JobType]
           /\ job'[c] \in Working
           /\ job'[c].at = "wait again"
           /\ job'[c].interrupted = job[c].interrupted
           /\ job'[c].failed = TRUE
           /\ job'[c].make = job[c].make
           /\ job'[c].table = job[c].table
           /\ job'[c].ro = job[c].ro
           /\ job'[c].back = job[c].back
           /\ lockfile' = lockfile
           /\ packages' = packages
           /\ names' = names
           /\ legacy' = legacy
           /\ stored' = stored
           /\ torn' = torn
           /\ processes' = processes
           /\ due' = due
           /\ ran' = ran
           /\ telling' = telling
<1>0. job \in [Command -> JobType]
    BY DEF TypeOK, DatabaseTypeOK, JobType
<1>1. job[c].at = "start"
    BY <1>0 DEF StartFails, Goto, Leave, At, Over, files, notifiers, Fault, Tell, Work,
       N!Abandon, N!notifiers, Kept, ReleaseLock, Free, OldLayout, Tables
<1>2. job[c].at = "start" /\ job[c] \in Working
    BY <1>1, WorkingWhere
<1>q. job' = [job EXCEPT ![c] = [job[c] EXCEPT !.at = "wait again", !.failed = TRUE]]
    BY <1>0 DEF StartFails, Goto, Leave
<1>3. /\ job'[c] = [job[c] EXCEPT !.at = "wait again", !.failed = TRUE]
      /\ \A d \in Command : d # c => job'[d] = job[d]
    BY <1>0, <1>q
<1>m. DEFINE j == job[c]
             k == job'[c]
<1>4. k = [j EXCEPT !.at = "wait again", !.failed = TRUE] /\ j \in Working /\ j.at = "start" /\ j \in Working
    BY <1>2, <1>3
<1> HIDE DEF j, k
<1>w. k \in Working
    BY <1>4, KindsAndTries DEF Working, Place
<1>5. /\ k \in Working
      /\ k.at = "wait again"
      /\ k.interrupted = j.interrupted
      /\ k.failed = TRUE
      /\ k.make = j.make
      /\ k.table = j.table
      /\ k.ro = j.ro
      /\ k.back = j.back
    BY ZenonT(40), <1>w, <1>4 DEF Working, Place, Creating
<1>6. /\ job'[c] \in Working
      /\ job'[c].at = "wait again"
      /\ job'[c].interrupted = job[c].interrupted
      /\ job'[c].failed = TRUE
      /\ job'[c].make = job[c].make
      /\ job'[c].table = job[c].table
      /\ job'[c].ro = job[c].ro
      /\ job'[c].back = job[c].back
    BY <1>5 DEF j, k
<1>7. job' \in [Command -> JobType]
    <2>1. job'[c] \in JobType
        BY <1>6 DEF JobType
    <2>2. QED
        BY <1>0, <2>1, <1>q
<1>8. /\ lockfile' = lockfile
      /\ packages' = packages
      /\ names' = names
      /\ legacy' = legacy
      /\ stored' = stored
      /\ torn' = torn
      /\ processes' = processes
      /\ due' = due
      /\ ran' = ran
      /\ telling' = telling
    BY <1>0, <1>1, <1>2 DEF StartFails, Goto, Leave, At, Over, files, notifiers, Fault,
       Tell, Work, N!Abandon, N!notifiers, Kept, ReleaseLock, Free
<1>9. QED
    BY <1>2, <1>3, <1>6, <1>7, <1>8

LEMMA DoesEndAction ==
    ASSUME TypeOK, Returns, NEW c \in Command, EndAction(c)
    PROVE  /\ job[c].at = "work"
           /\ job[c] \in Working
           /\ \A d \in Command : d # c => job'[d] = job[d]
           /\ job' \in [Command -> JobType]
           /\ job'[c] \in Working
           /\ job'[c].at = "wait"
           /\ job'[c].interrupted = job[c].interrupted
           /\ job'[c].failed = job[c].failed
           /\ job'[c].make = job[c].make
           /\ job'[c].table = job[c].table
           /\ job'[c].ro = job[c].ro
           /\ job'[c].back = job[c].back
           /\ lockfile' = lockfile
           /\ packages' = packages
           /\ names' = names
           /\ legacy' = legacy
           /\ stored' = stored
           /\ torn' = torn
           /\ processes' = processes
           /\ due' = due
           /\ ran' = ran
           /\ telling' = telling
<1>0. job \in [Command -> JobType]
    BY DEF TypeOK, DatabaseTypeOK, JobType
<1>1. job[c].at = "work"
    BY <1>0 DEF EndAction, Goto, Leave, At, Over, files, notifiers, Fault, Tell, Work,
       N!Abandon, N!notifiers, Kept, ReleaseLock, Free, OldLayout, Tables
<1>2. job[c].at = "work" /\ job[c] \in Working
    BY <1>1, WorkingWhere
<1>q. job' = [job EXCEPT ![c] = [job[c] EXCEPT !.at = "wait"]]
    BY <1>0 DEF EndAction, Goto, Leave
<1>3. /\ job'[c] = [job[c] EXCEPT !.at = "wait"]
      /\ \A d \in Command : d # c => job'[d] = job[d]
    BY <1>0, <1>q
<1>m. DEFINE j == job[c]
             k == job'[c]
<1>4. k = [j EXCEPT !.at = "wait"] /\ j \in Working /\ j.at = "work" /\ j \in Working
    BY <1>2, <1>3
<1> HIDE DEF j, k
<1>w. k \in Working
    BY <1>4, KindsAndTries DEF Working, Place
<1>5. /\ k \in Working
      /\ k.at = "wait"
      /\ k.interrupted = j.interrupted
      /\ k.failed = j.failed
      /\ k.make = j.make
      /\ k.table = j.table
      /\ k.ro = j.ro
      /\ k.back = j.back
    BY <1>w, <1>4 DEF Working, Place, Creating
<1>6. /\ job'[c] \in Working
      /\ job'[c].at = "wait"
      /\ job'[c].interrupted = job[c].interrupted
      /\ job'[c].failed = job[c].failed
      /\ job'[c].make = job[c].make
      /\ job'[c].table = job[c].table
      /\ job'[c].ro = job[c].ro
      /\ job'[c].back = job[c].back
    BY <1>5 DEF j, k
<1>7. job' \in [Command -> JobType]
    <2>1. job'[c] \in JobType
        BY <1>6 DEF JobType
    <2>2. QED
        BY <1>0, <2>1, <1>q
<1>8. /\ lockfile' = lockfile
      /\ packages' = packages
      /\ names' = names
      /\ legacy' = legacy
      /\ stored' = stored
      /\ torn' = torn
      /\ processes' = processes
      /\ due' = due
      /\ ran' = ran
      /\ telling' = telling
    BY <1>0, <1>1, <1>2 DEF EndAction, Goto, Leave, At, Over, files, notifiers, Fault, Tell,
       Work, N!Abandon, N!notifiers, Kept, ReleaseLock, Free
<1>9. QED
    BY <1>2, <1>3, <1>6, <1>7, <1>8

LEMMA DoesWaited ==
    ASSUME TypeOK, Returns, NEW c \in Command, Waited(c)
    PROVE  /\ job[c].at \in {"wait", "wait again"}
           /\ (processes[c] = <<>> \/ job[c].interrupted)
           /\ job[c] \in Working
           /\ \A d \in Command : d # c => job'[d] = job[d]
           /\ job' \in [Command -> JobType]
           /\ job'[c] \in Working
           /\ job'[c].at = (IF job[c].at = "wait" THEN "tidy" ELSE "close")
           /\ job'[c].interrupted = job[c].interrupted
           /\ job'[c].failed = job[c].failed
           /\ job'[c].make = job[c].make
           /\ job'[c].table = job[c].table
           /\ job'[c].ro = job[c].ro
           /\ job'[c].back = job[c].back
           /\ lockfile' = lockfile
           /\ packages' = packages
           /\ names' = names
           /\ legacy' = legacy
           /\ stored' = stored
           /\ torn' = torn
           /\ processes' = processes
           /\ due' = due
           /\ ran' = ran
           /\ telling' = telling
<1>0. job \in [Command -> JobType]
    BY DEF TypeOK, DatabaseTypeOK, JobType
<1>1. job[c].at \in {"wait", "wait again"} /\ (processes[c] = <<>> \/ job[c].interrupted)
    BY <1>0 DEF Waited, Goto, Leave, At, Over, files, notifiers, Fault, Tell, Work,
       N!Abandon, N!notifiers, Kept, ReleaseLock, Free, OldLayout, Tables
<1>2. job[c].at \in {"wait", "wait again"} /\ (processes[c] = <<>> \/ job[c].interrupted) /\ job[c] \in Working
    BY <1>1, WorkingWhere
<1>q. job' = [job EXCEPT ![c] = [job[c] EXCEPT !.at = IF job[c].at = "wait" THEN "tidy" ELSE "close"]]
    BY <1>0 DEF Waited, Goto, Leave, At, Over, files, notifiers, Fault, Tell, Work,
       N!Abandon, N!notifiers, Kept, ReleaseLock, Free
<1>3. /\ job'[c] = [job[c] EXCEPT !.at = IF job[c].at = "wait" THEN "tidy" ELSE "close"]
      /\ \A d \in Command : d # c => job'[d] = job[d]
    BY <1>0, <1>q
<1>m. DEFINE j == job[c]
             k == job'[c]
<1>e. PICK e1 : e1 = (IF job[c].at = "wait" THEN "tidy" ELSE "close")
    OBVIOUS
<1>f. e1 = (IF j.at = "wait" THEN "tidy" ELSE "close")
    BY <1>e
<1>4. k = [j EXCEPT !.at = e1] /\ j \in Working /\ j.at \in {"wait", "wait again"} /\ (processes[c] = <<>> \/ j.interrupted) /\ j \in Working
    BY <1>2, <1>3, <1>e
<1> HIDE DEF j, k
<1>w. k \in Working
    BY <1>f, <1>4, KindsAndTries DEF Working, Place
<1>5. /\ k \in Working
      /\ k.at = e1
      /\ k.interrupted = j.interrupted
      /\ k.failed = j.failed
      /\ k.make = j.make
      /\ k.table = j.table
      /\ k.ro = j.ro
      /\ k.back = j.back
    BY <1>w, <1>4 DEF Working, Place, Creating
<1>6. /\ job'[c] \in Working
      /\ job'[c].at = e1
      /\ job'[c].interrupted = job[c].interrupted
      /\ job'[c].failed = job[c].failed
      /\ job'[c].make = job[c].make
      /\ job'[c].table = job[c].table
      /\ job'[c].ro = job[c].ro
      /\ job'[c].back = job[c].back
    BY <1>5 DEF j, k
<1>7. job' \in [Command -> JobType]
    <2>1. job'[c] \in JobType
        BY <1>6 DEF JobType
    <2>2. QED
        BY <1>0, <2>1, <1>q
<1>8. /\ lockfile' = lockfile
      /\ packages' = packages
      /\ names' = names
      /\ legacy' = legacy
      /\ stored' = stored
      /\ torn' = torn
      /\ processes' = processes
      /\ due' = due
      /\ ran' = ran
      /\ telling' = telling
    BY <1>0, <1>1, <1>2 DEF Waited, Goto, Leave, At, Over, files, notifiers, Fault, Tell,
       Work, N!Abandon, N!notifiers, Kept, ReleaseLock, Free
<1>9. QED
    BY <1>2, <1>e, <1>3, <1>6, <1>7, <1>8

LEMMA DoesTidy ==
    ASSUME TypeOK, Returns, NEW c \in Command, Tidy(c)
    PROVE  /\ job[c].at = "tidy"
           /\ job[c] \in Working
           /\ \A d \in Command : d # c => job'[d] = job[d]
           /\ job' \in [Command -> JobType]
           /\ job'[c] \in Working
           /\ job'[c].at = "wait again"
           /\ job'[c].interrupted = job[c].interrupted
           /\ job'[c].failed = job[c].failed
           /\ job'[c].make = job[c].make
           /\ job'[c].table = job[c].table
           /\ job'[c].ro = job[c].ro
           /\ job'[c].back = job[c].back
           /\ lockfile' = lockfile
           /\ packages' = packages
           /\ names' = names
           /\ legacy' = legacy
           /\ stored' = stored
           /\ torn' = torn
           /\ processes' = processes
           /\ due' = due
           /\ ran' = ran
           /\ telling' = telling
<1>0. job \in [Command -> JobType]
    BY DEF TypeOK, DatabaseTypeOK, JobType
<1>1. job[c].at = "tidy"
    BY <1>0 DEF Tidy, Goto, Leave, At, Over, files, notifiers, Fault, Tell, Work, N!Abandon,
       N!notifiers, Kept, ReleaseLock, Free, OldLayout, Tables
<1>2. job[c].at = "tidy" /\ job[c] \in Working
    BY <1>1, WorkingWhere
<1>q. job' = [job EXCEPT ![c] = [job[c] EXCEPT !.at = "wait again"]]
    BY <1>0 DEF Tidy, Goto, Leave
<1>3. /\ job'[c] = [job[c] EXCEPT !.at = "wait again"]
      /\ \A d \in Command : d # c => job'[d] = job[d]
    BY <1>0, <1>q
<1>m. DEFINE j == job[c]
             k == job'[c]
<1>4. k = [j EXCEPT !.at = "wait again"] /\ j \in Working /\ j.at = "tidy" /\ j \in Working
    BY <1>2, <1>3
<1> HIDE DEF j, k
<1>w. k \in Working
    BY <1>4, KindsAndTries DEF Working, Place
<1>5. /\ k \in Working
      /\ k.at = "wait again"
      /\ k.interrupted = j.interrupted
      /\ k.failed = j.failed
      /\ k.make = j.make
      /\ k.table = j.table
      /\ k.ro = j.ro
      /\ k.back = j.back
    BY <1>w, <1>4 DEF Working, Place, Creating
<1>6. /\ job'[c] \in Working
      /\ job'[c].at = "wait again"
      /\ job'[c].interrupted = job[c].interrupted
      /\ job'[c].failed = job[c].failed
      /\ job'[c].make = job[c].make
      /\ job'[c].table = job[c].table
      /\ job'[c].ro = job[c].ro
      /\ job'[c].back = job[c].back
    BY <1>5 DEF j, k
<1>7. job' \in [Command -> JobType]
    <2>1. job'[c] \in JobType
        BY <1>6 DEF JobType
    <2>2. QED
        BY <1>0, <2>1, <1>q
<1>8. /\ lockfile' = lockfile
      /\ packages' = packages
      /\ names' = names
      /\ legacy' = legacy
      /\ stored' = stored
      /\ torn' = torn
      /\ processes' = processes
      /\ due' = due
      /\ ran' = ran
      /\ telling' = telling
    BY <1>0, <1>1, <1>2 DEF Tidy, Goto, Leave, At, Over, files, notifiers, Fault, Tell,
       Work, N!Abandon, N!notifiers, Kept, ReleaseLock, Free
<1>9. QED
    BY <1>2, <1>3, <1>6, <1>7, <1>8

(* The layers. *)

-----------------------------------------------------------------------------
(* What the steps do to the lists.                                         *)

QueuesTyped ==
    /\ processes \in [Command -> Seq(EntryOf)]
    /\ due \in [Command -> Seq(N!Call)] /\ ran \in [Command -> Seq(N!Call)]

(* Only the lists of c change, and what they are is in order.              *)
OnlyQueues(c) ==
    /\ QueuesTyped'
    /\ QueueOf(processes'[c], due'[c], ran'[c])
    /\ \A d \in Command : d # c =>
          processes'[d] = processes[d] /\ due'[d] = due[d] /\ ran'[d] = ran[d]

LEMMA Starting ==
    ASSUME QueuesTyped, NEW c \in Command, NEW list \in Seq(EntryOf), NEW d \in Seq(N!Call),
           QueueOf(list, d, ran[c]), due' = [due EXCEPT ![c] = d],
           N!StartChild(c, list) \/ N!ForkFails(c, list)
    PROVE  OnlyQueues(c)
<1>d. due' \in [Command -> Seq(N!Call)] /\ due'[c] = d
      /\ \A e \in Command : e # c => due'[e] = due[e]
    BY DEF QueuesTyped
<1>r. ran[c] \in Seq(N!Call)
    BY DEF QueuesTyped
<1>1. CASE N!NoneRuns(list) /\ list # <<>> /\ N!StartChild(c, list)
    <2>1. PICK l \in Seq(EntryOf), r \in Seq(N!Call) :
              /\ l = [list EXCEPT ![N!StartsAt(list)].state = "running"]
              /\ r = Append(ran[c], list[N!StartsAt(list)].call)
              /\ QueueOf(l, d, r)
        BY <1>1, <1>r, QueueStarts
    <2>2. processes' = [processes EXCEPT ![c] = l] /\ ran' = [ran EXCEPT ![c] = r]
        BY <1>1, <2>1 DEF N!StartChild, QueuesTyped
    <2>3. QED
        BY <1>d, <2>1, <2>2 DEF OnlyQueues, QueuesTyped
<1>2. CASE ~(N!NoneRuns(list) /\ list # <<>> /\ N!StartChild(c, list))
    <2>1. processes' = [processes EXCEPT ![c] = list] /\ ran' = ran
        BY <1>2 DEF N!StartChild, N!ForkFails
    <2>2. QED
        BY <1>d, <2>1 DEF OnlyQueues, QueuesTyped
<1>3. QED
    BY <1>1, <1>2

LEMMA DoesTellNext ==
    ASSUME IInv, NEW c \in Command, TellNext(c)
    PROVE  /\ job[c].at = "open"
           /\ job' = job
           /\ UNCHANGED <<lockfile, version, packages, names, legacy, stored, torn, worked>>
           /\ faults' = faults \/ Fault
           /\ OnlyQueues(c)
           /\ telling' \in [Command -> {None} \cup [next : DOMAIN Notifier, what : MayBeTold]]
           /\ \A d \in Command : d # c => telling'[d] = telling[d]
<1>0. QueuesTyped /\ telling \in [Command -> {None} \cup [next : DOMAIN Notifier, what : MayBeTold]]
    BY DEF IInv, TypeOK, QueuesTyped, EntryOf
<1>1. telling[c] # None /\ telling[c] \in [next : DOMAIN Notifier, what : MayBeTold]
    BY <1>0 DEF TellNext
<1>2. job[c].at = "open"
    BY <1>1 DEF IInv, Quiet
<1>3. job' = job /\ UNCHANGED <<lockfile, version, packages, names, legacy, stored, torn, worked>>
      /\ (faults' = faults \/ Fault)
    BY DEF TellNext, files
<1>4. PICK s, w : s = telling[c].next /\ w = telling[c].what
    OBVIOUS
<1>5. s \in DOMAIN Notifier /\ w \in MayBeTold /\ [script |-> s, what |-> w] \in N!Call
    BY <1>1, <1>4 DEF N!Call
<1>6. OnlyQueues(c)
    <2>1. QueueOf(processes[c], due[c], ran[c])
        BY <1>2 DEF IInv, Lines
    <2>2. /\ processes[c] \in Seq(EntryOf) /\ due[c] \in Seq(N!Call) /\ ran[c] \in Seq(N!Call)
        BY <1>0 DEF QueuesTyped
    <2>3. PICK l \in Seq(EntryOf) : l = N!Caught(processes[c]) /\ QueueOf(l, due[c], ran[c])
        BY <2>1, <2>2, QueueCaught
    <2>4. N!Enqueue(c, s, w) \/ N!EnqueueOnly(c, s, w)
        BY <1>4 DEF TellNext
    <2>5. CASE N!Wants(s, w)
        <3>1. PICK call \in N!Call : call = [script |-> s, what |-> w]
            BY <1>5
        <3>p. PICK list, d : /\ list = Append(l, [call |-> call, state |-> "waiting"])
                             /\ d = Append(due[c], call)
            OBVIOUS
        <3>q. d \in Seq(N!Call)
            BY <2>2, <3>p
        <3>2. /\ list = Append(l, [call |-> call, state |-> "waiting"]) /\ list \in Seq(EntryOf)
              /\ d = Append(due[c], call) /\ d \in Seq(N!Call) /\ QueueOf(list, d, ran[c])
            BY <2>2, <2>3, <3>p, <3>q, QueueAppend
        <3>3. N!Enqueued(c, s, w) = list
            BY Zenon, <2>3, <2>5, <3>1, <3>2 DEF N!Enqueued
        <3>4. due' = [due EXCEPT ![c] = d]
            BY Zenon, <2>4, <2>5, <3>1, <3>2 DEF N!Enqueue, N!EnqueueOnly, N!Due
        <3>5. N!StartChild(c, list) \/ N!ForkFails(c, list)
            BY Zenon, <2>4, <3>3 DEF N!Enqueue, N!EnqueueOnly
        <3>6. QED
            BY <1>0, <3>2, <3>4, <3>5, Starting
    <2>6. CASE ~N!Wants(s, w)
        <3>1. N!Enqueued(c, s, w) = l
            BY Zenon, <2>3, <2>6 DEF N!Enqueued
        <3>2. due' = [due EXCEPT ![c] = due[c]]
            BY Zenon, <2>4, <2>6 DEF N!Enqueue, N!EnqueueOnly, N!Due
        <3>3. N!StartChild(c, l) \/ N!ForkFails(c, l)
            BY Zenon, <2>4, <3>1 DEF N!Enqueue, N!EnqueueOnly
        <3>4. QED
            BY <1>0, <2>2, <2>3, <3>2, <3>3, Starting
    <2>7. QED
        BY <2>5, <2>6
<1>7. /\ telling' \in [Command -> {None} \cup [next : DOMAIN Notifier, what : MayBeTold]]
      /\ \A d \in Command : d # c => telling'[d] = telling[d]
    <2>1. PICK n \in Nat : n = Len(Notifier) /\ DOMAIN Notifier = 1..n
        BY NotifierAssumption
    <2>2. PICK x : x = IF telling[c].next = Len(Notifier) THEN None
                       ELSE [next |-> telling[c].next + 1, what |-> telling[c].what]
        OBVIOUS
    <2>3. telling' = [telling EXCEPT ![c] = x]
        <3>1. telling' = [telling EXCEPT ![c] =
                  IF telling[c].next = Len(Notifier) THEN None
                  ELSE [next |-> telling[c].next + 1, what |-> telling[c].what]]
            BY DEF TellNext
        <3>2. QED
            BY Zenon, <2>2, <3>1
    <2>4. telling[c].next # Len(Notifier) => telling[c].next + 1 \in DOMAIN Notifier
        BY <1>1, <2>1
    <2>5. x \in {None} \cup [next : DOMAIN Notifier, what : MayBeTold]
        BY <1>1, <2>2, <2>4
    <2>6. QED
        BY <1>0, <2>3, <2>5
<1>8. QED
    BY <1>2, <1>3, <1>6, <1>7

LEMMA DoesTurn ==
    ASSUME IInv, NEW c \in Command, Turn(c)
    PROVE  /\ job[c].at \in {"wait", "wait again"}
           /\ job' = job
           /\ UNCHANGED <<lockfile, version, packages, names, legacy, stored, torn, worked, telling>>
           /\ faults' = faults \/ Fault
           /\ OnlyQueues(c)
<1>0. QueuesTyped
    BY DEF IInv, TypeOK, QueuesTyped, EntryOf
<1>1. /\ job[c].at \in {"wait", "wait again"}
      /\ job' = job
      /\ UNCHANGED <<lockfile, version, packages, names, legacy, stored, torn, worked, telling>>
      /\ faults' = faults \/ Fault
    BY DEF Turn, files
<1>2. QueueOf(processes[c], due[c], ran[c])
    BY <1>1 DEF IInv, Lines
<1>3. /\ processes[c] \in Seq(EntryOf) /\ due[c] \in Seq(N!Call) /\ ran[c] \in Seq(N!Call)
    BY <1>0 DEF QueuesTyped
<1>4. PICK l \in Seq(EntryOf) : l = N!Caught(processes[c]) /\ QueueOf(l, due[c], ran[c])
    BY <1>2, <1>3, QueueCaught
<1>5. due' = due /\ (N!StartChild(c, l) \/ N!ForkFails(c, l))
    BY Zenon, <1>4 DEF Turn, N!WaitTurn, N!IdleTurn
<1>6. due' = [due EXCEPT ![c] = due[c]]
    BY <1>0, <1>5 DEF QueuesTyped
<1>7. QED
    BY <1>0, <1>1, <1>3, <1>4, <1>5, <1>6, Starting

LEMMA DoesScriptEnds ==
    ASSUME IInv, NEW c \in Command, N!ScriptEnds(c), UNCHANGED <<database, telling, worked>>
    PROVE  /\ processes[c] # <<>>
           /\ UNCHANGED <<lockfile, version, packages, names, legacy, stored, torn, faults, worked,
                          telling, job, due, ran>>
           /\ QueuesTyped'
           /\ \A d \in Command : d # c => processes'[d] = processes[d]
           /\ \A k \in DOMAIN processes'[c] : k > 1 => processes'[c][k].state = "waiting"
           /\ (QueueOf(processes[c], due[c], ran[c]) => QueueOf(processes'[c], due'[c], ran'[c]))
<1>0. QueuesTyped
    BY DEF IInv, TypeOK, QueuesTyped, EntryOf
<1>1. /\ UNCHANGED <<lockfile, version, packages, names, legacy, stored, torn, faults, worked,
                     telling, job, due, ran>>
    BY DEF N!ScriptEnds, database, files
<1>2. PICK i \in DOMAIN processes[c] :
          N!IsRunning(processes[c][i]) /\ processes' = [processes EXCEPT ![c][i].state = "exited"]
    BY Zenon DEF N!ScriptEnds
<1>3. PICK list \in Seq(EntryOf) : list = processes[c]
    BY <1>0 DEF QueuesTyped
<1>4. \A k \in DOMAIN list : k > 1 => list[k].state = "waiting"
    BY <1>3 DEF IInv, Lines
<1>5. i \in DOMAIN list /\ N!IsRunning(list[i])
    BY <1>2, <1>3
<1>6. PICK l : l = [list EXCEPT ![i].state = "exited"]
    OBVIOUS
<1>7. /\ l \in Seq(EntryOf) /\ \A k \in DOMAIN l : k > 1 => l[k].state = "waiting"
      /\ \A d \in Seq(N!Call), r \in Seq(N!Call) : QueueOf(list, d, r) => QueueOf(l, d, r)
    BY <1>4, <1>5, <1>6, QueueEnds
<1>8. processes' = [processes EXCEPT ![c] = l]
    BY <1>0, <1>2, <1>3, <1>6 DEF QueuesTyped
<1>9. processes'[c] = l /\ \A d \in Command : d # c => processes'[d] = processes[d]
    BY <1>0, <1>8 DEF QueuesTyped
<1>10. processes[c] # <<>>
    BY <1>2
<1>11. QueuesTyped'
    BY <1>0, <1>1, <1>7, <1>8 DEF QueuesTyped
<1>12. due[c] \in Seq(N!Call) /\ ran[c] \in Seq(N!Call)
    BY <1>0 DEF QueuesTyped
<1>13. QED
    BY <1>1, <1>3, <1>7, <1>9, <1>10, <1>11, <1>12

LEMMA DoesAbandon ==
    ASSUME IInv, NEW c \in Command, processes' = [processes EXCEPT ![c] = Kept(@)]
    PROVE  /\ processes' \in [Command -> Seq(EntryOf)]
           /\ \A d \in Command : d # c => processes'[d] = processes[d]
           /\ (processes[c] = <<>> => processes'[c] = <<>>)
           /\ \A k \in DOMAIN processes'[c] : k > 1 => processes'[c][k].state = "waiting"
<1>0. QueuesTyped
    BY DEF IInv, TypeOK, QueuesTyped, EntryOf
<1>1. PICK list \in Seq(EntryOf) : list = processes[c]
    BY <1>0 DEF QueuesTyped
<1>2. \A k \in DOMAIN list : k > 1 => list[k].state = "waiting"
    BY <1>1 DEF IInv, Lines
<1>3. PICK l : l = Kept(list)
    OBVIOUS
<1>4. l = IF list # <<>> /\ list[1].state = "running" THEN <<list[1]>> ELSE <<>>
    BY <1>2, <1>3, Queued
<1>5. list # <<>> => list[1] \in EntryOf
    BY Elements
<1>6. l \in Seq(EntryOf) /\ (\A k \in DOMAIN l : k > 1 => l[k].state = "waiting")
      /\ (list = <<>> => l = <<>>)
    BY <1>4, <1>5
<1>7. processes' = [processes EXCEPT ![c] = l]
    BY <1>1, <1>3
<1>8. QED
    BY <1>0, <1>1, <1>6, <1>7 DEF QueuesTyped

(* The invariant is kept. *)

-----------------------------------------------------------------------------
(* Types.                                                                  *)

TypeFiles ==
    /\ packages \in File \cup {None} /\ names \in File \cup {None}
    /\ legacy \in File \cup {None}
TypeStored == stored \subseteq Target \X Package
TypeFlags == lockfile \in BOOLEAN /\ torn \in BOOLEAN
TypeJob == job \in [Command -> JobType]
TypeCounts == version \in {None, "0", "current"} /\ faults \in 0..MaxFaults /\ worked \in 0..MaxWork
TypeTelling == telling \in [Command -> {None} \cup [next : DOMAIN Notifier, what : MayBeTold]]

LEMMA TypeParts ==
    TypeOK <=> TypeFiles /\ TypeStored /\ TypeFlags /\ TypeJob /\ TypeCounts /\ TypeTelling /\ QueuesTyped
BY DEF TypeOK, DatabaseTypeOK, TypeFiles, TypeStored, TypeFlags, TypeJob, TypeCounts, TypeTelling,
   QueuesTyped, JobType, EntryOf

LEMMA NoneIsNoFile == None \notin File
BY DatabaseAssumption

LEMMA WithTableIs ==
    ASSUME NEW file \in File \cup {None}, NEW t \in Target
    PROVE  /\ WithTable(file, t) \in File
           /\ Tables(WithTable(file, t)) = Tables(file) \cup {t}
           /\ Records(WithTable(file, t)) = Records(file)
<1>1. CASE file = None
    <2>1. WithTable(file, t) = [tables |-> {t}, records |-> {}]
        BY <1>1 DEF WithTable, Empty
    <2>2. QED
        BY <1>1, <2>1, NoneIsNoFile DEF Tables, Records, File
<1>2. CASE file # None
    <2>1. WithTable(file, t) = [file EXCEPT !.tables = @ \cup {t}] /\ file \in File
        BY <1>2 DEF WithTable
    <2>2. WithTable(file, t) \in File /\ WithTable(file, t).tables = file.tables \cup {t}
          /\ WithTable(file, t).records = file.records
        BY <2>1 DEF File
    <2>3. QED
        BY <1>2, <2>2, NoneIsNoFile DEF Tables, Records
<1>3. QED
    BY <1>1, <1>2

LEMMA WithRecords ==
    ASSUME NEW file \in File, NEW R \in SUBSET Record
    PROVE  /\ [file EXCEPT !.records = R] \in File
           /\ Tables([file EXCEPT !.records = R]) = Tables(file)
           /\ Records([file EXCEPT !.records = R]) = R
<1>1. PICK f : f = [file EXCEPT !.records = R]
    OBVIOUS
<1>2. f \in File /\ f.tables = file.tables /\ f.records = R
    BY <1>1 DEF File
<1>3. QED
    BY <1>1, <1>2, NoneIsNoFile DEF Tables, Records

(* What is copied of a table is all the legacy file has of it.             *)
LEMMA CopiedIs ==
    ASSUME NEW t \in Target, NEW file \in File, legacy \in File
    PROVE  /\ Copied(t, file) \in SUBSET Record
           /\ file.records \subseteq Copied(t, file)
           /\ \A r \in Copied(t, file) \ file.records : r.target = t
           /\ \A r \in legacy.records : r.target = t =>
                 \E s \in Copied(t, file) : s.target = t /\ s.package = r.package
<1> DEFINE K(r) == [r EXCEPT !.keyed = IF @ < 2 THEN @ + 1 ELSE 2]
           L == {x \in legacy.records : x.target = t}
<1>0. file.records \subseteq Record /\ legacy.records \subseteq Record
    BY DEF File
<1>1. Copied(t, file) = file.records \cup {K(r) : r \in L}
    BY DEF Copied, Copies
<1>2. ASSUME NEW r \in L
      PROVE  K(r) \in Record /\ K(r).target = t /\ K(r).package = r.package
    <2>1. PICK k : k = IF r.keyed < 2 THEN r.keyed + 1 ELSE 2
        OBVIOUS
    <2>2. r \in Record /\ r.target = t
        BY <1>0, <1>2
    <2>3. k \in 0..2
        BY <2>1, <2>2 DEF Record
    <2>4. K(r) = [r EXCEPT !.keyed = k]
        BY Zenon, <2>1
    <2>5. QED
        BY <2>2, <2>3, <2>4 DEF Record
<1> HIDE DEF K
<1>3. QED
    BY <1>0, <1>1, <1>2

LEMMA CopiedInPartIs ==
    ASSUME TypeFiles, Placed, NEW c \in Command, CopiedInPart(c)
    PROVE  /\ job[c].at = "copy" /\ job[c].back \in Tables(packages) /\ torn' = torn
           /\ packages' \in File /\ names' \in File
           /\ Tables(packages') = Tables(packages)
           /\ Tables(names') = Tables(names) \cup {job[c].back}
           /\ Records(packages) \subseteq Records(packages')
           /\ \A r \in Records(packages') \ Records(packages) : r.target = job[c].back
<1>1. PICK t : t = job[c].back
    OBVIOUS
<1>2. job[c].at = "copy" /\ torn' = torn
    BY DEF CopiedInPart, At
<1>3. t \in Tables(packages) /\ legacy # None
    BY <1>1, <1>2 DEF Placed
<1>4. packages \in File /\ legacy \in File /\ t \in Target
    BY <1>3 DEF TypeFiles, Tables, File
<1>5. WithTable(names, t) \in File /\ Tables(WithTable(names, t)) = Tables(names) \cup {t}
    BY <1>4, WithTableIs DEF TypeFiles
<1>6. PICK done \in SUBSET Copies(t) :
        /\ packages' = [packages EXCEPT !.records = @ \cup done]
        /\ names' = [WithTable(names, t) EXCEPT !.records = @ \cup done]
    BY <1>1 DEF CopiedInPart
<1>7. done \subseteq Record /\ \A r \in done : r.target = t
    <2>1. Empty \in File /\ Empty.records = {}
        BY DEF Empty, File
    <2>2. Copied(t, Empty) = Copies(t)
        BY <2>1 DEF Copied
    <2>3. QED
        BY <1>4, <2>1, <2>2, CopiedIs
<1>8. PICK w : w = WithTable(names, t)
    OBVIOUS
<1>9. w \in File /\ w.records \subseteq Record /\ packages.records \subseteq Record
    BY <1>4, <1>5, <1>8 DEF File
<1>10. PICK pr \in SUBSET Record, nr \in SUBSET Record :
        pr = packages.records \cup done /\ nr = w.records \cup done
    BY <1>7, <1>9
<1>11. packages' = [packages EXCEPT !.records = pr] /\ names' = [w EXCEPT !.records = nr]
    BY <1>6, <1>8, <1>10
<1>12. /\ packages' \in File /\ Tables(packages') = Tables(packages) /\ Records(packages') = pr
       /\ names' \in File /\ Tables(names') = Tables(w)
    BY <1>4, <1>9, <1>11, WithRecords
<1>13. Records(packages) = packages.records
    BY <1>4, NoneIsNoFile DEF Records
<1>14. QED
    BY <1>1, <1>2, <1>3, <1>5, <1>7, <1>8, <1>10, <1>12, <1>13

LEMMA FilesLeftTyped ==
    ASSUME TypeFiles, TypeFlags, Placed, NEW c \in Command, FilesLeft(c), legacy' = legacy,
           lockfile' = lockfile
    PROVE  TypeFiles' /\ TypeFlags'
<1>1. CASE CopiedInPart(c)
    BY <1>1, CopiedInPartIs DEF TypeFiles, TypeFlags
<1>2. CASE packages' = packages /\ names' = names /\ torn' = (torn \/ Halfway(c))
    <2>1. (torn \/ Halfway(c)) \in BOOLEAN
        BY DEF TypeFlags
    <2>2. QED
        BY <1>2, <2>1 DEF TypeFiles, TypeFlags
<1>3. QED
    BY <1>1, <1>2 DEF FilesLeft

(* A call of the system that fails, or work done, is counted to its bound. *)
LEMMA Counted ==
    ASSUME TypeCounts
    PROVE  /\ (Fault => faults' \in 0..MaxFaults)
           /\ (Work => worked' \in 0..MaxWork)
BY DatabaseAssumption, NotifierAssumption DEF Fault, Work, TypeCounts

LEMMA TypesKept ==
    ASSUME IInv, Next
    PROVE  TypeFiles' /\ TypeStored' /\ TypeFlags' /\ TypeJob' /\ TypeCounts' /\ TypeTelling' /\ QueuesTyped'
<1> DEFINE Good == TypeFiles' /\ TypeStored' /\ TypeFlags' /\ TypeJob' /\ TypeCounts' /\ TypeTelling' /\ QueuesTyped'
<1>0. /\ TypeFiles /\ TypeStored /\ TypeFlags /\ TypeJob /\ TypeCounts /\ TypeTelling
      /\ QueuesTyped
    BY TypeParts DEF IInv
<1>t. TypeOK /\ Returns /\ Placed
    BY DEF IInv
<1>i. IInv
    OBVIOUS
<1>k. /\ faults \in 0..MaxFaults /\ (Fault => faults' \in 0..MaxFaults)
      /\ worked \in 0..MaxWork /\ (Work => worked' \in 0..MaxWork)
    BY <1>0, Counted DEF TypeCounts
<1>1. ASSUME NEW c \in Command, Begin(c), UNCHANGED <<notifiers, telling, worked>> PROVE Good
    <2>1. TypeFiles'
        BY <1>0, <1>t, <1>1, DoesBegin DEF TypeFiles
    <2>2. TypeStored'
        BY <1>0, <1>t, <1>1, DoesBegin DEF TypeStored
    <2>3. TypeFlags'
        BY <1>0, <1>t, <1>1, DoesBegin DEF TypeFlags
    <2>4. TypeJob'
        BY <1>0, <1>t, <1>1, DoesBegin DEF TypeJob
    <2>5. TypeCounts'
        BY <1>0, <1>1 DEF Begin, TypeCounts, files, database, notifiers, Tell, N!Abandon,
           N!notifiers, N!ScriptEnds, ReleaseLock, Written
    <2>6. TypeTelling'
        BY <1>0, <1>t, <1>1, DoesBegin DEF TypeTelling
    <2>7. QueuesTyped'
        BY <1>0, <1>t, <1>1, DoesBegin DEF QueuesTyped
    <2>8. QED
        BY <2>1, <2>2, <2>3, <2>4, <2>5, <2>6, <2>7
<1>2. ASSUME NEW c \in Command, Acquire(c), UNCHANGED <<notifiers, telling, worked>> PROVE Good
    <2>1. TypeFiles'
        BY <1>0, <1>t, <1>2, DoesAcquire DEF TypeFiles
    <2>2. TypeStored'
        BY <1>0, <1>t, <1>2, DoesAcquire DEF TypeStored
    <2>3. TypeFlags'
        BY <1>0, <1>t, <1>2, DoesAcquire DEF TypeFlags
    <2>4. TypeJob'
        BY <1>0, <1>t, <1>2, DoesAcquire DEF TypeJob
    <2>5. TypeCounts'
        BY <1>0, <1>2 DEF Acquire, TypeCounts, files, database, notifiers, Tell, N!Abandon,
           N!notifiers, N!ScriptEnds, ReleaseLock, Written
    <2>6. TypeTelling'
        BY <1>0, <1>t, <1>2, DoesAcquire DEF TypeTelling
    <2>7. QueuesTyped'
        BY <1>0, <1>t, <1>2, DoesAcquire DEF QueuesTyped
    <2>8. QED
        BY <2>1, <2>2, <2>3, <2>4, <2>5, <2>6, <2>7
<1>3. ASSUME NEW c \in Command, TryAgain(c), UNCHANGED <<notifiers, telling, worked>> PROVE Good
    <2>1. TypeFiles'
        BY <1>0, <1>t, <1>3, DoesTryAgain DEF TypeFiles
    <2>2. TypeStored'
        BY <1>0, <1>t, <1>3, DoesTryAgain DEF TypeStored
    <2>3. TypeFlags'
        BY <1>0, <1>t, <1>3, DoesTryAgain DEF TypeFlags
    <2>4. TypeJob'
        BY <1>0, <1>t, <1>3, DoesTryAgain DEF TypeJob
    <2>5. TypeCounts'
        BY <1>0, <1>3 DEF TryAgain, TypeCounts, files, database, notifiers, Tell, N!Abandon,
           N!notifiers, N!ScriptEnds, ReleaseLock, Written
    <2>6. TypeTelling'
        BY <1>0, <1>t, <1>3, DoesTryAgain DEF TypeTelling
    <2>7. QueuesTyped'
        BY <1>0, <1>t, <1>3, DoesTryAgain DEF QueuesTyped
    <2>8. QED
        BY <2>1, <2>2, <2>3, <2>4, <2>5, <2>6, <2>7
<1>4. ASSUME NEW c \in Command, GiveUp(c), UNCHANGED <<notifiers, telling, worked>> PROVE Good
    <2>1. TypeFiles'
        BY <1>0, <1>t, <1>4, DoesGiveUp DEF TypeFiles
    <2>2. TypeStored'
        BY <1>0, <1>t, <1>4, DoesGiveUp DEF TypeStored
    <2>3. TypeFlags'
        BY <1>0, <1>t, <1>4, DoesGiveUp DEF TypeFlags
    <2>4. TypeJob'
        BY <1>0, <1>t, <1>4, DoesGiveUp DEF TypeJob
    <2>5. TypeCounts'
        BY <1>0, <1>4 DEF GiveUp, TypeCounts, files, database, notifiers, Tell, N!Abandon,
           N!notifiers, N!ScriptEnds, ReleaseLock, Written
    <2>6. TypeTelling'
        BY <1>0, <1>t, <1>4, DoesGiveUp DEF TypeTelling
    <2>7. QueuesTyped'
        BY <1>0, <1>t, <1>4, DoesGiveUp DEF QueuesTyped
    <2>8. QED
        BY <2>1, <2>2, <2>3, <2>4, <2>5, <2>6, <2>7
<1>5. ASSUME NEW c \in Command, EnvironmentFails(c), UNCHANGED <<notifiers, telling, worked>> PROVE Good
    <2>1. Fault /\ UNCHANGED <<worked, version>>
        BY <1>5 DEF EnvironmentFails, files, database, notifiers, Tell
    <2>2. TypeFiles'
        BY <1>0, <1>t, <1>5, DoesEnvironmentFails DEF TypeFiles
    <2>3. TypeStored'
        BY <1>0, <1>t, <1>5, DoesEnvironmentFails DEF TypeStored
    <2>4. TypeFlags'
        BY <1>0, <1>t, <1>5, DoesEnvironmentFails DEF TypeFlags
    <2>5. TypeJob'
        BY <1>0, <1>t, <1>5, DoesEnvironmentFails DEF TypeJob
    <2>6. TypeCounts'
        BY <1>0, <1>k, <2>1 DEF TypeCounts
    <2>7. TypeTelling'
        BY <1>0, <1>t, <1>5, DoesEnvironmentFails DEF TypeTelling
    <2>8. QueuesTyped'
        BY <1>0, <1>t, <1>5, DoesEnvironmentFails DEF QueuesTyped
    <2>9. QED
        BY <2>2, <2>3, <2>4, <2>5, <2>6, <2>7, <2>8
<1>6. ASSUME NEW c \in Command, VersionUnreadable(c), UNCHANGED <<notifiers, telling, worked>> PROVE Good
    <2>1. Fault /\ UNCHANGED <<worked, version>>
        BY <1>6 DEF VersionUnreadable, files, database, notifiers, Tell
    <2>2. TypeFiles'
        BY <1>0, <1>t, <1>6, DoesVersionUnreadable DEF TypeFiles
    <2>3. TypeStored'
        BY <1>0, <1>t, <1>6, DoesVersionUnreadable DEF TypeStored
    <2>4. TypeFlags'
        BY <1>0, <1>t, <1>6, DoesVersionUnreadable DEF TypeFlags
    <2>5. TypeJob'
        BY <1>0, <1>t, <1>6, DoesVersionUnreadable DEF TypeJob
    <2>6. TypeCounts'
        BY <1>0, <1>k, <2>1 DEF TypeCounts
    <2>7. TypeTelling'
        BY <1>0, <1>t, <1>6, DoesVersionUnreadable DEF TypeTelling
    <2>8. QueuesTyped'
        BY <1>0, <1>t, <1>6, DoesVersionUnreadable DEF QueuesTyped
    <2>9. QED
        BY <2>2, <2>3, <2>4, <2>5, <2>6, <2>7, <2>8
<1>7. ASSUME NEW c \in Command, Create(c), UNCHANGED <<notifiers, telling, worked>> PROVE Good
    <2>1. TypeFiles'
        BY <1>0, <1>t, <1>7, DoesCreate DEF TypeFiles
    <2>2. TypeStored'
        BY <1>0, <1>t, <1>7, DoesCreate DEF TypeStored
    <2>3. TypeFlags'
        BY <1>0, <1>t, <1>7, DoesCreate DEF TypeFlags
    <2>4. TypeJob'
        BY <1>0, <1>t, <1>7, DoesCreate DEF TypeJob
    <2>5. TypeCounts'
        BY <1>0, <1>7 DEF Create, TypeCounts, files, database, notifiers, Tell, N!Abandon,
           N!notifiers, N!ScriptEnds, ReleaseLock, Written
    <2>6. TypeTelling'
        BY <1>0, <1>t, <1>7, DoesCreate DEF TypeTelling
    <2>7. QueuesTyped'
        BY <1>0, <1>t, <1>7, DoesCreate DEF QueuesTyped
    <2>8. QED
        BY <2>1, <2>2, <2>3, <2>4, <2>5, <2>6, <2>7
<1>8. ASSUME NEW c \in Command, CreateTable(c), UNCHANGED <<notifiers, telling, worked>> PROVE Good
    <2>1. TypeFiles'
        BY <1>0, <1>t, <1>8, DoesCreateTable DEF TypeFiles
    <2>2. TypeStored'
        BY <1>0, <1>t, <1>8, DoesCreateTable DEF TypeStored
    <2>3. TypeFlags'
        BY <1>0, <1>t, <1>8, DoesCreateTable DEF TypeFlags
    <2>4. TypeJob'
        BY <1>0, <1>t, <1>8, DoesCreateTable DEF TypeJob
    <2>5. TypeCounts'
        BY <1>0, <1>8 DEF CreateTable, TypeCounts, files, database, notifiers, Tell,
           N!Abandon, N!notifiers, N!ScriptEnds, ReleaseLock, Written
    <2>6. TypeTelling'
        BY <1>0, <1>t, <1>8, DoesCreateTable DEF TypeTelling
    <2>7. QueuesTyped'
        BY <1>0, <1>t, <1>8, DoesCreateTable DEF QueuesTyped
    <2>8. QED
        BY <2>1, <2>2, <2>3, <2>4, <2>5, <2>6, <2>7
<1>9. ASSUME NEW c \in Command, CreatedNew(c), UNCHANGED <<notifiers, telling, worked>> PROVE Good
    <2>1. TypeFiles'
        BY <1>0, <1>t, <1>9, DoesCreatedNew DEF TypeFiles
    <2>2. TypeStored'
        BY <1>0, <1>t, <1>9, DoesCreatedNew DEF TypeStored
    <2>3. TypeFlags'
        BY <1>0, <1>t, <1>9, DoesCreatedNew DEF TypeFlags
    <2>4. TypeJob'
        BY <1>0, <1>t, <1>9, DoesCreatedNew DEF TypeJob
    <2>5. TypeCounts'
        BY <1>0, <1>9 DEF CreatedNew, TypeCounts, files, database, notifiers, Tell,
           N!Abandon, N!notifiers, N!ScriptEnds, ReleaseLock, Written
    <2>6. TypeTelling'
        BY <1>0, <1>t, <1>9, DoesCreatedNew DEF TypeTelling
    <2>7. QueuesTyped'
        BY <1>0, <1>t, <1>9, DoesCreatedNew DEF QueuesTyped
    <2>8. QED
        BY <2>1, <2>2, <2>3, <2>4, <2>5, <2>6, <2>7
<1>10. ASSUME NEW c \in Command, Created(c), UNCHANGED <<notifiers, telling, worked>> PROVE Good
    <2>1. TypeFiles'
        BY <1>0, <1>t, <1>10, DoesCreated DEF TypeFiles
    <2>2. TypeStored'
        BY <1>0, <1>t, <1>10, DoesCreated DEF TypeStored
    <2>3. TypeFlags'
        BY <1>0, <1>t, <1>10, DoesCreated DEF TypeFlags
    <2>4. TypeJob'
        BY <1>0, <1>t, <1>10, DoesCreated DEF TypeJob
    <2>5. TypeCounts'
        BY <1>0, <1>10 DEF Created, TypeCounts, files, database, notifiers, Tell, N!Abandon,
           N!notifiers, N!ScriptEnds, ReleaseLock, Written
    <2>6. TypeTelling'
        BY <1>0, <1>t, <1>10, DoesCreated DEF TypeTelling
    <2>7. QueuesTyped'
        BY <1>0, <1>t, <1>10, DoesCreated DEF QueuesTyped
    <2>8. QED
        BY <2>1, <2>2, <2>3, <2>4, <2>5, <2>6, <2>7
<1>11. ASSUME NEW c \in Command, NEW t \in Target, NEW ro \in BOOLEAN, OpenPackages(c, t, ro), Work, UNCHANGED <<notifiers, telling>> PROVE Good
    <2>1. Work /\ UNCHANGED <<faults, version>>
        BY <1>11 DEF OpenPackages, files, database, notifiers, Tell
    <2>2. TypeFiles'
        BY <1>0, <1>t, <1>11, DoesOpenPackages DEF TypeFiles
    <2>3. TypeStored'
        BY <1>0, <1>t, <1>11, DoesOpenPackages DEF TypeStored
    <2>4. TypeFlags'
        BY <1>0, <1>t, <1>11, DoesOpenPackages DEF TypeFlags
    <2>5. TypeJob'
        BY <1>0, <1>t, <1>11, DoesOpenPackages DEF TypeJob
    <2>6. TypeCounts'
        BY <1>0, <1>k, <2>1 DEF TypeCounts
    <2>7. TypeTelling'
        BY <1>0, <1>t, <1>11, DoesOpenPackages DEF TypeTelling
    <2>8. QueuesTyped'
        BY <1>0, <1>t, <1>11, DoesOpenPackages DEF QueuesTyped
    <2>9. QED
        BY <2>2, <2>3, <2>4, <2>5, <2>6, <2>7, <2>8
<1>12. ASSUME NEW c \in Command, OpenPrimary(c), UNCHANGED <<notifiers, telling, worked>> PROVE Good
    <2>1. job[c].table \in Target
        BY <1>0, <1>t, <1>12, DoesOpenPrimary DEF Returns
    <2>2. WithTable(packages, job[c].table) \in File
        BY <1>0, <2>1, WithTableIs DEF TypeFiles
    <2>3. TypeFiles'
        BY <1>0, <1>t, <1>12, <2>2, DoesOpenPrimary DEF TypeFiles
    <2>4. TypeStored'
        BY <1>0, <1>t, <1>12, DoesOpenPrimary DEF TypeStored
    <2>5. TypeFlags'
        BY <1>0, <1>t, <1>12, DoesOpenPrimary DEF TypeFlags
    <2>6. TypeJob'
        BY <1>0, <1>t, <1>12, DoesOpenPrimary DEF TypeJob
    <2>7. TypeCounts'
        BY <1>0, <1>12 DEF OpenPrimary, TypeCounts, files, database, notifiers, Tell,
           N!Abandon, N!notifiers, N!ScriptEnds, ReleaseLock, Written
    <2>8. TypeTelling'
        BY <1>0, <1>t, <1>12, DoesOpenPrimary DEF TypeTelling
    <2>9. QueuesTyped'
        BY <1>0, <1>t, <1>12, DoesOpenPrimary DEF QueuesTyped
    <2>10. QED
        BY <2>3, <2>4, <2>5, <2>6, <2>7, <2>8, <2>9
<1>13. ASSUME NEW c \in Command, OpenSecondary(c), UNCHANGED <<notifiers, telling, worked>> PROVE Good
    <2>1. job[c].table \in Target
        BY <1>0, <1>t, <1>13, DoesOpenSecondary DEF Returns
    <2>2. WithTable(names, job[c].table) \in File
        BY <1>0, <2>1, WithTableIs DEF TypeFiles
    <2>3. TypeFiles'
        BY <1>0, <1>t, <1>13, <2>2, DoesOpenSecondary DEF TypeFiles
    <2>4. TypeStored'
        BY <1>0, <1>t, <1>13, DoesOpenSecondary DEF TypeStored
    <2>5. TypeFlags'
        BY <1>0, <1>t, <1>13, DoesOpenSecondary DEF TypeFlags
    <2>6. TypeJob'
        BY <1>0, <1>t, <1>13, DoesOpenSecondary DEF TypeJob
    <2>7. TypeCounts'
        BY <1>0, <1>13 DEF OpenSecondary, TypeCounts, files, database, notifiers, Tell,
           N!Abandon, N!notifiers, N!ScriptEnds, ReleaseLock, Written
    <2>8. TypeTelling'
        BY <1>0, <1>t, <1>13, DoesOpenSecondary DEF TypeTelling
    <2>9. QueuesTyped'
        BY <1>0, <1>t, <1>13, DoesOpenSecondary DEF QueuesTyped
    <2>10. QED
        BY <2>3, <2>4, <2>5, <2>6, <2>7, <2>8, <2>9
<1>14. ASSUME NEW c \in Command, OpenFails(c), UNCHANGED <<notifiers, telling, worked>> PROVE Good
    <2>1. Fault /\ UNCHANGED <<worked, version>>
        BY <1>14 DEF OpenFails, files, database, notifiers, Tell
    <2>2. TypeFiles'
        BY <1>0, <1>t, <1>14, DoesOpenFails DEF TypeFiles
    <2>3. TypeStored'
        BY <1>0, <1>t, <1>14, DoesOpenFails DEF TypeStored
    <2>4. TypeFlags'
        BY <1>0, <1>t, <1>14, DoesOpenFails DEF TypeFlags
    <2>5. TypeJob'
        BY <1>0, <1>t, <1>14, DoesOpenFails DEF TypeJob
    <2>6. TypeCounts'
        BY <1>0, <1>k, <2>1 DEF TypeCounts
    <2>7. TypeTelling'
        BY <1>0, <1>t, <1>14, DoesOpenFails DEF TypeTelling
    <2>8. QueuesTyped'
        BY <1>0, <1>t, <1>14, DoesOpenFails DEF QueuesTyped
    <2>9. QED
        BY <2>2, <2>3, <2>4, <2>5, <2>6, <2>7, <2>8
<1>15. ASSUME NEW c \in Command, TranslateLegacy(c), UNCHANGED <<notifiers, telling, worked>> PROVE Good
    <2>1. TypeFiles'
        BY <1>0, <1>t, <1>15, DoesTranslateLegacy DEF TypeFiles
    <2>2. TypeStored'
        BY <1>0, <1>t, <1>15, DoesTranslateLegacy DEF TypeStored
    <2>3. TypeFlags'
        BY <1>0, <1>t, <1>15, DoesTranslateLegacy DEF TypeFlags
    <2>4. TypeJob'
        BY <1>0, <1>t, <1>15, DoesTranslateLegacy DEF TypeJob
    <2>5. TypeCounts'
        BY <1>0, <1>15 DEF TranslateLegacy, TypeCounts, files, database, notifiers, Tell,
           N!Abandon, N!notifiers, N!ScriptEnds, ReleaseLock, Written
    <2>6. TypeTelling'
        BY <1>0, <1>t, <1>15, DoesTranslateLegacy DEF TypeTelling
    <2>7. QueuesTyped'
        BY <1>0, <1>t, <1>15, DoesTranslateLegacy DEF QueuesTyped
    <2>8. QED
        BY <2>1, <2>2, <2>3, <2>4, <2>5, <2>6, <2>7
<1>16. ASSUME NEW c \in Command, TranslatePrimary(c), UNCHANGED <<notifiers, telling, worked>> PROVE Good
    <2>1. job'[c].back \in Target /\ packages' = WithTable(packages, job'[c].back)
        BY <1>0, <1>t, <1>16, DoesTranslatePrimary DEF Working
    <2>2. packages' \in File
        BY <1>0, <2>1, WithTableIs DEF TypeFiles
    <2>3. TypeFiles'
        BY <1>0, <1>t, <1>16, <2>2, DoesTranslatePrimary DEF TypeFiles
    <2>4. TypeStored'
        BY <1>0, <1>t, <1>16, DoesTranslatePrimary DEF TypeStored
    <2>5. TypeFlags'
        BY <1>0, <1>t, <1>16, DoesTranslatePrimary DEF TypeFlags
    <2>6. TypeJob'
        BY <1>0, <1>t, <1>16, DoesTranslatePrimary DEF TypeJob
    <2>7. TypeCounts'
        BY <1>0, <1>16 DEF TranslatePrimary, TypeCounts, files, database, notifiers, Tell,
           N!Abandon, N!notifiers, N!ScriptEnds, ReleaseLock, Written
    <2>8. TypeTelling'
        BY <1>0, <1>t, <1>16, DoesTranslatePrimary DEF TypeTelling
    <2>9. QueuesTyped'
        BY <1>0, <1>t, <1>16, DoesTranslatePrimary DEF QueuesTyped
    <2>10. QED
        BY <2>3, <2>4, <2>5, <2>6, <2>7, <2>8, <2>9
<1>17. ASSUME NEW c \in Command, TranslateTable(c), UNCHANGED <<notifiers, telling, worked>> PROVE Good
    <2>1. job[c].at = "copy" /\ job[c] \in Working
        BY <1>t, <1>17, DoesTranslateTable
    <2>2. job[c].back \in Tables(packages) /\ legacy # None
        BY <1>t, <2>1 DEF Placed
    <2>3. packages \in File /\ legacy \in File /\ job[c].back \in Target
        BY <1>0, <2>2 DEF TypeFiles, Tables, File
    <2>4. WithTable(names, job[c].back) \in File
        BY <1>0, <2>3, WithTableIs DEF TypeFiles
    <2>5. PICK pr \in SUBSET Record : pr = Copied(job[c].back, packages)
        BY <2>3, CopiedIs
    <2>6. PICK nr \in SUBSET Record : nr = Copied(job[c].back, WithTable(names, job[c].back))
        BY <2>3, <2>4, CopiedIs
    <2>7. packages' = [packages EXCEPT !.records = pr]
          /\ names' = [WithTable(names, job[c].back) EXCEPT !.records = nr]
        BY <1>t, <2>5, <2>6, <1>17, DoesTranslateTable
    <2>8. packages' \in File /\ names' \in File
        BY <2>3, <2>4, <2>7, WithRecords
    <2>9. TypeFiles'
        BY <1>0, <1>t, <1>17, <2>8, DoesTranslateTable DEF TypeFiles
    <2>10. TypeStored'
        BY <1>0, <1>t, <1>17, DoesTranslateTable DEF TypeStored
    <2>11. TypeFlags'
        BY <1>0, <1>t, <1>17, DoesTranslateTable DEF TypeFlags
    <2>12. TypeJob'
        BY <1>0, <1>t, <1>17, DoesTranslateTable DEF TypeJob
    <2>13. TypeCounts'
        BY <1>0, <1>17 DEF TranslateTable, TypeCounts, files, database, notifiers, Tell,
           N!Abandon, N!notifiers, N!ScriptEnds, ReleaseLock, Written
    <2>14. TypeTelling'
        BY <1>0, <1>t, <1>17, DoesTranslateTable DEF TypeTelling
    <2>15. QueuesTyped'
        BY <1>0, <1>t, <1>17, DoesTranslateTable DEF QueuesTyped
    <2>16. QED
        BY <2>9, <2>10, <2>11, <2>12, <2>13, <2>14, <2>15
<1>18. ASSUME NEW c \in Command, TranslateFails(c), UNCHANGED <<notifiers, telling, worked>> PROVE Good
    <2>1. Fault /\ UNCHANGED <<worked, version>>
        BY <1>18 DEF TranslateFails, files, database, notifiers, Tell
    <2>6. TypeFiles' /\ TypeFlags'
        BY <1>0, <1>t, <1>18, FilesLeftTyped, DoesTranslateFails
    <2>7. TypeStored'
        BY <1>0, <1>t, <1>18, DoesTranslateFails DEF TypeStored
    <2>9. TypeJob'
        BY <1>0, <1>t, <1>18, DoesTranslateFails DEF TypeJob
    <2>10. TypeCounts'
        BY <1>0, <1>k, <2>1 DEF TypeCounts
    <2>11. TypeTelling'
        BY <1>0, <1>t, <1>18, DoesTranslateFails DEF TypeTelling
    <2>12. QueuesTyped'
        BY <1>0, <1>t, <1>18, DoesTranslateFails DEF QueuesTyped
    <2>13. QED
        BY <2>6, <2>7, <2>9, <2>10, <2>11, <2>12
<1>19. ASSUME NEW c \in Command, Translated(c), UNCHANGED <<notifiers, telling, worked>> PROVE Good
    <2>1. TypeFiles'
        BY <1>0, <1>t, <1>19, DoesTranslated DEF TypeFiles
    <2>2. TypeStored'
        BY <1>0, <1>t, <1>19, DoesTranslated DEF TypeStored
    <2>3. TypeFlags'
        BY <1>0, <1>t, <1>19, DoesTranslated DEF TypeFlags
    <2>4. TypeJob'
        BY <1>0, <1>t, <1>19, DoesTranslated DEF TypeJob
    <2>5. TypeCounts'
        BY <1>0, <1>19 DEF Translated, TypeCounts, files, database, notifiers, Tell,
           N!Abandon, N!notifiers, N!ScriptEnds, ReleaseLock, Written
    <2>6. TypeTelling'
        BY <1>0, <1>t, <1>19, DoesTranslated DEF TypeTelling
    <2>7. QueuesTyped'
        BY <1>0, <1>t, <1>19, DoesTranslated DEF QueuesTyped
    <2>8. QED
        BY <2>1, <2>2, <2>3, <2>4, <2>5, <2>6, <2>7
<1>20. ASSUME NEW c \in Command, NEW p \in Package, AddRecord(c, p), Tell(c, p, "add"), telling[c] = None PROVE Good
    <2>1. Work /\ UNCHANGED <<faults, version>>
        BY <1>20 DEF AddRecord, files, database, notifiers, Tell
    <2>2. job[c].at = "open" /\ ~job[c].ro
        BY <1>t, <1>20, DoesAddRecord
    <2>3. job[c].table \in Target /\ packages \in File /\ names \in File
        <3>1. job[c].table \in Target /\ job[c].table \in Tables(packages) /\ names # None
            BY <1>t, <2>2 DEF Returns, Placed
        <3>2. QED
            BY <1>0, <3>1 DEF TypeFiles, Tables
    <2>4. PICK r \in Record : r = [target |-> job[c].table, package |-> p, keyed |-> 1]
        <3>1. p \in Package /\ 1 \in 0..2
            BY <1>20
        <3>2. [target |-> job[c].table, package |-> p, keyed |-> 1] \in Record
            BY <2>3, <3>1 DEF Record
        <3>3. QED
            BY Zenon, <3>2
    <2>5. PICK pr \in SUBSET Record, nr \in SUBSET Record :
              pr = packages.records \cup {r} /\ nr = names.records \cup {r}
        BY <2>3, <2>4 DEF File
    <2>6. packages' = [packages EXCEPT !.records = pr] /\ names' = [names EXCEPT !.records = nr]
        BY <1>t, <2>4, <2>5, <1>20, DoesAddRecord
    <2>7. packages' \in File /\ names' \in File
        BY <2>3, <2>6, WithRecords
    <2>8. TypeFiles'
        BY <1>0, <1>t, <1>20, <2>7, DoesAddRecord DEF TypeFiles
    <2>9. TypeStored'
        BY <1>0, <1>t, <1>20, <2>3, DoesAddRecord DEF TypeStored
    <2>10. TypeFlags'
        BY <1>0, <1>t, <1>20, DoesAddRecord DEF TypeFlags
    <2>11. TypeJob'
        BY <1>0, <1>t, <1>20, DoesAddRecord DEF TypeJob
    <2>12. TypeCounts'
        BY <1>0, <1>k, <2>1 DEF TypeCounts
    <2>13. TypeTelling'
        BY <1>0, <1>t, <1>20, DoesAddRecord DEF TypeTelling
    <2>14. QueuesTyped'
        BY <1>0, <1>t, <1>20, DoesAddRecord DEF QueuesTyped
    <2>15. QED
        BY <2>8, <2>9, <2>10, <2>11, <2>12, <2>13, <2>14
<1>21. ASSUME NEW c \in Command, NEW p \in Package, RemoveRecord(c, p), Tell(c, p, "remove"), telling[c] = None PROVE Good
    <2>1. Work /\ UNCHANGED <<faults, version>>
        BY <1>21 DEF RemoveRecord, files, database, notifiers, Tell
    <2>2. job[c].at = "open" /\ ~job[c].ro
        BY <1>t, <1>21, DoesRemoveRecord
    <2>3. job[c].table \in Target /\ packages \in File /\ names \in File
        <3>1. job[c].table \in Target /\ job[c].table \in Tables(packages) /\ names # None
            BY <1>t, <2>2 DEF Returns, Placed
        <3>2. QED
            BY <1>0, <3>1 DEF TypeFiles, Tables
    <2>4. PICK r : r = {x \in names.records : x.target = job[c].table /\ x.package = p}
        OBVIOUS
    <2>5. PICK pr \in SUBSET Record, nr \in SUBSET Record :
              pr = packages.records \ r /\ nr = names.records \ r
        BY <2>3, <2>4 DEF File
    <2>6. packages' = [packages EXCEPT !.records = pr] /\ names' = [names EXCEPT !.records = nr]
        BY <1>t, <2>4, <2>5, <1>21, DoesRemoveRecord
    <2>7. packages' \in File /\ names' \in File
        BY <2>3, <2>6, WithRecords
    <2>8. TypeFiles'
        BY <1>0, <1>t, <1>21, <2>7, DoesRemoveRecord DEF TypeFiles
    <2>9. TypeStored'
        BY <1>0, <1>t, <1>21, <2>3, DoesRemoveRecord DEF TypeStored
    <2>10. TypeFlags'
        BY <1>0, <1>t, <1>21, DoesRemoveRecord DEF TypeFlags
    <2>11. TypeJob'
        BY <1>0, <1>t, <1>21, DoesRemoveRecord DEF TypeJob
    <2>12. TypeCounts'
        BY <1>0, <1>k, <2>1 DEF TypeCounts
    <2>13. TypeTelling'
        BY <1>0, <1>t, <1>21, DoesRemoveRecord DEF TypeTelling
    <2>14. QueuesTyped'
        BY <1>0, <1>t, <1>21, DoesRemoveRecord DEF QueuesTyped
    <2>15. QED
        BY <2>8, <2>9, <2>10, <2>11, <2>12, <2>13, <2>14
<1>22. ASSUME NEW c \in Command, CloseTable(c), telling[c] = None, UNCHANGED <<notifiers, telling, worked>> PROVE Good
    <2>1. TypeFiles'
        BY <1>0, <1>t, <1>22, DoesCloseTable DEF TypeFiles
    <2>2. TypeStored'
        BY <1>0, <1>t, <1>22, DoesCloseTable DEF TypeStored
    <2>3. TypeFlags'
        BY <1>0, <1>t, <1>22, DoesCloseTable DEF TypeFlags
    <2>4. TypeJob'
        BY <1>0, <1>t, <1>22, DoesCloseTable DEF TypeJob
    <2>5. TypeCounts'
        BY <1>0, <1>22 DEF CloseTable, TypeCounts, files, database, notifiers, Tell,
           N!Abandon, N!notifiers, N!ScriptEnds, ReleaseLock, Written
    <2>6. TypeTelling'
        BY <1>0, <1>t, <1>22, DoesCloseTable DEF TypeTelling
    <2>7. QueuesTyped'
        BY <1>0, <1>t, <1>22, DoesCloseTable DEF QueuesTyped
    <2>8. QED
        BY <2>1, <2>2, <2>3, <2>4, <2>5, <2>6, <2>7
<1>23. ASSUME NEW c \in Command, Close(c), N!Abandon(c), UNCHANGED <<telling, worked>> PROVE Good
    <2>1. TypeFiles'
        BY <1>0, <1>t, <1>i, <1>23, DoesClose DEF TypeFiles
    <2>2. TypeStored'
        BY <1>0, <1>t, <1>i, <1>23, DoesClose DEF TypeStored
    <2>3. TypeFlags'
        BY <1>0, <1>t, <1>i, <1>23, DoesClose DEF TypeFlags
    <2>4. TypeJob'
        BY <1>0, <1>t, <1>i, <1>23, DoesClose DEF TypeJob
    <2>5. TypeCounts'
        BY <1>0, <1>23 DEF Close, TypeCounts, files, database, notifiers, Tell, N!Abandon,
           N!notifiers, N!ScriptEnds, ReleaseLock, Written
    <2>6. TypeTelling'
        BY <1>0, <1>t, <1>i, <1>23, DoesClose DEF TypeTelling
    <2>7. QueuesTyped'
        BY <1>0, <1>t, <1>i, <1>23, DoesClose, DoesAbandon DEF QueuesTyped
    <2>8. QED
        BY <2>1, <2>2, <2>3, <2>4, <2>5, <2>6, <2>7
<1>24. ASSUME NEW c \in Command, CloseFails(c), N!Abandon(c), UNCHANGED <<telling, worked>> PROVE Good
    <2>1. Fault /\ UNCHANGED <<worked, version>>
        BY <1>24 DEF CloseFails, files, database, notifiers, Tell
    <2>2. TypeFiles'
        BY <1>0, <1>t, <1>i, <1>24, DoesCloseFails DEF TypeFiles
    <2>3. TypeStored'
        BY <1>0, <1>t, <1>i, <1>24, DoesCloseFails DEF TypeStored
    <2>4. TypeFlags'
        BY <1>0, <1>t, <1>i, <1>24, DoesCloseFails DEF TypeFlags
    <2>5. TypeJob'
        BY <1>0, <1>t, <1>i, <1>24, DoesCloseFails DEF TypeJob
    <2>6. TypeCounts'
        BY <1>0, <1>k, <2>1 DEF TypeCounts
    <2>7. TypeTelling'
        BY <1>0, <1>t, <1>i, <1>24, DoesCloseFails DEF TypeTelling
    <2>8. QueuesTyped'
        BY <1>0, <1>t, <1>i, <1>24, DoesCloseFails, DoesAbandon DEF QueuesTyped
    <2>9. QED
        BY <2>2, <2>3, <2>4, <2>5, <2>6, <2>7, <2>8
<1>25. ASSUME NEW c \in Command, Signal(c), UNCHANGED <<notifiers, telling, worked>> PROVE Good
    <2>1. TypeFiles'
        BY <1>0, <1>t, <1>25, DoesSignal DEF TypeFiles
    <2>2. TypeStored'
        BY <1>0, <1>t, <1>25, DoesSignal DEF TypeStored
    <2>3. TypeFlags'
        BY <1>0, <1>t, <1>25, DoesSignal DEF TypeFlags
    <2>4. TypeJob'
        BY <1>0, <1>t, <1>25, DoesSignal DEF TypeJob
    <2>5. TypeCounts'
        BY <1>0, <1>25 DEF Signal, TypeCounts, files, database, notifiers, Tell, N!Abandon,
           N!notifiers, N!ScriptEnds, ReleaseLock, Written
    <2>6. TypeTelling'
        BY <1>0, <1>t, <1>25, DoesSignal DEF TypeTelling
    <2>7. QueuesTyped'
        BY <1>0, <1>t, <1>25, DoesSignal DEF QueuesTyped
    <2>8. QED
        BY <2>1, <2>2, <2>3, <2>4, <2>5, <2>6, <2>7
<1>26. ASSUME NEW c \in Command, Kill(c), N!Abandon(c), telling' = [telling EXCEPT ![c] = None], UNCHANGED worked PROVE Good
    <2>1. Fault /\ UNCHANGED <<worked, version>>
        BY <1>26 DEF Kill, files, database, notifiers, Tell
    <2>2. TypeFiles' /\ TypeFlags'
        BY <1>0, <1>t, <1>i, <1>26, FilesLeftTyped, DoesKill
    <2>3. TypeStored'
        BY <1>0, <1>t, <1>i, <1>26, DoesKill DEF TypeStored
    <2>5. TypeJob'
        BY <1>0, <1>t, <1>i, <1>26, DoesKill DEF TypeJob
    <2>6. TypeCounts'
        BY <1>0, <1>k, <2>1 DEF TypeCounts
    <2>7. TypeTelling'
        BY <1>0, <1>t, <1>i, <1>26, DoesKill DEF TypeTelling
    <2>8. QueuesTyped'
        BY <1>0, <1>t, <1>i, <1>26, DoesKill, DoesAbandon DEF QueuesTyped
    <2>9. QED
        BY <2>2, <2>3, <2>5, <2>6, <2>7, <2>8
<1>27. ASSUME NEW c \in Command, StartAction(c) PROVE Good
    <2>1. TypeFiles'
        BY <1>0, <1>t, <1>27, DoesStartAction DEF TypeFiles
    <2>2. TypeStored'
        BY <1>0, <1>t, <1>27, DoesStartAction DEF TypeStored
    <2>3. TypeFlags'
        BY <1>0, <1>t, <1>27, DoesStartAction DEF TypeFlags
    <2>4. TypeJob'
        BY <1>0, <1>t, <1>27, DoesStartAction DEF TypeJob
    <2>5. TypeCounts'
        BY <1>0, <1>27 DEF StartAction, TypeCounts, files, database, notifiers, Tell,
           N!Abandon, N!notifiers, N!ScriptEnds, ReleaseLock, Written
    <2>6. TypeTelling'
        BY <1>0, <1>t, <1>27, DoesStartAction DEF TypeTelling
    <2>7. QueuesTyped'
        BY <1>0, <1>t, <1>27, DoesStartAction DEF QueuesTyped
    <2>8. QED
        BY <2>1, <2>2, <2>3, <2>4, <2>5, <2>6, <2>7
<1>28. ASSUME NEW c \in Command, StartFails(c) PROVE Good
    <2>1. Fault /\ UNCHANGED <<worked, version>>
        BY <1>28 DEF StartFails, files, database, notifiers, Tell
    <2>2. TypeFiles'
        BY <1>0, <1>t, <1>28, DoesStartFails DEF TypeFiles
    <2>3. TypeStored'
        BY <1>0, <1>t, <1>28, DoesStartFails DEF TypeStored
    <2>4. TypeFlags'
        BY <1>0, <1>t, <1>28, DoesStartFails DEF TypeFlags
    <2>5. TypeJob'
        BY <1>0, <1>t, <1>28, DoesStartFails DEF TypeJob
    <2>6. TypeCounts'
        BY <1>0, <1>k, <2>1 DEF TypeCounts
    <2>7. TypeTelling'
        BY <1>0, <1>t, <1>28, DoesStartFails DEF TypeTelling
    <2>8. QueuesTyped'
        BY <1>0, <1>t, <1>28, DoesStartFails DEF QueuesTyped
    <2>9. QED
        BY <2>2, <2>3, <2>4, <2>5, <2>6, <2>7, <2>8
<1>29. ASSUME NEW c \in Command, EndAction(c) PROVE Good
    <2>1. TypeFiles'
        BY <1>0, <1>t, <1>29, DoesEndAction DEF TypeFiles
    <2>2. TypeStored'
        BY <1>0, <1>t, <1>29, DoesEndAction DEF TypeStored
    <2>3. TypeFlags'
        BY <1>0, <1>t, <1>29, DoesEndAction DEF TypeFlags
    <2>4. TypeJob'
        BY <1>0, <1>t, <1>29, DoesEndAction DEF TypeJob
    <2>5. TypeCounts'
        BY <1>0, <1>29 DEF EndAction, TypeCounts, files, database, notifiers, Tell,
           N!Abandon, N!notifiers, N!ScriptEnds, ReleaseLock, Written
    <2>6. TypeTelling'
        BY <1>0, <1>t, <1>29, DoesEndAction DEF TypeTelling
    <2>7. QueuesTyped'
        BY <1>0, <1>t, <1>29, DoesEndAction DEF QueuesTyped
    <2>8. QED
        BY <2>1, <2>2, <2>3, <2>4, <2>5, <2>6, <2>7
<1>30. ASSUME NEW c \in Command, Waited(c) PROVE Good
    <2>1. TypeFiles'
        BY <1>0, <1>t, <1>30, DoesWaited DEF TypeFiles
    <2>2. TypeStored'
        BY <1>0, <1>t, <1>30, DoesWaited DEF TypeStored
    <2>3. TypeFlags'
        BY <1>0, <1>t, <1>30, DoesWaited DEF TypeFlags
    <2>4. TypeJob'
        BY <1>0, <1>t, <1>30, DoesWaited DEF TypeJob
    <2>5. TypeCounts'
        BY <1>0, <1>30 DEF Waited, TypeCounts, files, database, notifiers, Tell, N!Abandon,
           N!notifiers, N!ScriptEnds, ReleaseLock, Written
    <2>6. TypeTelling'
        BY <1>0, <1>t, <1>30, DoesWaited DEF TypeTelling
    <2>7. QueuesTyped'
        BY <1>0, <1>t, <1>30, DoesWaited DEF QueuesTyped
    <2>8. QED
        BY <2>1, <2>2, <2>3, <2>4, <2>5, <2>6, <2>7
<1>31. ASSUME NEW c \in Command, Tidy(c) PROVE Good
    <2>1. TypeFiles'
        BY <1>0, <1>t, <1>31, DoesTidy DEF TypeFiles
    <2>2. TypeStored'
        BY <1>0, <1>t, <1>31, DoesTidy DEF TypeStored
    <2>3. TypeFlags'
        BY <1>0, <1>t, <1>31, DoesTidy DEF TypeFlags
    <2>4. TypeJob'
        BY <1>0, <1>t, <1>31, DoesTidy DEF TypeJob
    <2>5. TypeCounts'
        BY <1>0, <1>31 DEF Tidy, TypeCounts, files, database, notifiers, Tell, N!Abandon,
           N!notifiers, N!ScriptEnds, ReleaseLock, Written
    <2>6. TypeTelling'
        BY <1>0, <1>t, <1>31, DoesTidy DEF TypeTelling
    <2>7. QueuesTyped'
        BY <1>0, <1>t, <1>31, DoesTidy DEF QueuesTyped
    <2>8. QED
        BY <2>1, <2>2, <2>3, <2>4, <2>5, <2>6, <2>7
<1>32. ASSUME NEW c \in Command, TellNext(c) PROVE Good
    <2>1. (Fault \/ UNCHANGED faults) /\ UNCHANGED <<worked, version>>
        BY <1>32 DEF TellNext, files, database, notifiers, Tell
    <2>2. TypeFiles'
        BY <1>0, <1>t, <1>i, <1>32, DoesTellNext DEF TypeFiles
    <2>3. TypeStored'
        BY <1>0, <1>t, <1>i, <1>32, DoesTellNext DEF TypeStored
    <2>4. TypeFlags'
        BY <1>0, <1>t, <1>i, <1>32, DoesTellNext DEF TypeFlags
    <2>5. TypeJob'
        BY <1>0, <1>t, <1>i, <1>32, DoesTellNext DEF TypeJob
    <2>6. TypeCounts'
        BY <1>0, <1>k, <2>1 DEF TypeCounts
    <2>7. TypeTelling'
        BY <1>0, <1>t, <1>i, <1>32, DoesTellNext DEF TypeTelling
    <2>8. QueuesTyped'
        BY <1>0, <1>i, <1>32, DoesTellNext DEF OnlyQueues
    <2>9. QED
        BY <2>2, <2>3, <2>4, <2>5, <2>6, <2>7, <2>8
<1>33. ASSUME NEW c \in Command, Turn(c) PROVE Good
    <2>1. (Fault \/ UNCHANGED faults) /\ UNCHANGED <<worked, version>>
        BY <1>33 DEF Turn, files, database, notifiers, Tell
    <2>2. TypeFiles'
        BY <1>0, <1>t, <1>i, <1>33, DoesTurn DEF TypeFiles
    <2>3. TypeStored'
        BY <1>0, <1>t, <1>i, <1>33, DoesTurn DEF TypeStored
    <2>4. TypeFlags'
        BY <1>0, <1>t, <1>i, <1>33, DoesTurn DEF TypeFlags
    <2>5. TypeJob'
        BY <1>0, <1>t, <1>i, <1>33, DoesTurn DEF TypeJob
    <2>6. TypeCounts'
        BY <1>0, <1>k, <2>1 DEF TypeCounts
    <2>7. TypeTelling'
        BY <1>0, <1>t, <1>i, <1>33, DoesTurn DEF TypeTelling
    <2>8. QueuesTyped'
        BY <1>0, <1>i, <1>33, DoesTurn DEF OnlyQueues
    <2>9. QED
        BY <2>2, <2>3, <2>4, <2>5, <2>6, <2>7, <2>8
<1>34. ASSUME NEW c \in Command, N!ScriptEnds(c), UNCHANGED <<database, telling, worked>> PROVE Good
    <2>1. TypeFiles'
        BY <1>0, <1>t, <1>i, <1>34, DoesScriptEnds DEF TypeFiles
    <2>2. TypeStored'
        BY <1>0, <1>t, <1>i, <1>34, DoesScriptEnds DEF TypeStored
    <2>3. TypeFlags'
        BY <1>0, <1>t, <1>i, <1>34, DoesScriptEnds DEF TypeFlags
    <2>4. TypeJob'
        BY <1>0, <1>t, <1>i, <1>34, DoesScriptEnds DEF TypeJob
    <2>5. TypeCounts'
        BY <1>0, <1>34 DEF N!ScriptEnds, TypeCounts, files, database, notifiers, Tell,
           N!Abandon, N!notifiers, ReleaseLock, Written
    <2>6. TypeTelling'
        BY <1>0, <1>t, <1>i, <1>34, DoesScriptEnds DEF TypeTelling
    <2>7. QueuesTyped'
        BY <1>0, <1>t, <1>i, <1>34, DoesScriptEnds DEF QueuesTyped
    <2>8. QED
        BY <2>1, <2>2, <2>3, <2>4, <2>5, <2>6, <2>7
<1>35. ASSUME DeleteLockfile, UNCHANGED <<notifiers, telling, worked>> PROVE Good
    <2>1. TypeFiles'
        BY <1>0, <1>35 DEF DeleteLockfile, TypeFiles, files, database, notifiers, Tell,
           N!Abandon, N!notifiers, N!ScriptEnds, ReleaseLock
    <2>2. TypeStored'
        BY <1>0, <1>35 DEF DeleteLockfile, TypeStored, files, database, notifiers, Tell,
           N!Abandon, N!notifiers, N!ScriptEnds, ReleaseLock
    <2>3. TypeFlags'
        BY <1>0, <1>35 DEF DeleteLockfile, TypeFlags, files, database, notifiers, Tell,
           N!Abandon, N!notifiers, N!ScriptEnds, ReleaseLock
    <2>4. TypeJob'
        BY <1>0, <1>35 DEF DeleteLockfile, TypeJob, files, database, notifiers, Tell,
           N!Abandon, N!notifiers, N!ScriptEnds, ReleaseLock
    <2>5. TypeCounts'
        BY <1>0, <1>35 DEF DeleteLockfile, TypeCounts, files, database, notifiers, Tell,
           N!Abandon, N!notifiers, N!ScriptEnds, ReleaseLock, Written
    <2>6. TypeTelling'
        BY <1>0, <1>t, <1>35 DEF TypeTelling
    <2>7. QueuesTyped'
        BY <1>0, <1>35 DEF DeleteLockfile, QueuesTyped, files, database, notifiers, Tell,
           N!Abandon, N!notifiers, N!ScriptEnds, ReleaseLock
    <2>8. QED
        BY <2>1, <2>2, <2>3, <2>4, <2>5, <2>6, <2>7
<1>36. QED
    <2> HIDE DEF Good
    <2>1. Good
        BY Zenon, TypeParts, <1>1, <1>2, <1>3, <1>4, <1>5, <1>6, <1>7, <1>8, <1>9, <1>10,
           <1>11, <1>12, <1>13, <1>14, <1>15, <1>16, <1>17, <1>18, <1>19, <1>20, <1>21,
           <1>22, <1>23, <1>24, <1>25, <1>26, <1>27, <1>28, <1>29, <1>30, <1>31, <1>32,
           <1>33, <1>34, <1>35 DEF Next, Step, DatabaseStep, CallStep, Change
    <2>2. QED
        BY <2>1 DEF Good

-----------------------------------------------------------------------------
(* Where the commands are.                                                 *)

ReturnsOf(c) ==
    /\ (job[c].at = "open" => job[c].back = "work" /\ job[c].table \in Target)
    /\ (job[c].at = "close table" => job[c].back \in Creating /\ ~job[c].ro)
    /\ (job[c].at \in {"translate", "copy"} => job[c].table \in Target)
    /\ (job[c].at \in {"primary", "secondary"} =>
            /\ job[c].table \in Target
            /\ job[c].back \in Creating \cup {"work"}
            /\ (job[c].back \in Creating => ~job[c].ro))

QuietOf(c) ==
    /\ (Early(c) => processes[c] = <<>>)
    /\ (job[c].at \in {"close", "ended"} /\ ~job[c].interrupted => processes[c] = <<>>)
    /\ (telling[c] # None => job[c].at = "open")

(* Nothing but what belongs to c changes.                                  *)
OnlyOf(c) ==
    \A d \in Command : d # c =>
        job'[d] = job[d] /\ processes'[d] = processes[d] /\ telling'[d] = telling[d]

LEMMA LockStays ==
    ASSUME LockHeld, NEW c \in Command, OnlyOf(c),
           \/ Inside(c) /\ Inside(c)' /\ lockfile' = lockfile
           \/ ~lockfile /\ lockfile'
           \/ ~Inside(c)' /\ (Inside(c) \/ lockfile' = lockfile)
    PROVE  LockHeld'
<1>1. \A d \in Command : d # c => (Inside(d)' <=> Inside(d))
    BY DEF OnlyOf, Inside, Over
<1>2. \A d \in Command : Inside(d) => lockfile /\ \A e \in Command : Inside(e) => d = e
    BY DEF LockHeld
<1> HIDE DEF Inside
<1>3. \A d \in Command : Inside(d)' => lockfile' /\ \A e \in Command : Inside(e)' => d = e
    <2>1. CASE Inside(c) /\ Inside(c)' /\ lockfile' = lockfile
        BY <1>1, <1>2, <2>1
    <2>2. CASE ~lockfile /\ lockfile'
        BY <1>1, <1>2, <2>2
    <2>3. CASE ~Inside(c)' /\ (Inside(c) \/ lockfile' = lockfile)
        BY <1>1, <1>2, <2>3
    <2>4. QED
        BY <2>1, <2>2, <2>3
<1>4. QED
    BY <1>3 DEF LockHeld

LEMMA ReturnsStay ==
    ASSUME Returns, NEW c \in Command, OnlyOf(c), ReturnsOf(c)'
    PROVE  Returns'
<1>1. \A d \in Command : ReturnsOf(d)
    BY DEF Returns, ReturnsOf
<1>2. \A d \in Command : d # c => (ReturnsOf(d)' <=> ReturnsOf(d))
    BY DEF OnlyOf, ReturnsOf
<1>3. \A d \in Command : ReturnsOf(d)'
    BY <1>1, <1>2
<1>4. QED
    BY <1>3 DEF Returns, ReturnsOf

LEMMA QuietStays ==
    ASSUME Quiet, NEW c \in Command, OnlyOf(c), QuietOf(c)'
    PROVE  Quiet'
<1>1. \A d \in Command : QuietOf(d)
    BY DEF Quiet, QuietOf
<1>2. \A d \in Command : d # c => (QuietOf(d)' <=> QuietOf(d))
    BY DEF OnlyOf, QuietOf, Early
<1>3. \A d \in Command : QuietOf(d)'
    BY <1>1, <1>2
<1>4. QED
    BY <1>3 DEF Quiet, QuietOf

LEMMA KeptEmpty == Kept(<<>>) = <<>>
<1>1. {i \in DOMAIN <<>> : N!IsRunning(<<>>[i])} = {}
    OBVIOUS
<1>2. N!Cardinality({}) = 0
    BY SameCardinality, FS_EmptySet
<1>3. N!EntriesAt(<<>>, {}) = [k \in 1..0 |->
          <<>>[CHOOSE i \in {} : N!Cardinality({j \in {} : j <= i}) = k]]
    BY <1>2 DEF N!EntriesAt
<1>4. QED
    BY <1>1, <1>3 DEF Kept

LEMMA ControlKept ==
    ASSUME IInv, Next
    PROVE  LockHeld' /\ Returns' /\ Quiet'
<1> DEFINE Good == LockHeld' /\ Returns' /\ Quiet'
<1>t. TypeOK /\ Returns
    BY DEF IInv
<1>i. IInv
    OBVIOUS
<1>l. LockHeld /\ Quiet
    BY DEF IInv
<1>1. ASSUME NEW c \in Command, Begin(c), UNCHANGED <<notifiers, telling, worked>> PROVE Good
    <2>1. OnlyOf(c)
        <3>1. \A d \in Command : d # c => job'[d] = job[d]
            BY <1>t, <1>1, DoesBegin DEF OnlyQueues
        <3>2. \A d \in Command : d # c => processes'[d] = processes[d]
            BY <1>t, <1>1, DoesBegin DEF OnlyQueues
        <3>3. \A d \in Command : d # c => telling'[d] = telling[d]
            BY <1>t, <1>1, DoesBegin DEF OnlyQueues
        <3>4. QED
            BY <3>1, <3>2, <3>3 DEF OnlyOf
    <2>2. ReturnsOf(c)
        BY <1>t DEF Returns, ReturnsOf
    <2>3. QuietOf(c)
        BY <1>l DEF Quiet, QuietOf
    <2>4. ~Inside(c)' /\ (Inside(c) \/ lockfile' = lockfile)
        BY <1>t, <1>1, DoesBegin DEF Inside, Over, Creating
    <2>5. ReturnsOf(c)'
        BY <1>t, <1>1, <2>2, DoesBegin DEF ReturnsOf, Creating
    <2>6. QuietOf(c)'
        BY <1>t, <1>1, <2>3, <2>2, DoesBegin DEF QuietOf, Early, Creating, ReturnsOf
    <2>7. LockHeld'
        BY <1>l, <2>1, <2>4, LockStays
    <2>8. Returns'
        BY <1>t, <2>1, <2>5, ReturnsStay
    <2>9. Quiet'
        BY <1>l, <2>1, <2>6, QuietStays
    <2>10. QED
        BY <2>7, <2>8, <2>9
<1>2. ASSUME NEW c \in Command, Acquire(c), UNCHANGED <<notifiers, telling, worked>> PROVE Good
    <2>1. OnlyOf(c)
        <3>1. \A d \in Command : d # c => job'[d] = job[d]
            BY <1>t, <1>2, DoesAcquire DEF OnlyQueues
        <3>2. \A d \in Command : d # c => processes'[d] = processes[d]
            BY <1>t, <1>2, DoesAcquire DEF OnlyQueues
        <3>3. \A d \in Command : d # c => telling'[d] = telling[d]
            BY <1>t, <1>2, DoesAcquire DEF OnlyQueues
        <3>4. QED
            BY <3>1, <3>2, <3>3 DEF OnlyOf
    <2>2. ReturnsOf(c)
        BY <1>t DEF Returns, ReturnsOf
    <2>3. QuietOf(c)
        BY <1>l DEF Quiet, QuietOf
    <2>4. ~lockfile /\ lockfile'
        BY <1>t, <1>2, DoesAcquire DEF Inside, Over, Creating
    <2>5. ReturnsOf(c)'
        BY <1>t, <1>2, <2>2, DoesAcquire DEF ReturnsOf, Creating
    <2>6. QuietOf(c)'
        BY <1>t, <1>2, <2>3, <2>2, DoesAcquire DEF QuietOf, Early, Creating, ReturnsOf
    <2>7. LockHeld'
        BY <1>l, <2>1, <2>4, LockStays
    <2>8. Returns'
        BY <1>t, <2>1, <2>5, ReturnsStay
    <2>9. Quiet'
        BY <1>l, <2>1, <2>6, QuietStays
    <2>10. QED
        BY <2>7, <2>8, <2>9
<1>3. ASSUME NEW c \in Command, TryAgain(c), UNCHANGED <<notifiers, telling, worked>> PROVE Good
    <2>1. OnlyOf(c)
        <3>1. \A d \in Command : d # c => job'[d] = job[d]
            BY <1>t, <1>3, DoesTryAgain DEF OnlyQueues
        <3>2. \A d \in Command : d # c => processes'[d] = processes[d]
            BY <1>t, <1>3, DoesTryAgain DEF OnlyQueues
        <3>3. \A d \in Command : d # c => telling'[d] = telling[d]
            BY <1>t, <1>3, DoesTryAgain DEF OnlyQueues
        <3>4. QED
            BY <3>1, <3>2, <3>3 DEF OnlyOf
    <2>2. ReturnsOf(c)
        BY <1>t DEF Returns, ReturnsOf
    <2>3. QuietOf(c)
        BY <1>l DEF Quiet, QuietOf
    <2>4. ~Inside(c)' /\ (Inside(c) \/ lockfile' = lockfile)
        BY <1>t, <1>3, DoesTryAgain DEF Inside, Over, Creating
    <2>5. ReturnsOf(c)'
        BY <1>t, <1>3, <2>2, DoesTryAgain DEF ReturnsOf, Creating
    <2>6. QuietOf(c)'
        BY <1>t, <1>3, <2>3, <2>2, DoesTryAgain DEF QuietOf, Early, Creating, ReturnsOf
    <2>7. LockHeld'
        BY <1>l, <2>1, <2>4, LockStays
    <2>8. Returns'
        BY <1>t, <2>1, <2>5, ReturnsStay
    <2>9. Quiet'
        BY <1>l, <2>1, <2>6, QuietStays
    <2>10. QED
        BY <2>7, <2>8, <2>9
<1>4. ASSUME NEW c \in Command, GiveUp(c), UNCHANGED <<notifiers, telling, worked>> PROVE Good
    <2>1. OnlyOf(c)
        <3>1. \A d \in Command : d # c => job'[d] = job[d]
            BY <1>t, <1>4, DoesGiveUp DEF OnlyQueues
        <3>2. \A d \in Command : d # c => processes'[d] = processes[d]
            BY <1>t, <1>4, DoesGiveUp DEF OnlyQueues
        <3>3. \A d \in Command : d # c => telling'[d] = telling[d]
            BY <1>t, <1>4, DoesGiveUp DEF OnlyQueues
        <3>4. QED
            BY <3>1, <3>2, <3>3 DEF OnlyOf
    <2>2. ReturnsOf(c)
        BY <1>t DEF Returns, ReturnsOf
    <2>3. QuietOf(c)
        BY <1>l DEF Quiet, QuietOf
    <2>4. ~Inside(c)' /\ (Inside(c) \/ lockfile' = lockfile)
        BY <1>t, <1>4, DoesGiveUp DEF Inside, Over, Creating
    <2>5. ReturnsOf(c)'
        BY <1>t, <1>4, <2>2, DoesGiveUp DEF ReturnsOf, Creating
    <2>6. QuietOf(c)'
        BY <1>t, <1>4, <2>3, <2>2, DoesGiveUp DEF QuietOf, Early, Creating, ReturnsOf
    <2>7. LockHeld'
        BY <1>l, <2>1, <2>4, LockStays
    <2>8. Returns'
        BY <1>t, <2>1, <2>5, ReturnsStay
    <2>9. Quiet'
        BY <1>l, <2>1, <2>6, QuietStays
    <2>10. QED
        BY <2>7, <2>8, <2>9
<1>5. ASSUME NEW c \in Command, EnvironmentFails(c), UNCHANGED <<notifiers, telling, worked>> PROVE Good
    <2>1. OnlyOf(c)
        <3>1. \A d \in Command : d # c => job'[d] = job[d]
            BY <1>t, <1>5, DoesEnvironmentFails DEF OnlyQueues
        <3>2. \A d \in Command : d # c => processes'[d] = processes[d]
            BY <1>t, <1>5, DoesEnvironmentFails DEF OnlyQueues
        <3>3. \A d \in Command : d # c => telling'[d] = telling[d]
            BY <1>t, <1>5, DoesEnvironmentFails DEF OnlyQueues
        <3>4. QED
            BY <3>1, <3>2, <3>3 DEF OnlyOf
    <2>2. ReturnsOf(c)
        BY <1>t DEF Returns, ReturnsOf
    <2>3. QuietOf(c)
        BY <1>l DEF Quiet, QuietOf
    <2>4. ~Inside(c)' /\ (Inside(c) \/ lockfile' = lockfile)
        BY <1>t, <1>5, DoesEnvironmentFails DEF Inside, Over, Creating
    <2>5. ReturnsOf(c)'
        BY <1>t, <1>5, <2>2, DoesEnvironmentFails DEF ReturnsOf, Creating
    <2>6. QuietOf(c)'
        BY <1>t, <1>5, <2>3, <2>2, DoesEnvironmentFails DEF QuietOf, Early, Creating,
           ReturnsOf
    <2>7. LockHeld'
        BY <1>l, <2>1, <2>4, LockStays
    <2>8. Returns'
        BY <1>t, <2>1, <2>5, ReturnsStay
    <2>9. Quiet'
        BY <1>l, <2>1, <2>6, QuietStays
    <2>10. QED
        BY <2>7, <2>8, <2>9
<1>6. ASSUME NEW c \in Command, VersionUnreadable(c), UNCHANGED <<notifiers, telling, worked>> PROVE Good
    <2>1. OnlyOf(c)
        <3>1. \A d \in Command : d # c => job'[d] = job[d]
            BY <1>t, <1>6, DoesVersionUnreadable DEF OnlyQueues
        <3>2. \A d \in Command : d # c => processes'[d] = processes[d]
            BY <1>t, <1>6, DoesVersionUnreadable DEF OnlyQueues
        <3>3. \A d \in Command : d # c => telling'[d] = telling[d]
            BY <1>t, <1>6, DoesVersionUnreadable DEF OnlyQueues
        <3>4. QED
            BY <3>1, <3>2, <3>3 DEF OnlyOf
    <2>2. ReturnsOf(c)
        BY <1>t DEF Returns, ReturnsOf
    <2>3. QuietOf(c)
        BY <1>l DEF Quiet, QuietOf
    <2>4. ~Inside(c)' /\ (Inside(c) \/ lockfile' = lockfile)
        BY <1>t, <1>6, DoesVersionUnreadable DEF Inside, Over, Creating
    <2>5. ReturnsOf(c)'
        BY <1>t, <1>6, <2>2, DoesVersionUnreadable DEF ReturnsOf, Creating
    <2>6. QuietOf(c)'
        BY <1>t, <1>6, <2>3, <2>2, DoesVersionUnreadable DEF QuietOf, Early, Creating,
           ReturnsOf
    <2>7. LockHeld'
        BY <1>l, <2>1, <2>4, LockStays
    <2>8. Returns'
        BY <1>t, <2>1, <2>5, ReturnsStay
    <2>9. Quiet'
        BY <1>l, <2>1, <2>6, QuietStays
    <2>10. QED
        BY <2>7, <2>8, <2>9
<1>7. ASSUME NEW c \in Command, Create(c), UNCHANGED <<notifiers, telling, worked>> PROVE Good
    <2>1. OnlyOf(c)
        <3>1. \A d \in Command : d # c => job'[d] = job[d]
            BY <1>t, <1>7, DoesCreate DEF OnlyQueues
        <3>2. \A d \in Command : d # c => processes'[d] = processes[d]
            BY <1>t, <1>7, DoesCreate DEF OnlyQueues
        <3>3. \A d \in Command : d # c => telling'[d] = telling[d]
            BY <1>t, <1>7, DoesCreate DEF OnlyQueues
        <3>4. QED
            BY <3>1, <3>2, <3>3 DEF OnlyOf
    <2>2. ReturnsOf(c)
        BY <1>t DEF Returns, ReturnsOf
    <2>3. QuietOf(c)
        BY <1>l DEF Quiet, QuietOf
    <2>4. Inside(c) /\ Inside(c)' /\ lockfile' = lockfile
        BY <1>t, <1>7, DoesCreate DEF Inside, Over, Creating
    <2>5. ReturnsOf(c)'
        BY <1>t, <1>7, <2>2, DoesCreate DEF ReturnsOf, Creating
    <2>6. QuietOf(c)'
        BY <1>t, <1>7, <2>3, <2>2, DoesCreate DEF QuietOf, Early, Creating, ReturnsOf
    <2>7. LockHeld'
        BY <1>l, <2>1, <2>4, LockStays
    <2>8. Returns'
        BY <1>t, <2>1, <2>5, ReturnsStay
    <2>9. Quiet'
        BY <1>l, <2>1, <2>6, QuietStays
    <2>10. QED
        BY <2>7, <2>8, <2>9
<1>8. ASSUME NEW c \in Command, CreateTable(c), UNCHANGED <<notifiers, telling, worked>> PROVE Good
    <2>1. OnlyOf(c)
        <3>1. \A d \in Command : d # c => job'[d] = job[d]
            BY <1>t, <1>8, DoesCreateTable DEF OnlyQueues
        <3>2. \A d \in Command : d # c => processes'[d] = processes[d]
            BY <1>t, <1>8, DoesCreateTable DEF OnlyQueues
        <3>3. \A d \in Command : d # c => telling'[d] = telling[d]
            BY <1>t, <1>8, DoesCreateTable DEF OnlyQueues
        <3>4. QED
            BY <3>1, <3>2, <3>3 DEF OnlyOf
    <2>2. ReturnsOf(c)
        BY <1>t DEF Returns, ReturnsOf
    <2>3. QuietOf(c)
        BY <1>l DEF Quiet, QuietOf
    <2>4. Inside(c) /\ Inside(c)' /\ lockfile' = lockfile
        BY <1>t, <1>8, DoesCreateTable DEF Inside, Over, Creating
    <2>5. ReturnsOf(c)'
        BY <1>t, <1>8, <2>2, DoesCreateTable DEF ReturnsOf, Creating
    <2>6. QuietOf(c)'
        BY <1>t, <1>8, <2>3, <2>2, DoesCreateTable DEF QuietOf, Early, Creating, ReturnsOf
    <2>7. LockHeld'
        BY <1>l, <2>1, <2>4, LockStays
    <2>8. Returns'
        BY <1>t, <2>1, <2>5, ReturnsStay
    <2>9. Quiet'
        BY <1>l, <2>1, <2>6, QuietStays
    <2>10. QED
        BY <2>7, <2>8, <2>9
<1>9. ASSUME NEW c \in Command, CreatedNew(c), UNCHANGED <<notifiers, telling, worked>> PROVE Good
    <2>1. OnlyOf(c)
        <3>1. \A d \in Command : d # c => job'[d] = job[d]
            BY <1>t, <1>9, DoesCreatedNew DEF OnlyQueues
        <3>2. \A d \in Command : d # c => processes'[d] = processes[d]
            BY <1>t, <1>9, DoesCreatedNew DEF OnlyQueues
        <3>3. \A d \in Command : d # c => telling'[d] = telling[d]
            BY <1>t, <1>9, DoesCreatedNew DEF OnlyQueues
        <3>4. QED
            BY <3>1, <3>2, <3>3 DEF OnlyOf
    <2>2. ReturnsOf(c)
        BY <1>t DEF Returns, ReturnsOf
    <2>3. QuietOf(c)
        BY <1>l DEF Quiet, QuietOf
    <2>4. Inside(c) /\ Inside(c)' /\ lockfile' = lockfile
        BY <1>t, <1>9, DoesCreatedNew DEF Inside, Over, Creating
    <2>5. ReturnsOf(c)'
        BY <1>t, <1>9, <2>2, DoesCreatedNew DEF ReturnsOf, Creating
    <2>6. QuietOf(c)'
        BY <1>t, <1>9, <2>3, <2>2, DoesCreatedNew DEF QuietOf, Early, Creating, ReturnsOf
    <2>7. LockHeld'
        BY <1>l, <2>1, <2>4, LockStays
    <2>8. Returns'
        BY <1>t, <2>1, <2>5, ReturnsStay
    <2>9. Quiet'
        BY <1>l, <2>1, <2>6, QuietStays
    <2>10. QED
        BY <2>7, <2>8, <2>9
<1>10. ASSUME NEW c \in Command, Created(c), UNCHANGED <<notifiers, telling, worked>> PROVE Good
    <2>1. OnlyOf(c)
        <3>1. \A d \in Command : d # c => job'[d] = job[d]
            BY <1>t, <1>10, DoesCreated DEF OnlyQueues
        <3>2. \A d \in Command : d # c => processes'[d] = processes[d]
            BY <1>t, <1>10, DoesCreated DEF OnlyQueues
        <3>3. \A d \in Command : d # c => telling'[d] = telling[d]
            BY <1>t, <1>10, DoesCreated DEF OnlyQueues
        <3>4. QED
            BY <3>1, <3>2, <3>3 DEF OnlyOf
    <2>2. ReturnsOf(c)
        BY <1>t DEF Returns, ReturnsOf
    <2>3. QuietOf(c)
        BY <1>l DEF Quiet, QuietOf
    <2>4. Inside(c) /\ Inside(c)' /\ lockfile' = lockfile
        BY <1>t, <1>10, DoesCreated DEF Inside, Over, Creating
    <2>5. ReturnsOf(c)'
        BY <1>t, <1>10, <2>2, DoesCreated DEF ReturnsOf, Creating
    <2>6. QuietOf(c)'
        BY <1>t, <1>10, <2>3, <2>2, DoesCreated DEF QuietOf, Early, Creating, ReturnsOf
    <2>7. LockHeld'
        BY <1>l, <2>1, <2>4, LockStays
    <2>8. Returns'
        BY <1>t, <2>1, <2>5, ReturnsStay
    <2>9. Quiet'
        BY <1>l, <2>1, <2>6, QuietStays
    <2>10. QED
        BY <2>7, <2>8, <2>9
<1>11. ASSUME NEW c \in Command, NEW t \in Target, NEW ro \in BOOLEAN, OpenPackages(c, t, ro), Work, UNCHANGED <<notifiers, telling>> PROVE Good
    <2>1. OnlyOf(c)
        <3>1. \A d \in Command : d # c => job'[d] = job[d]
            BY <1>t, <1>11, DoesOpenPackages DEF OnlyQueues
        <3>2. \A d \in Command : d # c => processes'[d] = processes[d]
            BY <1>t, <1>11, DoesOpenPackages DEF OnlyQueues
        <3>3. \A d \in Command : d # c => telling'[d] = telling[d]
            BY <1>t, <1>11, DoesOpenPackages DEF OnlyQueues
        <3>4. QED
            BY <3>1, <3>2, <3>3 DEF OnlyOf
    <2>2. ReturnsOf(c)
        BY <1>t DEF Returns, ReturnsOf
    <2>3. QuietOf(c)
        BY <1>l DEF Quiet, QuietOf
    <2>4. Inside(c) /\ Inside(c)' /\ lockfile' = lockfile
        BY <1>t, <1>11, DoesOpenPackages DEF Inside, Over, Creating
    <2>5. ReturnsOf(c)'
        BY ZenonT(40), <1>t, <1>11, <2>2, DoesOpenPackages DEF ReturnsOf, Creating
    <2>6. QuietOf(c)'
        BY ZenonT(40), <1>t, <1>11, <2>3, <2>2, DoesOpenPackages DEF QuietOf, Early, Creating, ReturnsOf
    <2>7. LockHeld'
        BY <1>l, <2>1, <2>4, LockStays
    <2>8. Returns'
        BY <1>t, <2>1, <2>5, ReturnsStay
    <2>9. Quiet'
        BY <1>l, <2>1, <2>6, QuietStays
    <2>10. QED
        BY <2>7, <2>8, <2>9
<1>12. ASSUME NEW c \in Command, OpenPrimary(c), UNCHANGED <<notifiers, telling, worked>> PROVE Good
    <2>1. OnlyOf(c)
        <3>1. \A d \in Command : d # c => job'[d] = job[d]
            BY <1>t, <1>12, DoesOpenPrimary DEF OnlyQueues
        <3>2. \A d \in Command : d # c => processes'[d] = processes[d]
            BY <1>t, <1>12, DoesOpenPrimary DEF OnlyQueues
        <3>3. \A d \in Command : d # c => telling'[d] = telling[d]
            BY <1>t, <1>12, DoesOpenPrimary DEF OnlyQueues
        <3>4. QED
            BY <3>1, <3>2, <3>3 DEF OnlyOf
    <2>2. ReturnsOf(c)
        BY <1>t DEF Returns, ReturnsOf
    <2>3. QuietOf(c)
        BY <1>l DEF Quiet, QuietOf
    <2>4. Inside(c) /\ Inside(c)' /\ lockfile' = lockfile
        BY <1>t, <1>12, DoesOpenPrimary DEF Inside, Over, Creating
    <2>5. ReturnsOf(c)'
        BY <1>t, <1>12, <2>2, DoesOpenPrimary DEF ReturnsOf, Creating
    <2>6. QuietOf(c)'
        BY <1>t, <1>12, <2>3, <2>2, DoesOpenPrimary DEF QuietOf, Early, Creating, ReturnsOf
    <2>7. LockHeld'
        BY <1>l, <2>1, <2>4, LockStays
    <2>8. Returns'
        BY <1>t, <2>1, <2>5, ReturnsStay
    <2>9. Quiet'
        BY <1>l, <2>1, <2>6, QuietStays
    <2>10. QED
        BY <2>7, <2>8, <2>9
<1>13. ASSUME NEW c \in Command, OpenSecondary(c), UNCHANGED <<notifiers, telling, worked>> PROVE Good
    <2>1. OnlyOf(c)
        <3>1. \A d \in Command : d # c => job'[d] = job[d]
            BY <1>t, <1>13, DoesOpenSecondary DEF OnlyQueues
        <3>2. \A d \in Command : d # c => processes'[d] = processes[d]
            BY <1>t, <1>13, DoesOpenSecondary DEF OnlyQueues
        <3>3. \A d \in Command : d # c => telling'[d] = telling[d]
            BY <1>t, <1>13, DoesOpenSecondary DEF OnlyQueues
        <3>4. QED
            BY <3>1, <3>2, <3>3 DEF OnlyOf
    <2>2. ReturnsOf(c)
        BY <1>t DEF Returns, ReturnsOf
    <2>3. QuietOf(c)
        BY <1>l DEF Quiet, QuietOf
    <2>4. Inside(c) /\ Inside(c)' /\ lockfile' = lockfile
        BY <1>t, <1>13, DoesOpenSecondary DEF Inside, Over, Creating
    <2>5. ReturnsOf(c)'
        BY <1>t, <1>13, <2>2, DoesOpenSecondary DEF ReturnsOf, Creating
    <2>6. QuietOf(c)'
        BY <1>t, <1>13, <2>3, <2>2, DoesOpenSecondary DEF QuietOf, Early, Creating,
           ReturnsOf
    <2>7. LockHeld'
        BY <1>l, <2>1, <2>4, LockStays
    <2>8. Returns'
        BY <1>t, <2>1, <2>5, ReturnsStay
    <2>9. Quiet'
        BY <1>l, <2>1, <2>6, QuietStays
    <2>10. QED
        BY <2>7, <2>8, <2>9
<1>14. ASSUME NEW c \in Command, OpenFails(c), UNCHANGED <<notifiers, telling, worked>> PROVE Good
    <2>1. OnlyOf(c)
        <3>1. \A d \in Command : d # c => job'[d] = job[d]
            BY <1>t, <1>14, DoesOpenFails DEF OnlyQueues
        <3>2. \A d \in Command : d # c => processes'[d] = processes[d]
            BY <1>t, <1>14, DoesOpenFails DEF OnlyQueues
        <3>3. \A d \in Command : d # c => telling'[d] = telling[d]
            BY <1>t, <1>14, DoesOpenFails DEF OnlyQueues
        <3>4. QED
            BY <3>1, <3>2, <3>3 DEF OnlyOf
    <2>2. ReturnsOf(c)
        BY <1>t DEF Returns, ReturnsOf
    <2>3. QuietOf(c)
        BY <1>l DEF Quiet, QuietOf
    <2>4. Inside(c) /\ Inside(c)' /\ lockfile' = lockfile
        BY <1>t, <1>14, <2>2, DoesOpenFails DEF Inside, Over, Creating, ReturnsOf
    <2>5. ReturnsOf(c)'
        BY <1>t, <1>14, <2>2, DoesOpenFails DEF ReturnsOf, Creating
    <2>6. QuietOf(c)'
        BY <1>t, <1>14, <2>3, <2>2, DoesOpenFails DEF QuietOf, Early, Creating, ReturnsOf
    <2>7. LockHeld'
        BY <1>l, <2>1, <2>4, LockStays
    <2>8. Returns'
        BY <1>t, <2>1, <2>5, ReturnsStay
    <2>9. Quiet'
        BY <1>l, <2>1, <2>6, QuietStays
    <2>10. QED
        BY <2>7, <2>8, <2>9
<1>15. ASSUME NEW c \in Command, TranslateLegacy(c), UNCHANGED <<notifiers, telling, worked>> PROVE Good
    <2>1. OnlyOf(c)
        <3>1. \A d \in Command : d # c => job'[d] = job[d]
            BY <1>t, <1>15, DoesTranslateLegacy DEF OnlyQueues
        <3>2. \A d \in Command : d # c => processes'[d] = processes[d]
            BY <1>t, <1>15, DoesTranslateLegacy DEF OnlyQueues
        <3>3. \A d \in Command : d # c => telling'[d] = telling[d]
            BY <1>t, <1>15, DoesTranslateLegacy DEF OnlyQueues
        <3>4. QED
            BY <3>1, <3>2, <3>3 DEF OnlyOf
    <2>2. ReturnsOf(c)
        BY <1>t DEF Returns, ReturnsOf
    <2>3. QuietOf(c)
        BY <1>l DEF Quiet, QuietOf
    <2>4. Inside(c) /\ Inside(c)' /\ lockfile' = lockfile
        BY <1>t, <1>15, DoesTranslateLegacy DEF Inside, Over, Creating
    <2>5. ReturnsOf(c)'
        BY <1>t, <1>15, <2>2, DoesTranslateLegacy DEF ReturnsOf, Creating
    <2>6. QuietOf(c)'
        BY <1>t, <1>15, <2>3, <2>2, DoesTranslateLegacy DEF QuietOf, Early, Creating,
           ReturnsOf
    <2>7. LockHeld'
        BY <1>l, <2>1, <2>4, LockStays
    <2>8. Returns'
        BY <1>t, <2>1, <2>5, ReturnsStay
    <2>9. Quiet'
        BY <1>l, <2>1, <2>6, QuietStays
    <2>10. QED
        BY <2>7, <2>8, <2>9
<1>16. ASSUME NEW c \in Command, TranslatePrimary(c), UNCHANGED <<notifiers, telling, worked>> PROVE Good
    <2>1. OnlyOf(c)
        <3>1. \A d \in Command : d # c => job'[d] = job[d]
            BY <1>t, <1>16, DoesTranslatePrimary DEF OnlyQueues
        <3>2. \A d \in Command : d # c => processes'[d] = processes[d]
            BY <1>t, <1>16, DoesTranslatePrimary DEF OnlyQueues
        <3>3. \A d \in Command : d # c => telling'[d] = telling[d]
            BY <1>t, <1>16, DoesTranslatePrimary DEF OnlyQueues
        <3>4. QED
            BY <3>1, <3>2, <3>3 DEF OnlyOf
    <2>2. ReturnsOf(c)
        BY <1>t DEF Returns, ReturnsOf
    <2>3. QuietOf(c)
        BY <1>l DEF Quiet, QuietOf
    <2>4. Inside(c) /\ Inside(c)' /\ lockfile' = lockfile
        BY <1>t, <1>16, DoesTranslatePrimary DEF Inside, Over, Creating
    <2>5. ReturnsOf(c)'
        BY <1>t, <1>16, <2>2, DoesTranslatePrimary DEF ReturnsOf, Creating
    <2>6. QuietOf(c)'
        BY <1>t, <1>16, <2>3, <2>2, DoesTranslatePrimary DEF QuietOf, Early, Creating,
           ReturnsOf
    <2>7. LockHeld'
        BY <1>l, <2>1, <2>4, LockStays
    <2>8. Returns'
        BY <1>t, <2>1, <2>5, ReturnsStay
    <2>9. Quiet'
        BY <1>l, <2>1, <2>6, QuietStays
    <2>10. QED
        BY <2>7, <2>8, <2>9
<1>17. ASSUME NEW c \in Command, TranslateTable(c), UNCHANGED <<notifiers, telling, worked>> PROVE Good
    <2>1. OnlyOf(c)
        <3>1. \A d \in Command : d # c => job'[d] = job[d]
            BY <1>t, <1>17, DoesTranslateTable DEF OnlyQueues
        <3>2. \A d \in Command : d # c => processes'[d] = processes[d]
            BY <1>t, <1>17, DoesTranslateTable DEF OnlyQueues
        <3>3. \A d \in Command : d # c => telling'[d] = telling[d]
            BY <1>t, <1>17, DoesTranslateTable DEF OnlyQueues
        <3>4. QED
            BY <3>1, <3>2, <3>3 DEF OnlyOf
    <2>2. ReturnsOf(c)
        BY <1>t DEF Returns, ReturnsOf
    <2>3. QuietOf(c)
        BY <1>l DEF Quiet, QuietOf
    <2>4. Inside(c) /\ Inside(c)' /\ lockfile' = lockfile
        BY <1>t, <1>17, DoesTranslateTable DEF Inside, Over, Creating
    <2>5. ReturnsOf(c)'
        BY <1>t, <1>17, <2>2, DoesTranslateTable DEF ReturnsOf, Creating
    <2>6. QuietOf(c)'
        BY <1>t, <1>17, <2>3, <2>2, DoesTranslateTable DEF QuietOf, Early, Creating,
           ReturnsOf
    <2>7. LockHeld'
        BY <1>l, <2>1, <2>4, LockStays
    <2>8. Returns'
        BY <1>t, <2>1, <2>5, ReturnsStay
    <2>9. Quiet'
        BY <1>l, <2>1, <2>6, QuietStays
    <2>10. QED
        BY <2>7, <2>8, <2>9
<1>18. ASSUME NEW c \in Command, TranslateFails(c), UNCHANGED <<notifiers, telling, worked>> PROVE Good
    <2>1. OnlyOf(c)
        <3>1. \A d \in Command : d # c => job'[d] = job[d]
            BY <1>t, <1>18, DoesTranslateFails DEF OnlyQueues
        <3>2. \A d \in Command : d # c => processes'[d] = processes[d]
            BY <1>t, <1>18, DoesTranslateFails DEF OnlyQueues
        <3>3. \A d \in Command : d # c => telling'[d] = telling[d]
            BY <1>t, <1>18, DoesTranslateFails DEF OnlyQueues
        <3>4. QED
            BY <3>1, <3>2, <3>3 DEF OnlyOf
    <2>2. ReturnsOf(c)
        BY <1>t DEF Returns, ReturnsOf
    <2>3. QuietOf(c)
        BY <1>l DEF Quiet, QuietOf
    <2>4. Inside(c) /\ Inside(c)' /\ lockfile' = lockfile
        BY <1>t, <1>18, DoesTranslateFails DEF Inside, Over, Creating
    <2>5. ReturnsOf(c)'
        BY <1>t, <1>18, <2>2, DoesTranslateFails DEF ReturnsOf, Creating
    <2>6. QuietOf(c)'
        BY <1>t, <1>18, <2>3, <2>2, DoesTranslateFails DEF QuietOf, Early, Creating,
           ReturnsOf
    <2>7. LockHeld'
        BY <1>l, <2>1, <2>4, LockStays
    <2>8. Returns'
        BY <1>t, <2>1, <2>5, ReturnsStay
    <2>9. Quiet'
        BY <1>l, <2>1, <2>6, QuietStays
    <2>10. QED
        BY <2>7, <2>8, <2>9
<1>19. ASSUME NEW c \in Command, Translated(c), UNCHANGED <<notifiers, telling, worked>> PROVE Good
    <2>1. OnlyOf(c)
        <3>1. \A d \in Command : d # c => job'[d] = job[d]
            BY <1>t, <1>19, DoesTranslated DEF OnlyQueues
        <3>2. \A d \in Command : d # c => processes'[d] = processes[d]
            BY <1>t, <1>19, DoesTranslated DEF OnlyQueues
        <3>3. \A d \in Command : d # c => telling'[d] = telling[d]
            BY <1>t, <1>19, DoesTranslated DEF OnlyQueues
        <3>4. QED
            BY <3>1, <3>2, <3>3 DEF OnlyOf
    <2>2. ReturnsOf(c)
        BY <1>t DEF Returns, ReturnsOf
    <2>3. QuietOf(c)
        BY <1>l DEF Quiet, QuietOf
    <2>4. Inside(c) /\ Inside(c)' /\ lockfile' = lockfile
        BY <1>t, <1>19, DoesTranslated DEF Inside, Over, Creating
    <2>5. ReturnsOf(c)'
        BY <1>t, <1>19, <2>2, DoesTranslated DEF ReturnsOf, Creating
    <2>6. QuietOf(c)'
        BY <1>t, <1>19, <2>3, <2>2, DoesTranslated DEF QuietOf, Early, Creating, ReturnsOf
    <2>7. LockHeld'
        BY <1>l, <2>1, <2>4, LockStays
    <2>8. Returns'
        BY <1>t, <2>1, <2>5, ReturnsStay
    <2>9. Quiet'
        BY <1>l, <2>1, <2>6, QuietStays
    <2>10. QED
        BY <2>7, <2>8, <2>9
<1>20. ASSUME NEW c \in Command, NEW p \in Package, AddRecord(c, p), Tell(c, p, "add"), telling[c] = None PROVE Good
    <2>1. OnlyOf(c)
        <3>1. \A d \in Command : d # c => job'[d] = job[d]
            BY <1>t, <1>20, DoesAddRecord DEF OnlyQueues
        <3>2. \A d \in Command : d # c => processes'[d] = processes[d]
            BY <1>t, <1>20, DoesAddRecord DEF OnlyQueues
        <3>3. \A d \in Command : d # c => telling'[d] = telling[d]
            BY <1>t, <1>20, DoesAddRecord DEF OnlyQueues
        <3>4. QED
            BY <3>1, <3>2, <3>3 DEF OnlyOf
    <2>2. ReturnsOf(c)
        BY <1>t DEF Returns, ReturnsOf
    <2>3. QuietOf(c)
        BY <1>l DEF Quiet, QuietOf
    <2>4. Inside(c) /\ Inside(c)' /\ lockfile' = lockfile
        BY <1>t, <1>20, DoesAddRecord DEF Inside, Over, Creating
    <2>5. ReturnsOf(c)'
        BY <1>t, <1>20, <2>2, DoesAddRecord DEF ReturnsOf, Creating
    <2>6. QuietOf(c)'
        BY <1>t, <1>20, <2>3, <2>2, DoesAddRecord DEF QuietOf, Early, Creating, ReturnsOf
    <2>7. LockHeld'
        BY <1>l, <2>1, <2>4, LockStays
    <2>8. Returns'
        BY <1>t, <2>1, <2>5, ReturnsStay
    <2>9. Quiet'
        BY <1>l, <2>1, <2>6, QuietStays
    <2>10. QED
        BY <2>7, <2>8, <2>9
<1>21. ASSUME NEW c \in Command, NEW p \in Package, RemoveRecord(c, p), Tell(c, p, "remove"), telling[c] = None PROVE Good
    <2>1. OnlyOf(c)
        <3>1. \A d \in Command : d # c => job'[d] = job[d]
            BY <1>t, <1>21, DoesRemoveRecord DEF OnlyQueues
        <3>2. \A d \in Command : d # c => processes'[d] = processes[d]
            BY <1>t, <1>21, DoesRemoveRecord DEF OnlyQueues
        <3>3. \A d \in Command : d # c => telling'[d] = telling[d]
            BY <1>t, <1>21, DoesRemoveRecord DEF OnlyQueues
        <3>4. QED
            BY <3>1, <3>2, <3>3 DEF OnlyOf
    <2>2. ReturnsOf(c)
        BY <1>t DEF Returns, ReturnsOf
    <2>3. QuietOf(c)
        BY <1>l DEF Quiet, QuietOf
    <2>4. Inside(c) /\ Inside(c)' /\ lockfile' = lockfile
        BY <1>t, <1>21, DoesRemoveRecord DEF Inside, Over, Creating
    <2>5. ReturnsOf(c)'
        BY <1>t, <1>21, <2>2, DoesRemoveRecord DEF ReturnsOf, Creating
    <2>6. QuietOf(c)'
        BY <1>t, <1>21, <2>3, <2>2, DoesRemoveRecord DEF QuietOf, Early, Creating, ReturnsOf
    <2>7. LockHeld'
        BY <1>l, <2>1, <2>4, LockStays
    <2>8. Returns'
        BY <1>t, <2>1, <2>5, ReturnsStay
    <2>9. Quiet'
        BY <1>l, <2>1, <2>6, QuietStays
    <2>10. QED
        BY <2>7, <2>8, <2>9
<1>22. ASSUME NEW c \in Command, CloseTable(c), telling[c] = None, UNCHANGED <<notifiers, telling, worked>> PROVE Good
    <2>1. OnlyOf(c)
        <3>1. \A d \in Command : d # c => job'[d] = job[d]
            BY <1>t, <1>22, DoesCloseTable DEF OnlyQueues
        <3>2. \A d \in Command : d # c => processes'[d] = processes[d]
            BY <1>t, <1>22, DoesCloseTable DEF OnlyQueues
        <3>3. \A d \in Command : d # c => telling'[d] = telling[d]
            BY <1>t, <1>22, DoesCloseTable DEF OnlyQueues
        <3>4. QED
            BY <3>1, <3>2, <3>3 DEF OnlyOf
    <2>2. ReturnsOf(c)
        BY <1>t DEF Returns, ReturnsOf
    <2>3. QuietOf(c)
        BY <1>l DEF Quiet, QuietOf
    <2>4. Inside(c) /\ Inside(c)' /\ lockfile' = lockfile
        BY <1>t, <1>22, <2>2, DoesCloseTable DEF Inside, Over, Creating, ReturnsOf
    <2>5. ReturnsOf(c)'
        BY <1>t, <1>22, <2>2, DoesCloseTable DEF ReturnsOf, Creating
    <2>6. QuietOf(c)'
        BY <1>t, <1>22, <2>3, <2>2, DoesCloseTable DEF QuietOf, Early, Creating, ReturnsOf
    <2>7. LockHeld'
        BY <1>l, <2>1, <2>4, LockStays
    <2>8. Returns'
        BY <1>t, <2>1, <2>5, ReturnsStay
    <2>9. Quiet'
        BY <1>l, <2>1, <2>6, QuietStays
    <2>10. QED
        BY <2>7, <2>8, <2>9
<1>23. ASSUME NEW c \in Command, Close(c), N!Abandon(c), UNCHANGED <<telling, worked>> PROVE Good
    <2>1. OnlyOf(c)
        <3>1. \A d \in Command : d # c => job'[d] = job[d]
            BY <1>t, <1>i, <1>23, DoesClose DEF OnlyQueues
        <3>2. \A d \in Command : d # c => processes'[d] = processes[d]
            BY <1>t, <1>i, <1>23, DoesClose, DoesAbandon DEF OnlyQueues
        <3>3. \A d \in Command : d # c => telling'[d] = telling[d]
            BY <1>t, <1>i, <1>23, DoesClose DEF OnlyQueues
        <3>4. QED
            BY <3>1, <3>2, <3>3 DEF OnlyOf
    <2>2. ReturnsOf(c)
        BY <1>t DEF Returns, ReturnsOf
    <2>3. QuietOf(c)
        BY <1>l DEF Quiet, QuietOf
    <2>4. ~Inside(c)' /\ (Inside(c) \/ lockfile' = lockfile)
        BY <1>t, <1>i, <1>23, DoesClose DEF Inside, Over, Creating
    <2>5. ReturnsOf(c)'
        BY <1>t, <1>i, <1>23, <2>2, DoesClose DEF ReturnsOf, Creating
    <2>6. QuietOf(c)'
        BY <1>t, <1>i, <1>23, <2>3, <2>2, DoesClose, KeptEmpty, DoesAbandon DEF QuietOf,
           Early, Creating, ReturnsOf
    <2>7. LockHeld'
        BY <1>l, <2>1, <2>4, LockStays
    <2>8. Returns'
        BY <1>t, <2>1, <2>5, ReturnsStay
    <2>9. Quiet'
        BY <1>l, <2>1, <2>6, QuietStays
    <2>10. QED
        BY <2>7, <2>8, <2>9
<1>24. ASSUME NEW c \in Command, CloseFails(c), N!Abandon(c), UNCHANGED <<telling, worked>> PROVE Good
    <2>1. OnlyOf(c)
        <3>1. \A d \in Command : d # c => job'[d] = job[d]
            BY <1>t, <1>i, <1>24, DoesCloseFails DEF OnlyQueues
        <3>2. \A d \in Command : d # c => processes'[d] = processes[d]
            BY <1>t, <1>i, <1>24, DoesCloseFails, DoesAbandon DEF OnlyQueues
        <3>3. \A d \in Command : d # c => telling'[d] = telling[d]
            BY <1>t, <1>i, <1>24, DoesCloseFails DEF OnlyQueues
        <3>4. QED
            BY <3>1, <3>2, <3>3 DEF OnlyOf
    <2>2. ReturnsOf(c)
        BY <1>t DEF Returns, ReturnsOf
    <2>3. QuietOf(c)
        BY <1>l DEF Quiet, QuietOf
    <2>4. ~Inside(c)' /\ (Inside(c) \/ lockfile' = lockfile)
        BY <1>t, <1>i, <1>24, DoesCloseFails DEF Inside, Over, Creating
    <2>5. ReturnsOf(c)'
        BY <1>t, <1>i, <1>24, <2>2, DoesCloseFails DEF ReturnsOf, Creating
    <2>6. QuietOf(c)'
        BY <1>t, <1>i, <1>24, <2>3, <2>2, DoesCloseFails, KeptEmpty, DoesAbandon DEF
           QuietOf, Early, Creating, ReturnsOf
    <2>7. LockHeld'
        BY <1>l, <2>1, <2>4, LockStays
    <2>8. Returns'
        BY <1>t, <2>1, <2>5, ReturnsStay
    <2>9. Quiet'
        BY <1>l, <2>1, <2>6, QuietStays
    <2>10. QED
        BY <2>7, <2>8, <2>9
<1>25. ASSUME NEW c \in Command, Signal(c), UNCHANGED <<notifiers, telling, worked>> PROVE Good
    <2>1. OnlyOf(c)
        <3>1. \A d \in Command : d # c => job'[d] = job[d]
            BY <1>t, <1>25, DoesSignal DEF OnlyQueues
        <3>2. \A d \in Command : d # c => processes'[d] = processes[d]
            BY <1>t, <1>25, DoesSignal DEF OnlyQueues
        <3>3. \A d \in Command : d # c => telling'[d] = telling[d]
            BY <1>t, <1>25, DoesSignal DEF OnlyQueues
        <3>4. QED
            BY <3>1, <3>2, <3>3 DEF OnlyOf
    <2>2. ReturnsOf(c)
        BY <1>t DEF Returns, ReturnsOf
    <2>3. QuietOf(c)
        BY <1>l DEF Quiet, QuietOf
    <2>4. (Inside(c)' <=> Inside(c)) /\ lockfile' = lockfile
        BY <1>t, <1>25, DoesSignal DEF Inside, Over, Creating
    <2>5. ReturnsOf(c)'
        BY <1>t, <1>25, <2>2, DoesSignal DEF ReturnsOf, Creating
    <2>6. QuietOf(c)'
        BY <1>t, <1>25, <2>3, <2>2, DoesSignal DEF QuietOf, Early, Creating, ReturnsOf
    <2>7. LockHeld'
        BY <1>l, <2>1, <2>4, LockStays
    <2>8. Returns'
        BY <1>t, <2>1, <2>5, ReturnsStay
    <2>9. Quiet'
        BY <1>l, <2>1, <2>6, QuietStays
    <2>10. QED
        BY <2>7, <2>8, <2>9
<1>26. ASSUME NEW c \in Command, Kill(c), N!Abandon(c), telling' = [telling EXCEPT ![c] = None], UNCHANGED worked PROVE Good
    <2>1. OnlyOf(c)
        <3>1. \A d \in Command : d # c => job'[d] = job[d]
            BY <1>t, <1>i, <1>26, DoesKill DEF OnlyQueues
        <3>2. \A d \in Command : d # c => processes'[d] = processes[d]
            BY <1>t, <1>i, <1>26, DoesKill, DoesAbandon DEF OnlyQueues
        <3>3. \A d \in Command : d # c => telling'[d] = telling[d]
            BY <1>t, <1>i, <1>26, DoesKill DEF OnlyQueues
        <3>4. QED
            BY <3>1, <3>2, <3>3 DEF OnlyOf
    <2>2. ReturnsOf(c)
        BY <1>t DEF Returns, ReturnsOf
    <2>3. QuietOf(c)
        BY <1>l DEF Quiet, QuietOf
    <2>4. ~Inside(c)' /\ (Inside(c) \/ lockfile' = lockfile)
        BY <1>t, <1>i, <1>26, DoesKill DEF Inside, Over, Creating
    <2>5. ReturnsOf(c)'
        BY <1>t, <1>i, <1>26, <2>2, DoesKill DEF ReturnsOf, Creating
    <2>6. QuietOf(c)'
        BY <1>t, <1>i, <1>26, <2>3, <2>2, DoesKill, KeptEmpty DEF QuietOf, Early, Creating,
           ReturnsOf, TypeOK, DatabaseTypeOK
    <2>7. LockHeld'
        BY <1>l, <2>1, <2>4, LockStays
    <2>8. Returns'
        BY <1>t, <2>1, <2>5, ReturnsStay
    <2>9. Quiet'
        BY <1>l, <2>1, <2>6, QuietStays
    <2>10. QED
        BY <2>7, <2>8, <2>9
<1>27. ASSUME NEW c \in Command, StartAction(c) PROVE Good
    <2>1. OnlyOf(c)
        <3>1. \A d \in Command : d # c => job'[d] = job[d]
            BY <1>t, <1>27, DoesStartAction DEF OnlyQueues
        <3>2. \A d \in Command : d # c => processes'[d] = processes[d]
            BY <1>t, <1>27, DoesStartAction DEF OnlyQueues
        <3>3. \A d \in Command : d # c => telling'[d] = telling[d]
            BY <1>t, <1>27, DoesStartAction DEF OnlyQueues
        <3>4. QED
            BY <3>1, <3>2, <3>3 DEF OnlyOf
    <2>2. ReturnsOf(c)
        BY <1>t DEF Returns, ReturnsOf
    <2>3. QuietOf(c)
        BY <1>l DEF Quiet, QuietOf
    <2>4. Inside(c) /\ Inside(c)' /\ lockfile' = lockfile
        BY <1>t, <1>27, DoesStartAction DEF Inside, Over, Creating
    <2>5. ReturnsOf(c)'
        BY <1>t, <1>27, <2>2, DoesStartAction DEF ReturnsOf, Creating
    <2>6. QuietOf(c)'
        BY <1>t, <1>27, <2>3, <2>2, DoesStartAction DEF QuietOf, Early, Creating, ReturnsOf
    <2>7. LockHeld'
        BY <1>l, <2>1, <2>4, LockStays
    <2>8. Returns'
        BY <1>t, <2>1, <2>5, ReturnsStay
    <2>9. Quiet'
        BY <1>l, <2>1, <2>6, QuietStays
    <2>10. QED
        BY <2>7, <2>8, <2>9
<1>28. ASSUME NEW c \in Command, StartFails(c) PROVE Good
    <2>1. OnlyOf(c)
        <3>1. \A d \in Command : d # c => job'[d] = job[d]
            BY <1>t, <1>28, DoesStartFails DEF OnlyQueues
        <3>2. \A d \in Command : d # c => processes'[d] = processes[d]
            BY <1>t, <1>28, DoesStartFails DEF OnlyQueues
        <3>3. \A d \in Command : d # c => telling'[d] = telling[d]
            BY <1>t, <1>28, DoesStartFails DEF OnlyQueues
        <3>4. QED
            BY <3>1, <3>2, <3>3 DEF OnlyOf
    <2>2. ReturnsOf(c)
        BY <1>t DEF Returns, ReturnsOf
    <2>3. QuietOf(c)
        BY <1>l DEF Quiet, QuietOf
    <2>4. Inside(c) /\ Inside(c)' /\ lockfile' = lockfile
        BY <1>t, <1>28, DoesStartFails DEF Inside, Over, Creating
    <2>5. ReturnsOf(c)'
        BY <1>t, <1>28, <2>2, DoesStartFails DEF ReturnsOf, Creating
    <2>6. QuietOf(c)'
        BY <1>t, <1>28, <2>3, <2>2, DoesStartFails DEF QuietOf, Early, Creating, ReturnsOf
    <2>7. LockHeld'
        BY <1>l, <2>1, <2>4, LockStays
    <2>8. Returns'
        BY <1>t, <2>1, <2>5, ReturnsStay
    <2>9. Quiet'
        BY <1>l, <2>1, <2>6, QuietStays
    <2>10. QED
        BY <2>7, <2>8, <2>9
<1>29. ASSUME NEW c \in Command, EndAction(c) PROVE Good
    <2>1. OnlyOf(c)
        <3>1. \A d \in Command : d # c => job'[d] = job[d]
            BY <1>t, <1>29, DoesEndAction DEF OnlyQueues
        <3>2. \A d \in Command : d # c => processes'[d] = processes[d]
            BY <1>t, <1>29, DoesEndAction DEF OnlyQueues
        <3>3. \A d \in Command : d # c => telling'[d] = telling[d]
            BY <1>t, <1>29, DoesEndAction DEF OnlyQueues
        <3>4. QED
            BY <3>1, <3>2, <3>3 DEF OnlyOf
    <2>2. ReturnsOf(c)
        BY <1>t DEF Returns, ReturnsOf
    <2>3. QuietOf(c)
        BY <1>l DEF Quiet, QuietOf
    <2>4. Inside(c) /\ Inside(c)' /\ lockfile' = lockfile
        BY <1>t, <1>29, DoesEndAction DEF Inside, Over, Creating
    <2>5. ReturnsOf(c)'
        BY <1>t, <1>29, <2>2, DoesEndAction DEF ReturnsOf, Creating
    <2>6. QuietOf(c)'
        BY <1>t, <1>29, <2>3, <2>2, DoesEndAction DEF QuietOf, Early, Creating, ReturnsOf
    <2>7. LockHeld'
        BY <1>l, <2>1, <2>4, LockStays
    <2>8. Returns'
        BY <1>t, <2>1, <2>5, ReturnsStay
    <2>9. Quiet'
        BY <1>l, <2>1, <2>6, QuietStays
    <2>10. QED
        BY <2>7, <2>8, <2>9
<1>30. ASSUME NEW c \in Command, Waited(c) PROVE Good
    <2>1. OnlyOf(c)
        <3>1. \A d \in Command : d # c => job'[d] = job[d]
            BY <1>t, <1>30, DoesWaited DEF OnlyQueues
        <3>2. \A d \in Command : d # c => processes'[d] = processes[d]
            BY <1>t, <1>30, DoesWaited DEF OnlyQueues
        <3>3. \A d \in Command : d # c => telling'[d] = telling[d]
            BY <1>t, <1>30, DoesWaited DEF OnlyQueues
        <3>4. QED
            BY <3>1, <3>2, <3>3 DEF OnlyOf
    <2>2. ReturnsOf(c)
        BY <1>t DEF Returns, ReturnsOf
    <2>3. QuietOf(c)
        BY <1>l DEF Quiet, QuietOf
    <2>4. Inside(c) /\ Inside(c)' /\ lockfile' = lockfile
        BY <1>t, <1>30, DoesWaited DEF Inside, Over, Creating
    <2>5. ReturnsOf(c)'
        BY <1>t, <1>30, <2>2, DoesWaited DEF ReturnsOf, Creating
    <2>6. QuietOf(c)'
        BY <1>t, <1>30, <2>3, <2>2, DoesWaited DEF QuietOf, Early, Creating, ReturnsOf
    <2>7. LockHeld'
        BY <1>l, <2>1, <2>4, LockStays
    <2>8. Returns'
        BY <1>t, <2>1, <2>5, ReturnsStay
    <2>9. Quiet'
        BY <1>l, <2>1, <2>6, QuietStays
    <2>10. QED
        BY <2>7, <2>8, <2>9
<1>31. ASSUME NEW c \in Command, Tidy(c) PROVE Good
    <2>1. OnlyOf(c)
        <3>1. \A d \in Command : d # c => job'[d] = job[d]
            BY <1>t, <1>31, DoesTidy DEF OnlyQueues
        <3>2. \A d \in Command : d # c => processes'[d] = processes[d]
            BY <1>t, <1>31, DoesTidy DEF OnlyQueues
        <3>3. \A d \in Command : d # c => telling'[d] = telling[d]
            BY <1>t, <1>31, DoesTidy DEF OnlyQueues
        <3>4. QED
            BY <3>1, <3>2, <3>3 DEF OnlyOf
    <2>2. ReturnsOf(c)
        BY <1>t DEF Returns, ReturnsOf
    <2>3. QuietOf(c)
        BY <1>l DEF Quiet, QuietOf
    <2>4. Inside(c) /\ Inside(c)' /\ lockfile' = lockfile
        BY <1>t, <1>31, DoesTidy DEF Inside, Over, Creating
    <2>5. ReturnsOf(c)'
        BY <1>t, <1>31, <2>2, DoesTidy DEF ReturnsOf, Creating
    <2>6. QuietOf(c)'
        BY <1>t, <1>31, <2>3, <2>2, DoesTidy DEF QuietOf, Early, Creating, ReturnsOf
    <2>7. LockHeld'
        BY <1>l, <2>1, <2>4, LockStays
    <2>8. Returns'
        BY <1>t, <2>1, <2>5, ReturnsStay
    <2>9. Quiet'
        BY <1>l, <2>1, <2>6, QuietStays
    <2>10. QED
        BY <2>7, <2>8, <2>9
<1>32. ASSUME NEW c \in Command, TellNext(c) PROVE Good
    <2>1. OnlyOf(c)
        <3>1. \A d \in Command : d # c => job'[d] = job[d]
            BY <1>t, <1>i, <1>32, DoesTellNext DEF OnlyQueues
        <3>2. \A d \in Command : d # c => processes'[d] = processes[d]
            BY <1>t, <1>i, <1>32, DoesTellNext DEF OnlyQueues
        <3>3. \A d \in Command : d # c => telling'[d] = telling[d]
            BY <1>t, <1>i, <1>32, DoesTellNext DEF OnlyQueues
        <3>4. QED
            BY <3>1, <3>2, <3>3 DEF OnlyOf
    <2>2. ReturnsOf(c)
        BY <1>t DEF Returns, ReturnsOf
    <2>3. QuietOf(c)
        BY <1>l DEF Quiet, QuietOf
    <2>4. Inside(c) /\ Inside(c)' /\ lockfile' = lockfile
        BY <1>t, <1>i, <1>32, DoesTellNext DEF Inside, Over, Creating
    <2>5. ReturnsOf(c)'
        BY <1>t, <1>i, <1>32, <2>2, DoesTellNext DEF ReturnsOf, Creating
    <2>6. QuietOf(c)'
        BY <1>t, <1>i, <1>32, <2>3, <2>2, DoesTellNext DEF QuietOf, Early, Creating,
           ReturnsOf
    <2>7. LockHeld'
        BY <1>l, <2>1, <2>4, LockStays
    <2>8. Returns'
        BY <1>t, <2>1, <2>5, ReturnsStay
    <2>9. Quiet'
        BY <1>l, <2>1, <2>6, QuietStays
    <2>10. QED
        BY <2>7, <2>8, <2>9
<1>33. ASSUME NEW c \in Command, Turn(c) PROVE Good
    <2>1. OnlyOf(c)
        <3>1. \A d \in Command : d # c => job'[d] = job[d]
            BY <1>t, <1>i, <1>33, DoesTurn DEF OnlyQueues
        <3>2. \A d \in Command : d # c => processes'[d] = processes[d]
            BY <1>t, <1>i, <1>33, DoesTurn DEF OnlyQueues
        <3>3. \A d \in Command : d # c => telling'[d] = telling[d]
            BY <1>t, <1>i, <1>33, DoesTurn DEF OnlyQueues
        <3>4. QED
            BY <3>1, <3>2, <3>3 DEF OnlyOf
    <2>2. ReturnsOf(c)
        BY <1>t DEF Returns, ReturnsOf
    <2>3. QuietOf(c)
        BY <1>l DEF Quiet, QuietOf
    <2>4. Inside(c) /\ Inside(c)' /\ lockfile' = lockfile
        BY <1>t, <1>i, <1>33, DoesTurn DEF Inside, Over, Creating
    <2>5. ReturnsOf(c)'
        BY <1>t, <1>i, <1>33, <2>2, DoesTurn DEF ReturnsOf, Creating
    <2>6. QuietOf(c)'
        BY <1>t, <1>i, <1>33, <2>3, <2>2, DoesTurn DEF QuietOf, Early, Creating, ReturnsOf
    <2>7. LockHeld'
        BY <1>l, <2>1, <2>4, LockStays
    <2>8. Returns'
        BY <1>t, <2>1, <2>5, ReturnsStay
    <2>9. Quiet'
        BY <1>l, <2>1, <2>6, QuietStays
    <2>10. QED
        BY <2>7, <2>8, <2>9
<1>34. ASSUME NEW c \in Command, N!ScriptEnds(c), UNCHANGED <<database, telling, worked>> PROVE Good
    <2>1. OnlyOf(c)
        <3>1. \A d \in Command : d # c => job'[d] = job[d]
            BY <1>t, <1>i, <1>34, DoesScriptEnds DEF database, OnlyQueues
        <3>2. \A d \in Command : d # c => processes'[d] = processes[d]
            BY <1>t, <1>i, <1>34, DoesScriptEnds DEF database, OnlyQueues
        <3>3. \A d \in Command : d # c => telling'[d] = telling[d]
            BY <1>t, <1>i, <1>34, DoesScriptEnds DEF database, OnlyQueues
        <3>4. QED
            BY <3>1, <3>2, <3>3 DEF OnlyOf
    <2>2. ReturnsOf(c)
        BY <1>t DEF Returns, ReturnsOf
    <2>3. QuietOf(c)
        BY <1>l DEF Quiet, QuietOf
    <2>4. (Inside(c)' <=> Inside(c)) /\ lockfile' = lockfile
        BY <1>t, <1>i, <1>34, DoesScriptEnds DEF database, Inside, Over, Creating
    <2>5. ReturnsOf(c)'
        BY <1>t, <1>i, <1>34, <2>2, DoesScriptEnds DEF database, ReturnsOf, Creating
    <2>6. QuietOf(c)'
        BY <1>t, <1>i, <1>34, <2>3, <2>2, DoesScriptEnds DEF database, QuietOf, Early,
           Creating, ReturnsOf
    <2>7. LockHeld'
        BY <1>l, <2>1, <2>4, LockStays
    <2>8. Returns'
        BY <1>t, <2>1, <2>5, ReturnsStay
    <2>9. Quiet'
        BY <1>l, <2>1, <2>6, QuietStays
    <2>10. QED
        BY <2>7, <2>8, <2>9
<1>35. ASSUME DeleteLockfile, UNCHANGED <<notifiers, telling, worked>> PROVE Good
    <2>1. LockHeld'
        BY <1>t, <1>l, <1>35 DEF DeleteLockfile, LockHeld, Inside, Over
    <2>2. Returns'
        BY <1>t, <1>l, <1>35 DEF DeleteLockfile, Returns
    <2>3. Quiet'
        BY <1>l, <1>35 DEF DeleteLockfile, Quiet, Early, notifiers
    <2>4. QED
        BY <2>1, <2>2, <2>3
<1>36. QED
    <2> HIDE DEF Good
    <2>1. Good
        BY Zenon, <1>1, <1>2, <1>3, <1>4, <1>5, <1>6, <1>7, <1>8, <1>9, <1>10, <1>11, <1>12,
           <1>13, <1>14, <1>15, <1>16, <1>17, <1>18, <1>19, <1>20, <1>21, <1>22, <1>23,
           <1>24, <1>25, <1>26, <1>27, <1>28, <1>29, <1>30, <1>31, <1>32, <1>33, <1>34,
           <1>35 DEF Next, Step, DatabaseStep, CallStep, Change
    <2>2. QED
        BY <2>1 DEF Good

-----------------------------------------------------------------------------
(* The calls of the scripts.                                               *)

LineOf(j, list, d, r) ==
    /\ \A i \in DOMAIN list : i > 1 => list[i].state = "waiting"
    /\ Len(r) =< Len(d) /\ \A i \in DOMAIN r : r[i] = d[i]
    /\ (j.at \notin {"ended", "died"} => QueueOf(list, d, r))
    /\ (j.at = "ended" /\ ~j.interrupted => r = d)

LEMMA LineGoesOn ==
    ASSUME NEW j, NEW k, NEW list, NEW d, NEW r, LineOf(j, list, d, r),
           j.at \notin {"ended", "died"}, k.at \notin {"ended", "died"}
    PROVE  LineOf(k, list, d, r)
BY DEF LineOf

LEMMA LineMoves ==
    ASSUME NEW k, NEW list, NEW d, NEW r, QueueOf(list, d, r), k.at \notin {"ended", "died"}
    PROVE  LineOf(k, list, d, r)
BY DEF LineOf, QueueOf

(* Who leaves of its own, with an empty list, made all the calls.          *)
LEMMA LineIsLeft ==
    ASSUME NEW j, NEW k, NEW list, NEW rest, NEW d \in Seq(N!Call), NEW r \in Seq(N!Call),
           LineOf(j, list, d, r), j.at \notin {"ended", "died"},
           \A i \in DOMAIN rest : i > 1 => rest[i].state = "waiting",
           k.at = "ended" /\ ~k.interrupted => list = <<>>,
           k.at \in {"ended", "died"}
    PROVE  LineOf(k, rest, d, r)
<1>1. QueueOf(list, d, r)
    BY DEF LineOf
<1>2. ASSUME list = <<>> PROVE r = d
    <2>1. Started(list) = 0 /\ Len(list) = 0
        BY <1>2 DEF Started
    <2>2. Len(d) = Len(r) /\ \A i \in DOMAIN r : r[i] = d[i]
        BY <1>1, <2>1 DEF QueueOf
    <2>3. QED
        BY <2>2
<1>3. QED
    BY <1>1, <1>2 DEF LineOf

LEMMA LinesStay ==
    ASSUME Lines, NEW c \in Command,
           \A d \in Command : d # c =>
              /\ job'[d] = job[d] /\ processes'[d] = processes[d]
              /\ due'[d] = due[d] /\ ran'[d] = ran[d],
           LineOf(job'[c], processes'[c], due'[c], ran'[c])
    PROVE  Lines'
<1>1. \A d \in Command : LineOf(job[d], processes[d], due[d], ran[d])
    BY DEF Lines, LineOf
<1>2. \A d \in Command : LineOf(job'[d], processes'[d], due'[d], ran'[d])
    BY <1>1
<1>3. QED
    BY <1>2 DEF Lines, LineOf

LEMMA LinesKept ==
    ASSUME IInv, Next
    PROVE  Lines'
<1> DEFINE Good == Lines'
<1>t. TypeOK /\ Returns
    BY DEF IInv
<1>i. IInv
    OBVIOUS
<1>l. Lines /\ Quiet
    BY DEF IInv
<1>y. due \in [Command -> Seq(N!Call)] /\ ran \in [Command -> Seq(N!Call)]
    BY <1>t DEF TypeOK
<1>1. ASSUME NEW c \in Command, Begin(c), UNCHANGED <<notifiers, telling, worked>> PROVE Good
    <2>1. \A d \in Command : d # c =>
             /\ job'[d] = job[d] /\ processes'[d] = processes[d]
             /\ due'[d] = due[d] /\ ran'[d] = ran[d]
        <3>1. \A d \in Command : d # c => job'[d] = job[d]
            BY <1>t, <1>1, DoesBegin DEF OnlyQueues
        <3>2. \A d \in Command : d # c => processes'[d] = processes[d]
            BY <1>t, <1>1, DoesBegin DEF OnlyQueues
        <3>3. \A d \in Command : d # c => due'[d] = due[d]
            BY <1>t, <1>1, DoesBegin DEF OnlyQueues
        <3>4. \A d \in Command : d # c => ran'[d] = ran[d]
            BY <1>t, <1>1, DoesBegin DEF OnlyQueues
        <3>5. QED
            BY <3>1, <3>2, <3>3, <3>4
    <2>2. LineOf(job[c], processes[c], due[c], ran[c])
        BY <1>1, <1>l DEF Lines, LineOf
    <2>3. UNCHANGED <<processes, due, ran>>
        BY <1>t, <1>1, DoesBegin DEF OnlyQueues
    <2>4. job[c].at \notin {"ended", "died"} /\ job'[c].at \notin {"ended", "died"}
        BY <1>t, <1>1, DoesBegin DEF Creating
    <2>5. LineOf(job'[c], processes'[c], due'[c], ran'[c])
        BY <2>2, <2>3, <2>4, LineGoesOn
    <2>6. Lines'
        BY <1>l, <1>1, <2>1, <2>5, LinesStay
    <2>7. QED
        BY <2>6
<1>2. ASSUME NEW c \in Command, Acquire(c), UNCHANGED <<notifiers, telling, worked>> PROVE Good
    <2>1. \A d \in Command : d # c =>
             /\ job'[d] = job[d] /\ processes'[d] = processes[d]
             /\ due'[d] = due[d] /\ ran'[d] = ran[d]
        <3>1. \A d \in Command : d # c => job'[d] = job[d]
            BY <1>t, <1>2, DoesAcquire DEF OnlyQueues
        <3>2. \A d \in Command : d # c => processes'[d] = processes[d]
            BY <1>t, <1>2, DoesAcquire DEF OnlyQueues
        <3>3. \A d \in Command : d # c => due'[d] = due[d]
            BY <1>t, <1>2, DoesAcquire DEF OnlyQueues
        <3>4. \A d \in Command : d # c => ran'[d] = ran[d]
            BY <1>t, <1>2, DoesAcquire DEF OnlyQueues
        <3>5. QED
            BY <3>1, <3>2, <3>3, <3>4
    <2>2. LineOf(job[c], processes[c], due[c], ran[c])
        BY <1>2, <1>l DEF Lines, LineOf
    <2>3. UNCHANGED <<processes, due, ran>>
        BY <1>t, <1>2, DoesAcquire DEF OnlyQueues
    <2>4. job[c].at \notin {"ended", "died"} /\ job'[c].at \notin {"ended", "died"}
        BY <1>t, <1>2, DoesAcquire DEF Creating
    <2>5. LineOf(job'[c], processes'[c], due'[c], ran'[c])
        BY <2>2, <2>3, <2>4, LineGoesOn
    <2>6. Lines'
        BY <1>l, <1>2, <2>1, <2>5, LinesStay
    <2>7. QED
        BY <2>6
<1>3. ASSUME NEW c \in Command, TryAgain(c), UNCHANGED <<notifiers, telling, worked>> PROVE Good
    <2>1. \A d \in Command : d # c =>
             /\ job'[d] = job[d] /\ processes'[d] = processes[d]
             /\ due'[d] = due[d] /\ ran'[d] = ran[d]
        <3>1. \A d \in Command : d # c => job'[d] = job[d]
            BY <1>t, <1>3, DoesTryAgain DEF OnlyQueues
        <3>2. \A d \in Command : d # c => processes'[d] = processes[d]
            BY <1>t, <1>3, DoesTryAgain DEF OnlyQueues
        <3>3. \A d \in Command : d # c => due'[d] = due[d]
            BY <1>t, <1>3, DoesTryAgain DEF OnlyQueues
        <3>4. \A d \in Command : d # c => ran'[d] = ran[d]
            BY <1>t, <1>3, DoesTryAgain DEF OnlyQueues
        <3>5. QED
            BY <3>1, <3>2, <3>3, <3>4
    <2>2. LineOf(job[c], processes[c], due[c], ran[c])
        BY <1>3, <1>l DEF Lines, LineOf
    <2>3. UNCHANGED <<processes, due, ran>>
        BY <1>t, <1>3, DoesTryAgain DEF OnlyQueues
    <2>4. job[c].at \notin {"ended", "died"} /\ job'[c].at \notin {"ended", "died"}
        BY <1>t, <1>3, DoesTryAgain DEF Creating
    <2>5. LineOf(job'[c], processes'[c], due'[c], ran'[c])
        BY <2>2, <2>3, <2>4, LineGoesOn
    <2>6. Lines'
        BY <1>l, <1>3, <2>1, <2>5, LinesStay
    <2>7. QED
        BY <2>6
<1>4. ASSUME NEW c \in Command, GiveUp(c), UNCHANGED <<notifiers, telling, worked>> PROVE Good
    <2>1. \A d \in Command : d # c =>
             /\ job'[d] = job[d] /\ processes'[d] = processes[d]
             /\ due'[d] = due[d] /\ ran'[d] = ran[d]
        <3>1. \A d \in Command : d # c => job'[d] = job[d]
            BY <1>t, <1>4, DoesGiveUp DEF OnlyQueues
        <3>2. \A d \in Command : d # c => processes'[d] = processes[d]
            BY <1>t, <1>4, DoesGiveUp DEF OnlyQueues
        <3>3. \A d \in Command : d # c => due'[d] = due[d]
            BY <1>t, <1>4, DoesGiveUp DEF OnlyQueues
        <3>4. \A d \in Command : d # c => ran'[d] = ran[d]
            BY <1>t, <1>4, DoesGiveUp DEF OnlyQueues
        <3>5. QED
            BY <3>1, <3>2, <3>3, <3>4
    <2>2. LineOf(job[c], processes[c], due[c], ran[c])
        BY <1>4, <1>l DEF Lines, LineOf
    <2>3. /\ due' = due /\ ran' = ran
          /\ job[c].at \notin {"ended", "died"} /\ job'[c].at \in {"ended", "died"}
        BY <1>t, <1>4, DoesGiveUp DEF Inside
    <2>4. \A i \in DOMAIN processes'[c] : i > 1 => processes'[c][i].state = "waiting"
        BY <1>t, <2>2, <1>4, DoesGiveUp DEF LineOf
    <2>5. job'[c].at = "ended" /\ ~job'[c].interrupted => processes[c] = <<>>
        BY <1>t, <1>l, <1>4, DoesGiveUp DEF Quiet, Early
    <2>6. due[c] \in Seq(N!Call) /\ ran[c] \in Seq(N!Call)
        BY <1>4, <1>y
    <2>7. LineOf(job'[c], processes'[c], due[c], ran[c])
        BY <2>2, <2>3, <2>4, <2>5, <2>6, LineIsLeft
    <2>8. LineOf(job'[c], processes'[c], due'[c], ran'[c])
        BY <2>3, <2>7
    <2>9. Lines'
        BY <1>l, <1>4, <2>1, <2>8, LinesStay
    <2>10. QED
        BY <2>9
<1>5. ASSUME NEW c \in Command, EnvironmentFails(c), UNCHANGED <<notifiers, telling, worked>> PROVE Good
    <2>1. \A d \in Command : d # c =>
             /\ job'[d] = job[d] /\ processes'[d] = processes[d]
             /\ due'[d] = due[d] /\ ran'[d] = ran[d]
        <3>1. \A d \in Command : d # c => job'[d] = job[d]
            BY <1>t, <1>5, DoesEnvironmentFails DEF OnlyQueues
        <3>2. \A d \in Command : d # c => processes'[d] = processes[d]
            BY <1>t, <1>5, DoesEnvironmentFails DEF OnlyQueues
        <3>3. \A d \in Command : d # c => due'[d] = due[d]
            BY <1>t, <1>5, DoesEnvironmentFails DEF OnlyQueues
        <3>4. \A d \in Command : d # c => ran'[d] = ran[d]
            BY <1>t, <1>5, DoesEnvironmentFails DEF OnlyQueues
        <3>5. QED
            BY <3>1, <3>2, <3>3, <3>4
    <2>2. LineOf(job[c], processes[c], due[c], ran[c])
        BY <1>5, <1>l DEF Lines, LineOf
    <2>3. /\ due' = due /\ ran' = ran
          /\ job[c].at \notin {"ended", "died"} /\ job'[c].at \in {"ended", "died"}
        BY <1>t, <1>5, DoesEnvironmentFails DEF Inside
    <2>4. \A i \in DOMAIN processes'[c] : i > 1 => processes'[c][i].state = "waiting"
        BY <1>t, <2>2, <1>5, DoesEnvironmentFails DEF LineOf
    <2>5. job'[c].at = "ended" /\ ~job'[c].interrupted => processes[c] = <<>>
        BY <1>t, <1>l, <1>5, DoesEnvironmentFails DEF Quiet, Early
    <2>6. due[c] \in Seq(N!Call) /\ ran[c] \in Seq(N!Call)
        BY <1>5, <1>y
    <2>7. LineOf(job'[c], processes'[c], due[c], ran[c])
        BY <2>2, <2>3, <2>4, <2>5, <2>6, LineIsLeft
    <2>8. LineOf(job'[c], processes'[c], due'[c], ran'[c])
        BY <2>3, <2>7
    <2>9. Lines'
        BY <1>l, <1>5, <2>1, <2>8, LinesStay
    <2>10. QED
        BY <2>9
<1>6. ASSUME NEW c \in Command, VersionUnreadable(c), UNCHANGED <<notifiers, telling, worked>> PROVE Good
    <2>1. \A d \in Command : d # c =>
             /\ job'[d] = job[d] /\ processes'[d] = processes[d]
             /\ due'[d] = due[d] /\ ran'[d] = ran[d]
        <3>1. \A d \in Command : d # c => job'[d] = job[d]
            BY <1>t, <1>6, DoesVersionUnreadable DEF OnlyQueues
        <3>2. \A d \in Command : d # c => processes'[d] = processes[d]
            BY <1>t, <1>6, DoesVersionUnreadable DEF OnlyQueues
        <3>3. \A d \in Command : d # c => due'[d] = due[d]
            BY <1>t, <1>6, DoesVersionUnreadable DEF OnlyQueues
        <3>4. \A d \in Command : d # c => ran'[d] = ran[d]
            BY <1>t, <1>6, DoesVersionUnreadable DEF OnlyQueues
        <3>5. QED
            BY <3>1, <3>2, <3>3, <3>4
    <2>2. LineOf(job[c], processes[c], due[c], ran[c])
        BY <1>6, <1>l DEF Lines, LineOf
    <2>3. /\ due' = due /\ ran' = ran
          /\ job[c].at \notin {"ended", "died"} /\ job'[c].at \in {"ended", "died"}
        BY <1>t, <1>6, DoesVersionUnreadable DEF Inside
    <2>4. \A i \in DOMAIN processes'[c] : i > 1 => processes'[c][i].state = "waiting"
        BY <1>t, <2>2, <1>6, DoesVersionUnreadable DEF LineOf
    <2>5. job'[c].at = "ended" /\ ~job'[c].interrupted => processes[c] = <<>>
        BY <1>t, <1>l, <1>6, DoesVersionUnreadable DEF Quiet, Early
    <2>6. due[c] \in Seq(N!Call) /\ ran[c] \in Seq(N!Call)
        BY <1>6, <1>y
    <2>7. LineOf(job'[c], processes'[c], due[c], ran[c])
        BY <2>2, <2>3, <2>4, <2>5, <2>6, LineIsLeft
    <2>8. LineOf(job'[c], processes'[c], due'[c], ran'[c])
        BY <2>3, <2>7
    <2>9. Lines'
        BY <1>l, <1>6, <2>1, <2>8, LinesStay
    <2>10. QED
        BY <2>9
<1>7. ASSUME NEW c \in Command, Create(c), UNCHANGED <<notifiers, telling, worked>> PROVE Good
    <2>1. \A d \in Command : d # c =>
             /\ job'[d] = job[d] /\ processes'[d] = processes[d]
             /\ due'[d] = due[d] /\ ran'[d] = ran[d]
        <3>1. \A d \in Command : d # c => job'[d] = job[d]
            BY <1>t, <1>7, DoesCreate DEF OnlyQueues
        <3>2. \A d \in Command : d # c => processes'[d] = processes[d]
            BY <1>t, <1>7, DoesCreate DEF OnlyQueues
        <3>3. \A d \in Command : d # c => due'[d] = due[d]
            BY <1>t, <1>7, DoesCreate DEF OnlyQueues
        <3>4. \A d \in Command : d # c => ran'[d] = ran[d]
            BY <1>t, <1>7, DoesCreate DEF OnlyQueues
        <3>5. QED
            BY <3>1, <3>2, <3>3, <3>4
    <2>2. LineOf(job[c], processes[c], due[c], ran[c])
        BY <1>7, <1>l DEF Lines, LineOf
    <2>3. UNCHANGED <<processes, due, ran>>
        BY <1>t, <1>7, DoesCreate DEF OnlyQueues
    <2>4. job[c].at \notin {"ended", "died"} /\ job'[c].at \notin {"ended", "died"}
        BY <1>t, <1>7, DoesCreate DEF Creating
    <2>5. LineOf(job'[c], processes'[c], due'[c], ran'[c])
        BY <2>2, <2>3, <2>4, LineGoesOn
    <2>6. Lines'
        BY <1>l, <1>7, <2>1, <2>5, LinesStay
    <2>7. QED
        BY <2>6
<1>8. ASSUME NEW c \in Command, CreateTable(c), UNCHANGED <<notifiers, telling, worked>> PROVE Good
    <2>1. \A d \in Command : d # c =>
             /\ job'[d] = job[d] /\ processes'[d] = processes[d]
             /\ due'[d] = due[d] /\ ran'[d] = ran[d]
        <3>1. \A d \in Command : d # c => job'[d] = job[d]
            BY <1>t, <1>8, DoesCreateTable DEF OnlyQueues
        <3>2. \A d \in Command : d # c => processes'[d] = processes[d]
            BY <1>t, <1>8, DoesCreateTable DEF OnlyQueues
        <3>3. \A d \in Command : d # c => due'[d] = due[d]
            BY <1>t, <1>8, DoesCreateTable DEF OnlyQueues
        <3>4. \A d \in Command : d # c => ran'[d] = ran[d]
            BY <1>t, <1>8, DoesCreateTable DEF OnlyQueues
        <3>5. QED
            BY <3>1, <3>2, <3>3, <3>4
    <2>2. LineOf(job[c], processes[c], due[c], ran[c])
        BY <1>8, <1>l DEF Lines, LineOf
    <2>3. UNCHANGED <<processes, due, ran>>
        BY <1>t, <1>8, DoesCreateTable DEF OnlyQueues
    <2>4. job[c].at \notin {"ended", "died"} /\ job'[c].at \notin {"ended", "died"}
        BY <1>t, <1>8, DoesCreateTable DEF Creating
    <2>5. LineOf(job'[c], processes'[c], due'[c], ran'[c])
        BY <2>2, <2>3, <2>4, LineGoesOn
    <2>6. Lines'
        BY <1>l, <1>8, <2>1, <2>5, LinesStay
    <2>7. QED
        BY <2>6
<1>9. ASSUME NEW c \in Command, CreatedNew(c), UNCHANGED <<notifiers, telling, worked>> PROVE Good
    <2>1. \A d \in Command : d # c =>
             /\ job'[d] = job[d] /\ processes'[d] = processes[d]
             /\ due'[d] = due[d] /\ ran'[d] = ran[d]
        <3>1. \A d \in Command : d # c => job'[d] = job[d]
            BY <1>t, <1>9, DoesCreatedNew DEF OnlyQueues
        <3>2. \A d \in Command : d # c => processes'[d] = processes[d]
            BY <1>t, <1>9, DoesCreatedNew DEF OnlyQueues
        <3>3. \A d \in Command : d # c => due'[d] = due[d]
            BY <1>t, <1>9, DoesCreatedNew DEF OnlyQueues
        <3>4. \A d \in Command : d # c => ran'[d] = ran[d]
            BY <1>t, <1>9, DoesCreatedNew DEF OnlyQueues
        <3>5. QED
            BY <3>1, <3>2, <3>3, <3>4
    <2>2. LineOf(job[c], processes[c], due[c], ran[c])
        BY <1>9, <1>l DEF Lines, LineOf
    <2>3. UNCHANGED <<processes, due, ran>>
        BY <1>t, <1>9, DoesCreatedNew DEF OnlyQueues
    <2>4. job[c].at \notin {"ended", "died"} /\ job'[c].at \notin {"ended", "died"}
        BY <1>t, <1>9, DoesCreatedNew DEF Creating
    <2>5. LineOf(job'[c], processes'[c], due'[c], ran'[c])
        BY <2>2, <2>3, <2>4, LineGoesOn
    <2>6. Lines'
        BY <1>l, <1>9, <2>1, <2>5, LinesStay
    <2>7. QED
        BY <2>6
<1>10. ASSUME NEW c \in Command, Created(c), UNCHANGED <<notifiers, telling, worked>> PROVE Good
    <2>1. \A d \in Command : d # c =>
             /\ job'[d] = job[d] /\ processes'[d] = processes[d]
             /\ due'[d] = due[d] /\ ran'[d] = ran[d]
        <3>1. \A d \in Command : d # c => job'[d] = job[d]
            BY <1>t, <1>10, DoesCreated DEF OnlyQueues
        <3>2. \A d \in Command : d # c => processes'[d] = processes[d]
            BY <1>t, <1>10, DoesCreated DEF OnlyQueues
        <3>3. \A d \in Command : d # c => due'[d] = due[d]
            BY <1>t, <1>10, DoesCreated DEF OnlyQueues
        <3>4. \A d \in Command : d # c => ran'[d] = ran[d]
            BY <1>t, <1>10, DoesCreated DEF OnlyQueues
        <3>5. QED
            BY <3>1, <3>2, <3>3, <3>4
    <2>2. LineOf(job[c], processes[c], due[c], ran[c])
        BY <1>10, <1>l DEF Lines, LineOf
    <2>3. UNCHANGED <<processes, due, ran>>
        BY <1>t, <1>10, DoesCreated DEF OnlyQueues
    <2>4. job[c].at \notin {"ended", "died"} /\ job'[c].at \notin {"ended", "died"}
        BY <1>t, <1>10, DoesCreated DEF Creating
    <2>5. LineOf(job'[c], processes'[c], due'[c], ran'[c])
        BY <2>2, <2>3, <2>4, LineGoesOn
    <2>6. Lines'
        BY <1>l, <1>10, <2>1, <2>5, LinesStay
    <2>7. QED
        BY <2>6
<1>11. ASSUME NEW c \in Command, NEW t \in Target, NEW ro \in BOOLEAN, OpenPackages(c, t, ro), Work, UNCHANGED <<notifiers, telling>> PROVE Good
    <2>1. \A d \in Command : d # c =>
             /\ job'[d] = job[d] /\ processes'[d] = processes[d]
             /\ due'[d] = due[d] /\ ran'[d] = ran[d]
        <3>1. \A d \in Command : d # c => job'[d] = job[d]
            BY <1>t, <1>11, DoesOpenPackages DEF OnlyQueues
        <3>2. \A d \in Command : d # c => processes'[d] = processes[d]
            BY <1>t, <1>11, DoesOpenPackages DEF OnlyQueues
        <3>3. \A d \in Command : d # c => due'[d] = due[d]
            BY <1>t, <1>11, DoesOpenPackages DEF OnlyQueues
        <3>4. \A d \in Command : d # c => ran'[d] = ran[d]
            BY <1>t, <1>11, DoesOpenPackages DEF OnlyQueues
        <3>5. QED
            BY <3>1, <3>2, <3>3, <3>4
    <2>2. LineOf(job[c], processes[c], due[c], ran[c])
        BY <1>11, <1>l DEF Lines, LineOf
    <2>3. UNCHANGED <<processes, due, ran>>
        BY <1>t, <1>11, DoesOpenPackages DEF OnlyQueues
    <2>4. job[c].at \notin {"ended", "died"} /\ job'[c].at \notin {"ended", "died"}
        BY <1>t, <1>11, DoesOpenPackages DEF Creating
    <2>5. LineOf(job'[c], processes'[c], due'[c], ran'[c])
        BY <2>2, <2>3, <2>4, LineGoesOn
    <2>6. Lines'
        BY <1>l, <1>11, <2>1, <2>5, LinesStay
    <2>7. QED
        BY <2>6
<1>12. ASSUME NEW c \in Command, OpenPrimary(c), UNCHANGED <<notifiers, telling, worked>> PROVE Good
    <2>1. \A d \in Command : d # c =>
             /\ job'[d] = job[d] /\ processes'[d] = processes[d]
             /\ due'[d] = due[d] /\ ran'[d] = ran[d]
        <3>1. \A d \in Command : d # c => job'[d] = job[d]
            BY <1>t, <1>12, DoesOpenPrimary DEF OnlyQueues
        <3>2. \A d \in Command : d # c => processes'[d] = processes[d]
            BY <1>t, <1>12, DoesOpenPrimary DEF OnlyQueues
        <3>3. \A d \in Command : d # c => due'[d] = due[d]
            BY <1>t, <1>12, DoesOpenPrimary DEF OnlyQueues
        <3>4. \A d \in Command : d # c => ran'[d] = ran[d]
            BY <1>t, <1>12, DoesOpenPrimary DEF OnlyQueues
        <3>5. QED
            BY <3>1, <3>2, <3>3, <3>4
    <2>2. LineOf(job[c], processes[c], due[c], ran[c])
        BY <1>12, <1>l DEF Lines, LineOf
    <2>3. UNCHANGED <<processes, due, ran>>
        BY <1>t, <1>12, DoesOpenPrimary DEF OnlyQueues
    <2>4. job[c].at \notin {"ended", "died"} /\ job'[c].at \notin {"ended", "died"}
        BY <1>t, <1>12, DoesOpenPrimary DEF Creating
    <2>5. LineOf(job'[c], processes'[c], due'[c], ran'[c])
        BY <2>2, <2>3, <2>4, LineGoesOn
    <2>6. Lines'
        BY <1>l, <1>12, <2>1, <2>5, LinesStay
    <2>7. QED
        BY <2>6
<1>13. ASSUME NEW c \in Command, OpenSecondary(c), UNCHANGED <<notifiers, telling, worked>> PROVE Good
    <2>1. \A d \in Command : d # c =>
             /\ job'[d] = job[d] /\ processes'[d] = processes[d]
             /\ due'[d] = due[d] /\ ran'[d] = ran[d]
        <3>1. \A d \in Command : d # c => job'[d] = job[d]
            BY <1>t, <1>13, DoesOpenSecondary DEF OnlyQueues
        <3>2. \A d \in Command : d # c => processes'[d] = processes[d]
            BY <1>t, <1>13, DoesOpenSecondary DEF OnlyQueues
        <3>3. \A d \in Command : d # c => due'[d] = due[d]
            BY <1>t, <1>13, DoesOpenSecondary DEF OnlyQueues
        <3>4. \A d \in Command : d # c => ran'[d] = ran[d]
            BY <1>t, <1>13, DoesOpenSecondary DEF OnlyQueues
        <3>5. QED
            BY <3>1, <3>2, <3>3, <3>4
    <2>2. LineOf(job[c], processes[c], due[c], ran[c])
        BY <1>13, <1>l DEF Lines, LineOf
    <2>3. UNCHANGED <<processes, due, ran>>
        BY <1>t, <1>13, DoesOpenSecondary DEF OnlyQueues
    <2>4. job[c].at \notin {"ended", "died"} /\ job'[c].at \notin {"ended", "died"}
        BY <1>t, <1>13, DoesOpenSecondary DEF Creating
    <2>5. LineOf(job'[c], processes'[c], due'[c], ran'[c])
        BY <2>2, <2>3, <2>4, LineGoesOn
    <2>6. Lines'
        BY <1>l, <1>13, <2>1, <2>5, LinesStay
    <2>7. QED
        BY <2>6
<1>14. ASSUME NEW c \in Command, OpenFails(c), UNCHANGED <<notifiers, telling, worked>> PROVE Good
    <2>1. \A d \in Command : d # c =>
             /\ job'[d] = job[d] /\ processes'[d] = processes[d]
             /\ due'[d] = due[d] /\ ran'[d] = ran[d]
        <3>1. \A d \in Command : d # c => job'[d] = job[d]
            BY <1>t, <1>14, DoesOpenFails DEF OnlyQueues
        <3>2. \A d \in Command : d # c => processes'[d] = processes[d]
            BY <1>t, <1>14, DoesOpenFails DEF OnlyQueues
        <3>3. \A d \in Command : d # c => due'[d] = due[d]
            BY <1>t, <1>14, DoesOpenFails DEF OnlyQueues
        <3>4. \A d \in Command : d # c => ran'[d] = ran[d]
            BY <1>t, <1>14, DoesOpenFails DEF OnlyQueues
        <3>5. QED
            BY <3>1, <3>2, <3>3, <3>4
    <2>2. LineOf(job[c], processes[c], due[c], ran[c])
        BY <1>14, <1>l DEF Lines, LineOf
    <2>3. UNCHANGED <<processes, due, ran>>
        BY <1>t, <1>14, DoesOpenFails DEF OnlyQueues
    <2>4. job[c].at \notin {"ended", "died"} /\ job'[c].at \notin {"ended", "died"}
        BY <1>t, <1>14, DoesOpenFails DEF Creating, Returns
    <2>5. LineOf(job'[c], processes'[c], due'[c], ran'[c])
        BY <2>2, <2>3, <2>4, LineGoesOn
    <2>6. Lines'
        BY <1>l, <1>14, <2>1, <2>5, LinesStay
    <2>7. QED
        BY <2>6
<1>15. ASSUME NEW c \in Command, TranslateLegacy(c), UNCHANGED <<notifiers, telling, worked>> PROVE Good
    <2>1. \A d \in Command : d # c =>
             /\ job'[d] = job[d] /\ processes'[d] = processes[d]
             /\ due'[d] = due[d] /\ ran'[d] = ran[d]
        <3>1. \A d \in Command : d # c => job'[d] = job[d]
            BY <1>t, <1>15, DoesTranslateLegacy DEF OnlyQueues
        <3>2. \A d \in Command : d # c => processes'[d] = processes[d]
            BY <1>t, <1>15, DoesTranslateLegacy DEF OnlyQueues
        <3>3. \A d \in Command : d # c => due'[d] = due[d]
            BY <1>t, <1>15, DoesTranslateLegacy DEF OnlyQueues
        <3>4. \A d \in Command : d # c => ran'[d] = ran[d]
            BY <1>t, <1>15, DoesTranslateLegacy DEF OnlyQueues
        <3>5. QED
            BY <3>1, <3>2, <3>3, <3>4
    <2>2. LineOf(job[c], processes[c], due[c], ran[c])
        BY <1>15, <1>l DEF Lines, LineOf
    <2>3. UNCHANGED <<processes, due, ran>>
        BY <1>t, <1>15, DoesTranslateLegacy DEF OnlyQueues
    <2>4. job[c].at \notin {"ended", "died"} /\ job'[c].at \notin {"ended", "died"}
        BY <1>t, <1>15, DoesTranslateLegacy DEF Creating
    <2>5. LineOf(job'[c], processes'[c], due'[c], ran'[c])
        BY <2>2, <2>3, <2>4, LineGoesOn
    <2>6. Lines'
        BY <1>l, <1>15, <2>1, <2>5, LinesStay
    <2>7. QED
        BY <2>6
<1>16. ASSUME NEW c \in Command, TranslatePrimary(c), UNCHANGED <<notifiers, telling, worked>> PROVE Good
    <2>1. \A d \in Command : d # c =>
             /\ job'[d] = job[d] /\ processes'[d] = processes[d]
             /\ due'[d] = due[d] /\ ran'[d] = ran[d]
        <3>1. \A d \in Command : d # c => job'[d] = job[d]
            BY <1>t, <1>16, DoesTranslatePrimary DEF OnlyQueues
        <3>2. \A d \in Command : d # c => processes'[d] = processes[d]
            BY <1>t, <1>16, DoesTranslatePrimary DEF OnlyQueues
        <3>3. \A d \in Command : d # c => due'[d] = due[d]
            BY <1>t, <1>16, DoesTranslatePrimary DEF OnlyQueues
        <3>4. \A d \in Command : d # c => ran'[d] = ran[d]
            BY <1>t, <1>16, DoesTranslatePrimary DEF OnlyQueues
        <3>5. QED
            BY <3>1, <3>2, <3>3, <3>4
    <2>2. LineOf(job[c], processes[c], due[c], ran[c])
        BY <1>16, <1>l DEF Lines, LineOf
    <2>3. UNCHANGED <<processes, due, ran>>
        BY <1>t, <1>16, DoesTranslatePrimary DEF OnlyQueues
    <2>4. job[c].at \notin {"ended", "died"} /\ job'[c].at \notin {"ended", "died"}
        BY <1>t, <1>16, DoesTranslatePrimary DEF Creating
    <2>5. LineOf(job'[c], processes'[c], due'[c], ran'[c])
        BY <2>2, <2>3, <2>4, LineGoesOn
    <2>6. Lines'
        BY <1>l, <1>16, <2>1, <2>5, LinesStay
    <2>7. QED
        BY <2>6
<1>17. ASSUME NEW c \in Command, TranslateTable(c), UNCHANGED <<notifiers, telling, worked>> PROVE Good
    <2>1. \A d \in Command : d # c =>
             /\ job'[d] = job[d] /\ processes'[d] = processes[d]
             /\ due'[d] = due[d] /\ ran'[d] = ran[d]
        <3>1. \A d \in Command : d # c => job'[d] = job[d]
            BY <1>t, <1>17, DoesTranslateTable DEF OnlyQueues
        <3>2. \A d \in Command : d # c => processes'[d] = processes[d]
            BY <1>t, <1>17, DoesTranslateTable DEF OnlyQueues
        <3>3. \A d \in Command : d # c => due'[d] = due[d]
            BY <1>t, <1>17, DoesTranslateTable DEF OnlyQueues
        <3>4. \A d \in Command : d # c => ran'[d] = ran[d]
            BY <1>t, <1>17, DoesTranslateTable DEF OnlyQueues
        <3>5. QED
            BY <3>1, <3>2, <3>3, <3>4
    <2>2. LineOf(job[c], processes[c], due[c], ran[c])
        BY <1>17, <1>l DEF Lines, LineOf
    <2>3. UNCHANGED <<processes, due, ran>>
        BY <1>t, <1>17, DoesTranslateTable DEF OnlyQueues
    <2>4. job[c].at \notin {"ended", "died"} /\ job'[c].at \notin {"ended", "died"}
        BY <1>t, <1>17, DoesTranslateTable DEF Creating
    <2>5. LineOf(job'[c], processes'[c], due'[c], ran'[c])
        BY <2>2, <2>3, <2>4, LineGoesOn
    <2>6. Lines'
        BY <1>l, <1>17, <2>1, <2>5, LinesStay
    <2>7. QED
        BY <2>6
<1>18. ASSUME NEW c \in Command, TranslateFails(c), UNCHANGED <<notifiers, telling, worked>> PROVE Good
    <2>1. \A d \in Command : d # c =>
             /\ job'[d] = job[d] /\ processes'[d] = processes[d]
             /\ due'[d] = due[d] /\ ran'[d] = ran[d]
        <3>1. \A d \in Command : d # c => job'[d] = job[d]
            BY <1>t, <1>18, DoesTranslateFails DEF OnlyQueues
        <3>2. \A d \in Command : d # c => processes'[d] = processes[d]
            BY <1>t, <1>18, DoesTranslateFails DEF OnlyQueues
        <3>3. \A d \in Command : d # c => due'[d] = due[d]
            BY <1>t, <1>18, DoesTranslateFails DEF OnlyQueues
        <3>4. \A d \in Command : d # c => ran'[d] = ran[d]
            BY <1>t, <1>18, DoesTranslateFails DEF OnlyQueues
        <3>5. QED
            BY <3>1, <3>2, <3>3, <3>4
    <2>2. LineOf(job[c], processes[c], due[c], ran[c])
        BY <1>18, <1>l DEF Lines, LineOf
    <2>3. UNCHANGED <<processes, due, ran>>
        BY <1>t, <1>18, DoesTranslateFails DEF OnlyQueues
    <2>4. job[c].at \notin {"ended", "died"} /\ job'[c].at \notin {"ended", "died"}
        BY <1>t, <1>18, DoesTranslateFails DEF Creating
    <2>5. LineOf(job'[c], processes'[c], due'[c], ran'[c])
        BY <2>2, <2>3, <2>4, LineGoesOn
    <2>6. Lines'
        BY <1>l, <1>18, <2>1, <2>5, LinesStay
    <2>7. QED
        BY <2>6
<1>19. ASSUME NEW c \in Command, Translated(c), UNCHANGED <<notifiers, telling, worked>> PROVE Good
    <2>1. \A d \in Command : d # c =>
             /\ job'[d] = job[d] /\ processes'[d] = processes[d]
             /\ due'[d] = due[d] /\ ran'[d] = ran[d]
        <3>1. \A d \in Command : d # c => job'[d] = job[d]
            BY <1>t, <1>19, DoesTranslated DEF OnlyQueues
        <3>2. \A d \in Command : d # c => processes'[d] = processes[d]
            BY <1>t, <1>19, DoesTranslated DEF OnlyQueues
        <3>3. \A d \in Command : d # c => due'[d] = due[d]
            BY <1>t, <1>19, DoesTranslated DEF OnlyQueues
        <3>4. \A d \in Command : d # c => ran'[d] = ran[d]
            BY <1>t, <1>19, DoesTranslated DEF OnlyQueues
        <3>5. QED
            BY <3>1, <3>2, <3>3, <3>4
    <2>2. LineOf(job[c], processes[c], due[c], ran[c])
        BY <1>19, <1>l DEF Lines, LineOf
    <2>3. UNCHANGED <<processes, due, ran>>
        BY <1>t, <1>19, DoesTranslated DEF OnlyQueues
    <2>4. job[c].at \notin {"ended", "died"} /\ job'[c].at \notin {"ended", "died"}
        BY <1>t, <1>19, DoesTranslated DEF Creating
    <2>5. LineOf(job'[c], processes'[c], due'[c], ran'[c])
        BY <2>2, <2>3, <2>4, LineGoesOn
    <2>6. Lines'
        BY <1>l, <1>19, <2>1, <2>5, LinesStay
    <2>7. QED
        BY <2>6
<1>20. ASSUME NEW c \in Command, NEW p \in Package, AddRecord(c, p), Tell(c, p, "add"), telling[c] = None PROVE Good
    <2>1. \A d \in Command : d # c =>
             /\ job'[d] = job[d] /\ processes'[d] = processes[d]
             /\ due'[d] = due[d] /\ ran'[d] = ran[d]
        <3>1. \A d \in Command : d # c => job'[d] = job[d]
            BY <1>t, <1>20, DoesAddRecord DEF OnlyQueues
        <3>2. \A d \in Command : d # c => processes'[d] = processes[d]
            BY <1>t, <1>20, DoesAddRecord DEF OnlyQueues
        <3>3. \A d \in Command : d # c => due'[d] = due[d]
            BY <1>t, <1>20, DoesAddRecord DEF OnlyQueues
        <3>4. \A d \in Command : d # c => ran'[d] = ran[d]
            BY <1>t, <1>20, DoesAddRecord DEF OnlyQueues
        <3>5. QED
            BY <3>1, <3>2, <3>3, <3>4
    <2>2. LineOf(job[c], processes[c], due[c], ran[c])
        BY <1>20, <1>l DEF Lines, LineOf
    <2>3. UNCHANGED <<processes, due, ran>>
        BY <1>t, <1>20, DoesAddRecord DEF OnlyQueues
    <2>4. job[c].at \notin {"ended", "died"} /\ job'[c].at \notin {"ended", "died"}
        BY <1>t, <1>20, DoesAddRecord DEF Creating
    <2>5. LineOf(job'[c], processes'[c], due'[c], ran'[c])
        BY <2>2, <2>3, <2>4, LineGoesOn
    <2>6. Lines'
        BY <1>l, <1>20, <2>1, <2>5, LinesStay
    <2>7. QED
        BY <2>6
<1>21. ASSUME NEW c \in Command, NEW p \in Package, RemoveRecord(c, p), Tell(c, p, "remove"), telling[c] = None PROVE Good
    <2>1. \A d \in Command : d # c =>
             /\ job'[d] = job[d] /\ processes'[d] = processes[d]
             /\ due'[d] = due[d] /\ ran'[d] = ran[d]
        <3>1. \A d \in Command : d # c => job'[d] = job[d]
            BY <1>t, <1>21, DoesRemoveRecord DEF OnlyQueues
        <3>2. \A d \in Command : d # c => processes'[d] = processes[d]
            BY <1>t, <1>21, DoesRemoveRecord DEF OnlyQueues
        <3>3. \A d \in Command : d # c => due'[d] = due[d]
            BY <1>t, <1>21, DoesRemoveRecord DEF OnlyQueues
        <3>4. \A d \in Command : d # c => ran'[d] = ran[d]
            BY <1>t, <1>21, DoesRemoveRecord DEF OnlyQueues
        <3>5. QED
            BY <3>1, <3>2, <3>3, <3>4
    <2>2. LineOf(job[c], processes[c], due[c], ran[c])
        BY <1>21, <1>l DEF Lines, LineOf
    <2>3. UNCHANGED <<processes, due, ran>>
        BY <1>t, <1>21, DoesRemoveRecord DEF OnlyQueues
    <2>4. job[c].at \notin {"ended", "died"} /\ job'[c].at \notin {"ended", "died"}
        BY <1>t, <1>21, DoesRemoveRecord DEF Creating
    <2>5. LineOf(job'[c], processes'[c], due'[c], ran'[c])
        BY <2>2, <2>3, <2>4, LineGoesOn
    <2>6. Lines'
        BY <1>l, <1>21, <2>1, <2>5, LinesStay
    <2>7. QED
        BY <2>6
<1>22. ASSUME NEW c \in Command, CloseTable(c), telling[c] = None, UNCHANGED <<notifiers, telling, worked>> PROVE Good
    <2>1. \A d \in Command : d # c =>
             /\ job'[d] = job[d] /\ processes'[d] = processes[d]
             /\ due'[d] = due[d] /\ ran'[d] = ran[d]
        <3>1. \A d \in Command : d # c => job'[d] = job[d]
            BY <1>t, <1>22, DoesCloseTable DEF OnlyQueues
        <3>2. \A d \in Command : d # c => processes'[d] = processes[d]
            BY <1>t, <1>22, DoesCloseTable DEF OnlyQueues
        <3>3. \A d \in Command : d # c => due'[d] = due[d]
            BY <1>t, <1>22, DoesCloseTable DEF OnlyQueues
        <3>4. \A d \in Command : d # c => ran'[d] = ran[d]
            BY <1>t, <1>22, DoesCloseTable DEF OnlyQueues
        <3>5. QED
            BY <3>1, <3>2, <3>3, <3>4
    <2>2. LineOf(job[c], processes[c], due[c], ran[c])
        BY <1>22, <1>l DEF Lines, LineOf
    <2>3. UNCHANGED <<processes, due, ran>>
        BY <1>t, <1>22, DoesCloseTable DEF OnlyQueues
    <2>4. job[c].at \notin {"ended", "died"} /\ job'[c].at \notin {"ended", "died"}
        BY <1>t, <1>22, DoesCloseTable DEF Creating, Returns
    <2>5. LineOf(job'[c], processes'[c], due'[c], ran'[c])
        BY <2>2, <2>3, <2>4, LineGoesOn
    <2>6. Lines'
        BY <1>l, <1>22, <2>1, <2>5, LinesStay
    <2>7. QED
        BY <2>6
<1>23. ASSUME NEW c \in Command, Close(c), N!Abandon(c), UNCHANGED <<telling, worked>> PROVE Good
    <2>1. \A d \in Command : d # c =>
             /\ job'[d] = job[d] /\ processes'[d] = processes[d]
             /\ due'[d] = due[d] /\ ran'[d] = ran[d]
        <3>1. \A d \in Command : d # c => job'[d] = job[d]
            BY <1>t, <1>i, <1>23, DoesClose DEF OnlyQueues
        <3>2. \A d \in Command : d # c => processes'[d] = processes[d]
            BY <1>t, <1>i, <1>23, DoesClose, DoesAbandon DEF OnlyQueues
        <3>3. \A d \in Command : d # c => due'[d] = due[d]
            BY <1>t, <1>i, <1>23, DoesClose DEF OnlyQueues
        <3>4. \A d \in Command : d # c => ran'[d] = ran[d]
            BY <1>t, <1>i, <1>23, DoesClose DEF OnlyQueues
        <3>5. QED
            BY <3>1, <3>2, <3>3, <3>4
    <2>2. LineOf(job[c], processes[c], due[c], ran[c])
        BY <1>23, <1>l DEF Lines, LineOf
    <2>3. /\ due' = due /\ ran' = ran
          /\ job[c].at \notin {"ended", "died"} /\ job'[c].at \in {"ended", "died"}
        BY <1>t, <1>i, <1>23, DoesClose DEF Inside
    <2>4. \A i \in DOMAIN processes'[c] : i > 1 => processes'[c][i].state = "waiting"
        BY <1>t, <2>2, <1>i, <1>23, DoesClose, DoesAbandon DEF LineOf
    <2>5. job'[c].at = "ended" /\ ~job'[c].interrupted => processes[c] = <<>>
        BY <1>t, <1>l, <1>i, <1>23, DoesClose DEF Quiet, Early
    <2>6. due[c] \in Seq(N!Call) /\ ran[c] \in Seq(N!Call)
        BY <1>23, <1>y
    <2>7. LineOf(job'[c], processes'[c], due[c], ran[c])
        BY <2>2, <2>3, <2>4, <2>5, <2>6, LineIsLeft
    <2>8. LineOf(job'[c], processes'[c], due'[c], ran'[c])
        BY <2>3, <2>7
    <2>9. Lines'
        BY <1>l, <1>23, <2>1, <2>8, LinesStay
    <2>10. QED
        BY <2>9
<1>24. ASSUME NEW c \in Command, CloseFails(c), N!Abandon(c), UNCHANGED <<telling, worked>> PROVE Good
    <2>1. \A d \in Command : d # c =>
             /\ job'[d] = job[d] /\ processes'[d] = processes[d]
             /\ due'[d] = due[d] /\ ran'[d] = ran[d]
        <3>1. \A d \in Command : d # c => job'[d] = job[d]
            BY <1>t, <1>i, <1>24, DoesCloseFails DEF OnlyQueues
        <3>2. \A d \in Command : d # c => processes'[d] = processes[d]
            BY <1>t, <1>i, <1>24, DoesCloseFails, DoesAbandon DEF OnlyQueues
        <3>3. \A d \in Command : d # c => due'[d] = due[d]
            BY <1>t, <1>i, <1>24, DoesCloseFails DEF OnlyQueues
        <3>4. \A d \in Command : d # c => ran'[d] = ran[d]
            BY <1>t, <1>i, <1>24, DoesCloseFails DEF OnlyQueues
        <3>5. QED
            BY <3>1, <3>2, <3>3, <3>4
    <2>2. LineOf(job[c], processes[c], due[c], ran[c])
        BY <1>24, <1>l DEF Lines, LineOf
    <2>3. /\ due' = due /\ ran' = ran
          /\ job[c].at \notin {"ended", "died"} /\ job'[c].at \in {"ended", "died"}
        BY <1>t, <1>i, <1>24, DoesCloseFails DEF Inside
    <2>4. \A i \in DOMAIN processes'[c] : i > 1 => processes'[c][i].state = "waiting"
        BY <1>t, <2>2, <1>i, <1>24, DoesCloseFails, DoesAbandon DEF LineOf
    <2>5. job'[c].at = "ended" /\ ~job'[c].interrupted => processes[c] = <<>>
        BY <1>t, <1>l, <1>i, <1>24, DoesCloseFails DEF Quiet, Early
    <2>6. due[c] \in Seq(N!Call) /\ ran[c] \in Seq(N!Call)
        BY <1>24, <1>y
    <2>7. LineOf(job'[c], processes'[c], due[c], ran[c])
        BY <2>2, <2>3, <2>4, <2>5, <2>6, LineIsLeft
    <2>8. LineOf(job'[c], processes'[c], due'[c], ran'[c])
        BY <2>3, <2>7
    <2>9. Lines'
        BY <1>l, <1>24, <2>1, <2>8, LinesStay
    <2>10. QED
        BY <2>9
<1>25. ASSUME NEW c \in Command, Signal(c), UNCHANGED <<notifiers, telling, worked>> PROVE Good
    <2>1. \A d \in Command : d # c =>
             /\ job'[d] = job[d] /\ processes'[d] = processes[d]
             /\ due'[d] = due[d] /\ ran'[d] = ran[d]
        <3>1. \A d \in Command : d # c => job'[d] = job[d]
            BY <1>t, <1>25, DoesSignal DEF OnlyQueues
        <3>2. \A d \in Command : d # c => processes'[d] = processes[d]
            BY <1>t, <1>25, DoesSignal DEF OnlyQueues
        <3>3. \A d \in Command : d # c => due'[d] = due[d]
            BY <1>t, <1>25, DoesSignal DEF OnlyQueues
        <3>4. \A d \in Command : d # c => ran'[d] = ran[d]
            BY <1>t, <1>25, DoesSignal DEF OnlyQueues
        <3>5. QED
            BY <3>1, <3>2, <3>3, <3>4
    <2>2. LineOf(job[c], processes[c], due[c], ran[c])
        BY <1>25, <1>l DEF Lines, LineOf
    <2>3. UNCHANGED <<processes, due, ran>>
        BY <1>t, <1>25, DoesSignal DEF OnlyQueues
    <2>4. job[c].at \notin {"ended", "died"} /\ job'[c].at \notin {"ended", "died"}
        BY <1>t, <1>25, DoesSignal DEF Creating
    <2>5. LineOf(job'[c], processes'[c], due'[c], ran'[c])
        BY <2>2, <2>3, <2>4, LineGoesOn
    <2>6. Lines'
        BY <1>l, <1>25, <2>1, <2>5, LinesStay
    <2>7. QED
        BY <2>6
<1>26. ASSUME NEW c \in Command, Kill(c), N!Abandon(c), telling' = [telling EXCEPT ![c] = None], UNCHANGED worked PROVE Good
    <2>1. \A d \in Command : d # c =>
             /\ job'[d] = job[d] /\ processes'[d] = processes[d]
             /\ due'[d] = due[d] /\ ran'[d] = ran[d]
        <3>1. \A d \in Command : d # c => job'[d] = job[d]
            BY <1>t, <1>i, <1>26, DoesKill DEF OnlyQueues
        <3>2. \A d \in Command : d # c => processes'[d] = processes[d]
            BY <1>t, <1>i, <1>26, DoesKill, DoesAbandon DEF OnlyQueues
        <3>3. \A d \in Command : d # c => due'[d] = due[d]
            BY <1>t, <1>i, <1>26, DoesKill DEF OnlyQueues
        <3>4. \A d \in Command : d # c => ran'[d] = ran[d]
            BY <1>t, <1>i, <1>26, DoesKill DEF OnlyQueues
        <3>5. QED
            BY <3>1, <3>2, <3>3, <3>4
    <2>2. LineOf(job[c], processes[c], due[c], ran[c])
        BY <1>26, <1>l DEF Lines, LineOf
    <2>3. /\ due' = due /\ ran' = ran
          /\ job[c].at \notin {"ended", "died"} /\ job'[c].at \in {"ended", "died"}
        BY <1>t, <1>i, <1>26, DoesKill DEF Inside
    <2>4. \A i \in DOMAIN processes'[c] : i > 1 => processes'[c][i].state = "waiting"
        BY <1>t, <2>2, <1>i, <1>26, DoesKill, DoesAbandon DEF LineOf
    <2>5. job'[c].at = "ended" /\ ~job'[c].interrupted => processes[c] = <<>>
        BY <1>t, <1>l, <1>i, <1>26, DoesKill DEF Quiet, Early
    <2>6. due[c] \in Seq(N!Call) /\ ran[c] \in Seq(N!Call)
        BY <1>26, <1>y
    <2>7. LineOf(job'[c], processes'[c], due[c], ran[c])
        BY <2>2, <2>3, <2>4, <2>5, <2>6, LineIsLeft
    <2>8. LineOf(job'[c], processes'[c], due'[c], ran'[c])
        BY <2>3, <2>7
    <2>9. Lines'
        BY <1>l, <1>26, <2>1, <2>8, LinesStay
    <2>10. QED
        BY <2>9
<1>27. ASSUME NEW c \in Command, StartAction(c) PROVE Good
    <2>1. \A d \in Command : d # c =>
             /\ job'[d] = job[d] /\ processes'[d] = processes[d]
             /\ due'[d] = due[d] /\ ran'[d] = ran[d]
        <3>1. \A d \in Command : d # c => job'[d] = job[d]
            BY <1>t, <1>27, DoesStartAction DEF OnlyQueues
        <3>2. \A d \in Command : d # c => processes'[d] = processes[d]
            BY <1>t, <1>27, DoesStartAction DEF OnlyQueues
        <3>3. \A d \in Command : d # c => due'[d] = due[d]
            BY <1>t, <1>27, DoesStartAction DEF OnlyQueues
        <3>4. \A d \in Command : d # c => ran'[d] = ran[d]
            BY <1>t, <1>27, DoesStartAction DEF OnlyQueues
        <3>5. QED
            BY <3>1, <3>2, <3>3, <3>4
    <2>2. LineOf(job[c], processes[c], due[c], ran[c])
        BY <1>27, <1>l DEF Lines, LineOf
    <2>3. UNCHANGED <<processes, due, ran>>
        BY <1>t, <1>27, DoesStartAction DEF OnlyQueues
    <2>4. job[c].at \notin {"ended", "died"} /\ job'[c].at \notin {"ended", "died"}
        BY <1>t, <1>27, DoesStartAction DEF Creating
    <2>5. LineOf(job'[c], processes'[c], due'[c], ran'[c])
        BY <2>2, <2>3, <2>4, LineGoesOn
    <2>6. Lines'
        BY <1>l, <1>27, <2>1, <2>5, LinesStay
    <2>7. QED
        BY <2>6
<1>28. ASSUME NEW c \in Command, StartFails(c) PROVE Good
    <2>1. \A d \in Command : d # c =>
             /\ job'[d] = job[d] /\ processes'[d] = processes[d]
             /\ due'[d] = due[d] /\ ran'[d] = ran[d]
        <3>1. \A d \in Command : d # c => job'[d] = job[d]
            BY <1>t, <1>28, DoesStartFails DEF OnlyQueues
        <3>2. \A d \in Command : d # c => processes'[d] = processes[d]
            BY <1>t, <1>28, DoesStartFails DEF OnlyQueues
        <3>3. \A d \in Command : d # c => due'[d] = due[d]
            BY <1>t, <1>28, DoesStartFails DEF OnlyQueues
        <3>4. \A d \in Command : d # c => ran'[d] = ran[d]
            BY <1>t, <1>28, DoesStartFails DEF OnlyQueues
        <3>5. QED
            BY <3>1, <3>2, <3>3, <3>4
    <2>2. LineOf(job[c], processes[c], due[c], ran[c])
        BY <1>28, <1>l DEF Lines, LineOf
    <2>3. UNCHANGED <<processes, due, ran>>
        BY <1>t, <1>28, DoesStartFails DEF OnlyQueues
    <2>4. job[c].at \notin {"ended", "died"} /\ job'[c].at \notin {"ended", "died"}
        BY <1>t, <1>28, DoesStartFails DEF Creating
    <2>5. LineOf(job'[c], processes'[c], due'[c], ran'[c])
        BY <2>2, <2>3, <2>4, LineGoesOn
    <2>6. Lines'
        BY <1>l, <1>28, <2>1, <2>5, LinesStay
    <2>7. QED
        BY <2>6
<1>29. ASSUME NEW c \in Command, EndAction(c) PROVE Good
    <2>1. \A d \in Command : d # c =>
             /\ job'[d] = job[d] /\ processes'[d] = processes[d]
             /\ due'[d] = due[d] /\ ran'[d] = ran[d]
        <3>1. \A d \in Command : d # c => job'[d] = job[d]
            BY <1>t, <1>29, DoesEndAction DEF OnlyQueues
        <3>2. \A d \in Command : d # c => processes'[d] = processes[d]
            BY <1>t, <1>29, DoesEndAction DEF OnlyQueues
        <3>3. \A d \in Command : d # c => due'[d] = due[d]
            BY <1>t, <1>29, DoesEndAction DEF OnlyQueues
        <3>4. \A d \in Command : d # c => ran'[d] = ran[d]
            BY <1>t, <1>29, DoesEndAction DEF OnlyQueues
        <3>5. QED
            BY <3>1, <3>2, <3>3, <3>4
    <2>2. LineOf(job[c], processes[c], due[c], ran[c])
        BY <1>29, <1>l DEF Lines, LineOf
    <2>3. UNCHANGED <<processes, due, ran>>
        BY <1>t, <1>29, DoesEndAction DEF OnlyQueues
    <2>4. job[c].at \notin {"ended", "died"} /\ job'[c].at \notin {"ended", "died"}
        BY <1>t, <1>29, DoesEndAction DEF Creating
    <2>5. LineOf(job'[c], processes'[c], due'[c], ran'[c])
        BY <2>2, <2>3, <2>4, LineGoesOn
    <2>6. Lines'
        BY <1>l, <1>29, <2>1, <2>5, LinesStay
    <2>7. QED
        BY <2>6
<1>30. ASSUME NEW c \in Command, Waited(c) PROVE Good
    <2>1. \A d \in Command : d # c =>
             /\ job'[d] = job[d] /\ processes'[d] = processes[d]
             /\ due'[d] = due[d] /\ ran'[d] = ran[d]
        <3>1. \A d \in Command : d # c => job'[d] = job[d]
            BY <1>t, <1>30, DoesWaited DEF OnlyQueues
        <3>2. \A d \in Command : d # c => processes'[d] = processes[d]
            BY <1>t, <1>30, DoesWaited DEF OnlyQueues
        <3>3. \A d \in Command : d # c => due'[d] = due[d]
            BY <1>t, <1>30, DoesWaited DEF OnlyQueues
        <3>4. \A d \in Command : d # c => ran'[d] = ran[d]
            BY <1>t, <1>30, DoesWaited DEF OnlyQueues
        <3>5. QED
            BY <3>1, <3>2, <3>3, <3>4
    <2>2. LineOf(job[c], processes[c], due[c], ran[c])
        BY <1>30, <1>l DEF Lines, LineOf
    <2>3. UNCHANGED <<processes, due, ran>>
        BY <1>t, <1>30, DoesWaited DEF OnlyQueues
    <2>4. job[c].at \notin {"ended", "died"} /\ job'[c].at \notin {"ended", "died"}
        BY <1>t, <1>30, DoesWaited DEF Creating
    <2>5. LineOf(job'[c], processes'[c], due'[c], ran'[c])
        BY <2>2, <2>3, <2>4, LineGoesOn
    <2>6. Lines'
        BY <1>l, <1>30, <2>1, <2>5, LinesStay
    <2>7. QED
        BY <2>6
<1>31. ASSUME NEW c \in Command, Tidy(c) PROVE Good
    <2>1. \A d \in Command : d # c =>
             /\ job'[d] = job[d] /\ processes'[d] = processes[d]
             /\ due'[d] = due[d] /\ ran'[d] = ran[d]
        <3>1. \A d \in Command : d # c => job'[d] = job[d]
            BY <1>t, <1>31, DoesTidy DEF OnlyQueues
        <3>2. \A d \in Command : d # c => processes'[d] = processes[d]
            BY <1>t, <1>31, DoesTidy DEF OnlyQueues
        <3>3. \A d \in Command : d # c => due'[d] = due[d]
            BY <1>t, <1>31, DoesTidy DEF OnlyQueues
        <3>4. \A d \in Command : d # c => ran'[d] = ran[d]
            BY <1>t, <1>31, DoesTidy DEF OnlyQueues
        <3>5. QED
            BY <3>1, <3>2, <3>3, <3>4
    <2>2. LineOf(job[c], processes[c], due[c], ran[c])
        BY <1>31, <1>l DEF Lines, LineOf
    <2>3. UNCHANGED <<processes, due, ran>>
        BY <1>t, <1>31, DoesTidy DEF OnlyQueues
    <2>4. job[c].at \notin {"ended", "died"} /\ job'[c].at \notin {"ended", "died"}
        BY <1>t, <1>31, DoesTidy DEF Creating
    <2>5. LineOf(job'[c], processes'[c], due'[c], ran'[c])
        BY <2>2, <2>3, <2>4, LineGoesOn
    <2>6. Lines'
        BY <1>l, <1>31, <2>1, <2>5, LinesStay
    <2>7. QED
        BY <2>6
<1>32. ASSUME NEW c \in Command, TellNext(c) PROVE Good
    <2>1. \A d \in Command : d # c =>
             /\ job'[d] = job[d] /\ processes'[d] = processes[d]
             /\ due'[d] = due[d] /\ ran'[d] = ran[d]
        <3>1. \A d \in Command : d # c => job'[d] = job[d]
            BY <1>t, <1>i, <1>32, DoesTellNext DEF OnlyQueues
        <3>2. \A d \in Command : d # c => processes'[d] = processes[d]
            BY <1>t, <1>i, <1>32, DoesTellNext DEF OnlyQueues
        <3>3. \A d \in Command : d # c => due'[d] = due[d]
            BY <1>t, <1>i, <1>32, DoesTellNext DEF OnlyQueues
        <3>4. \A d \in Command : d # c => ran'[d] = ran[d]
            BY <1>t, <1>i, <1>32, DoesTellNext DEF OnlyQueues
        <3>5. QED
            BY <3>1, <3>2, <3>3, <3>4
    <2>2. LineOf(job[c], processes[c], due[c], ran[c])
        BY <1>32, <1>l DEF Lines, LineOf
    <2>3. QueueOf(processes'[c], due'[c], ran'[c]) /\ job'[c].at \notin {"ended", "died"}
        <3>1. QueueOf(processes'[c], due'[c], ran'[c])
            BY <1>i, <1>32, DoesTellNext DEF OnlyQueues
        <3>2. job'[c].at \notin {"ended", "died"}
            BY <1>i, <1>32, DoesTellNext
        <3>3. QED
            BY <3>1, <3>2
    <2>4. LineOf(job'[c], processes'[c], due'[c], ran'[c])
        BY <2>3, LineMoves
    <2>5. Lines'
        BY <1>l, <1>32, <2>1, <2>4, LinesStay
    <2>6. QED
        BY <2>5
<1>33. ASSUME NEW c \in Command, Turn(c) PROVE Good
    <2>1. \A d \in Command : d # c =>
             /\ job'[d] = job[d] /\ processes'[d] = processes[d]
             /\ due'[d] = due[d] /\ ran'[d] = ran[d]
        <3>1. \A d \in Command : d # c => job'[d] = job[d]
            BY <1>t, <1>i, <1>33, DoesTurn DEF OnlyQueues
        <3>2. \A d \in Command : d # c => processes'[d] = processes[d]
            BY <1>t, <1>i, <1>33, DoesTurn DEF OnlyQueues
        <3>3. \A d \in Command : d # c => due'[d] = due[d]
            BY <1>t, <1>i, <1>33, DoesTurn DEF OnlyQueues
        <3>4. \A d \in Command : d # c => ran'[d] = ran[d]
            BY <1>t, <1>i, <1>33, DoesTurn DEF OnlyQueues
        <3>5. QED
            BY <3>1, <3>2, <3>3, <3>4
    <2>2. LineOf(job[c], processes[c], due[c], ran[c])
        BY <1>33, <1>l DEF Lines, LineOf
    <2>3. QueueOf(processes'[c], due'[c], ran'[c]) /\ job'[c].at \notin {"ended", "died"}
        <3>1. QueueOf(processes'[c], due'[c], ran'[c])
            BY <1>i, <1>33, DoesTurn DEF OnlyQueues
        <3>2. job'[c].at \notin {"ended", "died"}
            BY <1>i, <1>33, DoesTurn
        <3>3. QED
            BY <3>1, <3>2
    <2>4. LineOf(job'[c], processes'[c], due'[c], ran'[c])
        BY <2>3, LineMoves
    <2>5. Lines'
        BY <1>l, <1>33, <2>1, <2>4, LinesStay
    <2>6. QED
        BY <2>5
<1>34. ASSUME NEW c \in Command, N!ScriptEnds(c), UNCHANGED <<database, telling, worked>> PROVE Good
    <2>1. \A d \in Command : d # c =>
             /\ job'[d] = job[d] /\ processes'[d] = processes[d]
             /\ due'[d] = due[d] /\ ran'[d] = ran[d]
        <3>1. \A d \in Command : d # c => job'[d] = job[d]
            BY <1>t, <1>i, <1>34, DoesScriptEnds DEF database, OnlyQueues
        <3>2. \A d \in Command : d # c => processes'[d] = processes[d]
            BY <1>t, <1>i, <1>34, DoesScriptEnds DEF database, OnlyQueues
        <3>3. \A d \in Command : d # c => due'[d] = due[d]
            BY <1>t, <1>i, <1>34, DoesScriptEnds DEF database, OnlyQueues
        <3>4. \A d \in Command : d # c => ran'[d] = ran[d]
            BY <1>t, <1>i, <1>34, DoesScriptEnds DEF database, OnlyQueues
        <3>5. QED
            BY <3>1, <3>2, <3>3, <3>4
    <2>2. LineOf(job[c], processes[c], due[c], ran[c])
        BY <1>34, <1>l DEF Lines, LineOf
    <2>3. UNCHANGED <<job, due, ran>>
        BY <1>i, <1>34, DoesScriptEnds DEF database
    <2>4. \A i \in DOMAIN processes'[c] : i > 1 => processes'[c][i].state = "waiting"
        BY <1>i, <1>34, DoesScriptEnds
    <2>5. QueueOf(processes[c], due[c], ran[c]) => QueueOf(processes'[c], due'[c], ran'[c])
        BY <1>i, <1>34, DoesScriptEnds
    <2>6. LineOf(job'[c], processes'[c], due'[c], ran'[c])
        BY <2>2, <2>3, <2>4, <2>5 DEF LineOf
    <2>7. Lines'
        BY <1>l, <1>34, <2>1, <2>6, LinesStay
    <2>8. QED
        BY <2>7
<1>35. ASSUME DeleteLockfile, UNCHANGED <<notifiers, telling, worked>> PROVE Good
    BY <1>l, <1>35 DEF DeleteLockfile, Lines, notifiers
<1>36. QED
    <2> HIDE DEF Good
    <2>1. Good
        BY Zenon, <1>1, <1>2, <1>3, <1>4, <1>5, <1>6, <1>7, <1>8, <1>9, <1>10, <1>11, <1>12,
           <1>13, <1>14, <1>15, <1>16, <1>17, <1>18, <1>19, <1>20, <1>21, <1>22, <1>23,
           <1>24, <1>25, <1>26, <1>27, <1>28, <1>29, <1>30, <1>31, <1>32, <1>33, <1>34,
           <1>35 DEF Next, Step, DatabaseStep, CallStep, Change
    <2>2. QED
        BY <2>1 DEF Good

-----------------------------------------------------------------------------
(* What the files hold.                                                    *)

PlacedAt(j, p, n, l) ==
    /\ (j.at \in {"secondary", "open", "close table"} /\ ~j.ro => j.table \in Tables(p))
    /\ (j.at = "open" /\ ~j.ro => n # None)
    /\ (j.at = "copy" => j.back \in Tables(p))
    /\ (j.at \in {"translate", "copy"} =>
            /\ l # None
            /\ \A r \in Records(l) :
                \/ r.target \in j.make
                \/ j.at = "copy" /\ r.target = j.back
                \/ <<r.target, r.package>> \in Pairs(p))

UnderwayAt(j, t) ==
    \/ j.at = "secondary" /\ ~j.ro /\ j.table = t
    \/ j.at = "copy" /\ j.back = t

(* A process that is outside has no place in the files.                    *)
LEMMA OutsidePlaced ==
    ASSUME NEW d \in Command, ~Inside(d), NEW p, NEW n, NEW l
    PROVE  PlacedAt(job[d], p, n, l) /\ \A t : ~UnderwayAt(job[d], t)
BY DEF PlacedAt, UnderwayAt, Inside, Over

LEMMA PlacedStays ==
    ASSUME Placed, LockHeld, NEW c \in Command,
           \A d \in Command : d # c => job'[d] = job[d],
           Inside(c) \/ UNCHANGED <<packages, names, legacy>>,
           PlacedAt(job'[c], packages', names', legacy')
    PROVE  Placed'
<1>1. \A d \in Command : PlacedAt(job[d], packages, names, legacy)
    BY DEF Placed, PlacedAt
<1>2. ASSUME NEW d \in Command, d # c
      PROVE  PlacedAt(job'[d], packages', names', legacy')
    <2>1. job'[d] = job[d]
        BY <1>2
    <2>2. CASE Inside(c)
        <3>1. ~Inside(d)
            BY <1>2, <2>2 DEF LockHeld
        <3>2. PlacedAt(job[d], packages', names', legacy')
            BY <3>1, OutsidePlaced
        <3>3. QED
            BY <2>1, <3>2
    <2>3. CASE UNCHANGED <<packages, names, legacy>>
        BY <1>1, <2>1, <2>3
    <2>4. QED
        BY <2>2, <2>3
<1>3. \A d \in Command : PlacedAt(job'[d], packages', names', legacy')
    BY <1>2
<1>4. QED
    BY <1>3 DEF Placed, PlacedAt

LEMMA PairedStays ==
    ASSUME Paired, NEW c \in Command,
           \A d \in Command : d # c => job'[d] = job[d],
           UNCHANGED <<packages, names, legacy>>, torn => torn',
           ~torn' => \A x : UnderwayAt(job[c], x) => UnderwayAt(job'[c], x)
    PROVE  Paired'
<1>1. ~torn /\ legacy # None =>
          \A t \in Tables(packages) : t \in Tables(names) \/ \E d \in Command : UnderwayAt(job[d], t)
    BY DEF Paired, Underway, UnderwayAt
<1>2. ~torn' /\ legacy' # None =>
          \A t \in Tables(packages') :
              t \in Tables(names') \/ \E d \in Command : UnderwayAt(job'[d], t)
    BY <1>1
<1>3. QED
    BY <1>2 DEF Paired, Underway, UnderwayAt

(* What the process that is inside finds.                                  *)
LEMMA PairedInside ==
    ASSUME Paired, LockHeld, NEW c \in Command, Inside(c), ~torn, legacy # None,
           NEW t \in Tables(packages)
    PROVE  t \in Tables(names) \/ UnderwayAt(job[c], t)
<1>1. t \in Tables(names) \/ \E d \in Command : UnderwayAt(job[d], t)
    BY DEF Paired, Underway, UnderwayAt
<1>2. \A d \in Command : UnderwayAt(job[d], t) => Inside(d)
    BY OutsidePlaced
<1>3. QED
    BY <1>1, <1>2 DEF LockHeld

LEMMA PairedAgain ==
    ASSUME NEW c \in Command,
           ~torn' /\ legacy' # None =>
              \A t \in Tables(packages') : t \in Tables(names') \/ UnderwayAt(job'[c], t)
    PROVE  Paired'
<1>1. ~torn' /\ legacy' # None =>
          \A t \in Tables(packages') :
              t \in Tables(names') \/ \E d \in Command : UnderwayAt(job'[d], t)
    OBVIOUS
<1>2. QED
    BY <1>1 DEF Paired, Underway, UnderwayAt

LEMMA PairsOfBoth ==
    ASSUME NEW p, NEW l
    PROVE  {<<r.target, r.package>> : r \in Records(p) \cup Records(l)} = Pairs(p) \cup Pairs(l)
BY DEF Pairs

LEMMA NothingLostIs == NothingLost <=> torn \/ stored \subseteq Pairs(packages) \cup Pairs(legacy)
<1>1. {<<r.target, r.package>> : r \in Records(packages) \cup Records(legacy)}
          = Pairs(packages) \cup Pairs(legacy)
    BY PairsOfBoth
<1>2. QED
    BY <1>1 DEF NothingLost

LEMMA NothingLostNext ==
    ASSUME torn' \/ stored' \subseteq Pairs(packages') \cup Pairs(legacy')
    PROVE  NothingLost'
<1>1. {<<r.target, r.package>> : r \in Records(packages') \cup Records(legacy')}
          = Pairs(packages') \cup Pairs(legacy')
    BY PairsOfBoth
<1>2. QED
    BY <1>1 DEF NothingLost

LEMMA PairsOfMore ==
    ASSUME NEW p, NEW q, Records(p) \subseteq Records(q)
    PROVE  Pairs(p) \subseteq Pairs(q)
BY DEF Pairs

LEMMA PairsOfNone == Tables(None) = {} /\ Records(None) = {} /\ Pairs(None) = {}
BY DEF Tables, Records, Pairs

LEMMA GoodOfNone == \A r \in Records(None) : r.target \in Tables(None)
BY PairsOfNone

LEMMA GoodNext ==
    ASSUME \A r \in Records(packages') : r.target \in Tables(packages'),
           \A r \in Records(legacy') : r.target \in Tables(legacy')
    PROVE  GoodFiles'
BY DEF GoodFiles

LEMMA HalfwayIs ==
    ASSUME NEW c \in Command, ~Halfway(c), NEW t, UnderwayAt(job[c], t)
    PROVE  t \in Tables(names)
BY DEF Halfway, UnderwayAt, At

(* Ending early takes nothing away.                                        *)
LEMMA FilesLeftGood ==
    ASSUME TypeFiles, Placed, LockHeld, Paired, GoodFiles, NothingLost, NEW c \in Command,
           Inside(c), \A d \in Command : d # c => job'[d] = job[d],
           job'[c].at \notin {"secondary", "open", "close table", "translate", "copy"},
           FilesLeft(c), UNCHANGED <<legacy, stored>>
    PROVE  Placed' /\ GoodFiles' /\ Paired' /\ NothingLost'
<1>1. ~torn /\ legacy # None =>
          \A t \in Tables(packages) : t \in Tables(names) \/ UnderwayAt(job[c], t)
    BY PairedInside
<1>2. torn \/ stored \subseteq Pairs(packages) \cup Pairs(legacy)
    BY NothingLostIs
<1>3. Placed'
    <2>1. PlacedAt(job'[c], packages', names', legacy')
        BY DEF PlacedAt
    <2>2. QED
        BY <2>1, PlacedStays
<1>4. CASE CopiedInPart(c)
    <2>1. /\ job[c].at = "copy" /\ job[c].back \in Tables(packages) /\ torn' = torn
          /\ Tables(packages') = Tables(packages)
          /\ Tables(names') = Tables(names) \cup {job[c].back}
          /\ Records(packages) \subseteq Records(packages')
          /\ \A r \in Records(packages') \ Records(packages) : r.target = job[c].back
        BY <1>4, CopiedInPartIs
    <2>2. GoodFiles'
        <3>1. \A r \in Records(packages') : r.target \in Tables(packages')
            BY <2>1 DEF GoodFiles
        <3>2. \A r \in Records(legacy') : r.target \in Tables(legacy')
            BY DEF GoodFiles
        <3>3. QED
            BY <3>1, <3>2, GoodNext
    <2>3. ~torn' /\ legacy' # None =>
              \A t \in Tables(packages') : t \in Tables(names') \/ UnderwayAt(job'[c], t)
        BY <1>1, <2>1 DEF UnderwayAt
    <2>4. Pairs(packages) \subseteq Pairs(packages')
        BY <2>1, PairsOfMore
    <2>5. torn' \/ stored' \subseteq Pairs(packages') \cup Pairs(legacy')
        BY <1>2, <2>1, <2>4
    <2>6. QED
        BY <1>3, <2>2, <2>3, <2>5, PairedAgain, NothingLostNext
<1>5. CASE packages' = packages /\ names' = names /\ torn' = (torn \/ Halfway(c))
    <2>1. GoodFiles'
        BY <1>5 DEF GoodFiles
    <2>2. ~torn' /\ legacy' # None =>
              \A t \in Tables(packages') : t \in Tables(names') \/ UnderwayAt(job'[c], t)
        BY <1>1, <1>5, HalfwayIs
    <2>3. torn' \/ stored' \subseteq Pairs(packages') \cup Pairs(legacy')
        BY <1>2, <1>5
    <2>4. QED
        BY <1>3, <2>1, <2>2, <2>3, PairedAgain, NothingLostNext
<1>6. QED
    BY <1>4, <1>5 DEF FilesLeft

LEMMA FilesKept ==
    ASSUME IInv, Next
    PROVE  Placed' /\ GoodFiles' /\ Paired' /\ NothingLost'
<1> DEFINE Good == Placed' /\ GoodFiles' /\ Paired' /\ NothingLost'
<1>t. TypeOK /\ Returns
    BY DEF IInv
<1>i. IInv
    OBVIOUS
<1>l. LockHeld /\ Placed /\ Paired
    BY DEF IInv
<1>g. GoodFiles /\ NothingLost
    BY DEF IInv
<1>f. /\ packages \in File \cup {None} /\ names \in File \cup {None}
      /\ legacy \in File \cup {None} /\ None \notin File
    BY <1>t, TypeParts, NoneIsNoFile DEF TypeFiles
<1>1. ASSUME NEW c \in Command, Begin(c), UNCHANGED <<notifiers, telling, worked>> PROVE Good
    <2>1. \A d \in Command : d # c => job'[d] = job[d]
        BY <1>t, <1>1, DoesBegin DEF OnlyQueues
    <2>2. PlacedAt(job[c], packages, names, legacy)
        BY <1>1, <1>l DEF Placed, PlacedAt
    <2>3. UNCHANGED <<packages, names, legacy, stored>> /\ (torn => torn')
        BY <1>t, <1>1, DoesBegin
    <2>4. PlacedAt(job'[c], packages, names, legacy)
        BY <1>t, <1>1, <2>2, DoesBegin DEF PlacedAt, Creating
    <2>5. ~torn' => \A x : UnderwayAt(job[c], x) => UnderwayAt(job'[c], x)
        BY <1>t, <1>1, DoesBegin DEF UnderwayAt, Creating
    <2>6. PlacedAt(job'[c], packages', names', legacy')
        BY <2>3, <2>4
    <2>7. Placed'
        BY <1>l, <1>1, <2>1, <2>3, <2>6, PlacedStays
    <2>8. GoodFiles'
        BY <1>g, <2>3 DEF GoodFiles
    <2>9. Paired'
        BY <1>l, <1>1, <2>1, <2>3, <2>5, PairedStays
    <2>10. NothingLost'
        BY <1>g, <2>3 DEF NothingLost
    <2>11. QED
        BY <2>7, <2>8, <2>9, <2>10
<1>2. ASSUME NEW c \in Command, Acquire(c), UNCHANGED <<notifiers, telling, worked>> PROVE Good
    <2>1. \A d \in Command : d # c => job'[d] = job[d]
        BY <1>t, <1>2, DoesAcquire DEF OnlyQueues
    <2>2. PlacedAt(job[c], packages, names, legacy)
        BY <1>2, <1>l DEF Placed, PlacedAt
    <2>3. UNCHANGED <<packages, names, legacy, stored>> /\ (torn => torn')
        BY <1>t, <1>2, DoesAcquire
    <2>4. PlacedAt(job'[c], packages, names, legacy)
        BY <1>t, <1>2, <2>2, DoesAcquire DEF PlacedAt, Creating
    <2>5. ~torn' => \A x : UnderwayAt(job[c], x) => UnderwayAt(job'[c], x)
        BY <1>t, <1>2, DoesAcquire DEF UnderwayAt, Creating
    <2>6. PlacedAt(job'[c], packages', names', legacy')
        BY <2>3, <2>4
    <2>7. Placed'
        BY <1>l, <1>2, <2>1, <2>3, <2>6, PlacedStays
    <2>8. GoodFiles'
        BY <1>g, <2>3 DEF GoodFiles
    <2>9. Paired'
        BY <1>l, <1>2, <2>1, <2>3, <2>5, PairedStays
    <2>10. NothingLost'
        BY <1>g, <2>3 DEF NothingLost
    <2>11. QED
        BY <2>7, <2>8, <2>9, <2>10
<1>3. ASSUME NEW c \in Command, TryAgain(c), UNCHANGED <<notifiers, telling, worked>> PROVE Good
    <2>1. \A d \in Command : d # c => job'[d] = job[d]
        BY <1>t, <1>3, DoesTryAgain DEF OnlyQueues
    <2>2. PlacedAt(job[c], packages, names, legacy)
        BY <1>3, <1>l DEF Placed, PlacedAt
    <2>3. UNCHANGED <<packages, names, legacy, stored>> /\ (torn => torn')
        BY <1>t, <1>3, DoesTryAgain
    <2>4. PlacedAt(job'[c], packages, names, legacy)
        BY <1>t, <1>3, <2>2, DoesTryAgain DEF PlacedAt, Creating
    <2>5. ~torn' => \A x : UnderwayAt(job[c], x) => UnderwayAt(job'[c], x)
        BY <1>t, <1>3, DoesTryAgain DEF UnderwayAt, Creating
    <2>6. PlacedAt(job'[c], packages', names', legacy')
        BY <2>3, <2>4
    <2>7. Placed'
        BY <1>l, <1>3, <2>1, <2>3, <2>6, PlacedStays
    <2>8. GoodFiles'
        BY <1>g, <2>3 DEF GoodFiles
    <2>9. Paired'
        BY <1>l, <1>3, <2>1, <2>3, <2>5, PairedStays
    <2>10. NothingLost'
        BY <1>g, <2>3 DEF NothingLost
    <2>11. QED
        BY <2>7, <2>8, <2>9, <2>10
<1>4. ASSUME NEW c \in Command, GiveUp(c), UNCHANGED <<notifiers, telling, worked>> PROVE Good
    <2>1. \A d \in Command : d # c => job'[d] = job[d]
        BY <1>t, <1>4, DoesGiveUp DEF OnlyQueues
    <2>2. PlacedAt(job[c], packages, names, legacy)
        BY <1>4, <1>l DEF Placed, PlacedAt
    <2>3. UNCHANGED <<packages, names, legacy, stored>> /\ (torn => torn')
        BY <1>t, <1>4, DoesGiveUp
    <2>4. PlacedAt(job'[c], packages, names, legacy)
        BY <1>t, <1>4, <2>2, DoesGiveUp DEF PlacedAt, Creating
    <2>5. ~torn' => \A x : UnderwayAt(job[c], x) => UnderwayAt(job'[c], x)
        BY <1>t, <1>4, DoesGiveUp DEF UnderwayAt, Creating
    <2>6. PlacedAt(job'[c], packages', names', legacy')
        BY <2>3, <2>4
    <2>7. Placed'
        BY <1>l, <1>4, <2>1, <2>3, <2>6, PlacedStays
    <2>8. GoodFiles'
        BY <1>g, <2>3 DEF GoodFiles
    <2>9. Paired'
        BY <1>l, <1>4, <2>1, <2>3, <2>5, PairedStays
    <2>10. NothingLost'
        BY <1>g, <2>3 DEF NothingLost
    <2>11. QED
        BY <2>7, <2>8, <2>9, <2>10
<1>5. ASSUME NEW c \in Command, EnvironmentFails(c), UNCHANGED <<notifiers, telling, worked>> PROVE Good
    <2>1. \A d \in Command : d # c => job'[d] = job[d]
        BY <1>t, <1>5, DoesEnvironmentFails DEF OnlyQueues
    <2>2. PlacedAt(job[c], packages, names, legacy)
        BY <1>5, <1>l DEF Placed, PlacedAt
    <2>3. UNCHANGED <<packages, names, legacy, stored>> /\ (torn => torn')
        BY <1>t, <1>5, DoesEnvironmentFails
    <2>4. PlacedAt(job'[c], packages, names, legacy)
        BY <1>t, <1>5, <2>2, DoesEnvironmentFails DEF PlacedAt, Creating
    <2>5. ~torn' => \A x : UnderwayAt(job[c], x) => UnderwayAt(job'[c], x)
        BY <1>t, <1>5, DoesEnvironmentFails DEF UnderwayAt, Creating
    <2>6. PlacedAt(job'[c], packages', names', legacy')
        BY <2>3, <2>4
    <2>7. Placed'
        BY <1>l, <1>5, <2>1, <2>3, <2>6, PlacedStays
    <2>8. GoodFiles'
        BY <1>g, <2>3 DEF GoodFiles
    <2>9. Paired'
        BY <1>l, <1>5, <2>1, <2>3, <2>5, PairedStays
    <2>10. NothingLost'
        BY <1>g, <2>3 DEF NothingLost
    <2>11. QED
        BY <2>7, <2>8, <2>9, <2>10
<1>6. ASSUME NEW c \in Command, VersionUnreadable(c), UNCHANGED <<notifiers, telling, worked>> PROVE Good
    <2>1. \A d \in Command : d # c => job'[d] = job[d]
        BY <1>t, <1>6, DoesVersionUnreadable DEF OnlyQueues
    <2>2. PlacedAt(job[c], packages, names, legacy)
        BY <1>6, <1>l DEF Placed, PlacedAt
    <2>3. UNCHANGED <<packages, names, legacy, stored>> /\ (torn => torn')
        BY <1>t, <1>6, DoesVersionUnreadable
    <2>4. PlacedAt(job'[c], packages, names, legacy)
        BY <1>t, <1>6, <2>2, DoesVersionUnreadable DEF PlacedAt, Creating
    <2>5. ~torn' => \A x : UnderwayAt(job[c], x) => UnderwayAt(job'[c], x)
        BY <1>t, <1>6, DoesVersionUnreadable DEF UnderwayAt, Creating
    <2>6. PlacedAt(job'[c], packages', names', legacy')
        BY <2>3, <2>4
    <2>7. Placed'
        BY <1>l, <1>6, <2>1, <2>3, <2>6, PlacedStays
    <2>8. GoodFiles'
        BY <1>g, <2>3 DEF GoodFiles
    <2>9. Paired'
        BY <1>l, <1>6, <2>1, <2>3, <2>5, PairedStays
    <2>10. NothingLost'
        BY <1>g, <2>3 DEF NothingLost
    <2>11. QED
        BY <2>7, <2>8, <2>9, <2>10
<1>7. ASSUME NEW c \in Command, Create(c), UNCHANGED <<notifiers, telling, worked>> PROVE Good
    <2>1. \A d \in Command : d # c => job'[d] = job[d]
        BY <1>t, <1>7, DoesCreate DEF OnlyQueues
    <2>2. PlacedAt(job[c], packages, names, legacy)
        BY <1>7, <1>l DEF Placed, PlacedAt
    <2>3. UNCHANGED <<packages, names, legacy, stored>> /\ (torn => torn')
        BY <1>t, <1>7, DoesCreate
    <2>4. PlacedAt(job'[c], packages, names, legacy)
        BY <1>t, <1>7, <2>2, DoesCreate DEF PlacedAt, Creating
    <2>5. ~torn' => \A x : UnderwayAt(job[c], x) => UnderwayAt(job'[c], x)
        BY <1>t, <1>7, DoesCreate DEF UnderwayAt, Creating
    <2>6. PlacedAt(job'[c], packages', names', legacy')
        BY <2>3, <2>4
    <2>7. Placed'
        BY <1>l, <1>7, <2>1, <2>3, <2>6, PlacedStays
    <2>8. GoodFiles'
        BY <1>g, <2>3 DEF GoodFiles
    <2>9. Paired'
        BY <1>l, <1>7, <2>1, <2>3, <2>5, PairedStays
    <2>10. NothingLost'
        BY <1>g, <2>3 DEF NothingLost
    <2>11. QED
        BY <2>7, <2>8, <2>9, <2>10
<1>8. ASSUME NEW c \in Command, CreateTable(c), UNCHANGED <<notifiers, telling, worked>> PROVE Good
    <2>1. \A d \in Command : d # c => job'[d] = job[d]
        BY <1>t, <1>8, DoesCreateTable DEF OnlyQueues
    <2>2. PlacedAt(job[c], packages, names, legacy)
        BY <1>8, <1>l DEF Placed, PlacedAt
    <2>3. UNCHANGED <<packages, names, legacy, stored>> /\ (torn => torn')
        BY <1>t, <1>8, DoesCreateTable
    <2>4. PlacedAt(job'[c], packages, names, legacy)
        BY <1>t, <1>8, <2>2, DoesCreateTable DEF PlacedAt, Creating
    <2>5. ~torn' => \A x : UnderwayAt(job[c], x) => UnderwayAt(job'[c], x)
        BY <1>t, <1>8, DoesCreateTable DEF UnderwayAt, Creating
    <2>6. PlacedAt(job'[c], packages', names', legacy')
        BY <2>3, <2>4
    <2>7. Placed'
        BY <1>l, <1>8, <2>1, <2>3, <2>6, PlacedStays
    <2>8. GoodFiles'
        BY <1>g, <2>3 DEF GoodFiles
    <2>9. Paired'
        BY <1>l, <1>8, <2>1, <2>3, <2>5, PairedStays
    <2>10. NothingLost'
        BY <1>g, <2>3 DEF NothingLost
    <2>11. QED
        BY <2>7, <2>8, <2>9, <2>10
<1>9. ASSUME NEW c \in Command, CreatedNew(c), UNCHANGED <<notifiers, telling, worked>> PROVE Good
    <2>1. \A d \in Command : d # c => job'[d] = job[d]
        BY <1>t, <1>9, DoesCreatedNew DEF OnlyQueues
    <2>2. PlacedAt(job[c], packages, names, legacy)
        BY <1>9, <1>l DEF Placed, PlacedAt
    <2>3. UNCHANGED <<packages, names, legacy, stored>> /\ (torn => torn')
        BY <1>t, <1>9, DoesCreatedNew
    <2>4. PlacedAt(job'[c], packages, names, legacy)
        BY <1>t, <1>9, <2>2, DoesCreatedNew DEF PlacedAt, Creating
    <2>5. ~torn' => \A x : UnderwayAt(job[c], x) => UnderwayAt(job'[c], x)
        BY <1>t, <1>9, DoesCreatedNew DEF UnderwayAt, Creating
    <2>6. PlacedAt(job'[c], packages', names', legacy')
        BY <2>3, <2>4
    <2>7. Placed'
        BY <1>l, <1>9, <2>1, <2>3, <2>6, PlacedStays
    <2>8. GoodFiles'
        BY <1>g, <2>3 DEF GoodFiles
    <2>9. Paired'
        BY <1>l, <1>9, <2>1, <2>3, <2>5, PairedStays
    <2>10. NothingLost'
        BY <1>g, <2>3 DEF NothingLost
    <2>11. QED
        BY <2>7, <2>8, <2>9, <2>10
<1>10. ASSUME NEW c \in Command, Created(c), UNCHANGED <<notifiers, telling, worked>> PROVE Good
    <2>1. \A d \in Command : d # c => job'[d] = job[d]
        BY <1>t, <1>10, DoesCreated DEF OnlyQueues
    <2>2. PlacedAt(job[c], packages, names, legacy)
        BY <1>10, <1>l DEF Placed, PlacedAt
    <2>3. UNCHANGED <<packages, names, legacy, stored>> /\ (torn => torn')
        BY <1>t, <1>10, DoesCreated
    <2>4. PlacedAt(job'[c], packages, names, legacy)
        BY <1>t, <1>10, <2>2, DoesCreated DEF PlacedAt, Creating
    <2>5. ~torn' => \A x : UnderwayAt(job[c], x) => UnderwayAt(job'[c], x)
        BY <1>t, <1>10, DoesCreated DEF UnderwayAt, Creating
    <2>6. PlacedAt(job'[c], packages', names', legacy')
        BY <2>3, <2>4
    <2>7. Placed'
        BY <1>l, <1>10, <2>1, <2>3, <2>6, PlacedStays
    <2>8. GoodFiles'
        BY <1>g, <2>3 DEF GoodFiles
    <2>9. Paired'
        BY <1>l, <1>10, <2>1, <2>3, <2>5, PairedStays
    <2>10. NothingLost'
        BY <1>g, <2>3 DEF NothingLost
    <2>11. QED
        BY <2>7, <2>8, <2>9, <2>10
<1>11. ASSUME NEW c \in Command, NEW t \in Target, NEW ro \in BOOLEAN, OpenPackages(c, t, ro), Work, UNCHANGED <<notifiers, telling>> PROVE Good
    <2>1. \A d \in Command : d # c => job'[d] = job[d]
        BY <1>t, <1>11, DoesOpenPackages DEF OnlyQueues
    <2>2. PlacedAt(job[c], packages, names, legacy)
        BY <1>11, <1>l DEF Placed, PlacedAt
    <2>3. UNCHANGED <<packages, names, legacy, stored>> /\ (torn => torn')
        BY <1>t, <1>11, DoesOpenPackages
    <2>4. PlacedAt(job'[c], packages, names, legacy)
        BY <1>t, <1>11, <2>2, DoesOpenPackages DEF PlacedAt, Creating
    <2>5. ~torn' => \A x : UnderwayAt(job[c], x) => UnderwayAt(job'[c], x)
        BY <1>t, <1>11, DoesOpenPackages DEF UnderwayAt, Creating
    <2>6. PlacedAt(job'[c], packages', names', legacy')
        BY <2>3, <2>4
    <2>7. Placed'
        BY <1>l, <1>11, <2>1, <2>3, <2>6, PlacedStays
    <2>8. GoodFiles'
        BY <1>g, <2>3 DEF GoodFiles
    <2>9. Paired'
        BY <1>l, <1>11, <2>1, <2>3, <2>5, PairedStays
    <2>10. NothingLost'
        BY <1>g, <2>3 DEF NothingLost
    <2>11. QED
        BY <2>7, <2>8, <2>9, <2>10
<1>12. ASSUME NEW c \in Command, OpenPrimary(c), UNCHANGED <<notifiers, telling, worked>> PROVE Good
    <2>1. \A d \in Command : d # c => job'[d] = job[d]
        BY <1>t, <1>12, DoesOpenPrimary DEF OnlyQueues
    <2>2. PlacedAt(job[c], packages, names, legacy)
        BY <1>12, <1>l DEF Placed, PlacedAt
    <2>3. Inside(c)
        BY <1>t, <1>12, DoesOpenPrimary DEF Inside, Over
    <2>4. ~torn /\ legacy # None =>
              \A t \in Tables(packages) : t \in Tables(names) \/ UnderwayAt(job[c], t)
        BY <1>l, <1>12, <2>3, PairedInside
    <2>5. torn \/ stored \subseteq Pairs(packages) \cup Pairs(legacy)
        BY <1>g, NothingLostIs
    <2>6. /\ job[c].at = "primary" /\ job'[c].at = "secondary" /\ job[c].table \in Target
          /\ job'[c].table = job[c].table /\ job'[c].ro = job[c].ro
          /\ UNCHANGED <<names, legacy, stored, torn>>
        BY <1>t, <1>12, DoesOpenPrimary DEF Returns
    <2>7. /\ Records(packages') = Records(packages)
          /\ Tables(packages') = IF job[c].ro THEN Tables(packages) ELSE Tables(packages) \cup {job[c].table}
        <3>1. CASE job[c].ro
            BY <1>t, <1>12, <3>1, DoesOpenPrimary
        <3>2. CASE ~job[c].ro
            <4>1. packages' = WithTable(packages, job[c].table)
                BY <1>t, <1>12, <3>2, DoesOpenPrimary
            <4>2. QED
                BY <1>f, <2>6, <3>2, <4>1, WithTableIs
        <3>3. QED
            BY <3>1, <3>2
    <2>8. PlacedAt(job'[c], packages', names', legacy')
        BY <2>6, <2>7 DEF PlacedAt
    <2>9. /\ \A r \in Records(packages') : r.target \in Tables(packages')
          /\ \A r \in Records(legacy') : r.target \in Tables(legacy')
        BY <1>g, <2>6, <2>7 DEF GoodFiles
    <2>10. ~torn' /\ legacy' # None =>
              \A t \in Tables(packages') : t \in Tables(names') \/ UnderwayAt(job'[c], t)
        BY <2>4, <2>6, <2>7 DEF UnderwayAt
    <2>11. torn' \/ stored' \subseteq Pairs(packages') \cup Pairs(legacy')
        BY <2>5, <2>6, <2>7 DEF Pairs
    <2>12. Placed'
        BY <1>l, <1>12, <2>1, <2>3, <2>8, PlacedStays
    <2>13. GoodFiles'
        BY <2>9, GoodNext
    <2>14. Paired'
        BY <1>12, <2>10, PairedAgain
    <2>15. NothingLost'
        BY <2>11, NothingLostNext
    <2>16. QED
        BY <2>12, <2>13, <2>14, <2>15
<1>13. ASSUME NEW c \in Command, OpenSecondary(c), UNCHANGED <<notifiers, telling, worked>> PROVE Good
    <2>1. \A d \in Command : d # c => job'[d] = job[d]
        BY <1>t, <1>13, DoesOpenSecondary DEF OnlyQueues
    <2>2. PlacedAt(job[c], packages, names, legacy)
        BY <1>13, <1>l DEF Placed, PlacedAt
    <2>3. Inside(c)
        BY <1>t, <1>13, DoesOpenSecondary DEF Inside, Over
    <2>4. ~torn /\ legacy # None =>
              \A t \in Tables(packages) : t \in Tables(names) \/ UnderwayAt(job[c], t)
        BY <1>l, <1>13, <2>3, PairedInside
    <2>5. torn \/ stored \subseteq Pairs(packages) \cup Pairs(legacy)
        BY <1>g, NothingLostIs
    <2>6. /\ job[c].at = "secondary" /\ job'[c].at \in {"open", "close table"}
          /\ job'[c].table = job[c].table /\ job'[c].ro = job[c].ro
          /\ UNCHANGED <<packages, legacy, stored, torn>>
        BY <1>t, <1>13, DoesOpenSecondary
    <2>7. job[c].table \in Target
        BY <1>t, <1>13, <2>6 DEF Returns
    <2>8. /\ Tables(names) \subseteq Tables(names')
          /\ (~job[c].ro => job[c].table \in Tables(names') /\ names' # None)
        <3>1. CASE job[c].ro
            BY <1>t, <1>13, <3>1, DoesOpenSecondary
        <3>2. CASE ~job[c].ro
            <4>1. names' = WithTable(names, job[c].table)
                BY <1>t, <1>13, <3>2, DoesOpenSecondary
            <4>2. QED
                BY <1>f, <2>7, <4>1, WithTableIs
        <3>3. QED
            BY <3>1, <3>2
    <2>9. PlacedAt(job'[c], packages', names', legacy')
        BY <2>2, <2>6, <2>8 DEF PlacedAt
    <2>10. /\ \A r \in Records(packages') : r.target \in Tables(packages')
          /\ \A r \in Records(legacy') : r.target \in Tables(legacy')
        BY <1>g, <2>6 DEF GoodFiles
    <2>11. ~torn' /\ legacy' # None =>
              \A t \in Tables(packages') : t \in Tables(names') \/ UnderwayAt(job'[c], t)
        BY <2>4, <2>6, <2>8 DEF UnderwayAt
    <2>12. torn' \/ stored' \subseteq Pairs(packages') \cup Pairs(legacy')
        BY <2>5, <2>6
    <2>13. Placed'
        BY <1>l, <1>13, <2>1, <2>3, <2>9, PlacedStays
    <2>14. GoodFiles'
        BY <2>10, GoodNext
    <2>15. Paired'
        BY <1>13, <2>11, PairedAgain
    <2>16. NothingLost'
        BY <2>12, NothingLostNext
    <2>17. QED
        BY <2>13, <2>14, <2>15, <2>16
<1>14. ASSUME NEW c \in Command, OpenFails(c), UNCHANGED <<notifiers, telling, worked>> PROVE Good
    <2>1. \A d \in Command : d # c => job'[d] = job[d]
        BY <1>t, <1>14, DoesOpenFails DEF OnlyQueues
    <2>2. Inside(c)
        BY <1>t, <1>14, DoesOpenFails DEF Inside, Over
    <2>3. job'[c].at \notin {"secondary", "open", "close table", "translate", "copy"}
        BY <1>t, <1>14, DoesOpenFails DEF Creating, Returns
    <2>4. FilesLeft(c) /\ UNCHANGED <<legacy, stored>>
        BY <1>t, <1>14, DoesOpenFails DEF FilesLeft
    <2>5. TypeFiles
        BY <1>t, TypeParts
    <2>6. QED
        BY <1>l, <1>g, <2>1, <2>2, <2>3, <2>4, <2>5, FilesLeftGood
<1>15. ASSUME NEW c \in Command, TranslateLegacy(c), UNCHANGED <<notifiers, telling, worked>> PROVE Good
    <2>1. \A d \in Command : d # c => job'[d] = job[d]
        BY <1>t, <1>15, DoesTranslateLegacy DEF OnlyQueues
    <2>2. PlacedAt(job[c], packages, names, legacy)
        BY <1>15, <1>l DEF Placed, PlacedAt
    <2>3. Inside(c)
        BY <1>t, <1>15, DoesTranslateLegacy DEF Inside, Over
    <2>4. ~torn /\ legacy # None =>
              \A t \in Tables(packages) : t \in Tables(names) \/ UnderwayAt(job[c], t)
        BY <1>l, <1>15, <2>3, PairedInside
    <2>5. torn \/ stored \subseteq Pairs(packages) \cup Pairs(legacy)
        BY <1>g, NothingLostIs
    <2>6. /\ job[c].at = "secondary" /\ OldLayout(c) /\ packages \in File
          /\ job'[c].at = "translate" /\ job'[c].make = packages.tables
          /\ legacy' = packages /\ packages' = None /\ UNCHANGED <<names, stored, torn>>
        BY <1>t, <1>15, DoesTranslateLegacy
    <2>7. /\ Tables(packages') = {} /\ Records(packages') = {} /\ Pairs(packages') = {}
          /\ Pairs(None) = {}
        BY <2>6, PairsOfNone
    <2>8. legacy' # None /\ Tables(legacy') = packages.tables /\ Tables(packages) = packages.tables
        BY <1>f, <2>6 DEF Tables
    <2>9. \A r \in Records(legacy') : r.target \in Tables(legacy')
        BY <1>g, <2>6 DEF GoodFiles
    <2>10. PlacedAt(job'[c], packages', names', legacy')
        BY <2>6, <2>8, <2>9 DEF PlacedAt
    <2>11. /\ \A r \in Records(packages') : r.target \in Tables(packages')
          /\ \A r \in Records(legacy') : r.target \in Tables(legacy')
        BY <2>7, <2>9
    <2>12. ~torn' /\ legacy' # None =>
              \A t \in Tables(packages') : t \in Tables(names') \/ UnderwayAt(job'[c], t)
        BY <2>7
    <2>13. torn \/ legacy = None
        <3>1. /\ job[c].ro /\ job[c].table \in Tables(packages) /\ job[c].table \notin Tables(names)
            BY <2>6 DEF OldLayout
        <3>2. ~UnderwayAt(job[c], job[c].table)
            BY <2>6, <3>1 DEF UnderwayAt
        <3>3. QED
            BY <2>4, <3>1, <3>2
    <2>14. torn' \/ stored' \subseteq Pairs(packages') \cup Pairs(legacy')
        BY <2>5, <2>6, <2>7, <2>13
    <2>15. Placed'
        BY <1>l, <1>15, <2>1, <2>3, <2>10, PlacedStays
    <2>16. GoodFiles'
        BY <2>11, GoodNext
    <2>17. Paired'
        BY <1>15, <2>12, PairedAgain
    <2>18. NothingLost'
        BY <2>14, NothingLostNext
    <2>19. QED
        BY <2>15, <2>16, <2>17, <2>18
<1>16. ASSUME NEW c \in Command, TranslatePrimary(c), UNCHANGED <<notifiers, telling, worked>> PROVE Good
    <2>1. \A d \in Command : d # c => job'[d] = job[d]
        BY <1>t, <1>16, DoesTranslatePrimary DEF OnlyQueues
    <2>2. PlacedAt(job[c], packages, names, legacy)
        BY <1>16, <1>l DEF Placed, PlacedAt
    <2>3. Inside(c)
        BY <1>t, <1>16, DoesTranslatePrimary DEF Inside, Over
    <2>4. ~torn /\ legacy # None =>
              \A t \in Tables(packages) : t \in Tables(names) \/ UnderwayAt(job[c], t)
        BY <1>l, <1>16, <2>3, PairedInside
    <2>5. torn \/ stored \subseteq Pairs(packages) \cup Pairs(legacy)
        BY <1>g, NothingLostIs
    <2>6. /\ job[c].at = "translate" /\ job'[c].at = "copy" /\ job[c] \in Working
          /\ job'[c].back \in job[c].make /\ job'[c].make = job[c].make \ {job'[c].back}
          /\ packages' = WithTable(packages, job'[c].back)
          /\ UNCHANGED <<names, legacy, stored, torn>>
        BY <1>t, <1>16, DoesTranslatePrimary
    <2>7. job'[c].back \in Target
        BY <2>6 DEF Working
    <2>8. /\ Tables(packages') = Tables(packages) \cup {job'[c].back}
          /\ Records(packages') = Records(packages)
        BY <1>f, <2>6, <2>7, WithTableIs
    <2>9. Pairs(packages') = Pairs(packages)
        BY <2>8 DEF Pairs
    <2>10. PlacedAt(job'[c], packages', names', legacy')
        BY <2>2, <2>6, <2>8, <2>9 DEF PlacedAt
    <2>11. /\ \A r \in Records(packages') : r.target \in Tables(packages')
          /\ \A r \in Records(legacy') : r.target \in Tables(legacy')
        BY <1>g, <2>6, <2>8 DEF GoodFiles
    <2>12. ~torn' /\ legacy' # None =>
              \A t \in Tables(packages') : t \in Tables(names') \/ UnderwayAt(job'[c], t)
        BY <2>4, <2>6, <2>8 DEF UnderwayAt
    <2>13. torn' \/ stored' \subseteq Pairs(packages') \cup Pairs(legacy')
        BY <2>5, <2>6, <2>9
    <2>14. Placed'
        BY <1>l, <1>16, <2>1, <2>3, <2>10, PlacedStays
    <2>15. GoodFiles'
        BY <2>11, GoodNext
    <2>16. Paired'
        BY <1>16, <2>12, PairedAgain
    <2>17. NothingLost'
        BY <2>13, NothingLostNext
    <2>18. QED
        BY <2>14, <2>15, <2>16, <2>17
<1>17. ASSUME NEW c \in Command, TranslateTable(c), UNCHANGED <<notifiers, telling, worked>> PROVE Good
    <2>1. \A d \in Command : d # c => job'[d] = job[d]
        BY <1>t, <1>17, DoesTranslateTable DEF OnlyQueues
    <2>2. PlacedAt(job[c], packages, names, legacy)
        BY <1>17, <1>l DEF Placed, PlacedAt
    <2>3. Inside(c)
        BY <1>t, <1>17, DoesTranslateTable DEF Inside, Over
    <2>4. ~torn /\ legacy # None =>
              \A t \in Tables(packages) : t \in Tables(names) \/ UnderwayAt(job[c], t)
        BY <1>l, <1>17, <2>3, PairedInside
    <2>5. torn \/ stored \subseteq Pairs(packages) \cup Pairs(legacy)
        BY <1>g, NothingLostIs
    <2>6. /\ job[c].at = "copy" /\ job'[c].at = "translate"
          /\ job'[c].make = job[c].make /\ job'[c].table = job[c].table
          /\ UNCHANGED <<legacy, stored, torn>>
        BY <1>t, <1>17, DoesTranslateTable
    <2>7. job[c].back \in Tables(packages) /\ legacy # None
        BY <2>2, <2>6 DEF PlacedAt
    <2>8. packages \in File /\ legacy \in File /\ job[c].back \in Target
        BY <1>f, <2>7 DEF Tables, File
    <2>9. /\ WithTable(names, job[c].back) \in File
          /\ Tables(WithTable(names, job[c].back)) = Tables(names) \cup {job[c].back}
        BY <1>f, <2>8, WithTableIs
    <2>10. PICK pr \in SUBSET Record : pr = Copied(job[c].back, packages)
        BY <2>8, CopiedIs
    <2>11. PICK nr \in SUBSET Record : nr = Copied(job[c].back, WithTable(names, job[c].back))
        BY <2>8, <2>9, CopiedIs
    <2>12. /\ packages' = [packages EXCEPT !.records = pr]
           /\ names' = [WithTable(names, job[c].back) EXCEPT !.records = nr]
        BY <1>t, <2>10, <2>11, <1>17, DoesTranslateTable
    <2>13. /\ Tables(packages') = Tables(packages) /\ Records(packages') = pr
        BY <2>8, <2>12, WithRecords
    <2>14. Tables(names') = Tables(names) \cup {job[c].back}
        BY <2>9, <2>12, WithRecords
    <2>15. /\ Records(packages) \subseteq pr
           /\ \A r \in pr \ Records(packages) : r.target = job[c].back
           /\ \A r \in Records(legacy) : r.target = job[c].back =>
                 \E s \in pr : s.target = r.target /\ s.package = r.package
        <3>1. Records(packages) = packages.records /\ Records(legacy) = legacy.records
            BY <1>f, <2>8 DEF Records
        <3>2. /\ packages.records \subseteq Copied(job[c].back, packages)
              /\ \A r \in Copied(job[c].back, packages) \ packages.records : r.target = job[c].back
              /\ \A r \in legacy.records : r.target = job[c].back =>
                     \E s \in Copied(job[c].back, packages) : s.target = job[c].back /\ s.package = r.package
            BY <2>8, CopiedIs
        <3>3. QED
            BY <2>10, <3>1, <3>2
    <2>16. Pairs(packages) \subseteq Pairs(packages')
        BY <2>13, <2>15, PairsOfMore
    <2>17. \A r \in Records(legacy) : r.target = job[c].back => <<r.target, r.package>> \in Pairs(packages')
        BY <2>13, <2>15 DEF Pairs
    <2>18. PlacedAt(job'[c], packages', names', legacy')
        BY <2>2, <2>6, <2>7, <2>16, <2>17 DEF PlacedAt
    <2>19. /\ \A r \in Records(packages') : r.target \in Tables(packages')
          /\ \A r \in Records(legacy') : r.target \in Tables(legacy')
        BY <1>g, <2>6, <2>7, <2>13, <2>15 DEF GoodFiles
    <2>20. ~torn' /\ legacy' # None =>
              \A t \in Tables(packages') : t \in Tables(names') \/ UnderwayAt(job'[c], t)
        BY <2>4, <2>6, <2>13, <2>14 DEF UnderwayAt
    <2>21. torn' \/ stored' \subseteq Pairs(packages') \cup Pairs(legacy')
        BY <2>5, <2>6, <2>16
    <2>22. Placed'
        BY <1>l, <1>17, <2>1, <2>3, <2>18, PlacedStays
    <2>23. GoodFiles'
        BY <2>19, GoodNext
    <2>24. Paired'
        BY <1>17, <2>20, PairedAgain
    <2>25. NothingLost'
        BY <2>21, NothingLostNext
    <2>26. QED
        BY <2>22, <2>23, <2>24, <2>25
<1>18. ASSUME NEW c \in Command, TranslateFails(c), UNCHANGED <<notifiers, telling, worked>> PROVE Good
    <2>1. \A d \in Command : d # c => job'[d] = job[d]
        BY <1>t, <1>18, DoesTranslateFails DEF OnlyQueues
    <2>2. Inside(c)
        BY <1>t, <1>18, DoesTranslateFails DEF Inside, Over
    <2>3. job'[c].at \notin {"secondary", "open", "close table", "translate", "copy"}
        BY <1>t, <1>18, DoesTranslateFails DEF Creating, Returns
    <2>4. FilesLeft(c) /\ UNCHANGED <<legacy, stored>>
        BY <1>t, <1>18, DoesTranslateFails DEF FilesLeft
    <2>5. TypeFiles
        BY <1>t, TypeParts
    <2>6. QED
        BY <1>l, <1>g, <2>1, <2>2, <2>3, <2>4, <2>5, FilesLeftGood
<1>19. ASSUME NEW c \in Command, Translated(c), UNCHANGED <<notifiers, telling, worked>> PROVE Good
    <2>1. \A d \in Command : d # c => job'[d] = job[d]
        BY <1>t, <1>19, DoesTranslated DEF OnlyQueues
    <2>2. PlacedAt(job[c], packages, names, legacy)
        BY <1>19, <1>l DEF Placed, PlacedAt
    <2>3. Inside(c)
        BY <1>t, <1>19, DoesTranslated DEF Inside, Over
    <2>4. ~torn /\ legacy # None =>
              \A t \in Tables(packages) : t \in Tables(names) \/ UnderwayAt(job[c], t)
        BY <1>l, <1>19, <2>3, PairedInside
    <2>5. torn \/ stored \subseteq Pairs(packages) \cup Pairs(legacy)
        BY <1>g, NothingLostIs
    <2>6. /\ job[c].at = "translate" /\ job'[c].at = "primary" /\ job[c].make = {}
          /\ legacy' = None /\ UNCHANGED <<packages, names, stored, torn>>
        BY <1>t, <1>19, DoesTranslated
    <2>7. PlacedAt(job'[c], packages', names', legacy')
        BY <2>6 DEF PlacedAt
    <2>8. /\ \A r \in Records(packages') : r.target \in Tables(packages')
          /\ \A r \in Records(legacy') : r.target \in Tables(legacy')
        BY <1>g, <2>6, GoodOfNone DEF GoodFiles
    <2>9. ~torn' /\ legacy' # None =>
              \A t \in Tables(packages') : t \in Tables(names') \/ UnderwayAt(job'[c], t)
        BY <2>6
    <2>10. \A r \in Records(legacy) : <<r.target, r.package>> \in Pairs(packages)
        BY <2>2, <2>6 DEF PlacedAt
    <2>11. Pairs(legacy) \subseteq Pairs(packages)
        BY <2>10 DEF Pairs
    <2>12. torn' \/ stored' \subseteq Pairs(packages') \cup Pairs(legacy')
        BY <2>5, <2>6, <2>11
    <2>13. Placed'
        BY <1>l, <1>19, <2>1, <2>3, <2>7, PlacedStays
    <2>14. GoodFiles'
        BY <2>8, GoodNext
    <2>15. Paired'
        BY <1>19, <2>9, PairedAgain
    <2>16. NothingLost'
        BY <2>12, NothingLostNext
    <2>17. QED
        BY <2>13, <2>14, <2>15, <2>16
<1>20. ASSUME NEW c \in Command, NEW p \in Package, AddRecord(c, p), Tell(c, p, "add"), telling[c] = None PROVE Good
    <2>1. \A d \in Command : d # c => job'[d] = job[d]
        BY <1>t, <1>20, DoesAddRecord DEF OnlyQueues
    <2>2. PlacedAt(job[c], packages, names, legacy)
        BY <1>20, <1>l DEF Placed, PlacedAt
    <2>3. Inside(c)
        BY <1>t, <1>20, DoesAddRecord DEF Inside, Over
    <2>4. ~torn /\ legacy # None =>
              \A t \in Tables(packages) : t \in Tables(names) \/ UnderwayAt(job[c], t)
        BY <1>l, <1>20, <2>3, PairedInside
    <2>5. torn \/ stored \subseteq Pairs(packages) \cup Pairs(legacy)
        BY <1>g, NothingLostIs
    <2>6. job[c].at = "open" /\ ~job[c].ro /\ job' = job /\ UNCHANGED <<legacy, torn>>
        BY <1>t, <1>20, DoesAddRecord
    <2>7. job[c].table \in Tables(packages) /\ names # None /\ job[c].table \in Target
        <3>1. job[c].table \in Tables(packages) /\ names # None
            BY <2>2, <2>6 DEF PlacedAt
        <3>2. QED
            BY <1>t, <1>20, <2>6, <3>1 DEF Returns
    <2>8. packages \in File /\ names \in File
        BY <1>f, <2>7 DEF Tables
    <2>9. PICK e \in Record : e = [target |-> job[c].table, package |-> p, keyed |-> 1]
        <3>1. p \in Package /\ 1 \in 0..2
            BY <1>20
        <3>2. [target |-> job[c].table, package |-> p, keyed |-> 1] \in Record
            BY <2>7, <3>1 DEF Record
        <3>3. QED
            BY Zenon, <3>2
    <2>10. PICK pr \in SUBSET Record, nr \in SUBSET Record :
               pr = packages.records \cup {e} /\ nr = names.records \cup {e}
        BY <2>8, <2>9 DEF File
    <2>11. /\ packages' = [packages EXCEPT !.records = pr] /\ names' = [names EXCEPT !.records = nr]
           /\ stored' = stored \cup {<<e.target, e.package>>}
        BY <1>t, <2>9, <2>10, <1>20, DoesAddRecord
    <2>12. /\ Tables(packages') = Tables(packages) /\ Records(packages') = pr
           /\ Tables(names') = Tables(names) /\ names' # None
        BY <1>f, <2>8, <2>11, WithRecords
    <2>13. Records(packages) = packages.records
        BY <1>f, <2>8 DEF Records
    <2>14. PlacedAt(job'[c], packages', names', legacy')
        BY <2>6, <2>7, <2>12 DEF PlacedAt
    <2>15. /\ \A r \in Records(packages') : r.target \in Tables(packages')
          /\ \A r \in Records(legacy') : r.target \in Tables(legacy')
        BY <1>g, <2>6, <2>7, <2>9, <2>10, <2>12, <2>13 DEF GoodFiles
    <2>16. ~torn' /\ legacy' # None =>
              \A t \in Tables(packages') : t \in Tables(names') \/ UnderwayAt(job'[c], t)
        BY <2>4, <2>6, <2>12
    <2>17. Records(packages) \subseteq Records(packages') /\ e \in Records(packages')
        BY <2>10, <2>12, <2>13
    <2>18. Pairs(packages) \subseteq Pairs(packages') /\ <<e.target, e.package>> \in Pairs(packages')
        BY <2>17 DEF Pairs
    <2>19. torn' \/ stored' \subseteq Pairs(packages') \cup Pairs(legacy')
        BY <2>5, <2>6, <2>11, <2>18
    <2>20. Placed'
        BY <1>l, <1>20, <2>1, <2>3, <2>14, PlacedStays
    <2>21. GoodFiles'
        BY <2>15, GoodNext
    <2>22. Paired'
        BY <1>20, <2>16, PairedAgain
    <2>23. NothingLost'
        BY <2>19, NothingLostNext
    <2>24. QED
        BY <2>20, <2>21, <2>22, <2>23
<1>21. ASSUME NEW c \in Command, NEW p \in Package, RemoveRecord(c, p), Tell(c, p, "remove"), telling[c] = None PROVE Good
    <2>1. \A d \in Command : d # c => job'[d] = job[d]
        BY <1>t, <1>21, DoesRemoveRecord DEF OnlyQueues
    <2>2. PlacedAt(job[c], packages, names, legacy)
        BY <1>21, <1>l DEF Placed, PlacedAt
    <2>3. Inside(c)
        BY <1>t, <1>21, DoesRemoveRecord DEF Inside, Over
    <2>4. ~torn /\ legacy # None =>
              \A t \in Tables(packages) : t \in Tables(names) \/ UnderwayAt(job[c], t)
        BY <1>l, <1>21, <2>3, PairedInside
    <2>5. torn \/ stored \subseteq Pairs(packages) \cup Pairs(legacy)
        BY <1>g, NothingLostIs
    <2>6. job[c].at = "open" /\ ~job[c].ro /\ job' = job /\ UNCHANGED <<legacy, torn>>
        BY <1>t, <1>21, DoesRemoveRecord
    <2>7. job[c].table \in Tables(packages) /\ names # None /\ job[c].table \in Target
        <3>1. job[c].table \in Tables(packages) /\ names # None
            BY <2>2, <2>6 DEF PlacedAt
        <3>2. QED
            BY <1>t, <1>21, <2>6, <3>1 DEF Returns
    <2>8. packages \in File /\ names \in File
        BY <1>f, <2>7 DEF Tables
    <2>9. PICK gone : gone = {x \in names.records : x.target = job[c].table /\ x.package = p}
        OBVIOUS
    <2>10. PICK pr \in SUBSET Record, nr \in SUBSET Record :
               pr = packages.records \ gone /\ nr = names.records \ gone
        BY <2>8, <2>9 DEF File
    <2>11. /\ packages' = [packages EXCEPT !.records = pr] /\ names' = [names EXCEPT !.records = nr]
           /\ stored' = stored \ {<<job[c].table, p>>}
        BY <1>t, <2>9, <2>10, <1>21, DoesRemoveRecord
    <2>12. /\ Tables(packages') = Tables(packages) /\ Records(packages') = pr
           /\ Tables(names') = Tables(names) /\ names' # None
        BY <1>f, <2>8, <2>11, WithRecords
    <2>13. Records(packages) = packages.records
        BY <1>f, <2>8 DEF Records
    <2>14. PlacedAt(job'[c], packages', names', legacy')
        BY <2>6, <2>7, <2>12 DEF PlacedAt
    <2>15. /\ \A r \in Records(packages') : r.target \in Tables(packages')
          /\ \A r \in Records(legacy') : r.target \in Tables(legacy')
        BY <1>g, <2>6, <2>10, <2>12, <2>13 DEF GoodFiles
    <2>16. ~torn' /\ legacy' # None =>
              \A t \in Tables(packages') : t \in Tables(names') \/ UnderwayAt(job'[c], t)
        BY <2>4, <2>6, <2>12
    <2>17. Pairs(packages) \ {<<job[c].table, p>>} \subseteq Pairs(packages')
        <3>1. ASSUME NEW x \in Records(packages), <<x.target, x.package>> # <<job[c].table, p>>
              PROVE  x \in Records(packages')
            <4>1. x \notin gone
                BY <2>9, <3>1
            <4>2. QED
                BY <2>10, <2>12, <2>13, <3>1, <4>1
        <3>2. QED
            BY <3>1 DEF Pairs
    <2>18. torn' \/ stored' \subseteq Pairs(packages') \cup Pairs(legacy')
        BY <2>5, <2>6, <2>11, <2>17
    <2>19. Placed'
        BY <1>l, <1>21, <2>1, <2>3, <2>14, PlacedStays
    <2>20. GoodFiles'
        BY <2>15, GoodNext
    <2>21. Paired'
        BY <1>21, <2>16, PairedAgain
    <2>22. NothingLost'
        BY <2>18, NothingLostNext
    <2>23. QED
        BY <2>19, <2>20, <2>21, <2>22
<1>22. ASSUME NEW c \in Command, CloseTable(c), telling[c] = None, UNCHANGED <<notifiers, telling, worked>> PROVE Good
    <2>1. \A d \in Command : d # c => job'[d] = job[d]
        BY <1>t, <1>22, DoesCloseTable DEF OnlyQueues
    <2>2. PlacedAt(job[c], packages, names, legacy)
        BY <1>22, <1>l DEF Placed, PlacedAt
    <2>3. UNCHANGED <<packages, names, legacy, stored>> /\ (torn => torn')
        BY <1>t, <1>22, DoesCloseTable
    <2>4. PlacedAt(job'[c], packages, names, legacy)
        BY <1>t, <1>22, <2>2, DoesCloseTable DEF PlacedAt, Creating, Returns
    <2>5. ~torn' => \A x : UnderwayAt(job[c], x) => UnderwayAt(job'[c], x)
        BY <1>t, <1>22, DoesCloseTable DEF UnderwayAt, Creating
    <2>6. PlacedAt(job'[c], packages', names', legacy')
        BY <2>3, <2>4
    <2>7. Placed'
        BY <1>l, <1>22, <2>1, <2>3, <2>6, PlacedStays
    <2>8. GoodFiles'
        BY <1>g, <2>3 DEF GoodFiles
    <2>9. Paired'
        BY <1>l, <1>22, <2>1, <2>3, <2>5, PairedStays
    <2>10. NothingLost'
        BY <1>g, <2>3 DEF NothingLost
    <2>11. QED
        BY <2>7, <2>8, <2>9, <2>10
<1>23. ASSUME NEW c \in Command, Close(c), N!Abandon(c), UNCHANGED <<telling, worked>> PROVE Good
    <2>1. \A d \in Command : d # c => job'[d] = job[d]
        BY <1>t, <1>i, <1>23, DoesClose DEF OnlyQueues
    <2>2. PlacedAt(job[c], packages, names, legacy)
        BY <1>23, <1>l DEF Placed, PlacedAt
    <2>3. UNCHANGED <<packages, names, legacy, stored>> /\ (torn => torn')
        BY <1>t, <1>i, <1>23, DoesClose
    <2>4. PlacedAt(job'[c], packages, names, legacy)
        BY <1>t, <1>i, <1>23, <2>2, DoesClose DEF PlacedAt, Creating
    <2>5. ~torn' => \A x : UnderwayAt(job[c], x) => UnderwayAt(job'[c], x)
        BY <1>t, <1>i, <1>23, DoesClose DEF UnderwayAt, Creating
    <2>6. PlacedAt(job'[c], packages', names', legacy')
        BY <2>3, <2>4
    <2>7. Placed'
        BY <1>l, <1>23, <2>1, <2>3, <2>6, PlacedStays
    <2>8. GoodFiles'
        BY <1>g, <2>3 DEF GoodFiles
    <2>9. Paired'
        BY <1>l, <1>23, <2>1, <2>3, <2>5, PairedStays
    <2>10. NothingLost'
        BY <1>g, <2>3 DEF NothingLost
    <2>11. QED
        BY <2>7, <2>8, <2>9, <2>10
<1>24. ASSUME NEW c \in Command, CloseFails(c), N!Abandon(c), UNCHANGED <<telling, worked>> PROVE Good
    <2>1. \A d \in Command : d # c => job'[d] = job[d]
        BY <1>t, <1>i, <1>24, DoesCloseFails DEF OnlyQueues
    <2>2. PlacedAt(job[c], packages, names, legacy)
        BY <1>24, <1>l DEF Placed, PlacedAt
    <2>3. UNCHANGED <<packages, names, legacy, stored>> /\ (torn => torn')
        BY <1>t, <1>i, <1>24, DoesCloseFails
    <2>4. PlacedAt(job'[c], packages, names, legacy)
        BY <1>t, <1>i, <1>24, <2>2, DoesCloseFails DEF PlacedAt, Creating
    <2>5. ~torn' => \A x : UnderwayAt(job[c], x) => UnderwayAt(job'[c], x)
        BY <1>t, <1>i, <1>24, DoesCloseFails DEF UnderwayAt, Creating
    <2>6. PlacedAt(job'[c], packages', names', legacy')
        BY <2>3, <2>4
    <2>7. Placed'
        BY <1>l, <1>24, <2>1, <2>3, <2>6, PlacedStays
    <2>8. GoodFiles'
        BY <1>g, <2>3 DEF GoodFiles
    <2>9. Paired'
        BY <1>l, <1>24, <2>1, <2>3, <2>5, PairedStays
    <2>10. NothingLost'
        BY <1>g, <2>3 DEF NothingLost
    <2>11. QED
        BY <2>7, <2>8, <2>9, <2>10
<1>25. ASSUME NEW c \in Command, Signal(c), UNCHANGED <<notifiers, telling, worked>> PROVE Good
    <2>1. \A d \in Command : d # c => job'[d] = job[d]
        BY <1>t, <1>25, DoesSignal DEF OnlyQueues
    <2>2. PlacedAt(job[c], packages, names, legacy)
        BY <1>25, <1>l DEF Placed, PlacedAt
    <2>3. UNCHANGED <<packages, names, legacy, stored>> /\ (torn => torn')
        BY <1>t, <1>25, DoesSignal
    <2>4. PlacedAt(job'[c], packages, names, legacy)
        BY <1>t, <1>25, <2>2, DoesSignal DEF PlacedAt, Creating
    <2>5. ~torn' => \A x : UnderwayAt(job[c], x) => UnderwayAt(job'[c], x)
        BY <1>t, <1>25, DoesSignal DEF UnderwayAt, Creating
    <2>6. PlacedAt(job'[c], packages', names', legacy')
        BY <2>3, <2>4
    <2>7. Placed'
        BY <1>l, <1>25, <2>1, <2>3, <2>6, PlacedStays
    <2>8. GoodFiles'
        BY <1>g, <2>3 DEF GoodFiles
    <2>9. Paired'
        BY <1>l, <1>25, <2>1, <2>3, <2>5, PairedStays
    <2>10. NothingLost'
        BY <1>g, <2>3 DEF NothingLost
    <2>11. QED
        BY <2>7, <2>8, <2>9, <2>10
<1>26. ASSUME NEW c \in Command, Kill(c), N!Abandon(c), telling' = [telling EXCEPT ![c] = None], UNCHANGED worked PROVE Good
    <2>1. \A d \in Command : d # c => job'[d] = job[d]
        BY <1>t, <1>i, <1>26, DoesKill DEF OnlyQueues
    <2>2. job'[c].at = "died" /\ job[c].at \notin {"new", "ended", "died"}
        BY <1>t, <1>26, DoesKill
    <2>3. job'[c].at \notin {"secondary", "open", "close table", "translate", "copy"}
        BY <2>2
    <2>4. FilesLeft(c) /\ UNCHANGED <<legacy, stored>>
        BY <1>t, <1>26, DoesKill
    <2>5. TypeFiles
        BY <1>t, TypeParts
    <2>6. CASE job[c].at = "lock"
        <3>1. ~CopiedInPart(c) /\ ~Halfway(c)
            BY <2>6 DEF CopiedInPart, Halfway, At
        <3>2. UNCHANGED <<packages, names, legacy, stored>> /\ (torn => torn')
            BY <2>4, <3>1 DEF FilesLeft
        <3>3. PlacedAt(job'[c], packages', names', legacy')
            BY <2>2 DEF PlacedAt
        <3>4. ~torn' => \A x : UnderwayAt(job[c], x) => UnderwayAt(job'[c], x)
            BY <2>6 DEF UnderwayAt
        <3>5. Placed'
            BY <1>l, <2>1, <3>2, <3>3, PlacedStays
        <3>6. GoodFiles'
            BY <1>g, <3>2 DEF GoodFiles
        <3>7. Paired'
            BY <1>l, <2>1, <3>2, <3>4, PairedStays
        <3>8. NothingLost'
            BY <1>g, <3>2 DEF NothingLost
        <3>9. QED
            BY <3>5, <3>6, <3>7, <3>8
    <2>7. CASE job[c].at # "lock"
        <3>1. Inside(c)
            BY <2>2, <2>7 DEF Inside, Over
        <3>2. QED
            BY <1>l, <1>g, <2>1, <2>3, <2>4, <2>5, <3>1, FilesLeftGood
    <2>8. QED
        BY <2>6, <2>7
<1>27. ASSUME NEW c \in Command, StartAction(c) PROVE Good
    <2>1. \A d \in Command : d # c => job'[d] = job[d]
        BY <1>t, <1>27, DoesStartAction DEF OnlyQueues
    <2>2. PlacedAt(job[c], packages, names, legacy)
        BY <1>27, <1>l DEF Placed, PlacedAt
    <2>3. UNCHANGED <<packages, names, legacy, stored>> /\ (torn => torn')
        BY <1>t, <1>27, DoesStartAction
    <2>4. PlacedAt(job'[c], packages, names, legacy)
        BY <1>t, <1>27, <2>2, DoesStartAction DEF PlacedAt, Creating
    <2>5. ~torn' => \A x : UnderwayAt(job[c], x) => UnderwayAt(job'[c], x)
        BY <1>t, <1>27, DoesStartAction DEF UnderwayAt, Creating
    <2>6. PlacedAt(job'[c], packages', names', legacy')
        BY <2>3, <2>4
    <2>7. Placed'
        BY <1>l, <1>27, <2>1, <2>3, <2>6, PlacedStays
    <2>8. GoodFiles'
        BY <1>g, <2>3 DEF GoodFiles
    <2>9. Paired'
        BY <1>l, <1>27, <2>1, <2>3, <2>5, PairedStays
    <2>10. NothingLost'
        BY <1>g, <2>3 DEF NothingLost
    <2>11. QED
        BY <2>7, <2>8, <2>9, <2>10
<1>28. ASSUME NEW c \in Command, StartFails(c) PROVE Good
    <2>1. \A d \in Command : d # c => job'[d] = job[d]
        BY <1>t, <1>28, DoesStartFails DEF OnlyQueues
    <2>2. PlacedAt(job[c], packages, names, legacy)
        BY <1>28, <1>l DEF Placed, PlacedAt
    <2>3. UNCHANGED <<packages, names, legacy, stored>> /\ (torn => torn')
        BY <1>t, <1>28, DoesStartFails
    <2>4. PlacedAt(job'[c], packages, names, legacy)
        BY <1>t, <1>28, <2>2, DoesStartFails DEF PlacedAt, Creating
    <2>5. ~torn' => \A x : UnderwayAt(job[c], x) => UnderwayAt(job'[c], x)
        BY <1>t, <1>28, DoesStartFails DEF UnderwayAt, Creating
    <2>6. PlacedAt(job'[c], packages', names', legacy')
        BY <2>3, <2>4
    <2>7. Placed'
        BY <1>l, <1>28, <2>1, <2>3, <2>6, PlacedStays
    <2>8. GoodFiles'
        BY <1>g, <2>3 DEF GoodFiles
    <2>9. Paired'
        BY <1>l, <1>28, <2>1, <2>3, <2>5, PairedStays
    <2>10. NothingLost'
        BY <1>g, <2>3 DEF NothingLost
    <2>11. QED
        BY <2>7, <2>8, <2>9, <2>10
<1>29. ASSUME NEW c \in Command, EndAction(c) PROVE Good
    <2>1. \A d \in Command : d # c => job'[d] = job[d]
        BY <1>t, <1>29, DoesEndAction DEF OnlyQueues
    <2>2. PlacedAt(job[c], packages, names, legacy)
        BY <1>29, <1>l DEF Placed, PlacedAt
    <2>3. UNCHANGED <<packages, names, legacy, stored>> /\ (torn => torn')
        BY <1>t, <1>29, DoesEndAction
    <2>4. PlacedAt(job'[c], packages, names, legacy)
        BY <1>t, <1>29, <2>2, DoesEndAction DEF PlacedAt, Creating
    <2>5. ~torn' => \A x : UnderwayAt(job[c], x) => UnderwayAt(job'[c], x)
        BY <1>t, <1>29, DoesEndAction DEF UnderwayAt, Creating
    <2>6. PlacedAt(job'[c], packages', names', legacy')
        BY <2>3, <2>4
    <2>7. Placed'
        BY <1>l, <1>29, <2>1, <2>3, <2>6, PlacedStays
    <2>8. GoodFiles'
        BY <1>g, <2>3 DEF GoodFiles
    <2>9. Paired'
        BY <1>l, <1>29, <2>1, <2>3, <2>5, PairedStays
    <2>10. NothingLost'
        BY <1>g, <2>3 DEF NothingLost
    <2>11. QED
        BY <2>7, <2>8, <2>9, <2>10
<1>30. ASSUME NEW c \in Command, Waited(c) PROVE Good
    <2>1. \A d \in Command : d # c => job'[d] = job[d]
        BY <1>t, <1>30, DoesWaited DEF OnlyQueues
    <2>2. PlacedAt(job[c], packages, names, legacy)
        BY <1>30, <1>l DEF Placed, PlacedAt
    <2>3. UNCHANGED <<packages, names, legacy, stored>> /\ (torn => torn')
        BY <1>t, <1>30, DoesWaited
    <2>4. PlacedAt(job'[c], packages, names, legacy)
        BY <1>t, <1>30, <2>2, DoesWaited DEF PlacedAt, Creating
    <2>5. ~torn' => \A x : UnderwayAt(job[c], x) => UnderwayAt(job'[c], x)
        BY <1>t, <1>30, DoesWaited DEF UnderwayAt, Creating
    <2>6. PlacedAt(job'[c], packages', names', legacy')
        BY <2>3, <2>4
    <2>7. Placed'
        BY <1>l, <1>30, <2>1, <2>3, <2>6, PlacedStays
    <2>8. GoodFiles'
        BY <1>g, <2>3 DEF GoodFiles
    <2>9. Paired'
        BY <1>l, <1>30, <2>1, <2>3, <2>5, PairedStays
    <2>10. NothingLost'
        BY <1>g, <2>3 DEF NothingLost
    <2>11. QED
        BY <2>7, <2>8, <2>9, <2>10
<1>31. ASSUME NEW c \in Command, Tidy(c) PROVE Good
    <2>1. \A d \in Command : d # c => job'[d] = job[d]
        BY <1>t, <1>31, DoesTidy DEF OnlyQueues
    <2>2. PlacedAt(job[c], packages, names, legacy)
        BY <1>31, <1>l DEF Placed, PlacedAt
    <2>3. UNCHANGED <<packages, names, legacy, stored>> /\ (torn => torn')
        BY <1>t, <1>31, DoesTidy
    <2>4. PlacedAt(job'[c], packages, names, legacy)
        BY <1>t, <1>31, <2>2, DoesTidy DEF PlacedAt, Creating
    <2>5. ~torn' => \A x : UnderwayAt(job[c], x) => UnderwayAt(job'[c], x)
        BY <1>t, <1>31, DoesTidy DEF UnderwayAt, Creating
    <2>6. PlacedAt(job'[c], packages', names', legacy')
        BY <2>3, <2>4
    <2>7. Placed'
        BY <1>l, <1>31, <2>1, <2>3, <2>6, PlacedStays
    <2>8. GoodFiles'
        BY <1>g, <2>3 DEF GoodFiles
    <2>9. Paired'
        BY <1>l, <1>31, <2>1, <2>3, <2>5, PairedStays
    <2>10. NothingLost'
        BY <1>g, <2>3 DEF NothingLost
    <2>11. QED
        BY <2>7, <2>8, <2>9, <2>10
<1>32. ASSUME NEW c \in Command, TellNext(c) PROVE Good
    <2>1. \A d \in Command : d # c => job'[d] = job[d]
        BY <1>t, <1>i, <1>32, DoesTellNext DEF OnlyQueues
    <2>2. PlacedAt(job[c], packages, names, legacy)
        BY <1>32, <1>l DEF Placed, PlacedAt
    <2>3. UNCHANGED <<packages, names, legacy, stored>> /\ (torn => torn')
        BY <1>t, <1>i, <1>32, DoesTellNext
    <2>4. PlacedAt(job'[c], packages, names, legacy)
        BY <1>t, <1>i, <1>32, <2>2, DoesTellNext DEF PlacedAt, Creating
    <2>5. ~torn' => \A x : UnderwayAt(job[c], x) => UnderwayAt(job'[c], x)
        BY <1>t, <1>i, <1>32, DoesTellNext DEF UnderwayAt, Creating
    <2>6. PlacedAt(job'[c], packages', names', legacy')
        BY <2>3, <2>4
    <2>7. Placed'
        BY <1>l, <1>32, <2>1, <2>3, <2>6, PlacedStays
    <2>8. GoodFiles'
        BY <1>g, <2>3 DEF GoodFiles
    <2>9. Paired'
        BY <1>l, <1>32, <2>1, <2>3, <2>5, PairedStays
    <2>10. NothingLost'
        BY <1>g, <2>3 DEF NothingLost
    <2>11. QED
        BY <2>7, <2>8, <2>9, <2>10
<1>33. ASSUME NEW c \in Command, Turn(c) PROVE Good
    <2>1. \A d \in Command : d # c => job'[d] = job[d]
        BY <1>t, <1>i, <1>33, DoesTurn DEF OnlyQueues
    <2>2. PlacedAt(job[c], packages, names, legacy)
        BY <1>33, <1>l DEF Placed, PlacedAt
    <2>3. UNCHANGED <<packages, names, legacy, stored>> /\ (torn => torn')
        BY <1>t, <1>i, <1>33, DoesTurn
    <2>4. PlacedAt(job'[c], packages, names, legacy)
        BY <1>t, <1>i, <1>33, <2>2, DoesTurn DEF PlacedAt, Creating
    <2>5. ~torn' => \A x : UnderwayAt(job[c], x) => UnderwayAt(job'[c], x)
        BY <1>t, <1>i, <1>33, DoesTurn DEF UnderwayAt, Creating
    <2>6. PlacedAt(job'[c], packages', names', legacy')
        BY <2>3, <2>4
    <2>7. Placed'
        BY <1>l, <1>33, <2>1, <2>3, <2>6, PlacedStays
    <2>8. GoodFiles'
        BY <1>g, <2>3 DEF GoodFiles
    <2>9. Paired'
        BY <1>l, <1>33, <2>1, <2>3, <2>5, PairedStays
    <2>10. NothingLost'
        BY <1>g, <2>3 DEF NothingLost
    <2>11. QED
        BY <2>7, <2>8, <2>9, <2>10
<1>34. ASSUME NEW c \in Command, N!ScriptEnds(c), UNCHANGED <<database, telling, worked>> PROVE Good
    <2>1. \A d \in Command : d # c => job'[d] = job[d]
        BY <1>t, <1>i, <1>34, DoesScriptEnds DEF database, files, OnlyQueues
    <2>2. PlacedAt(job[c], packages, names, legacy)
        BY <1>34, <1>l DEF Placed, PlacedAt
    <2>3. UNCHANGED <<packages, names, legacy, stored>> /\ (torn => torn')
        BY <1>t, <1>i, <1>34, DoesScriptEnds DEF database, files
    <2>4. PlacedAt(job'[c], packages, names, legacy)
        BY <1>t, <1>i, <1>34, <2>2, DoesScriptEnds DEF database, files, PlacedAt, Creating
    <2>5. ~torn' => \A x : UnderwayAt(job[c], x) => UnderwayAt(job'[c], x)
        BY <1>t, <1>i, <1>34, DoesScriptEnds DEF database, files, UnderwayAt, Creating
    <2>6. PlacedAt(job'[c], packages', names', legacy')
        BY <2>3, <2>4
    <2>7. Placed'
        BY <1>l, <1>34, <2>1, <2>3, <2>6, PlacedStays
    <2>8. GoodFiles'
        BY <1>g, <2>3 DEF GoodFiles
    <2>9. Paired'
        BY <1>l, <1>34, <2>1, <2>3, <2>5, PairedStays
    <2>10. NothingLost'
        BY <1>g, <2>3 DEF NothingLost
    <2>11. QED
        BY <2>7, <2>8, <2>9, <2>10
<1>35. ASSUME DeleteLockfile, UNCHANGED <<notifiers, telling, worked>> PROVE Good
    <2>1. Placed'
        BY <1>l, <1>35 DEF DeleteLockfile, notifiers, Placed
    <2>2. GoodFiles'
        BY <1>g, <1>35 DEF DeleteLockfile, notifiers, GoodFiles
    <2>3. Paired'
        BY <1>l, <1>35 DEF DeleteLockfile, notifiers, Paired, Underway
    <2>4. NothingLost'
        BY <1>g, <1>35 DEF DeleteLockfile, notifiers, NothingLost
    <2>5. QED
        BY <2>1, <2>2, <2>3, <2>4
<1>36. QED
    <2> HIDE DEF Good
    <2>1. Good
        BY Zenon, <1>1, <1>2, <1>3, <1>4, <1>5, <1>6, <1>7, <1>8, <1>9, <1>10, <1>11, <1>12,
           <1>13, <1>14, <1>15, <1>16, <1>17, <1>18, <1>19, <1>20, <1>21, <1>22, <1>23,
           <1>24, <1>25, <1>26, <1>27, <1>28, <1>29, <1>30, <1>31, <1>32, <1>33, <1>34,
           <1>35 DEF Next, Step, DatabaseStep, CallStep, Change
    <2>2. QED
        BY <2>1 DEF Good

-----------------------------------------------------------------------------
(* The theorems.                                                           *)

LEMMA NewJobs ==
    ASSUME Init
    PROVE  /\ job \in [Command -> JobType] /\ \A c \in Command : job[c].at = "new"
           /\ \A c \in Command : processes[c] = <<>> /\ due[c] = <<>> /\ ran[c] = <<>>
           /\ \A c \in Command : telling[c] = None
           /\ QueuesTyped /\ TypeTelling
<1>1. job = [c \in Command |-> [at |-> "new"]]
    BY DEF Init, DatabaseInit
<1>2. job \in [Command -> JobType] /\ \A c \in Command : job[c].at = "new"
    BY <1>1 DEF JobType
<1>3. /\ processes = [c \in Command |-> <<>>] /\ due = [c \in Command |-> <<>>]
      /\ ran = [c \in Command |-> <<>>] /\ telling = [c \in Command |-> None]
    BY DEF Init, N!NotifiersInit
<1>4. <<>> \in Seq(EntryOf) /\ <<>> \in Seq(N!Call)
    OBVIOUS
<1>5. QED
    BY <1>2, <1>3, <1>4 DEF QueuesTyped, TypeTelling

(* Before the first command: an older version's file, or none.             *)
LEMMA FirstFiles ==
    ASSUME Init
    PROVE  /\ lockfile = FALSE /\ names = None /\ legacy = None /\ torn = FALSE
           /\ faults = 0 /\ worked = 0
           /\ version \in {None, "current"}
           /\ packages \in File \cup {None}
           /\ stored \subseteq Target \X Package /\ stored \subseteq Pairs(packages)
           /\ \A r \in Records(packages) : r.target \in Tables(packages)
<1>1. /\ lockfile = FALSE /\ names = None /\ legacy = None /\ torn = FALSE
      /\ faults = 0 /\ worked = 0 /\ version \in {None, "current"}
    BY DEF Init, DatabaseInit
<1>2. CASE version = None /\ packages = None /\ stored = {}
    BY <1>1, <1>2, PairsOfNone
<1>3. CASE /\ version = "current" /\ stored = Before
           /\ packages = [tables |-> {t \in Target : Stored[t] # {}},
                          records |-> {[target |-> x[1], package |-> x[2], keyed |-> 0] : x \in Before}]
    <2> DEFINE T == {t \in Target : Stored[t] # {}}
               R == {[target |-> x[1], package |-> x[2], keyed |-> 0] : x \in Before}
    <2>1. \A x \in Before : x \in Target \X Package /\ x = <<x[1], x[2]>> /\ x[2] \in Stored[x[1]]
        BY DEF Before
    <2>2. R \subseteq Record
        <3>1. 0 \in 0..2
            OBVIOUS
        <3>2. ASSUME NEW x \in Before
              PROVE  [target |-> x[1], package |-> x[2], keyed |-> 0] \in Record
            BY <2>1, <3>1 DEF Record
        <3>3. QED
            BY <3>2
    <2>3. \A r \in R : r.target \in T
        BY <2>1
    <2>4. ASSUME NEW x \in Before
          PROVE  \E r \in R : r.target = x[1] /\ r.package = x[2]
        <3>1. PICK r : r = [target |-> x[1], package |-> x[2], keyed |-> 0]
            OBVIOUS
        <3>2. r \in R
            BY Zenon, <2>4, <3>1
        <3>3. QED
            BY <3>1, <3>2
    <2>5. packages = [tables |-> T, records |-> R]
        BY <1>3
    <2> HIDE DEF T, R
    <2>6. packages.tables = T /\ packages.records = R
        BY <2>5
    <2>7. packages \in File
        <3>1. T \subseteq Target
            BY DEF T
        <3>2. QED
            BY <2>2, <2>5, <3>1 DEF File
    <2>8. Tables(packages) = T /\ Records(packages) = R
        BY <2>6, <2>7, NoneIsNoFile DEF Tables, Records
    <2>9. stored \subseteq Pairs(packages)
        <3>1. ASSUME NEW x \in Before PROVE x \in Pairs(packages)
            <4>1. PICK r \in R : r.target = x[1] /\ r.package = x[2]
                BY <2>4
            <4>2. x = <<r.target, r.package>>
                BY <2>1, <4>1
            <4>3. QED
                BY <2>8, <4>1, <4>2 DEF Pairs
        <3>2. QED
            BY <1>3, <3>1
    <2>10. stored \subseteq Target \X Package
        BY <1>3, <2>1
    <2>11. QED
        BY <1>1, <1>3, <2>3, <2>7, <2>8, <2>9, <2>10
<1>4. QED
    BY <1>2, <1>3 DEF Init, DatabaseInit

LEMMA InitInv == Init => IInv
<1> SUFFICES ASSUME Init PROVE IInv
    OBVIOUS
<1>1. TypeOK
    <2>1. TypeFiles /\ TypeStored /\ TypeFlags
        BY FirstFiles DEF TypeFiles, TypeStored, TypeFlags
    <2>2. TypeCounts
        BY FirstFiles, DatabaseAssumption, NotifierAssumption DEF TypeCounts
    <2>3. TypeJob /\ TypeTelling /\ QueuesTyped
        BY NewJobs DEF TypeJob
    <2>4. QED
        BY <2>1, <2>2, <2>3, TypeParts
<1>2. LockHeld /\ Returns /\ Quiet
    BY NewJobs DEF LockHeld, Inside, Over, Returns, Quiet
<1>3. Placed
    BY NewJobs DEF Placed
<1>4. GoodFiles /\ Paired /\ NothingLost
    <2>1. Tables(legacy) = {} /\ Records(legacy) = {} /\ Pairs(legacy) = {}
        BY FirstFiles, PairsOfNone
    <2>2. GoodFiles
        BY <2>1, FirstFiles DEF GoodFiles
    <2>3. Paired
        BY FirstFiles DEF Paired
    <2>4. NothingLost
        BY <2>1, FirstFiles, NothingLostIs
    <2>5. QED
        BY <2>2, <2>3, <2>4
<1>5. Lines
    <2>1. QueueOf(<<>>, <<>>, <<>>)
        BY DEF QueueOf, Started
    <2>2. QED
        BY <2>1, NewJobs DEF Lines
<1>6. QED
    BY <1>1, <1>2, <1>3, <1>4, <1>5 DEF IInv

LEMMA NextInv == IInv /\ [Next]_vars => IInv'
<1> SUFFICES ASSUME IInv, [Next]_vars PROVE IInv'
    OBVIOUS
<1>1. CASE Next
    <2>1. TypeOK'
        <3>1. /\ TypeFiles' /\ TypeStored' /\ TypeFlags' /\ TypeJob' /\ TypeCounts' /\ TypeTelling'
              /\ QueuesTyped'
            BY <1>1, TypesKept
        <3>2. QED
            BY <3>1 DEF TypeOK, DatabaseTypeOK, TypeFiles, TypeStored, TypeFlags, TypeJob,
               TypeCounts, TypeTelling, QueuesTyped, JobType, EntryOf
    <2>2. LockHeld' /\ Returns' /\ Quiet'
        BY <1>1, ControlKept
    <2>3. Placed' /\ GoodFiles' /\ Paired' /\ NothingLost'
        BY <1>1, FilesKept
    <2>4. Lines'
        BY <1>1, LinesKept
    <2>5. QED
        BY <2>1, <2>2, <2>3, <2>4 DEF IInv
<1>2. CASE UNCHANGED vars
    <2>1. UNCHANGED <<lockfile, version, packages, names, legacy, job, stored, torn, faults,
                      processes, due, ran, telling, worked>>
        BY <1>2 DEF vars, database, files, notifiers
    <2>2. TypeOK'
        BY <2>1 DEF IInv, TypeOK, DatabaseTypeOK
    <2>3. LockHeld' /\ Returns' /\ Quiet'
        BY <2>1 DEF IInv, LockHeld, Inside, Over, Returns, Quiet, Early
    <2>4. Placed' /\ GoodFiles' /\ NothingLost'
        BY <2>1 DEF IInv, Placed, GoodFiles, NothingLost
    <2>5. Paired'
        BY <2>1 DEF IInv, Paired, Underway
    <2>6. Lines'
        BY <2>1 DEF IInv, Lines
    <2>7. QED
        BY <2>2, <2>3, <2>4, <2>5, <2>6 DEF IInv
<1>3. QED
    BY <1>1, <1>2

LEMMA Invariance == Spec => []IInv
BY InitInv, NextInv, PTL DEF Spec

(* The files, what the processes know and the lists of the notifiers are   *)
(* what database.c and log.c can make of them.                             *)
THEOREM TypeCorrect == Spec => []TypeOK
<1>1. IInv => TypeOK
    BY DEF IInv
<1>2. QED
    BY <1>1, Invariance, PTL

LEMMA OneIsBusy == IInv => OneInside
<1> SUFFICES ASSUME IInv PROVE OneInside
    OBVIOUS
<1>1. ASSUME NEW c \in Command, Busy(c) PROVE Inside(c)
    <2>1. ASSUME job[c].at = "ended", ~job[c].interrupted PROVE processes[c] = <<>>
        BY <2>1 DEF IInv, Quiet
    <2>2. QED
        BY <1>1, <2>1 DEF Busy
<1>2. QED
    BY <1>1 DEF IInv, LockHeld, OneInside

(* However many commands are started and are stopped or killed, there is   *)
(* one at most in the database directory, with the scripts it started      *)
(* counted in when it ends by itself (database_lock, logger_wait).         *)
THEOREM OneInsideAlways == Spec => []OneInside
BY OneIsBusy, Invariance, PTL

LEMMA LinesInOrder == IInv => CallsInOrder
<1> SUFFICES ASSUME IInv, NEW c \in Command
             PROVE  /\ Len(ran[c]) <= Len(due[c])
                    /\ \A i \in DOMAIN ran[c] : ran[c][i] = due[c][i]
                    /\ \A i, j \in DOMAIN processes[c] :
                          N!IsRunning(processes[c][i]) /\ N!IsRunning(processes[c][j]) => i = j
                    /\ (job[c].at = "ended" /\ ~job[c].interrupted => ran[c] = due[c])
    BY DEF CallsInOrder
<1>1. /\ \A i \in DOMAIN processes[c] : i > 1 => processes[c][i].state = "waiting"
      /\ Len(ran[c]) =< Len(due[c]) /\ \A i \in DOMAIN ran[c] : ran[c][i] = due[c][i]
      /\ (job[c].at = "ended" /\ ~job[c].interrupted => ran[c] = due[c])
    BY DEF IInv, Lines
<1>2. processes[c] \in Seq(EntryOf)
    BY TypeParts DEF IInv, QueuesTyped
<1>3. ASSUME NEW i \in DOMAIN processes[c], N!IsRunning(processes[c][i]) PROVE i = 1
    <2>1. processes[c][i].state # "waiting"
        BY <1>3 DEF N!IsRunning
    <2>2. i \in Nat /\ i >= 1
        BY <1>2, <1>3
    <2>3. QED
        BY <1>1, <1>3, <2>1, <2>2
<1>4. QED
    BY <1>1, <1>3

(* The scripts of a command are run one at a time, in the order of what it *)
(* changed, and all of them when it was not stopped, also where fork       *)
(* failed for a while (logger_wait, startchild).                           *)
THEOREM CallsInOrderAlways == Spec => []CallsInOrder
<1>1. IInv => CallsInOrder
    BY LinesInOrder
<1>2. QED
    BY <1>1, Invariance, PTL

(* What a command stored is found in packages.db or packages.legacy.db     *)
(* after any number of commands that fail, are stopped or are killed, as   *)
(* long as no table was created without its secondary one (database.c's    *)
(* opening, creation and translation of packages.db).                      *)
THEOREM NothingLostAlways == Spec => []NothingLost
<1>1. IInv => NothingLost
    BY DEF IInv
<1>2. QED
    BY <1>1, Invariance, PTL

=============================================================================
