--------------------------- MODULE ReleaseProofs ---------------------------
(***************************************************************************)
(* Proofs about Release, for any targets, index files and failures: what   *)
(* dists/ and the cache of checksums hold after any history of exports.    *)
(*                                                                         *)
(* The invariants speak of what is written at the end of an export, by     *)
(* looping over release->files.  The strengthening says what the entries   *)
(* of that list mean at each point of an export: which files they stand    *)
(* for, where the content with their checksums is to be found, and what    *)
(* the loop has left to do.                                                *)
(***************************************************************************)
EXTENDS Release, TLAPS

Exporting == pc \in {"targets", "prepare", "finish", "store", "report"}
Finishing == pc \in {"finish", "store", "report"}

(* Nothing is remembered from one export to the next. *)
Fresh == ~Exporting => entries = <<>> /\ todo = <<>>

(***************************************************************************)
(* Each file has at most one entry, and it has one when its target is      *)
(* done.  The loops meet an entry only once.                               *)
(***************************************************************************)
OneEach(list) == \A i, j \in DOMAIN list : list[i].file = list[j].file => i = j

Has(f) == \E e \in ToSet(entries) : e.file = f

ToCome == IF pc = "targets" THEN ToSet(todo) ELSE {}

Listing ==
    /\ OneEach(entries)
    /\ pc = "targets" => IsInjective(todo)
    /\ pc = "prepare" => todo = <<>>
    /\ pc \in {"finish", "store"} => OneEach(todo) /\ ToSet(todo) \subseteq ToSet(entries)
    /\ pc \in {"targets", "prepare"} => \A e \in ToSet(entries) : e.file \in IndexFile
    /\ Exporting => \A t \in Target : \A f \in ToSet(FilesOf[t]) : t \notin ToCome <=> Has(f)

(* The entry e is still to be handled by the loop at work. *)
Ahead(loop, e) == pc = loop /\ e \in ToSet(todo)

(***************************************************************************)
(* An index file that is written is of the target's current state, and     *)
(* waits as .new or is in place; one that is kept belongs to a target that *)
(* need not be written, and has the checksums the cache had.               *)
(***************************************************************************)
Written(e) ==
    /\ \A t \in Target : e.file \in ToSet(FilesOf[t]) => e.sum = Generated(t, e.file)
    /\ IF e.temp THEN temps[e.file] = e.sum ELSE Finishing /\ dists[e.file] = e.sum
    /\ Ahead("finish", e) => e.temp

Kept(e) ==
    /\ dists[e.file] # {}
    /\ ~full /\ \A t \in modified : e.file \notin ToSet(FilesOf[t])
    /\ pc \in {"targets", "prepare", "finish"} \/ Ahead("store", e) => cache[e.file] = e.sum

IndexEntries ==
    \A e \in ToSet(entries) : e.file \in IndexFile =>
        /\ e.sum # {}
        /\ IF e.final THEN Written(e) ELSE Kept(e)

(***************************************************************************)
(* Release and the signatures hold what the entries list, once they are in *)
(* place.  A signature without entry is not there.                         *)
(***************************************************************************)
Wanted == IF signwith THEN Special ELSE {"Release"}

SpecialEntries ==
    Finishing => \A s \in Special :
        /\ ~Has(s) => dists[s] = {} /\ s \notin Wanted
        /\ \A e \in ToSet(entries) : e.file = s =>
             /\ e.sum = {}
             /\ e.temp => temps[s] = Listed
             /\ e.final /\ ~e.temp /\ ~Ahead("finish", e) => dists[s] = Listed
             /\ s \in Wanted => e.final /\ (Ahead("finish", e) => e.temp)

(* What could not be renamed is an error. *)
Failures ==
    Finishing => \A e \in ToSet(entries) : e.temp /\ ~Ahead("finish", e) => error

(***************************************************************************)
(* What the process changed in dists/ is what the entries will be reported *)
(* for, and then has its line in the .outlog.                              *)
(***************************************************************************)
Reporting ==
    /\ Finishing => \A f \in touched : \E e \in ToSet(entries) :
            e.file = f /\ (e.final \/ e.sum = {})
    /\ pc = "outhook" => \A f \in touched : outlog[f] # ""
    /\ ~Finishing /\ pc # "outhook" => touched = {}

MirrorTold == \A f \in File \ (touched \cup unsent) : mirror[f] = dists[f]

IInv ==
    /\ TypeOK
    /\ Fresh /\ Listing /\ IndexEntries /\ SpecialEntries /\ Failures
    /\ Reporting /\ CacheTruthful /\ IndexConsistent /\ MirrorTold

-----------------------------------------------------------------------------
(* Sequences and their elements.                                           *)

LEMMA ElementsOf ==
    ASSUME NEW S, NEW s \in Seq(S)
    PROVE  /\ ToSet(s) \subseteq S
           /\ \A i \in DOMAIN s : s[i] \in ToSet(s)
           /\ \A x \in ToSet(s) : \E i \in DOMAIN s : s[i] = x
           /\ ToSet(<<>>) = {}
BY DEF ToSet

LEMMA Concatenated ==
    ASSUME NEW S, NEW s \in Seq(S), NEW u \in Seq(S)
    PROVE  /\ s \o u \in Seq(S)
           /\ ToSet(s \o u) = ToSet(s) \cup ToSet(u)
           /\ /\ OneEach(s) /\ OneEach(u)
              /\ \A x \in ToSet(s), y \in ToSet(u) : x.file # y.file
              => OneEach(s \o u)
<1>1. s \o u \in Seq(S) /\ DOMAIN (s \o u) = 1..(Len(s) + Len(u))
    OBVIOUS
<1>2. ASSUME NEW i \in DOMAIN (s \o u)
      PROVE  \/ i \in DOMAIN s /\ (s \o u)[i] = s[i]
             \/ i - Len(s) \in DOMAIN u /\ (s \o u)[i] = u[i - Len(s)]
    <2>1. i \in Nat /\ Len(s) \in Nat /\ Len(u) \in Nat /\ i >= 1 /\ i <= Len(s) + Len(u)
        BY <1>1
    <2>2. CASE i <= Len(s)
        BY <2>1, <2>2
    <2>3. CASE i > Len(s)
        BY <2>1, <2>3
    <2>4. QED
        BY <2>1, <2>2, <2>3
<1>3. /\ \A i \in DOMAIN s : i \in DOMAIN (s \o u) /\ (s \o u)[i] = s[i]
      /\ \A i \in DOMAIN u : i + Len(s) \in DOMAIN (s \o u) /\ (s \o u)[i + Len(s)] = u[i]
    OBVIOUS
<1>4. ToSet(s \o u) = ToSet(s) \cup ToSet(u)
    <2>1. ToSet(s \o u) \subseteq ToSet(s) \cup ToSet(u)
        BY <1>2 DEF ToSet
    <2>2. ToSet(s) \subseteq ToSet(s \o u)
        BY <1>3 DEF ToSet
    <2>3. ToSet(u) \subseteq ToSet(s \o u)
        BY <1>3 DEF ToSet
    <2>4. QED
        BY <2>1, <2>2, <2>3
<1>5. ASSUME OneEach(s), OneEach(u), \A x \in ToSet(s), y \in ToSet(u) : x.file # y.file,
             NEW i \in DOMAIN (s \o u), NEW j \in DOMAIN (s \o u),
             (s \o u)[i].file = (s \o u)[j].file
      PROVE  i = j
    <2>1. (i \in DOMAIN s /\ j \in DOMAIN s) \/ (i - Len(s) \in DOMAIN u /\ j - Len(s) \in DOMAIN u)
        BY <1>2, <1>5 DEF ToSet
    <2>2. i \in Int /\ j \in Int /\ Len(s) \in Int
        BY <1>1, <1>5
    <2>3. CASE i \in DOMAIN s /\ j \in DOMAIN s
        BY <1>3, <1>5, <2>3 DEF OneEach
    <2>4. CASE i - Len(s) \in DOMAIN u /\ j - Len(s) \in DOMAIN u
        <3>1. i - Len(s) + Len(s) = i /\ j - Len(s) + Len(s) = j
            BY <2>2
        <3>2. (s \o u)[i] = u[i - Len(s)] /\ (s \o u)[j] = u[j - Len(s)]
            BY <1>3, <2>4, <3>1
        <3>3. i - Len(s) = j - Len(s)
            BY <1>5, <2>4, <3>2 DEF OneEach
        <3>4. QED
            BY <2>2, <3>3
    <2>5. QED
        BY <2>1, <2>3, <2>4
<1>6. QED
    BY <1>1, <1>4, <1>5 DEF OneEach

LEMMA HeadAndTail ==
    ASSUME NEW S, NEW s \in Seq(S), s # <<>>
    PROVE  /\ Head(s) \in S /\ Head(s) \in ToSet(s) /\ Tail(s) \in Seq(S)
           /\ ToSet(s) = {Head(s)} \cup ToSet(Tail(s))
           /\ OneEach(s) => OneEach(Tail(s)) /\ \A x \in ToSet(Tail(s)) : x.file # Head(s).file
           /\ IsInjective(s) => IsInjective(Tail(s)) /\ Head(s) \notin ToSet(Tail(s))
<1>1. /\ Tail(s) \in Seq(S) /\ 1 \in DOMAIN s /\ Head(s) = s[1]
      /\ \A i \in DOMAIN Tail(s) : i + 1 \in DOMAIN s /\ Tail(s)[i] = s[i + 1] /\ i \in Nat \ {0}
      /\ \A i \in DOMAIN s : i # 1 => i - 1 \in DOMAIN Tail(s) /\ Tail(s)[i - 1] = s[i]
    OBVIOUS
<1>2. Head(s) \in S /\ Head(s) \in ToSet(s) /\ ToSet(s) = {Head(s)} \cup ToSet(Tail(s))
    <2>1. Head(s) \in S /\ Head(s) \in ToSet(s)
        BY <1>1 DEF ToSet
    <2>2. ToSet(Tail(s)) \subseteq ToSet(s)
        BY <1>1 DEF ToSet
    <2>3. ToSet(s) \subseteq {Head(s)} \cup ToSet(Tail(s))
        BY <1>1 DEF ToSet
    <2>4. QED
        BY <2>1, <2>2, <2>3
<1>3. ASSUME OneEach(s)
      PROVE  OneEach(Tail(s)) /\ \A x \in ToSet(Tail(s)) : x.file # Head(s).file
    <2>1. \A i, j \in DOMAIN Tail(s) : Tail(s)[i].file = Tail(s)[j].file => i + 1 = j + 1
        BY <1>1, <1>3 DEF OneEach
    <2>2. \A i \in DOMAIN Tail(s) : Tail(s)[i].file = Head(s).file => i + 1 = 1
        BY <1>1, <1>3 DEF OneEach
    <2>3. QED
        BY <1>1, <2>1, <2>2 DEF OneEach, ToSet
<1>4. ASSUME IsInjective(s)
      PROVE  IsInjective(Tail(s)) /\ Head(s) \notin ToSet(Tail(s))
    <2>1. \A i, j \in DOMAIN Tail(s) : Tail(s)[i] = Tail(s)[j] => i + 1 = j + 1
        BY <1>1, <1>4 DEF IsInjective
    <2>2. \A i \in DOMAIN Tail(s) : Tail(s)[i] = Head(s) => i + 1 = 1
        BY <1>1, <1>4 DEF IsInjective
    <2>3. QED
        BY <1>1, <2>1, <2>2 DEF IsInjective, ToSet
<1>5. QED
    BY <1>1, <1>2, <1>3, <1>4

Replace(s, x, y) == [i \in DOMAIN s |-> IF s[i] = x THEN y ELSE s[i]]

LEMMA Replaced ==
    ASSUME NEW S, NEW s \in Seq(S), NEW x \in ToSet(s), NEW y \in S,
           x.file = y.file
    PROVE  /\ Replace(s, x, y) \in Seq(S)
           /\ \A e : e \in ToSet(Replace(s, x, y)) <=> e \in (ToSet(s) \ {x}) \cup {y}
           /\ OneEach(s) => OneEach(Replace(s, x, y))
<1> DEFINE u == [i \in DOMAIN s |-> IF s[i] = x THEN y ELSE s[i]]
<1>1. u \in Seq(S) /\ DOMAIN u = DOMAIN s
    OBVIOUS
<1>2. ToSet(u) = (ToSet(s) \ {x}) \cup {y}
    <2>1. ToSet(u) = {IF e = x THEN y ELSE e : e \in ToSet(s)}
        BY DEF ToSet
    <2>2. QED
        BY <2>1
<1>3. \A i \in DOMAIN s : u[i].file = s[i].file
    OBVIOUS
<1>4. OneEach(s) => OneEach(u)
    BY <1>1, <1>3 DEF OneEach
<1>5. QED
    BY <1>1, <1>2, <1>4 DEF Replace

-----------------------------------------------------------------------------
(* The files of the targets, and the entries made for them.                *)

LEMMA FilesAreOwned ==
    /\ \A t \in Target : FilesOf[t] \in Seq(IndexFile) /\ ToSet(FilesOf[t]) \subseteq IndexFile
    /\ \A t, u \in Target : \A f \in ToSet(FilesOf[t]) : f \in ToSet(FilesOf[u]) => t = u
    /\ \A f \in IndexFile : \E t \in Target : f \in ToSet(FilesOf[t])
    /\ \A s \in Special : s \notin IndexFile
    /\ Targets \in Seq(Target) /\ IsInjective(Targets)
<1>1. \A t \in Target : FilesOf[t] \in Seq(IndexFile)
    BY ExportAssumption
<1>2. \A t \in Target : ToSet(FilesOf[t]) \subseteq IndexFile
    BY <1>1, ElementsOf
<1>3. QED
    BY <1>1, <1>2, ExportAssumption

LEMMA EntriesOf ==
    ASSUME NEW t \in Target, NEW E, NEW u \in [DOMAIN FilesOf[t] -> E],
           \A i \in DOMAIN FilesOf[t] : u[i].file = FilesOf[t][i]
    PROVE  /\ u \in Seq(E) /\ OneEach(u)
           /\ \A x \in ToSet(u) : \E i \in DOMAIN FilesOf[t] :
                x = u[i] /\ FilesOf[t][i] \in ToSet(FilesOf[t])
           /\ \A f \in ToSet(FilesOf[t]) : \E i \in DOMAIN FilesOf[t] :
                f = FilesOf[t][i] /\ u[i] \in ToSet(u)
<1>1. FilesOf[t] \in Seq(IndexFile) /\ IsInjective(FilesOf[t])
    BY ExportAssumption
<1>2. u \in Seq(E) /\ DOMAIN u = DOMAIN FilesOf[t]
    BY <1>1
<1>3. OneEach(u)
    BY <1>1, <1>2 DEF OneEach, IsInjective
<1>4. /\ \A x \in ToSet(u) : \E i \in DOMAIN u : u[i] = x
      /\ \A i \in DOMAIN u : u[i] \in ToSet(u)
    BY <1>2, ElementsOf
<1>5. /\ \A f \in ToSet(FilesOf[t]) : \E i \in DOMAIN FilesOf[t] : FilesOf[t][i] = f
      /\ \A i \in DOMAIN FilesOf[t] : FilesOf[t][i] \in ToSet(FilesOf[t])
    BY <1>1, ElementsOf
<1>6. QED
    BY <1>2, <1>3, <1>4, <1>5

LEMMA TypedEntries ==
    ASSUME TypeOK, NEW t \in Target, NEW f \in IndexFile
    PROVE  /\ Generated(t, f) \in Content /\ Generated(t, f) # {}
           /\ KeptEntry(f) \in Entry /\ KeptEntry(f).file = f
           /\ NewEntry(f, Generated(t, f)) \in Entry
           /\ NewEntry(f, Generated(t, f)).file = f
<1>1. Generated(t, f) \in Content /\ Generated(t, f) # {}
    <2>1. packages[t] \in 1..MaxChanges
        BY DEF TypeOK
    <2>2. QED
        BY <2>1 DEF Generated, Content
<1>2. KeptEntry(f) \in Entry /\ KeptEntry(f).file = f
    BY DEF TypeOK, KeptEntry, Entry, File
<1>3. NewEntry(f, Generated(t, f)) \in Entry /\ NewEntry(f, Generated(t, f)).file = f
    BY <1>1 DEF NewEntry, Entry, File
<1>4. QED
    BY <1>1, <1>2, <1>3

LEMMA KeptEntries ==
    ASSUME TypeOK, NEW t \in Target
    PROVE  LET news == [i \in DOMAIN FilesOf[t] |-> KeptEntry(FilesOf[t][i])] IN
           /\ news \in Seq(Entry) /\ OneEach(news)
           /\ ToSet(news) = {KeptEntry(f) : f \in ToSet(FilesOf[t])}
<1> DEFINE news == [i \in DOMAIN FilesOf[t] |-> KeptEntry(FilesOf[t][i])]
<1>1. FilesOf[t] \in Seq(IndexFile) /\ ToSet(FilesOf[t]) \subseteq IndexFile
    BY FilesAreOwned
<1>2. /\ \A i \in DOMAIN FilesOf[t] : news[i] = KeptEntry(FilesOf[t][i])
      /\ \A i \in DOMAIN FilesOf[t] : news[i].file = FilesOf[t][i]
      /\ news \in [DOMAIN FilesOf[t] -> Entry]
    BY <1>1, TypedEntries
<1> HIDE DEF news
<1>3. /\ news \in Seq(Entry) /\ OneEach(news)
      /\ \A x \in ToSet(news) : \E i \in DOMAIN FilesOf[t] :
           x = news[i] /\ FilesOf[t][i] \in ToSet(FilesOf[t])
      /\ \A f \in ToSet(FilesOf[t]) : \E i \in DOMAIN FilesOf[t] :
           f = FilesOf[t][i] /\ news[i] \in ToSet(news)
    BY <1>2, EntriesOf
<1>4. ToSet(news) = {KeptEntry(f) : f \in ToSet(FilesOf[t])}
    BY <1>2, <1>3
<1>5. QED
    BY <1>3, <1>4 DEF news

LEMMA NewEntries ==
    ASSUME TypeOK, NEW t \in Target
    PROVE  LET news == [i \in DOMAIN FilesOf[t] |->
                          NewEntry(FilesOf[t][i], Generated(t, FilesOf[t][i]))] IN
           /\ news \in Seq(Entry) /\ OneEach(news)
           /\ ToSet(news) = {NewEntry(f, Generated(t, f)) : f \in ToSet(FilesOf[t])}
<1> DEFINE news == [i \in DOMAIN FilesOf[t] |->
                      NewEntry(FilesOf[t][i], Generated(t, FilesOf[t][i]))]
<1>1. FilesOf[t] \in Seq(IndexFile) /\ ToSet(FilesOf[t]) \subseteq IndexFile
    BY FilesAreOwned
<1>2. /\ \A i \in DOMAIN FilesOf[t] :
            news[i] = NewEntry(FilesOf[t][i], Generated(t, FilesOf[t][i]))
      /\ \A i \in DOMAIN FilesOf[t] : news[i].file = FilesOf[t][i]
      /\ news \in [DOMAIN FilesOf[t] -> Entry]
    BY <1>1, TypedEntries
<1> HIDE DEF news
<1>3. /\ news \in Seq(Entry) /\ OneEach(news)
      /\ \A x \in ToSet(news) : \E i \in DOMAIN FilesOf[t] :
           x = news[i] /\ FilesOf[t][i] \in ToSet(FilesOf[t])
      /\ \A f \in ToSet(FilesOf[t]) : \E i \in DOMAIN FilesOf[t] :
           f = FilesOf[t][i] /\ news[i] \in ToSet(news)
    BY <1>2, EntriesOf
<1>4. ToSet(news) = {NewEntry(f, Generated(t, f)) : f \in ToSet(FilesOf[t])}
    BY <1>2, <1>3
<1>5. QED
    BY <1>3, <1>4 DEF news

(* The lists of a process that is over, or has no export begun.            *)
Lists ==
    /\ entries \in Seq(Entry)
    /\ Fresh /\ Listing /\ IndexEntries /\ SpecialEntries /\ Failures

LEMMA NothingListed ==
    ASSUME entries' = <<>>, todo' = <<>>, pc' \in {"idle", "command", "outhook"}
    PROVE  Lists'
<1>1. ToSet(entries') = {} /\ OneEach(entries')
    BY ElementsOf DEF ToSet, OneEach
<1>2. ~Exporting' /\ ~Finishing' /\ pc' \notin {"targets", "prepare", "finish", "store"}
    BY DEF Exporting, Finishing
<1>3. Fresh' /\ Failures' /\ SpecialEntries'
    BY <1>2 DEF Fresh, Failures, SpecialEntries
<1>4. Listing'
    BY <1>1, <1>2 DEF Listing, OneEach
<1>5. IndexEntries'
    BY <1>1 DEF IndexEntries
<1>6. QED
    BY <1>3, <1>4, <1>5 DEF Lists

(* A target is done: its files were not listed before, and now are.        *)
LEMMA TargetListed ==
    ASSUME IInv, NEW t \in Target, NEW news \in Seq(Entry),
           pc = "targets", todo # <<>>, t = Head(todo), OneEach(news),
           \A x \in ToSet(news) : x.file \in ToSet(FilesOf[t]),
           \A f \in ToSet(FilesOf[t]) : \E x \in ToSet(news) : x.file = f,
           pc' = "targets", entries' = entries \o news, todo' = Tail(todo)
    PROVE  /\ ToSet(entries') = ToSet(entries) \cup ToSet(news) /\ entries' \in Seq(Entry)
           /\ \A f \in ToSet(FilesOf[t]) : ~Has(f)
           /\ Fresh' /\ Listing' /\ SpecialEntries' /\ Failures'
<1>0. todo \in Seq(Target) /\ entries \in Seq(Entry)
    BY DEF IInv, TypeOK
<1>2. /\ ToSet(todo) = {t} \cup ToSet(todo') /\ t \notin ToSet(todo') /\ IsInjective(todo')
      /\ ToSet(todo') \subseteq Target
    <2>1. IsInjective(todo)
        BY DEF IInv, Listing
    <2>2. QED
        BY <1>0, <2>1, HeadAndTail, ElementsOf
<1>3. \A f \in ToSet(FilesOf[t]) : ~Has(f)
    BY <1>0, <1>2 DEF IInv, Listing, ToCome, Exporting
<1>4. /\ ToSet(entries') = ToSet(entries) \cup ToSet(news)
      /\ OneEach(entries')
    <2>1. \A x \in ToSet(entries), y \in ToSet(news) : x.file # y.file
        BY <1>3 DEF Has
    <2>2. OneEach(entries)
        BY DEF IInv, Listing
    <2>3. QED
        BY <1>0, <2>1, <2>2, Concatenated
<1>5. \A f : Has(f)' <=> Has(f) \/ f \in ToSet(FilesOf[t])
    BY <1>4 DEF Has
<1>6. Listing'
    <2>1. ASSUME NEW u \in Target, NEW f \in ToSet(FilesOf[u])
          PROVE  u \notin ToCome' <=> Has(f)'
        <3>1. u \notin ToCome <=> Has(f)
            BY <1>0 DEF IInv, Listing, Exporting
        <3>2. u = t <=> f \in ToSet(FilesOf[t])
            BY <2>1, FilesAreOwned
        <3>3. QED
            BY <1>0, <1>2, <1>5, <3>1, <3>2 DEF ToCome
    <2>2. \A e \in ToSet(entries') : e.file \in IndexFile
        BY <1>0, <1>4, FilesAreOwned DEF IInv, Listing
    <2>3. QED
        BY <1>0, <1>2, <1>4, <2>1, <2>2 DEF Listing
<1>7. Fresh' /\ SpecialEntries' /\ Failures'
    BY <1>0 DEF Fresh, SpecialEntries, Failures, Exporting, Finishing
<1>8. QED
    BY <1>0, <1>3, <1>4, <1>6, <1>7

(* A target is kept: its entries are those of the cache.                   *)
LEMMA KeepStep ==
    ASSUME IInv, NEW t \in Target, KeepTarget(t)
    PROVE  Lists'
<1>1. PICK news : /\ news \in Seq(Entry) /\ OneEach(news)
                  /\ ToSet(news) = {KeptEntry(f) : f \in ToSet(FilesOf[t])}
                  /\ entries' = entries \o news
    BY KeptEntries DEF IInv, KeepTarget
<1>2. /\ pc = "targets" /\ pc' = "targets" /\ todo # <<>> /\ t = Head(todo) /\ todo' = Tail(todo)
      /\ packages' = packages /\ temps' = temps /\ dists' = dists /\ full' = full
      /\ modified' = modified /\ cache' = cache
    BY DEF KeepTarget, disk
<1>3. \A f : KeptEntry(f).file = f /\ KeptEntry(f).sum = cache[f] /\ ~KeptEntry(f).final
    BY DEF KeptEntry
<1>4. /\ ToSet(entries') = ToSet(entries) \cup ToSet(news) /\ entries' \in Seq(Entry)
      /\ Fresh' /\ Listing' /\ SpecialEntries' /\ Failures'
    BY ZenonT(40), <1>1, <1>2, <1>3, TargetListed
<1>5. ASSUME NEW e \in ToSet(news)
      PROVE  e.sum # {} /\ ~e.final /\ Kept(e)'
    <2>0. PICK f \in ToSet(FilesOf[t]) : e = KeptEntry(f)
        BY <1>1
    <2>1. ~full /\ t \notin modified /\ dists[f] # {} /\ cache[f] # {}
        BY DEF KeepTarget, UseCached
    <2>2. \A u \in modified : f \notin ToSet(FilesOf[u])
        BY <2>1, FilesAreOwned DEF IInv, TypeOK
    <2>3. QED
        BY <1>2, <1>3, <2>0, <2>1, <2>2 DEF Kept
<1>6. ASSUME NEW e \in ToSet(entries), e.file \in IndexFile
      PROVE  e.sum # {} /\ IF e.final THEN Written(e)' ELSE Kept(e)'
    <2>1. e.sum # {} /\ IF e.final THEN Written(e) ELSE Kept(e)
        BY <1>6 DEF IInv, IndexEntries
    <2>2. Written(e) => Written(e)'
        BY <1>2 DEF Written, Generated, Ahead, Finishing
    <2>3. Kept(e) => Kept(e)'
        BY <1>2 DEF Kept, Ahead
    <2>4. QED
        BY <2>1, <2>2, <2>3
<1>7. IndexEntries'
    BY <1>4, <1>5, <1>6 DEF IndexEntries
<1>8. QED
    BY <1>4, <1>7 DEF Lists

(* A target is written: its files wait as .new files.                      *)
LEMMA WriteStep ==
    ASSUME IInv, NEW t \in Target, WriteTarget(t), pc' # "idle"
    PROVE  Lists'
<1> DEFINE new(f) == NewEntry(f, Generated(t, f))
<1>1. PICK news : /\ news \in Seq(Entry) /\ OneEach(news)
                  /\ ToSet(news) = {new(f) : f \in ToSet(FilesOf[t])}
                  /\ entries' = entries \o news
    BY NewEntries DEF IInv, WriteTarget, Quit
<1>2. /\ pc = "targets" /\ pc' = "targets" /\ todo # <<>> /\ t = Head(todo) /\ todo' = Tail(todo)
      /\ packages' = packages /\ dists' = dists /\ full' = full
      /\ modified' = modified /\ cache' = cache
      /\ temps' = [f \in File |-> IF f \in ToSet(FilesOf[t]) THEN Generated(t, f) ELSE temps[f]]
    BY DEF WriteTarget, Quit
<1>3. \A f : /\ new(f).file = f /\ new(f).sum = Generated(t, f)
             /\ new(f).final /\ new(f).temp
    BY DEF NewEntry
<1> HIDE DEF new
<1>4. /\ ToSet(entries') = ToSet(entries) \cup ToSet(news) /\ entries' \in Seq(Entry)
      /\ \A f \in ToSet(FilesOf[t]) : ~Has(f)
      /\ Fresh' /\ Listing' /\ SpecialEntries' /\ Failures'
    BY ZenonT(40), <1>1, <1>2, <1>3, TargetListed
<1>5. ASSUME NEW e \in ToSet(news)
      PROVE  e.sum # {} /\ e.final /\ Written(e)'
    <2>0. PICK f \in ToSet(FilesOf[t]) : e = new(f)
        BY <1>1
    <2>1. f \in IndexFile /\ \A u \in Target : f \in ToSet(FilesOf[u]) => u = t
        BY FilesAreOwned
    <2>2. temps'[f] = Generated(t, f) /\ Generated(t, f) # {} /\ Generated(t, f)' = Generated(t, f)
        BY <1>2, <2>1, TypedEntries DEF IInv, File, Generated
    <2>3. \A u \in Target : f \in ToSet(FilesOf[u]) => e.sum = Generated(u, f)'
        BY <1>3, <2>0, <2>1, <2>2
    <2>4. QED
        BY <1>2, <1>3, <2>0, <2>2, <2>3 DEF Written, Ahead
<1>6. ASSUME NEW e \in ToSet(entries), e.file \in IndexFile
      PROVE  e.sum # {} /\ IF e.final THEN Written(e)' ELSE Kept(e)'
    <2>1. e.sum # {} /\ IF e.final THEN Written(e) ELSE Kept(e)
        BY <1>6 DEF IInv, IndexEntries
    <2>2. temps'[e.file] = temps[e.file]
        BY <1>2, <1>4, <1>6 DEF Has, File
    <2>3. Written(e) => Written(e)'
        BY <1>2, <2>2 DEF Written, Generated, Ahead, Finishing
    <2>4. Kept(e) => Kept(e)'
        BY <1>2 DEF Kept, Ahead
    <2>5. QED
        BY <2>1, <2>3, <2>4
<1>7. IndexEntries'
    BY <1>4, <1>5, <1>6 DEF IndexEntries
<1>8. QED
    BY <1>4, <1>7 DEF Lists

(* An export begins, and its targets are done.                             *)
LEMMA StartStep ==
    ASSUME IInv, NEW all \in BOOLEAN, StartExport(all)
    PROVE  Lists'
<1>1. /\ ~Exporting /\ pc' = "targets" /\ todo' = Targets /\ entries' = entries
    BY DEF StartExport, Exporting
<1>2. entries' = <<>> /\ entries' \in Seq(Entry) /\ ToSet(entries') = {} /\ OneEach(entries')
    BY <1>1, ElementsOf DEF IInv, Fresh, ToSet, OneEach
<1>3. ToSet(todo') = Target /\ IsInjective(todo')
    BY <1>1, FilesAreOwned DEF Target
<1>4. Listing'
    BY <1>1, <1>2, <1>3 DEF Listing, ToCome, Has
<1>5. IndexEntries' /\ Fresh' /\ SpecialEntries' /\ Failures'
    BY <1>1, <1>2 DEF IndexEntries, Fresh, SpecialEntries, Failures, Exporting, Finishing
<1>6. QED
    BY <1>2, <1>4, <1>5 DEF Lists

LEMMA TargetsEndStep ==
    ASSUME IInv, TargetsEnd
    PROVE  Lists'
<1>1. /\ pc = "targets" /\ pc' = "prepare" /\ todo = <<>> /\ todo' = <<>> /\ entries' = entries
      /\ packages' = packages /\ temps' = temps /\ dists' = dists /\ full' = full
      /\ modified' = modified /\ cache' = cache
    BY DEF TargetsEnd, disk
<1>2. ToCome = {} /\ ToCome' = {}
    BY <1>1, ElementsOf DEF ToCome, ToSet
<1>3. Listing'
    BY <1>1, <1>2 DEF IInv, Listing, Has, Exporting
<1>4. ASSUME NEW e \in ToSet(entries), e.file \in IndexFile
      PROVE  e.sum # {} /\ IF e.final THEN Written(e)' ELSE Kept(e)'
    <2>1. e.sum # {} /\ IF e.final THEN Written(e) ELSE Kept(e)
        BY <1>4 DEF IInv, IndexEntries
    <2>2. Written(e) => Written(e)'
        BY <1>1 DEF Written, Generated, Ahead, Finishing
    <2>3. Kept(e) => Kept(e)'
        BY <1>1 DEF Kept, Ahead
    <2>4. QED
        BY <2>1, <2>2, <2>3
<1>5. IndexEntries'
    BY <1>1, <1>4 DEF IndexEntries
<1>6. Fresh' /\ SpecialEntries' /\ Failures'
    BY <1>1 DEF Fresh, SpecialEntries, Failures, Exporting, Finishing
<1>7. QED
    BY <1>1, <1>3, <1>5, <1>6 DEF Lists, IInv, TypeOK

(* The Release file is generated from the entries, and signed.             *)
LEMMA Singleton ==
    ASSUME NEW S, NEW x \in S
    PROVE  <<x>> \in Seq(S) /\ OneEach(<<x>>) /\ ToSet(<<x>>) = {x}
BY DEF OneEach, ToSet

LEMMA SignatureMade ==
    ASSUME TypeOK, NEW f \in Special
    PROVE  /\ \A made \in BOOLEAN : SpecialEntry(f, made) \in Entry
           /\ Signature(f) \in Seq(Entry) /\ OneEach(Signature(f))
           /\ ToSet(Signature(f)) =
                IF signwith \/ dists[f] # {} THEN {SpecialEntry(f, signwith)} ELSE {}
<1>1. \A made \in BOOLEAN : SpecialEntry(f, made) \in Entry
    BY DEF SpecialEntry, Entry, File, Content
<1>2. signwith \in BOOLEAN
    BY DEF TypeOK
<1>3. CASE signwith \/ dists[f] # {}
    <2>1. Signature(f) = <<SpecialEntry(f, signwith)>>
        BY <1>3 DEF Signature
    <2>2. QED
        BY <1>1, <1>2, <1>3, <2>1, Singleton
<1>4. CASE ~(signwith \/ dists[f] # {})
    <2>1. Signature(f) = <<>>
        BY <1>4 DEF Signature
    <2>2. QED
        BY <1>1, <1>4, <2>1 DEF OneEach, ToSet
<1>5. QED
    BY <1>3, <1>4

LEMMA PrepareStep ==
    ASSUME IInv, Prepare, pc' # "idle"
    PROVE  Lists'
<1> DEFINE mark(f) == f = "Release" \/ signwith
           listed(f) == f = "Release" \/ signwith \/ dists[f] # {}
           made == {"Release"} \cup (IF signwith THEN Special ELSE {})
<1>1. /\ pc = "prepare" /\ pc' = "finish" /\ todo' = entries'
      /\ packages' = packages /\ signwith' = signwith /\ dists' = dists /\ full' = full
      /\ modified' = modified /\ cache' = cache
      /\ temps' = [f \in File |-> IF f \in made THEN Listed ELSE temps[f]]
      /\ entries' = entries \o <<SpecialEntry("Release", TRUE)>>
                            \o Signature("InRelease") \o Signature("Release.gpg")
    BY DEF Prepare, Quit, Return
<1>2. TypeOK /\ signwith \in BOOLEAN /\ entries \in Seq(Entry)
    BY DEF IInv, TypeOK
<1>3. \A f, b : /\ SpecialEntry(f, b).file = f /\ SpecialEntry(f, b).sum = {}
                /\ SpecialEntry(f, b).final /\ SpecialEntry(f, b).temp = b
    BY DEF SpecialEntry
<1>4. /\ OneEach(entries') /\ entries' \in Seq(Entry)
      /\ ToSet(entries') = ToSet(entries) \cup {SpecialEntry(f, mark(f)) : f \in {g \in Special : listed(g)}}
    <2>1. OneEach(entries) /\ \A x \in ToSet(entries) : x.file \notin Special
        BY <1>1, FilesAreOwned DEF IInv, Listing
    <2>2. /\ SpecialEntry("Release", TRUE) \in Entry
          /\ Signature("InRelease") \in Seq(Entry) /\ Signature("Release.gpg") \in Seq(Entry)
          /\ OneEach(Signature("InRelease")) /\ OneEach(Signature("Release.gpg"))
          /\ ToSet(Signature("InRelease")) = IF listed("InRelease")
                THEN {SpecialEntry("InRelease", signwith)} ELSE {}
          /\ ToSet(Signature("Release.gpg")) = IF listed("Release.gpg")
                THEN {SpecialEntry("Release.gpg", signwith)} ELSE {}
        BY <1>2, SignatureMade DEF Special
    <2>3. /\ \A x \in ToSet(Signature("InRelease")) : x.file = "InRelease"
          /\ \A x \in ToSet(Signature("Release.gpg")) : x.file = "Release.gpg"
          /\ SpecialEntry("Release", TRUE).file = "Release"
          /\ \A x \in ToSet(entries) : x.file \notin {"Release", "InRelease", "Release.gpg"}
        <3>1. \A x \in ToSet(Signature("InRelease")) : x = SpecialEntry("InRelease", signwith)
            BY <2>2
        <3>2. \A x \in ToSet(Signature("Release.gpg")) : x = SpecialEntry("Release.gpg", signwith)
            BY <2>2
        <3>3. \A x \in ToSet(entries) : x.file \notin {"Release", "InRelease", "Release.gpg"}
            BY <2>1 DEF Special
        <3>4. QED
            BY <1>3, <3>1, <3>2, <3>3
    <2>n. PICK r : r = <<SpecialEntry("Release", TRUE)>>
        OBVIOUS
    <2>r. /\ r \in Seq(Entry) /\ OneEach(r) /\ ToSet(r) = {SpecialEntry("Release", TRUE)}
          /\ \A x \in ToSet(r) : x.file = "Release"
        <3>1. PICK e \in Entry : e = SpecialEntry("Release", TRUE) /\ e.file = "Release"
            BY <2>2, <2>3
        <3>2. r = <<e>>
            BY <2>n, <3>1
        <3>3. r \in Seq(Entry) /\ OneEach(r) /\ ToSet(r) = {e}
            <4>1. <<e>> \in Seq(Entry) /\ OneEach(<<e>>) /\ ToSet(<<e>>) = {e}
                BY Singleton
            <4>2. QED
                BY <3>2, <4>1
        <3>4. QED
            BY <3>1, <3>3
    <2>a. PICK a : a = entries \o r
        OBVIOUS
    <2>4. /\ a \in Seq(Entry) /\ OneEach(a)
          /\ ToSet(a) = ToSet(entries) \cup {SpecialEntry("Release", TRUE)}
        <3>1. \A x \in ToSet(entries), y \in ToSet(r) : x.file # y.file
            BY <2>3, <2>r
        <3>2. a \in Seq(Entry)
            BY <1>2, <2>a, <2>r
        <3>3. OneEach(a) /\ ToSet(a) = ToSet(entries) \cup ToSet(r)
            <4>1. entries \in Seq(Entry) /\ r \in Seq(Entry) /\ OneEach(entries) /\ OneEach(r)
                BY <1>2, <2>1, <2>r
            <4>2. OneEach(entries \o r)
                BY <3>1, <4>1, Concatenated
            <4>3. ToSet(entries \o r) = ToSet(entries) \cup ToSet(r)
                BY <4>1, Concatenated
            <4>4. QED
                BY <2>a, <4>2, <4>3
        <3>4. QED
            BY <2>r, <3>2, <3>3
    <2>b. PICK b : b = a \o Signature("InRelease")
        OBVIOUS
    <2>5. /\ b \in Seq(Entry) /\ OneEach(b)
          /\ ToSet(b) = ToSet(a) \cup ToSet(Signature("InRelease"))
        <3>1. \A x \in ToSet(a), y \in ToSet(Signature("InRelease")) : x.file # y.file
            BY <2>3, <2>4
        <3>2. b \in Seq(Entry)
            BY <2>2, <2>4, <2>b
        <3>3. OneEach(b) /\ ToSet(b) = ToSet(a) \cup ToSet(Signature("InRelease"))
            <4>1. /\ a \in Seq(Entry) /\ Signature("InRelease") \in Seq(Entry)
                  /\ OneEach(a) /\ OneEach(Signature("InRelease"))
                BY <2>2, <2>4
            <4>2. OneEach(a \o Signature("InRelease"))
                BY <3>1, <4>1, Concatenated
            <4>3. ToSet(a \o Signature("InRelease")) = ToSet(a) \cup ToSet(Signature("InRelease"))
                BY <4>1, Concatenated
            <4>4. QED
                BY <2>b, <4>2, <4>3
        <3>4. QED
            BY <3>2, <3>3
    <2>6. /\ OneEach(entries') /\ entries' \in Seq(Entry)
          /\ ToSet(entries') = ToSet(b) \cup ToSet(Signature("Release.gpg"))
        <3>1. \A x \in ToSet(b), y \in ToSet(Signature("Release.gpg")) : x.file # y.file
            BY <2>3, <2>4, <2>5
        <3>2. entries' = b \o Signature("Release.gpg")
            BY <1>1, <2>n, <2>a, <2>b
        <3>3. OneEach(entries') /\ ToSet(entries') = ToSet(b) \cup ToSet(Signature("Release.gpg"))
            BY <2>2, <2>5, <3>1, <3>2, Concatenated
        <3>4. entries' \in Seq(Entry)
            BY <2>2, <2>5, <3>2
        <3>5. QED
            BY <3>3, <3>4
    <2>7. ToSet(entries') = ToSet(entries) \cup {SpecialEntry("Release", TRUE)}
              \cup ToSet(Signature("InRelease")) \cup ToSet(Signature("Release.gpg"))
        BY <2>4, <2>5, <2>6
    <2>8. {SpecialEntry(f, mark(f)) : f \in {g \in Special : listed(g)}} =
             {SpecialEntry("Release", TRUE)}
              \cup ToSet(Signature("InRelease")) \cup ToSet(Signature("Release.gpg"))
        BY <1>2, <2>2 DEF Special
    <2>9. QED
        BY <2>6, <2>7, <2>8
<1>5. \A f : Has(f)' <=> Has(f) \/ (f \in Special /\ listed(f))
    BY <1>3, <1>4 DEF Has
<1>6. \A f \in IndexFile : Has(f)' <=> Has(f)
    BY <1>5, FilesAreOwned
<1>7. Listing'
    BY <1>1, <1>4, <1>6, FilesAreOwned DEF IInv, Listing, ToCome, Exporting
<1>8. Listed' = Listed
    BY <1>3, <1>4 DEF Listed
<1>9. \A e : e.file \in IndexFile /\ e \in ToSet(entries') => e \in ToSet(entries)
    BY <1>3, <1>4, FilesAreOwned
<1>10. ASSUME NEW e \in ToSet(entries), e.file \in IndexFile
       PROVE  e.sum # {} /\ IF e.final THEN Written(e)' ELSE Kept(e)'
    <2>1. e.sum # {} /\ IF e.final THEN Written(e) ELSE Kept(e)
        BY <1>10 DEF IInv, IndexEntries
    <2>2. temps'[e.file] = temps[e.file]
        BY <1>1, <1>10, FilesAreOwned DEF File, Special
    <2>3. Written(e) => Written(e)'
        BY <1>1, <2>2 DEF Written, Generated, Ahead, Finishing
    <2>4. Kept(e) => Kept(e)'
        BY <1>1 DEF Kept, Ahead
    <2>5. QED
        BY <2>1, <2>3, <2>4
<1>11. IndexEntries'
    BY <1>9, <1>10 DEF IndexEntries
<1>12. SpecialEntries'
    <2>1. ASSUME NEW f \in Special, ~Has(f)' PROVE dists'[f] = {} /\ f \notin Wanted'
        BY <1>1, <1>5, <2>1 DEF Wanted
    <2>2. ASSUME NEW f \in Special, NEW e \in ToSet(entries'), e.file = f
          PROVE  /\ e.sum = {} /\ e.final /\ Ahead("finish", e)'
                 /\ e.temp => temps'[f] = Listed'
                 /\ f \in Wanted' => e.temp
        <3>1. e \notin ToSet(entries)
            BY <1>1, <2>2, FilesAreOwned DEF IInv, Listing
        <3>2. e = SpecialEntry(f, mark(f))
            BY <1>3, <1>4, <2>2, <3>1
        <3>3. e.temp = mark(f) /\ e.sum = {} /\ e.final
            BY <1>3, <3>2
        <3>4. mark(f) => temps'[f] = Listed
            BY <1>1 DEF File
        <3>5. QED
            BY <1>1, <1>8, <3>3, <3>4 DEF Ahead, Wanted
    <2>3. QED
        BY <2>1, <2>2 DEF SpecialEntries
<1>13. Fresh' /\ Failures'
    BY <1>1 DEF Fresh, Failures, Exporting, Ahead
<1>14. QED
    BY <1>4, <1>7, <1>11, <1>12, <1>13 DEF Lists

(* One round of a loop over the entries.                                   *)
LEMMA AtCurrent ==
    ASSUME IInv, pc \in {"finish", "store"}, todo # <<>>
    PROVE  /\ Current \in Entry /\ Current \in ToSet(entries)
           /\ Tail(todo) \in Seq(Entry) /\ OneEach(Tail(todo))
           /\ ToSet(todo) = {Current} \cup ToSet(Tail(todo))
           /\ \A x \in ToSet(Tail(todo)) : x.file # Current.file
           /\ \A e \in ToSet(entries) : e.file = Current.file => e = Current
<1>1. todo \in Seq(Entry) /\ entries \in Seq(Entry)
    BY DEF IInv, TypeOK
<1>2. OneEach(todo) /\ ToSet(todo) \subseteq ToSet(entries) /\ OneEach(entries)
    BY DEF IInv, Listing
<1>3. /\ Current \in Entry /\ Current \in ToSet(todo) /\ Tail(todo) \in Seq(Entry)
      /\ ToSet(todo) = {Current} \cup ToSet(Tail(todo))
      /\ OneEach(Tail(todo)) /\ \A x \in ToSet(Tail(todo)) : x.file # Current.file
    BY <1>1, <1>2, HeadAndTail DEF Current
<1>4. \A e, g \in ToSet(entries) : e.file = g.file => e = g
    BY <1>1, <1>2, ElementsOf DEF OneEach
<1>5. QED
    BY <1>2, <1>3, <1>4

(* An entry with which the loop has nothing to do, or cannot do it.        *)
LEMMA PassedOver ==
    ASSUME IInv, pc = "finish", pc' = "finish", todo # <<>>, todo' = Tail(todo), entries' = entries,
           UNCHANGED <<packages, signwith, disk, modified, full>>,
           ~Current.final \/ (Current.temp /\ error'), error \in BOOLEAN, error => error'
    PROVE  Lists'
<1>1. /\ Current \in Entry /\ Current \in ToSet(entries)
      /\ OneEach(todo') /\ ToSet(todo) = {Current} \cup ToSet(todo')
    BY AtCurrent
<1>2. /\ packages' = packages /\ signwith' = signwith /\ temps' = temps /\ dists' = dists
      /\ full' = full /\ modified' = modified /\ cache' = cache
    BY DEF disk
<1>3. Listing' /\ Listed' = Listed /\ \A f : Has(f)' <=> Has(f)
    BY <1>1 DEF IInv, Listing, Listed, Has, ToCome, Exporting
<1>4. \A e : Ahead("finish", e)' => Ahead("finish", e)
    BY <1>1 DEF Ahead
<1>5. \A e : Ahead("finish", e) /\ ~Ahead("finish", e)' => e = Current
    BY <1>1 DEF Ahead
<1>6. ASSUME NEW e \in ToSet(entries), e.file \in IndexFile
      PROVE  e.sum # {} /\ IF e.final THEN Written(e)' ELSE Kept(e)'
    <2>1. e.sum # {} /\ IF e.final THEN Written(e) ELSE Kept(e)
        BY <1>6 DEF IInv, IndexEntries
    <2>2. Written(e) => Written(e)'
        BY <1>2, <1>4 DEF Written, Generated, Finishing
    <2>3. Kept(e) => Kept(e)'
        BY <1>2 DEF Kept, Ahead
    <2>4. QED
        BY <2>1, <2>2, <2>3
<1>7. IndexEntries'
    BY <1>6 DEF IndexEntries
<1>8. Current.temp => Current.final
    BY <1>1 DEF Entry
<1>9. SpecialEntries'
    BY <1>2, <1>3, <1>4, <1>5, <1>8 DEF IInv, SpecialEntries, Finishing, Wanted
<1>10. Failures'
    BY <1>5, <1>8 DEF IInv, Failures, Finishing
<1>11. Fresh'
    BY DEF Fresh, Exporting
<1>12. QED
    BY <1>3, <1>7, <1>9, <1>10, <1>11 DEF Lists, IInv, TypeOK

(* An entry that changes as it is put in place or deleted.                 *)
LEMMA EntryDone ==
    ASSUME IInv, pc = "finish", pc' = "finish", todo # <<>>, todo' = Tail(todo),
           NEW d \in Entry, d.file = Current.file, d.sum = Current.sum,
           entries' = Replace(entries, Current, d)
    PROVE  /\ entries' \in Seq(Entry)
           /\ ToSet(entries') = (ToSet(entries) \ {Current}) \cup {d}
           /\ \A e \in ToSet(entries) \ {Current} : e.file # d.file
           /\ ~Ahead("finish", d)'
           /\ \A e \in ToSet(entries) \ {Current} : Ahead("finish", e)' <=> Ahead("finish", e)
           /\ Listed' = Listed /\ \A f : Has(f)' <=> Has(f)
           /\ Listing' /\ Fresh'
<1>1. /\ Current \in Entry /\ Current \in ToSet(entries)
      /\ OneEach(todo') /\ ToSet(todo) = {Current} \cup ToSet(todo')
      /\ \A x \in ToSet(todo') : x.file # Current.file
      /\ \A e \in ToSet(entries) : e.file = Current.file => e = Current
    BY AtCurrent
<1>2. entries \in Seq(Entry) /\ OneEach(entries) /\ ToSet(todo) \subseteq ToSet(entries)
    BY DEF IInv, TypeOK, Listing
<1>3. /\ entries' \in Seq(Entry) /\ OneEach(entries')
      /\ ToSet(entries') = (ToSet(entries) \ {Current}) \cup {d}
    <2>1. /\ Replace(entries, Current, d) \in Seq(Entry)
          /\ OneEach(Replace(entries, Current, d))
        BY <1>1, <1>2, Replaced
    <2>c. /\ Current \in Entry /\ entries \in Seq(Entry) /\ Current.file = d.file
          /\ Current \in ToSet(entries)
        BY <1>1, <1>2
    <2>2. \A e : e \in ToSet(Replace(entries, Current, d)) <=> e \in (ToSet(entries) \ {Current}) \cup {d}
        BY <2>c, Replaced
    <2>3. QED
        BY <2>1, <2>2
<1>4. ToSet(entries') = (ToSet(entries) \ {Current}) \cup {d}
    BY <1>1, <1>3
<1>5. \A e \in ToSet(entries) \ {Current} : e.file # d.file
    BY <1>1
<1>6. ~Ahead("finish", d)'
    BY <1>1 DEF Ahead
<1>7. \A e \in ToSet(entries) \ {Current} : Ahead("finish", e)' <=> Ahead("finish", e)
    BY <1>1 DEF Ahead
<1>8. \A f : Has(f)' <=> Has(f)
    BY <1>1, <1>4 DEF Has
<1>9. Listed' = Listed
    BY <1>1, <1>4 DEF Listed
<1>10. Listing'
    <2>1. ToSet(todo') \subseteq ToSet(entries')
        BY <1>1, <1>2, <1>4
    <2>2. QED
        BY <1>1, <1>3, <1>8, <2>1 DEF IInv, Listing, ToCome, Exporting
<1>11. Fresh'
    BY DEF Fresh, Exporting
<1>12. QED
    BY <1>3, <1>4, <1>5, <1>6, <1>7, <1>8, <1>9, <1>10, <1>11

(* unlink of a signature of an earlier export                              *)
LEMMA DeleteStep ==
    ASSUME IInv, FinishDelete
    PROVE  Lists'
<1>d. PICK d : d = [Current EXCEPT !.final = FALSE]
    OBVIOUS
<1>1. /\ pc = "finish" /\ pc' = "finish" /\ todo # <<>> /\ todo' = Tail(todo)
      /\ Current.final /\ ~Current.temp
      /\ entries' = Replace(entries, Current, d)
      /\ packages' = packages /\ signwith' = signwith /\ temps' = temps /\ cache' = cache
      /\ full' = full /\ modified' = modified /\ error' = error
      /\ dists' = dists \/ dists' = [dists EXCEPT ![Current.file] = {}]
    BY <1>d DEF FinishDelete, Replace
<1>2. Current \in Entry /\ Current \in ToSet(entries) /\ Ahead("finish", Current)
    BY <1>1, AtCurrent DEF Ahead
<1>3. d \in Entry /\ d.file = Current.file /\ d.sum = Current.sum /\ ~d.final /\ ~d.temp
    BY <1>1, <1>2, <1>d DEF Entry
<1>4. /\ entries' \in Seq(Entry)
      /\ ToSet(entries') = (ToSet(entries) \ {Current}) \cup {d}
      /\ \A e \in ToSet(entries) \ {Current} : e.file # d.file
      /\ ~Ahead("finish", d)'
      /\ \A e \in ToSet(entries) \ {Current} : Ahead("finish", e)' <=> Ahead("finish", e)
      /\ Listed' = Listed /\ \A f : Has(f)' <=> Has(f)
      /\ Listing' /\ Fresh'
    BY <1>1, <1>3, EntryDone
<1>5. \A f \in File : f # Current.file => dists'[f] = dists[f]
    BY <1>1 DEF IInv, TypeOK
<1>6. Current.file \in Special
    <2>1. Current.file \notin IndexFile
        BY <1>1, <1>2 DEF IInv, IndexEntries, Written
    <2>2. QED
        BY <1>2, <2>1 DEF Entry, File
<1>7. ASSUME NEW e \in ToSet(entries) \ {Current}, e.file \in IndexFile
      PROVE  e.sum # {} /\ IF e.final THEN Written(e)' ELSE Kept(e)'
    <2>1. e.sum # {} /\ IF e.final THEN Written(e) ELSE Kept(e)
        BY <1>7 DEF IInv, IndexEntries
    <2>2. dists'[e.file] = dists[e.file]
        BY <1>3, <1>4, <1>5, <1>7 DEF File
    <2>3. Written(e) => Written(e)'
        BY <1>1, <1>4, <2>2 DEF Written, Generated, Finishing
    <2>4. Kept(e) => Kept(e)'
        BY <1>1, <2>2 DEF Kept, Ahead
    <2>5. QED
        BY <2>1, <2>3, <2>4
<1>8. IndexEntries'
    BY <1>3, <1>4, <1>6, <1>7, FilesAreOwned DEF IndexEntries
<1>9. SpecialEntries'
    <2>1. ASSUME NEW f \in Special, ~Has(f)' PROVE dists'[f] = {} /\ f \notin Wanted'
        <3>1. ~Has(f) /\ f # Current.file
            BY <1>2, <1>4, <2>1 DEF Has
        <3>2. QED
            BY <1>1, <1>5, <3>1 DEF IInv, SpecialEntries, Finishing, Wanted, File
    <2>2. ASSUME NEW e \in ToSet(entries) \ {Current}, e.file \in Special
          PROVE  /\ e.sum = {}
                 /\ e.temp => temps'[e.file] = Listed'
                 /\ e.final /\ ~e.temp /\ ~Ahead("finish", e)' => dists'[e.file] = Listed'
                 /\ e.file \in Wanted' => e.final /\ (Ahead("finish", e)' => e.temp)
        <3>1. dists'[e.file] = dists[e.file]
            BY <1>3, <1>4, <1>5, <2>2 DEF File
        <3>2. QED
            BY <1>1, <1>4, <2>2, <3>1 DEF IInv, SpecialEntries, Finishing, Wanted
    <2>3. d.sum = {} /\ d.file \notin Wanted'
        BY <1>1, <1>2, <1>3, <1>6 DEF IInv, SpecialEntries, Finishing, Wanted
    <2>4. QED
        BY <1>3, <1>4, <2>1, <2>2, <2>3 DEF SpecialEntries
<1>10. Failures'
    BY <1>1, <1>3, <1>4 DEF IInv, Failures, Finishing
<1>11. QED
    BY <1>4, <1>8, <1>9, <1>10 DEF Lists

LEMMA RenameStep ==
    ASSUME IInv, Rename
    PROVE  Lists'
<1>d. PICK d : d = [Current EXCEPT !.temp = FALSE]
    OBVIOUS
<1>1. /\ pc = "finish" /\ pc' = "finish" /\ todo # <<>> /\ todo' = Tail(todo)
      /\ Current.temp
      /\ entries' = Replace(entries, Current, d)
      /\ packages' = packages /\ signwith' = signwith /\ cache' = cache
      /\ full' = full /\ modified' = modified /\ error' = error
      /\ dists' = [dists EXCEPT ![Current.file] = temps[Current.file]]
      /\ temps' = [temps EXCEPT ![Current.file] = {}]
    BY <1>d DEF Rename, InPlace, Replace
<1>2. /\ Current \in Entry /\ Current \in ToSet(entries) /\ Ahead("finish", Current)
      /\ dists \in [File -> Content] /\ temps \in [File -> Content]
    BY <1>1, AtCurrent DEF Ahead, IInv, TypeOK
<1>3. d \in Entry /\ d.file = Current.file /\ d.sum = Current.sum /\ d.final /\ ~d.temp /\ d.file \in File
    BY <1>1, <1>2, <1>d DEF Entry
<1>4. /\ entries' \in Seq(Entry)
      /\ ToSet(entries') = (ToSet(entries) \ {Current}) \cup {d}
      /\ \A e \in ToSet(entries) \ {Current} : e.file # d.file
      /\ ~Ahead("finish", d)'
      /\ \A e \in ToSet(entries) \ {Current} : Ahead("finish", e)' <=> Ahead("finish", e)
      /\ Listed' = Listed /\ \A f : Has(f)' <=> Has(f)
      /\ Listing' /\ Fresh'
    BY <1>1, <1>3, EntryDone
<1>5. /\ \A f \in File : f # d.file => dists'[f] = dists[f] /\ temps'[f] = temps[f]
      /\ dists'[d.file] = temps[d.file]
    BY <1>1, <1>2, <1>3
<1>6. ASSUME NEW e \in ToSet(entries) \ {Current}, e.file \in IndexFile
      PROVE  e.sum # {} /\ IF e.final THEN Written(e)' ELSE Kept(e)'
    <2>1. e.sum # {} /\ IF e.final THEN Written(e) ELSE Kept(e)
        BY <1>6 DEF IInv, IndexEntries
    <2>2. dists'[e.file] = dists[e.file] /\ temps'[e.file] = temps[e.file]
        BY <1>4, <1>5, <1>6 DEF File
    <2>3. Written(e) => Written(e)'
        BY <1>1, <1>4, <2>2 DEF Written, Generated, Finishing
    <2>4. Kept(e) => Kept(e)'
        BY <1>1, <2>2 DEF Kept, Ahead
    <2>5. QED
        BY <2>1, <2>3, <2>4
<1>7. ASSUME d.file \in IndexFile PROVE d.sum # {} /\ Written(d)'
    <2>1. Current.sum # {} /\ Current.final /\ Written(Current)
        BY <1>1, <1>2, <1>3, <1>7 DEF IInv, IndexEntries, Entry
    <2>2. temps[d.file] = d.sum
        BY <1>1, <1>3, <2>1 DEF Written
    <2>3. \A t \in Target : d.file \in ToSet(FilesOf[t]) => d.sum = Generated(t, d.file)
        BY <1>3, <2>1 DEF Written
    <2>4. QED
        BY <1>1, <1>3, <1>4, <1>5, <2>1, <2>2, <2>3 DEF Written, Generated, Finishing
<1>8. IndexEntries'
    BY <1>3, <1>4, <1>6, <1>7 DEF IndexEntries
<1>9. SpecialEntries'
    <2>1. ASSUME NEW f \in Special, ~Has(f)' PROVE dists'[f] = {} /\ f \notin Wanted'
        <3>1. ~Has(f) /\ f # d.file
            BY <1>2, <1>3, <1>4, <2>1 DEF Has
        <3>2. QED
            BY <1>1, <1>5, <3>1 DEF IInv, SpecialEntries, Finishing, Wanted, File
    <2>2. ASSUME NEW e \in ToSet(entries) \ {Current}, e.file \in Special
          PROVE  /\ e.sum = {}
                 /\ e.temp => temps'[e.file] = Listed'
                 /\ e.final /\ ~e.temp /\ ~Ahead("finish", e)' => dists'[e.file] = Listed'
                 /\ e.file \in Wanted' => e.final /\ (Ahead("finish", e)' => e.temp)
        <3>1. dists'[e.file] = dists[e.file] /\ temps'[e.file] = temps[e.file]
            BY <1>4, <1>5, <2>2 DEF File
        <3>2. QED
            BY <1>1, <1>4, <2>2, <3>1 DEF IInv, SpecialEntries, Finishing, Wanted
    <2>3. ASSUME d.file \in Special PROVE d.sum = {} /\ dists'[d.file] = Listed'
        <3>1. Current.sum = {} /\ temps[Current.file] = Listed
            BY <1>1, <1>2, <1>3, <2>3 DEF IInv, SpecialEntries, Finishing
        <3>2. QED
            BY <1>3, <1>4, <1>5, <3>1
    <2>4. QED
        BY <1>3, <1>4, <2>1, <2>2, <2>3 DEF SpecialEntries
<1>10. Failures'
    BY <1>1, <1>3, <1>4 DEF IInv, Failures, Finishing
<1>11. QED
    BY <1>4, <1>8, <1>9, <1>10 DEF Lists

(* The loops over the entries end, and the records are stored.             *)
LEMMA FinishEndStep ==
    ASSUME IInv, FinishEnd
    PROVE  Lists'
<1>1. /\ pc = "finish" /\ pc' = "store" /\ todo = <<>> /\ todo' = entries /\ entries' = entries
      /\ packages' = packages /\ signwith' = signwith /\ temps' = temps /\ dists' = dists
      /\ full' = full /\ modified' = modified /\ cache' = cache /\ error' = error
    BY DEF FinishEnd, disk
<1>2. \A e : ~Ahead("finish", e) /\ ~Ahead("finish", e)'
    BY <1>1, ElementsOf DEF Ahead, ToSet
<1>3. Listing' /\ Listed' = Listed /\ \A f : Has(f)' <=> Has(f)
    BY <1>1 DEF IInv, Listing, Listed, Has, ToCome, Exporting
<1>4. ASSUME NEW e \in ToSet(entries), e.file \in IndexFile
      PROVE  e.sum # {} /\ IF e.final THEN Written(e)' ELSE Kept(e)'
    <2>1. e.sum # {} /\ IF e.final THEN Written(e) ELSE Kept(e)
        BY <1>4 DEF IInv, IndexEntries
    <2>2. Written(e) => Written(e)'
        BY <1>1, <1>2 DEF Written, Generated, Finishing
    <2>3. Kept(e) => Kept(e)'
        BY <1>1 DEF Kept
    <2>4. QED
        BY <2>1, <2>2, <2>3
<1>5. IndexEntries'
    BY <1>1, <1>4 DEF IndexEntries
<1>6. SpecialEntries'
    BY <1>1, <1>2, <1>3 DEF IInv, SpecialEntries, Finishing, Wanted
<1>7. Failures' /\ Fresh'
    BY <1>1, <1>2 DEF IInv, Failures, Finishing, Fresh, Exporting
<1>8. QED
    BY <1>1, <1>3, <1>5, <1>6, <1>7 DEF Lists, IInv, TypeOK

LEMMA StoreStep ==
    ASSUME IInv, Store \/ StoreEnd
    PROVE  Lists'
<1>1. /\ pc = "store" /\ pc' \in {"store", "report"} /\ entries' = entries
      /\ packages' = packages /\ signwith' = signwith /\ temps' = temps /\ dists' = dists
      /\ full' = full /\ modified' = modified
      /\ error' = error \/ error'
    BY DEF Store, StoreEnd, disk, history
<1>2. \A e : ~Ahead("finish", e) /\ ~Ahead("finish", e)'
    BY <1>1 DEF Ahead
<1>3. Listed' = Listed /\ \A f : Has(f)' <=> Has(f)
    BY <1>1 DEF Listed, Has
<1>4. ASSUME pc' = "store"
      PROVE  /\ OneEach(todo') /\ ToSet(todo') \subseteq ToSet(todo)
             /\ \A x \in ToSet(todo') : cache'[x.file] = cache[x.file]
    <2>1. Store /\ todo # <<>>
        BY <1>4 DEF Store, StoreEnd
    <2>2. todo' = Tail(todo) \/ todo' = <<>>
        BY <2>1 DEF Store
    <2>3. CASE todo' = <<>>
        BY <2>3 DEF OneEach, ToSet
    <2>4. CASE todo' = Tail(todo)
        <3>1. /\ OneEach(todo') /\ ToSet(todo') \subseteq ToSet(todo)
              /\ \A x \in ToSet(todo') : x.file # Current.file
            BY <1>1, <2>1, <2>4, AtCurrent
        <3>2. \A x \in ToSet(todo') : x.file \in File
            <4>1. todo \in Seq(Entry)
                BY <1>1 DEF IInv, TypeOK
            <4>2. QED
                BY <3>1, <4>1, ElementsOf DEF Entry
        <3>3. \A f \in File : f # Current.file => cache'[f] = cache[f]
            BY <2>1 DEF Store, IInv, TypeOK
        <3>4. QED
            BY <3>1, <3>2, <3>3
    <2>5. QED
        BY <2>2, <2>3, <2>4
<1>5. Listing'
    BY <1>1, <1>3, <1>4 DEF IInv, Listing, ToCome, Exporting
<1>6. ASSUME NEW e \in ToSet(entries), e.file \in IndexFile
      PROVE  e.sum # {} /\ IF e.final THEN Written(e)' ELSE Kept(e)'
    <2>1. e.sum # {} /\ IF e.final THEN Written(e) ELSE Kept(e)
        BY <1>6 DEF IInv, IndexEntries
    <2>2. Written(e) => Written(e)'
        BY <1>1, <1>2 DEF Written, Generated, Finishing
    <2>3. Kept(e) => Kept(e)'
        BY <1>1, <1>4 DEF Kept, Ahead
    <2>4. QED
        BY <2>1, <2>2, <2>3
<1>7. IndexEntries'
    BY <1>1, <1>6 DEF IndexEntries
<1>8. SpecialEntries'
    BY <1>1, <1>2, <1>3 DEF IInv, SpecialEntries, Finishing, Wanted
<1>9. Failures'
    <2>1. \A e \in ToSet(entries) : e.temp => error
        BY <1>1, <1>2 DEF IInv, Failures, Finishing
    <2>2. error => error'
        BY <1>1, Zenon
    <2>3. QED
        BY <1>1, <2>1, <2>2 DEF Failures
<1>10. Fresh'
    BY <1>1 DEF Fresh, Exporting
<1>11. QED
    BY <1>1, <1>5, <1>7, <1>8, <1>9, <1>10 DEF Lists, IInv, TypeOK

-----------------------------------------------------------------------------
(* Every step.                                                             *)

LEMMA ListsStep ==
    ASSUME IInv, Next
    PROVE  Lists'
<1>1. ASSUME pc \in {"idle", "command", "outhook"}, pc' \in {"idle", "command"},
             entries' = entries, todo' = todo
      PROVE  Lists'
    BY <1>1, NothingListed DEF IInv, Fresh, Exporting
<1>2. ASSUME Quit PROVE Lists'
    BY <1>2, NothingListed DEF Quit, Return
<1>3. ASSUME NEW t \in Target, Modify(t) PROVE Lists'
    BY <1>1, <1>3 DEF Modify
<1>4. CASE Configure
    BY <1>1, <1>4 DEF Configure, process
<1>5. ASSUME NEW f \in IndexFile, Lose(f) PROVE Lists'
    BY <1>1, <1>5 DEF Lose, process
<1>6. ASSUME NEW t \in Target, WriteTarget(t) PROVE Lists'
    <2>1. CASE pc' = "idle"
        BY <1>2, <1>6, <2>1 DEF WriteTarget
    <2>2. CASE pc' # "idle"
        BY <1>6, <2>2, WriteStep
    <2>3. QED
        BY <2>1, <2>2
<1>7. CASE Prepare
    <2>1. CASE pc' = "idle"
        BY <1>2, <1>7, <2>1 DEF Prepare
    <2>2. CASE pc' # "idle"
        BY <1>7, <2>2, PrepareStep
    <2>3. QED
        BY <2>1, <2>2
<1>8. CASE FinishKept
    <2>1. /\ pc = "finish" /\ pc' = "finish" /\ todo # <<>> /\ todo' = Tail(todo)
          /\ entries' = entries /\ ~Current.final /\ error' = error
          /\ UNCHANGED <<packages, signwith, disk, modified, full>>
        BY <1>8 DEF FinishKept, history
    <2>2. error \in BOOLEAN
        BY DEF IInv, TypeOK
    <2>3. error => error'
        BY Zenon, <2>1
    <2>4. QED
        BY <2>1, <2>2, <2>3, PassedOver
<1>9. CASE RenameFails
    <2>1. CASE Quit
        BY <1>2, <2>1
    <2>2. CASE ~Quit
        <3>1. /\ pc = "finish" /\ pc' = "finish" /\ todo # <<>> /\ todo' = Tail(todo)
              /\ entries' = entries /\ Current.temp /\ error' = TRUE
              /\ UNCHANGED <<packages, signwith, disk, modified, full>>
            BY <1>9, <2>2 DEF RenameFails, history, disk
        <3>2. error \in BOOLEAN
            BY DEF IInv, TypeOK
        <3>3. error => error'
            BY <3>1
        <3>4. QED
            BY <3>1, <3>2, <3>3, PassedOver
    <2>3. QED
        BY <2>1, <2>2
<1>10. CASE SkipExport \/ Crash
    BY <1>2, <1>10 DEF SkipExport, Crash
<1>11. CASE Report
    <2>1. Quit \/ (Return /\ pc' = "outhook")
        BY Zenon, <1>11 DEF Report
    <2>2. QED
        BY <1>2, <2>1, NothingListed DEF Return
<1>12. CASE CallOuthook
    BY <1>1, <1>12 DEF CallOuthook
<1>13. QED
    BY <1>3, <1>4, <1>5, <1>6, <1>7, <1>8, <1>9, <1>10, <1>11, <1>12, KeepStep, StartStep, TargetsEndStep,
       DeleteStep, RenameStep, FinishEndStep, StoreStep DEF Next

(* The parts of the type.                                                  *)
TypeStores ==
    /\ dists \in [File -> Content] /\ temps \in [File -> Content]
    /\ cache \in [File -> Content] /\ mirror \in [File -> Content]
    /\ outlog \in [File -> {"", "DISTFILE", "DISTDELETE"}]

TypeLists ==
    /\ entries \in Seq(Entry)
    /\ todo \in Seq(IF pc = "targets" THEN Target ELSE Entry)

TypeFlags == full \in BOOLEAN /\ moved \in BOOLEAN /\ error \in BOOLEAN /\ torn \in BOOLEAN

TypeRest ==
    /\ packages \in [Target -> 1..MaxChanges]
    /\ signwith \in BOOLEAN
    /\ pc \in {"idle", "command", "targets", "prepare", "finish", "store", "report",
              "outhook"}
    /\ modified \subseteq Target
    /\ faults \in 0..MaxFaults
    /\ suspect \subseteq File /\ touched \subseteq File /\ unsent \subseteq File

TypeShape == pc \in {"targets", "prepare"} => \A e \in ToSet(entries) : ToDoOrToPublish(e)

LEMMA TypeParts == TypeOK <=> TypeStores /\ TypeLists /\ TypeFlags /\ TypeRest /\ TypeShape
BY DEF TypeOK, TypeStores, TypeLists, TypeFlags, TypeRest, TypeShape

LEMMA TypeStep ==
    ASSUME IInv, Next
    PROVE  TypeStores' /\ TypeLists' /\ TypeFlags' /\ TypeRest' /\ TypeShape'
<1> DEFINE Good == TypeStores' /\ TypeLists' /\ TypeFlags' /\ TypeRest' /\ TypeShape'
<1>0. TypeStores /\ TypeLists /\ TypeFlags /\ TypeRest /\ TypeShape
    BY TypeParts DEF IInv
<1>g. /\ \A t \in Target : \A f \in ToSet(FilesOf[t]) : f \in IndexFile /\ Generated(t, f) \in Content
      /\ {} \in Content /\ Listed \in Content
    <2>1. \A t \in Target : \A f \in ToSet(FilesOf[t]) : f \in IndexFile /\ Generated(t, f) \in Content
        BY FilesAreOwned, TypedEntries DEF IInv
    <2>2. \A e \in ToSet(entries) : e.sum \in Content
        BY <1>0, ElementsOf DEF TypeLists, Entry
    <2>3. QED
        BY <2>1, <2>2 DEF Listed, Content
<1>f. Fresh
    BY DEF IInv
<1>e. <<>> \in Seq(Target) /\ <<>> \in Seq(Entry) /\ ToSet(<<>>) = {}
    BY DEF ToSet
<1>c. pc \in {"finish", "store"} /\ todo # <<>> =>
           Current \in Entry /\ Current.file \in File /\ Current.sum \in Content
    BY AtCurrent DEF Entry
<1>l. Lists'
    BY ListsStep
<1>1. ASSUME NEW t \in Target, Modify(t) PROVE Good
    <2>1. TypeStores'
        BY <1>0, <1>1 DEF Modify, disk, process, history, Quit, Return, Fault, TypeStores
    <2>2. TypeLists'
        BY <1>0, <1>l, <1>e, <1>1, FilesAreOwned DEF Modify, disk, process, history, Quit, Return,
           Fault, TypeLists, Lists
    <2>3. TypeFlags'
        BY Zenon, <1>0, <1>1 DEF Modify, disk, process, history, Quit, Return, Fault, TypeFlags
    <2>4. TypeRest'
        BY <1>0, <1>1, ExportAssumption DEF Modify, disk, process, history, Quit, Return, Fault,
           TypeRest
    <2>5. TypeShape'
        BY <1>0, <1>1 DEF Modify, disk, process, history, Quit, Return, Fault, TypeShape, TypeRest
    <2>6. QED
        BY <2>1, <2>2, <2>3, <2>4, <2>5
<1>2. ASSUME NEW t \in Target, KeepTarget(t) PROVE Good
    <2>1. pc' = "targets" /\ Tail(todo) \in Seq(Target)
        BY <1>0, <1>2, HeadAndTail DEF KeepTarget, TypeLists
    <2>2. TypeStores'
        BY <1>0, <1>2 DEF KeepTarget, disk, process, history, Quit, Return, Fault, TypeStores
    <2>3. TypeLists'
        BY <1>l, <2>1, <1>2 DEF KeepTarget, Lists, TypeLists
    <2>4. TypeFlags'
        BY Zenon, <1>0, <1>2 DEF KeepTarget, disk, process, history, Quit, Return, Fault, TypeFlags
    <2>5. TypeRest'
        BY <1>0, <1>2, ExportAssumption DEF KeepTarget, disk, process, history, Quit, Return, Fault,
           TypeRest
    <2>6. TypeShape'
        BY <1>l, <1>0, <1>e, <1>f, <1>2 DEF KeepTarget, disk, process, history, Quit, Return, Fault,
           TypeShape, ToDoOrToPublish, Lists, IndexEntries, Listing
    <2>7. QED
        BY <2>2, <2>3, <2>4, <2>5, <2>6
<1>3. ASSUME NEW t \in Target, WriteTarget(t) PROVE Good
    <2>1. Quit \/ (pc' = pc /\ todo' = Tail(todo))
        BY Zenon, <1>3 DEF WriteTarget
    <2>2. pc = "targets" /\ Tail(todo) \in Seq(Target)
        BY <1>0, <1>3, HeadAndTail DEF WriteTarget, TypeLists
    <2>3. \/ temps' = [f \in File |-> IF f \in ToSet(FilesOf[t]) THEN Generated(t, f) ELSE temps[f]]
          \/ \E n \in 0 .. Len(FilesOf[t]) : temps' = [f \in File |->
                IF f \notin ToSet(FilesOf[t]) THEN TempsFreed[f]
                ELSE IF f \in ToSet(SubSeq(FilesOf[t], 1, n)) THEN Generated(t, f) ELSE {}]
        BY Zenon, <1>3 DEF WriteTarget
    <2>4. \A f \in File : TempsFreed[f] \in Content
        BY <1>0, <1>g DEF TempsFreed, TypeStores
    <2>5. temps' \in [File -> Content]
        BY ZenonT(40), <1>0, <1>g, <2>3, <2>4 DEF TypeStores
    <2>6. TypeStores'
        BY <1>0, <1>3, <2>5 DEF WriteTarget, TypeStores
    <2>7. TypeLists'
        BY <1>l, <1>e, <2>1, <2>2 DEF Quit, Return, Lists, TypeLists
    <2>8. TypeFlags'
        BY Zenon, <1>0, <1>3 DEF WriteTarget, Quit, Return, history, TypeFlags
    <2>9. TypeRest'
        BY SMTT(30), <1>0, <1>3, ExportAssumption DEF WriteTarget, disk, process, history, Quit, Return,
           Fault, TypeRest
    <2>10. TypeShape'
        BY <1>l, <1>0, <1>e, <1>f, <1>3 DEF WriteTarget, disk, process, history, Quit, Return,
           Fault, TypeShape, ToDoOrToPublish, Lists, IndexEntries, Listing
    <2>11. QED
        BY <2>6, <2>7, <2>8, <2>9, <2>10
<1>4. ASSUME SkipExport PROVE Good
    <2>1. TypeStores'
        BY <1>0, <1>4 DEF SkipExport, disk, process, history, Quit, Return, Fault, TypeStores
    <2>2. TypeLists'
        BY <1>0, <1>l, <1>e, <1>4, FilesAreOwned DEF SkipExport, disk, process, history,
           Quit, Return, Fault, TypeLists, Lists
    <2>3. TypeFlags'
        BY Zenon, <1>0, <1>4 DEF SkipExport, disk, process, history, Quit, Return, Fault, TypeFlags
    <2>4. TypeRest'
        BY <1>0, <1>4, ExportAssumption DEF SkipExport, disk, process, history, Quit, Return, Fault,
           TypeRest
    <2>5. TypeShape'
        BY <1>0, <1>4 DEF SkipExport, disk, process, history, Quit, Return, Fault, TypeShape,
           TypeRest
    <2>6. QED
        BY <2>1, <2>2, <2>3, <2>4, <2>5
<1>5. ASSUME Configure PROVE Good
    <2>1. TypeStores'
        BY <1>0, <1>5 DEF Configure, disk, process, history, Quit, Return, Fault, TypeStores
    <2>2. TypeLists'
        BY <1>0, <1>l, <1>e, <1>5, FilesAreOwned DEF Configure, disk, process, history,
           Quit, Return, Fault, TypeLists, Lists
    <2>3. TypeFlags'
        BY Zenon, <1>0, <1>5 DEF Configure, disk, process, history, Quit, Return, Fault, TypeFlags
    <2>4. TypeRest'
        BY <1>0, <1>5, ExportAssumption DEF Configure, disk, process, history, Quit, Return, Fault,
           TypeRest
    <2>5. TypeShape'
        BY <1>0, <1>5 DEF Configure, disk, process, history, Quit, Return, Fault, TypeShape,
           TypeRest
    <2>6. QED
        BY <2>1, <2>2, <2>3, <2>4, <2>5
<1>6. ASSUME NEW all \in BOOLEAN, StartExport(all) PROVE Good
    <2>1. TypeStores'
        BY <1>0, <1>6 DEF StartExport, disk, process, history, Quit, Return, Fault, TypeStores
    <2>2. TypeLists'
        BY <1>0, <1>l, <1>e, <1>6, FilesAreOwned DEF StartExport, disk, process, history,
           Quit, Return, Fault, TypeLists, Lists
    <2>3. TypeFlags'
        BY Zenon, <1>0, <1>6 DEF StartExport, disk, process, history, Quit, Return, Fault, TypeFlags
    <2>4. TypeRest'
        BY <1>0, <1>6, ExportAssumption DEF StartExport, disk, process, history, Quit, Return,
           Fault, TypeRest
    <2>5. TypeShape'
        BY <1>l, <1>0, <1>e, <1>f, <1>6 DEF StartExport, disk, process, history, Quit, Return,
           Fault, TypeShape, ToDoOrToPublish, Lists, IndexEntries, Listing
    <2>6. QED
        BY <2>1, <2>2, <2>3, <2>4, <2>5
<1>7. ASSUME TargetsEnd PROVE Good
    <2>1. TypeStores'
        BY <1>0, <1>7 DEF TargetsEnd, disk, process, history, Quit, Return, Fault, TypeStores
    <2>2. TypeLists'
        BY <1>0, <1>l, <1>e, <1>7, FilesAreOwned DEF TargetsEnd, disk, process, history,
           Quit, Return, Fault, TypeLists, Lists
    <2>3. TypeFlags'
        BY Zenon, <1>0, <1>7 DEF TargetsEnd, disk, process, history, Quit, Return, Fault, TypeFlags
    <2>4. TypeRest'
        BY <1>0, <1>7, ExportAssumption DEF TargetsEnd, disk, process, history, Quit, Return, Fault,
           TypeRest
    <2>5. TypeShape'
        BY <1>0, <1>7 DEF TargetsEnd, disk, process, history, Quit, Return, Fault, TypeShape,
           TypeRest
    <2>6. QED
        BY <2>1, <2>2, <2>3, <2>4, <2>5
<1>8. ASSUME Prepare PROVE Good
    <2>1. Quit \/ (pc' = "finish" /\ todo' = entries')
        BY Zenon, <1>8 DEF Prepare
    <2>2. TypeStores'
        BY ZenonT(40), <1>0, <1>c, <1>g, <1>8 DEF Prepare, disk, process, history, Quit, Return, Fault,
           TypeStores, TempsFreed
    <2>3. TypeLists'
        BY <1>l, <1>e, <2>1 DEF Quit, Return, Lists, TypeLists
    <2>4. TypeFlags'
        BY Zenon, <1>0, <1>8 DEF Prepare, disk, process, history, Quit, Return, Fault, TypeFlags
    <2>5. TypeRest'
        BY <1>0, <1>8, ExportAssumption DEF Prepare, disk, process, history, Quit, Return, Fault,
           TypeRest
    <2>6. TypeShape'
        BY <1>0, <1>8 DEF Prepare, disk, process, history, Quit, Return, Fault, TypeShape, TypeRest
    <2>7. QED
        BY <2>2, <2>3, <2>4, <2>5, <2>6
<1>9. ASSUME FinishKept PROVE Good
    <2>1. TypeStores'
        BY <1>0, <1>9 DEF FinishKept, disk, process, history, Quit, Return, Fault, TypeStores
    <2>2. TypeLists'
        BY <1>0, <1>l, <1>e, <1>9, FilesAreOwned DEF FinishKept, disk, process, history,
           Quit, Return, Fault, TypeLists, Lists
    <2>3. TypeFlags'
        BY Zenon, <1>0, <1>9 DEF FinishKept, disk, process, history, Quit, Return, Fault, TypeFlags
    <2>4. TypeRest'
        BY <1>0, <1>9, ExportAssumption DEF FinishKept, disk, process, history, Quit, Return, Fault,
           TypeRest
    <2>5. TypeShape'
        BY <1>0, <1>9 DEF FinishKept, disk, process, history, Quit, Return, Fault, TypeShape,
           TypeRest
    <2>6. QED
        BY <2>1, <2>2, <2>3, <2>4, <2>5
<1>10. ASSUME FinishDelete PROVE Good
    <2>1. TypeStores'
        BY <1>0, <1>c, <1>g, <1>10 DEF FinishDelete, disk, process, history, Quit, Return, Fault,
           TypeStores, TempsFreed
    <2>2. TypeLists'
        BY <1>0, <1>l, <1>e, <1>10, FilesAreOwned DEF FinishDelete, disk, process, history,
           Quit, Return, Fault, TypeLists, Lists
    <2>3. TypeFlags'
        BY Zenon, <1>0, <1>10 DEF FinishDelete, disk, process, history, Quit, Return, Fault,
           TypeFlags
    <2>4. TypeRest'
        BY <1>0, <1>c, <1>10, ExportAssumption DEF FinishDelete, disk, process, history,
           Quit, Return, Fault, TypeRest, File
    <2>5. TypeShape'
        BY <1>0, <1>10 DEF FinishDelete, disk, process, history, Quit, Return, Fault, TypeShape,
           TypeRest
    <2>6. QED
        BY <2>1, <2>2, <2>3, <2>4, <2>5
<1>11. ASSUME Rename PROVE Good
    <2>1. TypeStores'
        BY <1>0, <1>c, <1>g, <1>11 DEF Rename, disk, process, history, Quit, Return, Fault,
           TypeStores, TempsFreed
    <2>2. TypeLists'
        BY <1>0, <1>l, <1>e, <1>11, FilesAreOwned DEF Rename, disk, process, history, Quit, Return,
           Fault, TypeLists, Lists
    <2>3. TypeFlags'
        BY Zenon, <1>0, <1>11 DEF Rename, disk, process, history, Quit, Return, Fault, TypeFlags
    <2>4. TypeRest'
        BY <1>0, <1>c, <1>11, ExportAssumption DEF Rename, disk, process, history, Quit, Return,
           Fault, TypeRest, File
    <2>5. TypeShape'
        BY <1>0, <1>11 DEF Rename, disk, process, history, Quit, Return, Fault, TypeShape, TypeRest
    <2>6. QED
        BY <2>1, <2>2, <2>3, <2>4, <2>5
<1>12. ASSUME RenameFails PROVE Good
    <2>1. TypeStores'
        <3>1. UNCHANGED <<dists, cache, mirror, outlog>> /\ (temps' = temps \/ temps' = TempsFreed)
            BY Zenon, <1>12 DEF RenameFails
        <3>2. TempsFreed \in [File -> Content]
            BY <1>0, <1>g DEF TempsFreed, TypeStores
        <3>3. QED
            BY <1>0, <3>1, <3>2 DEF TypeStores
    <2>2. TypeLists'
        <3>1. CASE Quit
            BY <1>l, <1>e, <3>1 DEF Quit, Return, TypeLists, Lists
        <3>2. CASE ~Quit
            <4>1. todo # <<>> /\ pc = "finish" /\ pc' = pc /\ todo' = Tail(todo)
                BY Zenon, <1>12, <3>2 DEF RenameFails
            <4>2. Tail(todo) \in Seq(Entry)
                BY <4>1, AtCurrent
            <4>3. QED
                BY <1>l, <4>1, <4>2 DEF Lists, TypeLists
        <3>3. QED
            BY <3>1, <3>2
    <2>3. TypeFlags'
        BY Zenon, <1>0, <1>12 DEF RenameFails, disk, process, history, Quit, Return, Fault,
           TypeFlags
    <2>4. TypeRest'
        BY <1>0, <1>12, ExportAssumption DEF RenameFails, disk, process, history, Quit, Return,
           Fault, TypeRest
    <2>5. TypeShape'
        BY <1>0, <1>12 DEF RenameFails, disk, process, history, Quit, Return, Fault, TypeShape,
           TypeRest
    <2>6. QED
        BY <2>1, <2>2, <2>3, <2>4, <2>5
<1>13. ASSUME FinishEnd PROVE Good
    <2>1. TypeStores'
        BY <1>0, <1>13 DEF FinishEnd, disk, process, history, Quit, Return, Fault, TypeStores
    <2>2. TypeLists'
        BY <1>0, <1>l, <1>e, <1>13, FilesAreOwned DEF FinishEnd, disk, process, history,
           Quit, Return, Fault, TypeLists, Lists
    <2>3. TypeFlags'
        BY Zenon, <1>0, <1>13 DEF FinishEnd, disk, process, history, Quit, Return, Fault, TypeFlags
    <2>4. TypeRest'
        BY <1>0, <1>13, ExportAssumption DEF FinishEnd, disk, process, history, Quit, Return, Fault,
           TypeRest
    <2>5. TypeShape'
        BY <1>0, <1>13 DEF FinishEnd, disk, process, history, Quit, Return, Fault, TypeShape,
           TypeRest
    <2>6. QED
        BY <2>1, <2>2, <2>3, <2>4, <2>5
<1>14. ASSUME Store PROVE Good
    <2>1. todo # <<>> /\ pc = "store" /\ pc' = pc /\ (todo' = Tail(todo) \/ todo' = <<>>)
        BY Zenon, <1>14 DEF Store
    <2>2. Tail(todo) \in Seq(Entry)
        BY <2>1, AtCurrent
    <2>3. TypeStores'
        BY <1>0, <1>c, <1>g, <1>14 DEF Store, disk, process, history, Quit, Return, Fault,
           TypeStores, TempsFreed
    <2>4. TypeLists'
        BY <1>l, <1>e, <2>1, <2>2 DEF Lists, TypeLists
    <2>5. TypeFlags'
        BY Zenon, <1>0, <1>14 DEF Store, disk, process, history, Quit, Return, Fault, TypeFlags
    <2>6. TypeRest'
        BY <1>0, <1>c, <1>14, ExportAssumption DEF Store, disk, process, history, Quit, Return,
           Fault, TypeRest, File
    <2>7. TypeShape'
        BY <1>0, <1>14 DEF Store, disk, process, history, Quit, Return, Fault, TypeShape, TypeRest
    <2>8. QED
        BY <2>3, <2>4, <2>5, <2>6, <2>7
<1>15. ASSUME StoreEnd PROVE Good
    <2>1. TypeStores'
        BY <1>0, <1>15 DEF StoreEnd, disk, process, history, Quit, Return, Fault, TypeStores
    <2>2. TypeLists'
        BY <1>0, <1>l, <1>e, <1>15, FilesAreOwned DEF StoreEnd, disk, process, history,
           Quit, Return, Fault, TypeLists, Lists
    <2>3. TypeFlags'
        BY Zenon, <1>0, <1>15 DEF StoreEnd, disk, process, history, Quit, Return, Fault, TypeFlags
    <2>4. TypeRest'
        BY <1>0, <1>15, ExportAssumption DEF StoreEnd, disk, process, history, Quit, Return, Fault,
           TypeRest
    <2>5. TypeShape'
        BY <1>0, <1>15 DEF StoreEnd, disk, process, history, Quit, Return, Fault, TypeShape,
           TypeRest
    <2>6. QED
        BY <2>1, <2>2, <2>3, <2>4, <2>5
<1>16. ASSUME Report PROVE Good
    <2>1. TypeStores'
        BY <1>0, <1>c, <1>g, <1>16 DEF Report, disk, process, history, Quit, Return, Fault,
           TypeStores, TempsFreed
    <2>2. TypeLists'
        BY <1>0, <1>l, <1>e, <1>16, FilesAreOwned DEF Report, disk, process, history, Quit, Return,
           Fault, TypeLists, Lists
    <2>3. TypeFlags'
        BY Zenon, <1>0, <1>16 DEF Report, disk, process, history, Quit, Return, Fault, TypeFlags
    <2>4. TypeRest'
        BY <1>0, <1>16, ExportAssumption DEF Report, disk, process, history, Quit, Return, Fault,
           TypeRest
    <2>5. TypeShape'
        BY <1>0, <1>16 DEF Report, disk, process, history, Quit, Return, Fault, TypeShape, TypeRest
    <2>6. QED
        BY <2>1, <2>2, <2>3, <2>4, <2>5
<1>17. ASSUME NEW f \in IndexFile, Lose(f) PROVE Good
    <2>1. TypeStores'
        BY <1>0, <1>c, <1>g, <1>17 DEF Lose, disk, process, history, Quit, Return, Fault,
           TypeStores, TempsFreed
    <2>2. TypeLists'
        BY <1>0, <1>l, <1>e, <1>17, FilesAreOwned DEF Lose, disk, process, history, Quit, Return,
           Fault, TypeLists, Lists
    <2>3. TypeFlags'
        BY Zenon, <1>0, <1>17 DEF Lose, disk, process, history, Quit, Return, Fault, TypeFlags
    <2>4. TypeRest'
        BY <1>0, <1>c, <1>17, ExportAssumption DEF Lose, disk, process, history, Quit, Return,
           Fault, TypeRest, File
    <2>5. TypeShape'
        BY <1>0, <1>17 DEF Lose, disk, process, history, Quit, Return, Fault, TypeShape, TypeRest
    <2>6. QED
        BY <2>1, <2>2, <2>3, <2>4, <2>5
<1>18. ASSUME Crash PROVE Good
    <2>1. TypeStores'
        BY <1>0, <1>c, <1>g, <1>18 DEF Crash, disk, process, history, Quit, Return, Fault,
           TypeStores, TempsFreed, NoLines
    <2>2. TypeLists'
        BY <1>0, <1>l, <1>e, <1>18, FilesAreOwned DEF Crash, disk, process, history, Quit, Return,
           Fault, TypeLists, Lists
    <2>3. TypeFlags'
        BY Zenon, <1>0, <1>18 DEF Crash, disk, process, history, Quit, Return, Fault, TypeFlags
    <2>4. TypeRest'
        BY <1>0, <1>18, ExportAssumption DEF Crash, disk, process, history, Quit, Return, Fault,
           TypeRest
    <2>5. TypeShape'
        BY <1>0, <1>18 DEF Crash, disk, process, history, Quit, Return, Fault, TypeShape, TypeRest
    <2>6. QED
        BY <2>1, <2>2, <2>3, <2>4, <2>5
<1>19. ASSUME CallOuthook PROVE Good
    <2>1. \A some \in SUBSET File : Followed(some) \in [File -> Content]
        BY <1>0, <1>g DEF Followed, TypeStores
    <2>2. mirror' \in [File -> Content]
        <3>1. (mirror' = Followed(File)) \/ \E some \in SUBSET touched : mirror' = Followed(some)
            BY Zenon, <1>19 DEF CallOuthook
        <3>2. \A some \in SUBSET touched : some \in SUBSET File
            BY <1>0 DEF TypeRest
        <3>3. QED
            BY Zenon, <2>1, <3>1, <3>2
    <2>3. outlog' \in [File -> {"", "DISTFILE", "DISTDELETE"}]
        BY <1>19 DEF CallOuthook, NoLines
    <2>4. TypeStores'
        BY <1>0, <1>19, <2>2, <2>3 DEF CallOuthook, TypeStores
    <2>5. TypeLists'
        BY <1>0, <1>l, <1>e, <1>19 DEF CallOuthook, TypeLists, Lists
    <2>6. TypeFlags'
        BY Zenon, <1>0, <1>19 DEF CallOuthook, TypeFlags
    <2>7. TypeRest'
        <3>1. unsent' \subseteq File
            <4>1. unsent' = Unreported \/ unsent' = unsent \cup touched
                BY Zenon, <1>19 DEF CallOuthook
            <4>2. QED
                BY <1>0, <4>1 DEF Unreported, TypeRest
        <3>2. faults' \in 0..MaxFaults
            BY <1>0, <1>19, ExportAssumption DEF CallOuthook, Fault, TypeRest
        <3>3. QED
            BY <1>0, <1>19, <3>1, <3>2 DEF CallOuthook, TypeRest
    <2>8. TypeShape'
        BY <1>0, <1>19 DEF CallOuthook, TypeShape
    <2>9. QED
        BY <2>4, <2>5, <2>6, <2>7, <2>8
<1>20. QED
    <2> HIDE DEF Good
    <2>1. Good
        BY <1>1, <1>2, <1>3, <1>4, <1>5, <1>6, <1>7, <1>8, <1>9, <1>10, <1>11, <1>12, <1>13,
           <1>14, <1>15, <1>16, <1>17, <1>18, <1>19 DEF Next
    <2>2. QED
        BY <2>1 DEF Good

(* What dists/, the cache and the outhook know of each other.              *)

(* All files are in place, and none with doubtful checksums is listed.     *)
LEMMA InPlaceConsistent ==
    ASSUME IInv, pc = "finish", todo = <<>>,
           \A e \in ToSet(entries) :
               /\ ~e.temp
               /\ ~e.final /\ e.sum # {} => e.file \notin suspect
               /\ ~e.final /\ e.sum = {} => dists[e.file] = {}
    PROVE  \A s \in Special : dists[s] # {} => dists[s] = Indices
<1>0. entries \in Seq(Entry) /\ \A e : ~Ahead("finish", e)
    <2>1. entries \in Seq(Entry)
        BY DEF IInv, TypeOK
    <2>2. \A e : ~Ahead("finish", e)
        BY DEF Ahead, ToSet
    <2>3. QED
        BY <2>1, <2>2
<1>1. ASSUME NEW f \in IndexFile
      PROVE  \E e \in ToSet(entries) : e.file = f /\ e.sum = dists[f]
    <2>1. Has(f)
        BY FilesAreOwned DEF IInv, Listing, Exporting, ToCome
    <2>2. PICK e \in ToSet(entries) : e.file = f
        BY <2>1 DEF Has
    <2>3. e.sum # {} /\ IF e.final THEN Written(e) ELSE Kept(e)
        BY <2>2 DEF IInv, IndexEntries
    <2>4. CASE e.final
        BY <2>2, <2>3, <2>4 DEF Written
    <2>5. CASE ~e.final
        <3>1. cache[f] = e.sum /\ dists[f] # {} /\ f \notin suspect
            BY <2>2, <2>3, <2>5 DEF Kept
        <3>2. QED
            BY <2>2, <2>3, <3>1 DEF IInv, CacheTruthful
    <2>6. QED
        BY <2>4, <2>5
<1>2. \A e, g \in ToSet(entries) : e.file = g.file => e = g
    BY <1>0, ElementsOf DEF OneEach, IInv, Listing
<1>3. \A e \in ToSet(entries) : e.file \in Special => e.sum = {}
    BY DEF IInv, SpecialEntries, Finishing
<1>4. Listed = Indices
    <2>1. ASSUME NEW e \in ToSet(entries), e.file \in IndexFile PROVE e.sum = dists[e.file]
        BY <1>1, <1>2, <2>1
    <2>2. \A e \in ToSet(entries) : e.file \in IndexFile \/ e.file \in Special
        BY <1>0, ElementsOf DEF Entry, File
    <2>3. QED
        BY <1>1, <1>3, <2>1, <2>2 DEF Listed, Indices
<1>5. ASSUME NEW s \in Special, dists[s] # {} PROVE dists[s] = Listed
    <2>1. Has(s)
        BY <1>5 DEF IInv, SpecialEntries, Finishing
    <2>2. PICK e \in ToSet(entries) : e.file = s
        BY <2>1 DEF Has
    <2>3. e.final /\ ~e.temp
        BY <1>3, <1>5, <2>2
    <2>4. QED
        BY <1>0, <2>2, <2>3 DEF IInv, SpecialEntries, Finishing
<1>6. QED
    BY <1>4, <1>5

LEMMA PromisesStep ==
    ASSUME IInv, Next
    PROVE  CacheTruthful' /\ IndexConsistent' /\ MirrorTold'
<1> DEFINE Good == CacheTruthful' /\ IndexConsistent' /\ MirrorTold'
<1>0. /\ CacheTruthful /\ IndexConsistent /\ MirrorTold
      /\ TypeStores /\ TypeLists /\ TypeFlags /\ TypeRest /\ TypeShape
    BY TypeParts DEF IInv
<1>c. pc \in {"finish", "store"} /\ todo # <<>> => Current \in Entry /\ Current.file \in File
    BY AtCurrent DEF Entry
<1>1. ASSUME NEW t \in Target, Modify(t) PROVE Good
    <2>1. CacheTruthful'
        BY <1>0, <1>1 DEF Modify, disk, process, history, Quit, Return, Fault, CacheTruthful
    <2>2. IndexConsistent'
        BY <1>0, <1>1 DEF Modify, disk, process, history, Quit, Return, Fault, IndexConsistent,
           Indices
    <2>3. MirrorTold'
        BY <1>0, <1>1 DEF Modify, disk, process, history, Quit, Return, Fault, MirrorTold
    <2>4. QED
        BY <2>1, <2>2, <2>3
<1>2. ASSUME NEW t \in Target, KeepTarget(t) PROVE Good
    <2>1. CacheTruthful'
        BY <1>0, <1>2 DEF KeepTarget, disk, process, history, Quit, Return, Fault, CacheTruthful
    <2>2. IndexConsistent'
        BY <1>0, <1>2 DEF KeepTarget, disk, process, history, Quit, Return, Fault, IndexConsistent,
           Indices
    <2>3. MirrorTold'
        BY <1>0, <1>2 DEF KeepTarget, disk, process, history, Quit, Return, Fault, MirrorTold
    <2>4. QED
        BY <2>1, <2>2, <2>3
<1>3. ASSUME NEW t \in Target, WriteTarget(t) PROVE Good
    <2>1. CacheTruthful'
        BY <1>0, <1>3 DEF WriteTarget, disk, process, history, Quit, Return, Fault, CacheTruthful
    <2>2. IndexConsistent'
        BY <1>0, <1>3 DEF WriteTarget, disk, process, history, Quit, Return, Fault, IndexConsistent,
           Indices
    <2>3. MirrorTold'
        BY <1>0, <1>3 DEF WriteTarget, disk, process, history, Quit, Return, Fault, MirrorTold
    <2>4. QED
        BY <2>1, <2>2, <2>3
<1>4. ASSUME SkipExport PROVE Good
    <2>1. CacheTruthful'
        BY <1>0, <1>4 DEF SkipExport, disk, process, history, Quit, Return, Fault, CacheTruthful
    <2>2. IndexConsistent'
        BY <1>0, <1>4 DEF SkipExport, disk, process, history, Quit, Return, Fault, IndexConsistent,
           Indices
    <2>3. MirrorTold'
        BY <1>0, <1>4 DEF SkipExport, disk, process, history, Quit, Return, Fault, MirrorTold
    <2>4. QED
        BY <2>1, <2>2, <2>3
<1>5. ASSUME Configure PROVE Good
    <2>1. CacheTruthful'
        BY <1>0, <1>5 DEF Configure, disk, process, history, Quit, Return, Fault, CacheTruthful
    <2>2. IndexConsistent'
        BY <1>0, <1>5 DEF Configure, disk, process, history, Quit, Return, Fault, IndexConsistent,
           Indices
    <2>3. MirrorTold'
        BY <1>0, <1>5 DEF Configure, disk, process, history, Quit, Return, Fault, MirrorTold
    <2>4. QED
        BY <2>1, <2>2, <2>3
<1>6. ASSUME NEW all \in BOOLEAN, StartExport(all) PROVE Good
    <2>1. CacheTruthful'
        BY <1>0, <1>6 DEF StartExport, disk, process, history, Quit, Return, Fault, CacheTruthful
    <2>2. IndexConsistent'
        BY <1>0, <1>6 DEF StartExport, disk, process, history, Quit, Return, Fault, IndexConsistent,
           Indices
    <2>3. MirrorTold'
        BY <1>0, <1>6 DEF StartExport, disk, process, history, Quit, Return, Fault, MirrorTold
    <2>4. QED
        BY <2>1, <2>2, <2>3
<1>7. ASSUME TargetsEnd PROVE Good
    <2>1. CacheTruthful'
        BY <1>0, <1>7 DEF TargetsEnd, disk, process, history, Quit, Return, Fault, CacheTruthful
    <2>2. IndexConsistent'
        BY <1>0, <1>7 DEF TargetsEnd, disk, process, history, Quit, Return, Fault, IndexConsistent,
           Indices
    <2>3. MirrorTold'
        BY <1>0, <1>7 DEF TargetsEnd, disk, process, history, Quit, Return, Fault, MirrorTold
    <2>4. QED
        BY <2>1, <2>2, <2>3
<1>8. ASSUME Prepare PROVE Good
    <2>1. CacheTruthful'
        BY <1>0, <1>8 DEF Prepare, disk, process, history, Quit, Return, Fault, CacheTruthful
    <2>2. IndexConsistent'
        BY <1>0, <1>8 DEF Prepare, disk, process, history, Quit, Return, Fault, IndexConsistent,
           Indices
    <2>3. MirrorTold'
        BY <1>0, <1>8 DEF Prepare, disk, process, history, Quit, Return, Fault, MirrorTold
    <2>4. QED
        BY <2>1, <2>2, <2>3
<1>9. ASSUME FinishKept PROVE Good
    <2>1. CacheTruthful'
        BY <1>0, <1>9 DEF FinishKept, disk, process, history, Quit, Return, Fault, CacheTruthful
    <2>2. IndexConsistent'
        BY <1>0, <1>9 DEF FinishKept, disk, process, history, Quit, Return, Fault, IndexConsistent,
           Indices
    <2>3. MirrorTold'
        BY <1>0, <1>9 DEF FinishKept, disk, process, history, Quit, Return, Fault, MirrorTold
    <2>4. QED
        BY <2>1, <2>2, <2>3
<1>10. ASSUME FinishDelete PROVE Good
    <2>1. CacheTruthful'
        BY <1>0, <1>c, <1>10, FilesAreOwned DEF FinishDelete, disk, process, history, Quit, Return,
           Fault, CacheTruthful, TypeStores, TypeRest, File
    <2>2. IndexConsistent'
        BY <1>0, <1>10 DEF FinishDelete, disk, process, history, Quit, Return, Fault,
           IndexConsistent, Indices
    <2>3. MirrorTold'
        BY <1>0, <1>c, <1>10, FilesAreOwned DEF FinishDelete, disk, process, history, Quit, Return,
           Fault, MirrorTold, TypeStores, TypeRest, File
    <2>4. QED
        BY <2>1, <2>2, <2>3
<1>11. ASSUME Rename PROVE Good
    <2>1. CacheTruthful'
        BY <1>0, <1>11 DEF Rename, disk, process, history, Quit, Return, Fault, CacheTruthful
    <2>2. IndexConsistent'
        BY <1>0, <1>11 DEF Rename, disk, process, history, Quit, Return, Fault, IndexConsistent,
           Indices
    <2>3. MirrorTold'
        BY <1>0, <1>11 DEF Rename, disk, process, history, Quit, Return, Fault, MirrorTold
    <2>4. QED
        BY <2>1, <2>2, <2>3
<1>12. ASSUME RenameFails PROVE Good
    <2>1. CacheTruthful'
        BY <1>0, <1>12 DEF RenameFails, disk, process, history, Quit, Return, Fault, CacheTruthful
    <2>2. IndexConsistent'
        BY <1>0, <1>12 DEF RenameFails, disk, process, history, Quit, Return, Fault,
           IndexConsistent, Indices
    <2>3. MirrorTold'
        BY <1>0, <1>12 DEF RenameFails, disk, process, history, Quit, Return, Fault, MirrorTold
    <2>4. QED
        BY <2>1, <2>2, <2>3
<1>13. ASSUME FinishEnd PROVE Good
    <2>1. UNCHANGED <<dists, cache, mirror, suspect, touched, unsent>> /\ pc = "finish" /\ todo = <<>>
        BY <1>13 DEF FinishEnd, disk
    <2>2. ASSUME ~torn'
          PROVE  \A e \in ToSet(entries) :
                    /\ ~e.temp
                    /\ ~e.final /\ e.sum # {} => e.file \notin suspect
                    /\ ~e.final /\ e.sum = {} => dists[e.file] = {}
        <3>1. torn' = \E e \in ToSet(entries) :
                    \/ e.temp
                    \/ ~e.final /\ e.sum # {} /\ e.file \in suspect
                    \/ ~e.final /\ e.sum = {} /\ dists[e.file] # {}
            BY Zenon, <1>13 DEF FinishEnd
        <3>2. QED
            BY Zenon, <2>2, <3>1
    <2>3. ~torn' => \A s \in Special : dists[s] # {} => dists[s] = Indices
        BY <2>1, <2>2, InPlaceConsistent
    <2>4. CacheTruthful'
        BY <1>0, <2>1 DEF CacheTruthful
    <2>5. IndexConsistent'
        BY <2>1, <2>3 DEF IndexConsistent, Indices
    <2>6. MirrorTold'
        BY <1>0, <2>1 DEF MirrorTold
    <2>7. QED
        BY <2>4, <2>5, <2>6
<1>14. ASSUME Store PROVE Good
    <2>1. /\ Current \in Entry /\ Current \in ToSet(entries) /\ Current.file \in File
          /\ Ahead("store", Current) /\ pc = "store"
          /\ UNCHANGED <<dists, mirror, torn, touched, unsent>>
        BY <1>c, <1>14, AtCurrent DEF Store, Ahead
    <2>2. ASSUME Current.file \in IndexFile, ~Current.temp
          PROVE  /\ Current.final => dists[Current.file] = Current.sum
                 /\ ~Current.final => cache[Current.file] = Current.sum /\ Current.sum # {}
        <3>1. Current.sum # {} /\ IF Current.final THEN Written(Current) ELSE Kept(Current)
            BY <2>1, <2>2 DEF IInv, IndexEntries
        <3>2. QED
            BY <2>1, <2>2, <3>1 DEF Written, Kept
    <2>3. \/ /\ cache' = [cache EXCEPT ![Current.file] = Current.sum]
             /\ suspect' = IF Current.temp THEN suspect \cup {Current.file}
                           ELSE IF Current.final \/ Current.sum = {} THEN suspect \ {Current.file}
                           ELSE suspect
          \/ /\ cache' = [cache EXCEPT ![Current.file] = {}]
             /\ suspect' = suspect \ {Current.file}
          \/ UNCHANGED <<cache, suspect>>
        BY <1>14 DEF Store
    <2>4. ASSUME NEW f \in IndexFile, f \notin suspect', cache'[f] # {}, dists'[f] # {}
          PROVE  cache'[f] = dists'[f]
        <3>1. f \notin suspect /\ cache[f] # {} => cache[f] = dists[f]
            BY <1>0, <2>1, <2>4 DEF CacheTruthful
        <3>2. CASE f # Current.file
            <4>1. cache'[f] = cache[f]
                BY <1>0, <2>3, <3>2 DEF TypeStores, File
            <4>2. f \notin suspect
                BY <2>3, <2>4, <3>2
            <4>3. QED
                BY <2>1, <2>4, <3>1, <4>1, <4>2
        <3>3. CASE f = Current.file
            BY <1>0, <2>1, <2>2, <2>3, <2>4, <3>1, <3>3 DEF TypeStores
        <3>4. QED
            BY <3>2, <3>3
    <2>5. CacheTruthful'
        BY <2>4 DEF CacheTruthful
    <2>6. IndexConsistent'
        BY <1>0, <2>1 DEF IndexConsistent, Indices
    <2>7. MirrorTold'
        BY <1>0, <2>1 DEF MirrorTold
    <2>8. QED
        BY <2>5, <2>6, <2>7
<1>15. ASSUME StoreEnd PROVE Good
    <2>1. CacheTruthful'
        BY <1>0, <1>15 DEF StoreEnd, disk, process, history, Quit, Return, Fault, CacheTruthful
    <2>2. IndexConsistent'
        BY <1>0, <1>15 DEF StoreEnd, disk, process, history, Quit, Return, Fault, IndexConsistent,
           Indices
    <2>3. MirrorTold'
        BY <1>0, <1>15 DEF StoreEnd, disk, process, history, Quit, Return, Fault, MirrorTold
    <2>4. QED
        BY <2>1, <2>2, <2>3
<1>16. ASSUME Report PROVE Good
    <2>1. UNCHANGED <<dists, cache, torn, suspect>> /\ pc = "report"
        BY <1>16 DEF Report
    <2>6. CacheTruthful'
        BY <1>0, <2>1 DEF CacheTruthful
    <2>7. IndexConsistent'
        BY <1>0, <2>1 DEF IndexConsistent, Indices
    <2>8. MirrorTold'
        <3>1. mirror' = mirror /\ touched' \cup unsent' = touched \cup unsent
            BY <1>16 DEF Report, Quit
        <3>2. QED
            BY <1>0, <2>1, <3>1 DEF MirrorTold
    <2>9. QED
        BY <2>6, <2>7, <2>8
<1>17. ASSUME NEW f \in IndexFile, Lose(f) PROVE Good
    <2>1. CacheTruthful'
        BY <1>0, <1>17 DEF Lose, disk, process, history, Quit, Return, Fault, CacheTruthful
    <2>2. IndexConsistent'
        BY <1>0, <1>17 DEF Lose, disk, process, history, Quit, Return, Fault, IndexConsistent,
           Indices
    <2>3. MirrorTold'
        BY <1>0, <1>17 DEF Lose, disk, process, history, Quit, Return, Fault, MirrorTold
    <2>4. QED
        BY <2>1, <2>2, <2>3
<1>18. ASSUME Crash PROVE Good
    <2>1. CacheTruthful'
        BY <1>0, <1>c, <1>18, FilesAreOwned DEF Crash, disk, process, history, Quit, Return, Fault,
           CacheTruthful, TypeStores, TypeRest, File
    <2>2. IndexConsistent'
        BY <1>0, <1>18 DEF Crash, disk, process, history, Quit, Return, Fault, IndexConsistent,
           Indices
    <2>3. MirrorTold'
        BY <1>0, <1>18 DEF Crash, disk, process, history, Quit, Return, Fault, MirrorTold
    <2>4. QED
        BY <2>1, <2>2, <2>3
<1>19. ASSUME CallOuthook PROVE Good
    <2>1. UNCHANGED <<dists, cache, torn, suspect>> /\ pc = "outhook" /\ touched' = {}
        BY <1>19 DEF CallOuthook
    <2>2. \A f \in touched : outlog[f] # ""
        BY <2>1 DEF IInv, Reporting
    <2>3. MirrorTold'
        <3>1. CASE mirror' = Followed(File) /\ unsent' = Unreported
            <4>1. ASSUME NEW f \in File, f \notin unsent' PROVE mirror'[f] = dists[f]
                <5>1. mirror'[f] = IF outlog[f] = "" THEN mirror[f]
                                   ELSE IF outlog[f] = "DISTFILE" THEN dists[f] ELSE {}
                    BY <3>1 DEF Followed
                <5>2. CASE outlog[f] = ""
                    <6>1. f \notin touched /\ f \notin unsent
                        BY <2>2, <3>1, <4>1, <5>2 DEF Unreported
                    <6>2. QED
                        BY <1>0, <5>1, <5>2, <6>1 DEF MirrorTold
                <5>3. CASE outlog[f] = "DISTDELETE"
                    <6>1. dists[f] = {}
                        BY <3>1, <4>1, <5>3 DEF Unreported
                    <6>2. QED
                        BY <5>1, <5>3, <6>1
                <5>4. QED
                    BY <1>0, <5>1, <5>2, <5>3 DEF TypeStores
            <4>2. QED
                BY <2>1, <4>1 DEF MirrorTold
        <3>2. CASE unsent' = unsent \cup touched /\ \E some \in SUBSET touched : mirror' = Followed(some)
            <4>1. PICK some \in SUBSET touched : mirror' = Followed(some)
                BY <3>2
            <4>2. ASSUME NEW f \in File, f \notin unsent' PROVE mirror'[f] = dists[f]
                <5>1. f \notin touched /\ f \notin unsent /\ f \notin some
                    BY <3>2, <4>1, <4>2
                <5>2. mirror'[f] = mirror[f]
                    BY <4>1, <5>1 DEF Followed
                <5>3. QED
                    BY <1>0, <5>1, <5>2 DEF MirrorTold
            <4>3. QED
                BY <2>1, <4>2 DEF MirrorTold
        <3>3. QED
            BY Zenon, <1>19, <3>1, <3>2 DEF CallOuthook
    <2>4. CacheTruthful'
        BY <1>0, <2>1 DEF CacheTruthful
    <2>5. IndexConsistent'
        BY <1>0, <2>1 DEF IndexConsistent, Indices
    <2>6. QED
        BY <2>3, <2>4, <2>5
<1>20. QED
    <2> HIDE DEF Good
    <2>1. Good
        BY <1>1, <1>2, <1>3, <1>4, <1>5, <1>6, <1>7, <1>8, <1>9, <1>10, <1>11, <1>12, <1>13,
           <1>14, <1>15, <1>16, <1>17, <1>18, <1>19 DEF Next
    <2>2. QED
        BY <2>1 DEF Good

(* What is changed in dists/ is on its way to the outhook.                 *)
LEMMA ReportingStep ==
    ASSUME IInv, Next
    PROVE  Reporting'
<1>0. Reporting /\ TypeOK
    BY DEF IInv
<1>1. ASSUME Quit PROVE Reporting'
    BY <1>1 DEF Quit, Reporting, Finishing
<1>2. ASSUME touched' = touched, ~Finishing, pc # "outhook", ~Finishing', pc' # "outhook"
      PROVE  Reporting'
    BY <1>0, <1>2 DEF Reporting
<1>3. ASSUME Finishing, Finishing', touched' = touched, entries' = entries
      PROVE  Reporting'
    BY <1>0, <1>3 DEF Reporting, Finishing
<1>4. ASSUME NEW t \in Target, Modify(t) PROVE Reporting'
    BY <1>2, <1>4 DEF Modify, history, Finishing
<1>5. ASSUME NEW t \in Target, KeepTarget(t) PROVE Reporting'
    BY <1>2, <1>5 DEF KeepTarget, history, Finishing
<1>6. ASSUME NEW t \in Target, WriteTarget(t) PROVE Reporting'
    <2>1. Quit \/ (pc = "targets" /\ pc' = pc /\ touched' = touched)
        BY Zenon, <1>6 DEF WriteTarget
    <2>2. QED
        BY <1>1, <1>2, <2>1 DEF Finishing
<1>7. CASE SkipExport
    BY <1>1, <1>7 DEF SkipExport
<1>8. CASE Configure
    BY <1>2, <1>8 DEF Configure, process, history, Finishing
<1>9. ASSUME NEW all \in BOOLEAN, StartExport(all) PROVE Reporting'
    BY <1>2, <1>9 DEF StartExport, history, Finishing
<1>10. CASE TargetsEnd
    BY <1>2, <1>10 DEF TargetsEnd, history, Finishing
<1>11. CASE Prepare
    <2>1. Quit \/ (pc = "prepare" /\ pc' = "finish" /\ touched' = touched)
        BY Zenon, <1>11 DEF Prepare
    <2>2. CASE pc = "prepare" /\ pc' = "finish" /\ touched' = touched
        BY <1>0, <2>2 DEF Reporting, Finishing
    <2>3. QED
        BY <1>1, <2>1, <2>2
<1>12. CASE FinishKept
    BY <1>3, <1>12 DEF FinishKept, history, Finishing
<1>13. CASE FinishDelete \/ Rename
    <2>1. PICK d : \/ d = [Current EXCEPT !.final = FALSE] /\ FinishDelete
                   \/ d = [Current EXCEPT !.temp = FALSE] /\ Rename
        BY <1>13
    <2>2. /\ pc = "finish" /\ pc' = "finish" /\ todo # <<>> /\ todo' = Tail(todo)
          /\ entries' = Replace(entries, Current, d)
          /\ touched' = touched \cup {Current.file}
        BY <2>1 DEF FinishDelete, Rename, InPlace, Replace
    <2>3. Current \in Entry /\ Current \in ToSet(entries) /\ Ahead("finish", Current)
        BY <2>2, AtCurrent DEF Ahead
    <2>4. d \in Entry /\ d.file = Current.file /\ d.sum = Current.sum
        BY <2>1, <2>3 DEF Entry, FinishDelete, Rename
    <2>5. d.final \/ d.sum = {}
        <3>1. CASE FinishDelete
            <4>1. Current.final /\ ~Current.temp
                BY <3>1 DEF FinishDelete
            <4>2. Current.file \notin IndexFile
                BY <2>3, <4>1 DEF IInv, IndexEntries, Written
            <4>3. Current.file \in Special
                BY <2>3, <4>2 DEF Entry, File
            <4>4. QED
                BY <2>2, <2>3, <2>4, <4>3 DEF IInv, SpecialEntries, Finishing
        <3>2. CASE Rename
            BY <2>1, <2>3, <3>2 DEF Rename, FinishDelete, Entry
        <3>3. QED
            BY <1>13, <3>1, <3>2
    <2>6. ToSet(entries') = (ToSet(entries) \ {Current}) \cup {d}
        BY <2>2, <2>4, EntryDone
    <2>7. ASSUME NEW f \in touched'
          PROVE  \E e \in ToSet(entries') : e.file = f /\ (e.final \/ e.sum = {})
        <3>1. CASE f = Current.file
            BY <2>4, <2>5, <2>6, <3>1
        <3>2. CASE f # Current.file
            <4>1. PICK e \in ToSet(entries) : e.file = f /\ (e.final \/ e.sum = {})
                BY <1>0, <2>2, <2>7, <3>2 DEF Reporting, Finishing
            <4>2. QED
                BY <2>6, <3>2, <4>1
        <3>3. QED
            BY <3>1, <3>2
    <2>8. QED
        BY <2>2, <2>7 DEF Reporting, Finishing
<1>14. CASE RenameFails
    <2>1. Quit \/ (Finishing /\ Finishing' /\ touched' = touched /\ entries' = entries)
        BY Zenon, <1>14 DEF RenameFails, Finishing
    <2>2. QED
        BY <1>1, <1>3, <2>1
<1>15. CASE FinishEnd
    BY <1>3, <1>15 DEF FinishEnd, Finishing
<1>16. CASE Store
    BY <1>3, <1>16 DEF Store, Finishing
<1>17. CASE StoreEnd
    BY <1>3, <1>17 DEF StoreEnd, history, Finishing
<1>18. CASE Report
    <2>1. CASE Quit
        BY <1>1, <2>1
    <2>2. CASE ~Quit
        <3>1. /\ pc = "report" /\ pc' = "outhook" /\ touched' = touched
              /\ outlog' = [f \in File |-> IF f \in Renamed THEN "DISTFILE"
                                           ELSE IF f \in Deleted THEN "DISTDELETE" ELSE ""]
            BY Zenon, <1>18, <2>2 DEF Report
        <3>2. ASSUME NEW f \in touched PROVE f \in Renamed \cup Deleted
            <4>1. PICK e \in ToSet(entries) : e.file = f /\ (e.final \/ e.sum = {})
                BY <1>0, <3>1, <3>2 DEF Reporting, Finishing
            <4>2. QED
                BY <4>1 DEF Renamed, Deleted
        <3>3. touched \subseteq File
            BY <1>0 DEF TypeOK
        <3>4. QED
            BY <3>1, <3>2, <3>3 DEF Reporting, Finishing
    <2>3. QED
        BY <2>1, <2>2
<1>19. CASE CallOuthook
    BY <1>19 DEF CallOuthook, Reporting, Finishing
<1>20. ASSUME NEW f \in IndexFile, Lose(f) PROVE Reporting'
    BY <1>2, <1>20 DEF Lose, process, Finishing
<1>21. CASE Crash
    BY <1>1, <1>21 DEF Crash
<1>22. QED
    BY <1>4, <1>5, <1>6, <1>7, <1>8, <1>9, <1>10, <1>11, <1>12, <1>13, <1>14, <1>15, <1>16,
       <1>17, <1>18, <1>19, <1>20, <1>21 DEF Next

-----------------------------------------------------------------------------
(* The theorems.                                                           *)

LEMMA Start == Init => IInv
<1>1. SUFFICES ASSUME Init PROVE IInv
    OBVIOUS
<1>2. entries = <<>> /\ todo = <<>> /\ pc = "idle" /\ ToSet(entries) = {} /\ OneEach(entries)
    BY <1>1 DEF Init, ToSet, OneEach
<1>3. TypeStores
    <2>1. Nowhere \in [File -> Content] /\ NoLines \in [File -> {"", "DISTFILE", "DISTDELETE"}]
        BY DEF Nowhere, NoLines, Content
    <2>2. QED
        BY <1>1, <2>1 DEF Init, TypeStores
<1>4. TypeLists /\ TypeShape
    BY <1>1, <1>2 DEF TypeLists, TypeShape
<1>5. TypeFlags
    BY <1>1 DEF Init, TypeFlags
<1>6. TypeRest
    BY <1>1, ExportAssumption DEF Init, TypeRest
<1>7. Fresh /\ Listing /\ IndexEntries /\ SpecialEntries /\ Failures
    BY <1>1, <1>2 DEF Init, Fresh, Listing, IndexEntries, SpecialEntries, Failures, Exporting, Finishing
<1>8. CacheTruthful
    BY <1>1 DEF Init, CacheTruthful, Nowhere, File
<1>9. IndexConsistent
    BY <1>1 DEF Init, IndexConsistent, Nowhere, File
<1>10. MirrorTold /\ Reporting
    BY <1>1 DEF Init, MirrorTold, Reporting, Finishing
<1>11. QED
    BY <1>3, <1>4, <1>5, <1>6, <1>7, <1>8, <1>9, <1>10, TypeParts DEF IInv

(* What is listed, stored and told stays of one piece through every step.  *)
THEOREM ExportInvariant == Spec => []IInv
<1>1. IInv /\ Next => IInv'
    <2>1. SUFFICES ASSUME IInv, Next PROVE IInv'
        OBVIOUS
    <2>2. TypeStores' /\ TypeLists' /\ TypeFlags' /\ TypeRest' /\ TypeShape'
        BY <2>1, TypeStep
    <2>3. TypeOK'
        BY <2>2 DEF TypeOK, TypeStores, TypeLists, TypeFlags, TypeRest, TypeShape
    <2>4. QED
        BY <2>1, <2>3, ListsStep, ReportingStep, PromisesStep DEF IInv, Lists
<1>2. IInv /\ UNCHANGED vars => IInv'
    <2>1. SUFFICES ASSUME IInv, UNCHANGED vars PROVE IInv'
        OBVIOUS
    <2>2. /\ packages' = packages /\ signwith' = signwith /\ faults' = faults
          /\ dists' = dists /\ temps' = temps /\ cache' = cache /\ mirror' = mirror
          /\ pc' = pc /\ modified' = modified /\ full' = full /\ entries' = entries
          /\ todo' = todo /\ moved' = moved /\ error' = error
          /\ torn' = torn /\ suspect' = suspect /\ touched' = touched /\ unsent' = unsent
          /\ outlog' = outlog
        BY <2>1 DEF vars, disk, process, history
    <2>3. TypeOK'
        BY <2>1, <2>2 DEF IInv, TypeOK
    <2>4. Fresh' /\ Listing' /\ MirrorTold' /\ CacheTruthful' /\ IndexConsistent'
        BY <2>1, <2>2 DEF IInv, Fresh, Listing, ToCome, Has, Exporting, MirrorTold,
           CacheTruthful, IndexConsistent, Indices
    <2>5. IndexEntries'
        BY <2>1, <2>2 DEF IInv, IndexEntries, Written, Kept, Ahead, Finishing, Generated
    <2>6. SpecialEntries' /\ Failures'
        BY <2>1, <2>2 DEF IInv, SpecialEntries, Failures, Ahead, Finishing, Wanted, Has, Listed
    <2>7. Reporting'
        BY <2>1, <2>2 DEF IInv, Reporting, Finishing
    <2>8. QED
        BY <2>3, <2>4, <2>5, <2>6, <2>7 DEF IInv
<1>3. QED
    BY <1>1, <1>2, Start, PTL DEF Spec

(* In every history of changes, exports and failures the state keeps its   *)
(* type.                                                                   *)
THEOREM TypeCorrect == Spec => []TypeOK
BY ExportInvariant, PTL DEF IInv

(* Release and the signatures list what is in dists/, unless an export did *)
(* not get all its files in place.                                         *)
THEOREM ReleaseListsWhatIsThere == Spec => []IndexConsistent
BY ExportInvariant, PTL DEF IInv

(* The cache knows an index file by its own checksums or not at all, but   *)
(* for those of an export that did not come to its end.                    *)
THEOREM CacheIsTrue == Spec => []CacheTruthful
BY ExportInvariant, PTL DEF IInv

(* Between runs a copy of dists/ kept by a script that does what it reads  *)
(* in the .outlog of each run is the same, but for files changed by a run  *)
(* that did not get as far as a script that succeeds.                      *)
THEOREM CopyIsTold == Spec => []MirrorMatchesDists
<1>1. IInv => MirrorMatchesDists
    BY DEF IInv, MirrorTold, Reporting, Finishing, MirrorMatchesDists
<1>2. QED
    BY <1>1, ExportInvariant, PTL

(* An export without errors makes every change of its call visible, listed *)
(* and signed.                                                             *)
THEOREM ExportsAreCurrent == Spec => []ExportCurrent
<1>1. ASSUME IInv PROVE ExportCurrent
    <2>1. SUFFICES ASSUME pc = "report", ~error,
                          NEW t \in Target, full \/ t \in modified, NEW f \in ToSet(FilesOf[t])
                   PROVE  /\ dists[f] = Generated(t, f)
                          /\ \A s \in Wanted : Generated(t, f) \subseteq dists[s]
        BY <1>1 DEF ExportCurrent, Wanted, IInv, TypeOK
    <2>2. \A e \in ToSet(entries) : ~Ahead("finish", e) /\ ~e.temp
        BY <1>1, <2>1 DEF IInv, Failures, Finishing, Ahead
    <2>3. f \in IndexFile /\ Has(f)
        BY <1>1, <2>1, FilesAreOwned DEF IInv, Listing, ToCome, Exporting
    <2>4. PICK e \in ToSet(entries) : e.file = f
        BY <2>3 DEF Has
    <2>5. e.final
        BY <1>1, <2>1, <2>3, <2>4 DEF IInv, IndexEntries, Kept
    <2>6. e.sum = Generated(t, f) /\ dists[f] = e.sum
        BY <1>1, <2>2, <2>3, <2>4, <2>5 DEF IInv, IndexEntries, Written
    <2>7. ASSUME NEW s \in Wanted PROVE Generated(t, f) \subseteq dists[s]
        <3>1. s \in Special
            BY DEF Wanted, Special
        <3>2. Has(s)
            BY <1>1, <2>1, <2>7, <3>1 DEF IInv, SpecialEntries, Finishing
        <3>3. PICK g \in ToSet(entries) : g.file = s
            BY <3>2 DEF Has
        <3>4. dists[s] = Listed
            BY <1>1, <2>1, <2>2, <2>7, <3>1, <3>3 DEF IInv, SpecialEntries, Finishing
        <3>5. QED
            BY <2>4, <2>6, <3>4 DEF Listed
    <2>8. QED
        BY <2>6, <2>7
<1>2. QED
    BY <1>1, ExportInvariant, PTL

=============================================================================
