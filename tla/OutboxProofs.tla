---------------------------- MODULE OutboxProofs ----------------------------
(***************************************************************************)
(* Proofs about Outbox, for any files, attempts and number of faults.       *)
(***************************************************************************)
EXTENDS Outbox, TLAPS, FiniteSetTheorems

-----------------------------------------------------------------------------
(* The inductive invariants.                                                 *)

Fields == {"phase", "todo", "files", "clean", "publish"}

AttemptType(p) ==
    LET a == attempt[p] IN
    /\ DOMAIN a = Fields /\ a.publish \in BOOLEAN
    /\ a.phase \in {"idle", "download", "post", "copied"}
    /\ Downloaded(p) \subseteq Names
    /\ \A n \in Downloaded(p) : a.files[n] \in 1 .. scheduled[n]
    /\ a.clean \subseteq Downloaded(p) \X {"published", "not_published"}
    /\ \A d, e \in a.clean : d[1] = e[1] => d = e
    /\ a.phase = "idle" => a.todo = {} /\ Downloaded(p) = {}
    /\ a.phase \in {"idle", "download"} => a.clean = {} /\ a.publish
    /\ a.phase = "download" => a.todo \subseteq Names \ Downloaded(p)
    /\ a.phase = "post" => a.todo \subseteq Deposits
    /\ a.phase = "copied" => a.publish /\ a.todo \subseteq a.clean

FoldersType ==
    /\ activity \in Activities
    /\ outbox \in [Names -> Nat] /\ scheduled \in [Names -> Nat]
    /\ \A n \in Names : outbox[n] \in {0, scheduled[n]} /\ scheduled[n] <= Contents[n]
    /\ posted \in [Deposits -> Nat] /\ faults \in 0 .. MaxFaults
    /\ moved \cup excused \subseteq Names \X Nat
    /\ \A m \in moved \cup excused : m[2] \in 1 .. scheduled[m[1]]

TypeInv ==
    FoldersType /\ DOMAIN attempt = Attempts /\ \A p \in Attempts : AttemptType(p)

\* Articles with a version DOI can be built: with several in the outbox, the
\* version DOI of one may be the only deposit that is made for another.
VersionedAreBuilt ==
    "DepositCrossrefPendingPublication" \in Activities =>
        \A n \in VersionDois : <<n, "doi">> \notin Withheld

ToPost(p) == IF attempt[p].phase = "post" THEN attempt[p].todo ELSE {}

OnItsWay(p, d) == d \in ToPost(p) \/ posted[d] > 0

\* What was downloaded is what was scheduled last, or that is excused.
FilesCurrent(p) ==
    \A n \in Downloaded(p) :
        attempt[p].files[n] = scheduled[n] \/ <<n, scheduled[n]>> \in excused

FileSent(p, n) ==
    \/ <<n, attempt[p].files[n]>> \in excused
    \/ \E d \in Deposits :
           /\ d.name = n /\ OnItsWay(p, d)
           /\ d.content = attempt[p].files[n] \/ activity = "DepositCrossrefPendingPublication"

AllSent(p, n) ==
    \A d \in Deposits :
        d.name = n /\ d.content = attempt[p].files[n] /\ <<n, d.doi>> \notin Withheld =>
            OnItsWay(p, d)

\* A file that is to be moved has its deposits sent first.
SentBeforeMoved(p) ==
    attempt[p].publish =>
        \A e \in attempt[p].clean :
            /\ FileSent(p, e[1])
            /\ activity = "DepositCrossref" => AllSent(p, e[1])

SafetyInv ==
    /\ \A p \in Attempts : FilesCurrent(p) /\ SentBeforeMoved(p)
    /\ NothingUnsent /\ MovedWhenAllSent

\* The attempt has the content of d, or will once it has downloaded it.
Has(p, d) ==
    /\ attempt[p].phase = "download"
    /\ \/ d.name \in attempt[p].todo /\ outbox[d.name] = d.content
       \/ d.name \in Downloaded(p) /\ attempt[p].files[d.name] = d.content

MayPost(p, d) == Has(p, d) \/ d \in ToPost(p)

\* The attempt will move the file of d, if nothing goes wrong.
TakesAway(p, d) ==
    \/ Has(p, d)
    \/ /\ attempt[p].phase \in {"post", "copied"} /\ attempt[p].publish
       /\ d.name \in Downloaded(p) /\ attempt[p].files[d.name] = d.content
       /\ \E e \in attempt[p].clean : e[1] = d.name

\* Nobody at work takes it away: another attempt may post it once more.
Loose(d) == outbox[d.name] = d.content /\ \A p \in Attempts : ~TakesAway(p, d)

\* The attempt will find a file gone that it has still to download or to move.
Spoilt(p) ==
    \E n \in Names :
        /\ outbox[n] = 0
        /\ \/ attempt[p].phase = "download" /\ n \in attempt[p].todo \cup Downloaded(p)
           \/ /\ attempt[p].phase \in {"post", "copied"}
              /\ \E e \in attempt[p].clean : e[1] = n

\* An attempt that takes d away may yet give up, without a fault of its own.
AtRisk(d) ==
    \E p \in Attempts :
        TakesAway(p, d) /\ (Spoilt(p) \/ \E q \in Attempts \ {p} : Busy(q))

BusyOnes == {p \in Attempts : Busy(p)}
Posters(d) == {p \in Attempts : MayPost(p, d)}
One(b) == IF b THEN 1 ELSE 0

\* What was posted, what may be posted, and what will be for want of a cleaning.
CountedPosts(d) ==
    posted[d] + Cardinality(Posters(d)) + One(Loose(d)) + One(AtRisk(d)) <= 1 + 2 * faults

CountInv ==
    /\ Cardinality(BusyOnes) <= 1 + faults
    /\ (\E p \in Attempts : Spoilt(p)) => faults >= 1
    /\ \A p \in Attempts : \A d \in ToPost(p) :
           d.name \in Downloaded(p) /\ attempt[p].files[d.name] = d.content
    /\ \A d \in Deposits : posted[d] > 0 => d.content <= scheduled[d.name]
    /\ \A d \in Deposits : CountedPosts(d)

-----------------------------------------------------------------------------
(* Types.                                                                    *)

LEMMA DepositFacts ==
    ASSUME NEW d \in Deposits
    PROVE  /\ d.name \in Names /\ d.content \in 1 .. Contents[d.name]
           /\ d.doi \in DoisOf(d.name)
           /\ d = [name |-> d.name, content |-> d.content, doi |-> d.doi]
  BY DEF Deposits

LEMMA DepositMade ==
    ASSUME NEW n \in Names, NEW c \in 1 .. Contents[n], NEW doi \in DoisOf(n)
    PROVE  [name |-> n, content |-> c, doi |-> doi] \in Deposits
  BY DEF Deposits

LEMMA IdleFacts ==
    /\ Idle.phase = "idle" /\ Idle.todo = {} /\ DOMAIN Idle.files = {}
    /\ Idle.clean = {} /\ Idle.publish = TRUE /\ DOMAIN Idle = Fields
  BY DEF Idle, Fields

\* An attempt goes on alone.
LEMMA GoOnEffect ==
    ASSUME DOMAIN attempt = Attempts, NEW p \in Attempts, NEW next, GoOn(p, next)
    PROVE  /\ DOMAIN attempt' = Attempts /\ attempt'[p] = next
           /\ \A q \in Attempts \ {p} : attempt'[q] = attempt[q]
           /\ activity' = activity /\ scheduled' = scheduled
  BY DEF GoOn

LEMMA FaultType ==
    ASSUME faults \in 0 .. MaxFaults, Fault
    PROVE  faults' \in 0 .. MaxFaults /\ faults' = faults + 1
  BY OutboxAssumption DEF Fault

LEMMA TypeInvIsType ==
    ASSUME TypeInv
    PROVE  TypeOK
  BY OutboxAssumption DEF TypeInv, FoldersType, AttemptType, TypeOK

\* An attempt that does not move keeps its type while others do.
LEMMA OneMovesType ==
    ASSUME TypeInv, NEW p \in Attempts, NEW next, GoOn(p, next),
           AttemptType(p)', FoldersType'
    PROVE  TypeInv'
  <1>1. \A q \in Attempts \ {p} : AttemptType(q)'
    BY GoOnEffect DEF TypeInv, AttemptType, Downloaded
  <1> QED BY <1>1, GoOnEffect DEF TypeInv

\* One that gives up is as it was in the beginning.
LEMMA IdleType ==
    ASSUME TypeInv, NEW p \in Attempts, GoOn(p, Idle), FoldersType'
    PROVE  TypeInv'
  <1>1. attempt'[p] = Idle
    BY GoOnEffect DEF TypeInv
  <1>2. AttemptType(p)'
    BY <1>1, IdleFacts DEF AttemptType, Downloaded
  <1> QED BY <1>2, OneMovesType

LEMMA ScheduleType ==
    ASSUME TypeInv, NEW n \in Names, Schedule(n)
    PROVE  TypeInv'
  <1>1. /\ scheduled[n] + 1 <= Contents[n]
        /\ scheduled' = [scheduled EXCEPT ![n] = scheduled[n] + 1]
        /\ outbox' = [outbox EXCEPT ![n] = scheduled[n] + 1]
        /\ excused' \subseteq excused \cup {<<n, scheduled[n] + 1>>}
        /\ UNCHANGED <<activity, attempt, moved, posted, faults>>
    BY DEF Schedule
  <1>2. /\ scheduled' \in [Names -> Nat] /\ outbox' \in [Names -> Nat]
        /\ \A m \in Names : scheduled'[m] = IF m = n THEN scheduled[n] + 1 ELSE scheduled[m]
        /\ \A m \in Names : outbox'[m] = IF m = n THEN scheduled[n] + 1 ELSE outbox[m]
    BY <1>1 DEF TypeInv, FoldersType
  <1>3. /\ moved' \cup excused' \subseteq Names \X Nat
        /\ \A m \in moved' \cup excused' : m[2] \in 1 .. scheduled'[m[1]]
    <2> SUFFICES ASSUME NEW m \in moved' \cup excused'
                 PROVE  m \in Names \X Nat /\ m[2] \in 1 .. scheduled'[m[1]]
      OBVIOUS
    <2>1. CASE m = <<n, scheduled[n] + 1>>
      BY <2>1, <1>2 DEF TypeInv, FoldersType
    <2>2. CASE m \in moved \cup excused
      BY <2>2, <1>2 DEF TypeInv, FoldersType
    <2> QED BY <2>1, <2>2, <1>1
  <1>4. FoldersType'
    BY <1>1, <1>2, <1>3 DEF TypeInv, FoldersType
  <1>5. \A p \in Attempts : AttemptType(p)'
    <2> SUFFICES ASSUME NEW p \in Attempts
                 PROVE  AttemptType(p)'
      OBVIOUS
    <2>1. \A m \in Downloaded(p) : 1 .. scheduled[m] \subseteq 1 .. scheduled'[m]
      BY <1>2 DEF TypeInv, FoldersType, AttemptType
    <2> QED BY <1>1, <2>1 DEF TypeInv, AttemptType, Downloaded
  <1> QED BY <1>1, <1>4, <1>5 DEF TypeInv

LEMMA ListType ==
    ASSUME TypeInv, NEW p \in Attempts, ListOutbox(p)
    PROVE  TypeInv'
  <1> DEFINE next == [Idle EXCEPT !.phase = "download",
                                  !.todo = {n \in Names : outbox[n] # 0}]
  <1>1. /\ next.phase = "download" /\ next.todo = {n \in Names : outbox[n] # 0}
        /\ next.files = Idle.files /\ next.clean = {} /\ next.publish /\ DOMAIN next = Fields
    BY IdleFacts DEF Fields
  <1>2. GoOn(p, next) /\ UNCHANGED <<outbox, moved, posted, excused>>
    BY DEF ListOutbox
  <1>3. FoldersType'
    <2>1. faults' \in 0 .. MaxFaults
      BY FaultType DEF ListOutbox, TypeInv, FoldersType
    <2> QED BY <1>2, <2>1 DEF GoOn, TypeInv, FoldersType
  <1>4. AttemptType(p)'
    <2>1. attempt'[p] = next
      BY <1>2, GoOnEffect DEF TypeInv
    <2> HIDE DEF next
    <2> QED BY <1>1, <2>1, IdleFacts DEF AttemptType, Downloaded
  <1> QED BY <1>2, <1>3, <1>4, OneMovesType

\* The files of an attempt once n has been downloaded as well.
LEMMA DownloadEffect ==
    ASSUME TypeInv, NEW p \in Attempts, NEW n \in attempt[p].todo, outbox[n] # 0,
           attempt[p].phase = "download",
           GoOn(p, [attempt[p] EXCEPT !.todo = @ \ {n}, !.files = WithFile(@, n)])
    PROVE  /\ attempt'[p].phase = "download" /\ attempt'[p].todo = attempt[p].todo \ {n}
           /\ Downloaded(p)' = Downloaded(p) \cup {n}
           /\ attempt'[p].files[n] = outbox[n]
           /\ \A m \in Downloaded(p) : attempt'[p].files[m] = attempt[p].files[m]
           /\ attempt'[p].clean = attempt[p].clean
           /\ attempt'[p].publish = attempt[p].publish
           /\ DOMAIN attempt'[p] = Fields
  <1> DEFINE files == WithFile(attempt[p].files, n)
  <1>1. DOMAIN attempt[p] = Fields /\ n \notin Downloaded(p)
    BY DEF TypeInv, AttemptType
  <1>2. /\ DOMAIN files = Downloaded(p) \cup {n} /\ files[n] = outbox[n]
        /\ \A m \in Downloaded(p) : files[m] = attempt[p].files[m]
    BY <1>1 DEF Downloaded, WithFile
  <1>3. attempt'[p] = [attempt[p] EXCEPT !.todo = @ \ {n}, !.files = files]
    BY GoOnEffect DEF TypeInv
  <1> HIDE DEF files
  <1>4. /\ attempt'[p].phase = "download" /\ attempt'[p].todo = attempt[p].todo \ {n}
        /\ attempt'[p].files = files /\ attempt'[p].clean = attempt[p].clean
        /\ attempt'[p].publish = attempt[p].publish /\ DOMAIN attempt'[p] = Fields
    BY <1>1, <1>3 DEF Fields
  <1> QED BY <1>2, <1>4 DEF Downloaded

LEMMA DownloadType ==
    ASSUME TypeInv, NEW p \in Attempts, Download(p)
    PROVE  TypeInv'
  <1>1. UNCHANGED <<outbox, moved, posted, excused, faults>>
    BY DEF Download
  <1>2. PICK n \in attempt[p].todo :
            GoOn(p, IF outbox[n] = 0 THEN Idle
                    ELSE [attempt[p] EXCEPT !.todo = @ \ {n}, !.files = WithFile(@, n)])
    BY DEF Download
  <1>3. FoldersType'
    BY <1>1, <1>2 DEF GoOn, TypeInv, FoldersType
  <1>4. CASE outbox[n] = 0
    BY <1>2, <1>3, <1>4, IdleType
  <1>5. CASE outbox[n] # 0
    <2>1. attempt[p].phase = "download" /\ attempt[p].todo \subseteq Names \ Downloaded(p)
      BY DEF Download, TypeInv, AttemptType
    <2>2. outbox[n] \in 1 .. scheduled[n]
      BY <1>5, <2>1 DEF TypeInv, FoldersType
    <2>3. scheduled' = scheduled
      BY <1>2 DEF GoOn
    <2>4. AttemptType(p)'
      <3>1. /\ attempt'[p].phase = "download" /\ attempt'[p].todo = attempt[p].todo \ {n}
            /\ Downloaded(p)' = Downloaded(p) \cup {n}
            /\ attempt'[p].files[n] = outbox[n]
            /\ \A m \in Downloaded(p) : attempt'[p].files[m] = attempt[p].files[m]
            /\ attempt'[p].clean = attempt[p].clean
            /\ attempt'[p].publish = attempt[p].publish
            /\ DOMAIN attempt'[p] = Fields
        BY <1>2, <1>5, <2>1, DownloadEffect
      <3>2. /\ attempt[p].publish = TRUE /\ attempt[p].clean = {}
            /\ n \in Names /\ Downloaded(p) \subseteq Names
            /\ \A m \in Downloaded(p) : attempt[p].files[m] \in 1 .. scheduled[m]
        BY <2>1 DEF AttemptType, TypeInv
      <3>3. \A m \in Downloaded(p)' : attempt'[p].files[m] \in 1 .. scheduled'[m]
        BY <2>2, <2>3, <3>1, <3>2
      <3> QED BY <2>1, <3>1, <3>2, <3>3 DEF AttemptType
    <2> QED BY <1>2, <1>3, <1>5, <2>4, OneMovesType
  <1> QED BY <1>4, <1>5

LEMMA DownloadFailedType ==
    ASSUME TypeInv, NEW p \in Attempts, DownloadFailed(p)
    PROVE  TypeInv'
  <1>1. /\ UNCHANGED <<outbox, moved, posted, excused>> /\ faults' \in 0 .. MaxFaults
        /\ GoOn(p, [attempt[p] EXCEPT !.todo = {}])
    BY FaultType DEF DownloadFailed, TypeInv, FoldersType
  <1>2. FoldersType'
    BY <1>1 DEF GoOn, TypeInv, FoldersType
  <1>3. AttemptType(p)'
    BY <1>1, GoOnEffect DEF DownloadFailed, TypeInv, AttemptType, Downloaded, Fields
  <1> QED BY <1>1, <1>2, <1>3, OneMovesType

LEMMA ReturnType ==
    ASSUME TypeInv, NEW p \in Attempts, Return(p) \/ Crash(p)
    PROVE  TypeInv'
  <1>1. /\ UNCHANGED <<outbox, moved, posted, excused>> /\ faults' \in 0 .. MaxFaults
        /\ GoOn(p, Idle)
    BY FaultType DEF Return, Crash, TypeInv, FoldersType
  <1>2. FoldersType'
    BY <1>1 DEF GoOn, TypeInv, FoldersType
  <1> QED BY <1>1, <1>2, IdleType

\* What either activity builds: deposits for articles in its files.
PendingSource(p, last, a) == <<IF a[2] = "doi" THEN a[1] ELSE last, a[2]>>

PendingBuilt(p, existing, last) ==
    {a \in Articles(p) \ existing : PendingSource(p, last, a) \notin Withheld}

AllExist(p, existing) ==
    {n \in Downloaded(p) : \A doi \in DoisOf(n) : <<n, doi>> \in existing}

LEMMA ArticlesFacts ==
    ASSUME NEW p, NEW a \in Articles(p)
    PROVE  a[1] \in Downloaded(p) /\ a[2] \in DoisOf(a[1]) /\ a = <<a[1], a[2]>>
  BY DEF Articles

LEMMA PendingFacts ==
    ASSUME NEW p, NEW existing \in SUBSET Articles(p), NEW last \in Downloaded(p),
           last \in VersionDois \/ VersionDois \cap Downloaded(p) = {},
           Downloaded(p) \subseteq Names
    PROVE  LET built == PendingBuilt(p, existing, last)
               good == {a[1] : a \in built}
               exist == AllExist(p, existing)
           IN /\ {PendingSource(p, last, a) : a \in built} \subseteq Articles(p)
              /\ good \subseteq Downloaded(p) /\ exist \subseteq Downloaded(p)
              /\ good \cap exist = {}
  <1> DEFINE built == PendingBuilt(p, existing, last)
  <1>1. \A a \in built : a \in Articles(p) /\ a \notin existing
    BY DEF PendingBuilt
  <1>2. ASSUME NEW a \in built PROVE PendingSource(p, last, a) \in Articles(p)
    <2>1. a[1] \in Downloaded(p) /\ a[2] \in DoisOf(a[1]) /\ a = <<a[1], a[2]>>
      BY <1>1, ArticlesFacts
    <2>2. CASE a[2] = "doi"
      BY <1>1, <2>1, <2>2 DEF PendingSource
    <2>3. CASE a[2] # "doi"
      <3>1. a[2] = "version_doi" /\ a[1] \in VersionDois
        BY <2>1, <2>3 DEF DoisOf
      <3>2. last \in VersionDois
        BY <2>1, <3>1
      <3> QED BY <3>1, <3>2 DEF PendingSource, Articles, DoisOf
    <2> QED BY <2>2, <2>3
  <1>3. ASSUME NEW a \in built
        PROVE  /\ a[1] \in Downloaded(p)
               /\ ~\A doi \in DoisOf(a[1]) : <<a[1], doi>> \in existing
    BY <1>1, ArticlesFacts
  <1> QED BY <1>2, <1>3 DEF AllExist

ToClean(good, notPublished) ==
    good \X {"published"} \cup notPublished \X {"not_published"}

LEMMA BuildEffect ==
    ASSUME TypeInv, NEW p \in Attempts, attempt[p].phase = "download",
           NEW articles \in SUBSET Articles(p),
           NEW good \in SUBSET Downloaded(p), NEW notPublished \in SUBSET Downloaded(p),
           good \cap notPublished = {},
           Build(p, articles, good, notPublished)
    PROVE  /\ attempt'[p].phase = "post" /\ attempt'[p].publish
           /\ attempt'[p].todo = DepositsFor(p, articles)
           /\ attempt'[p].clean = ToClean(good, notPublished)
           /\ attempt'[p].files = attempt[p].files
           /\ AttemptType(p)'
  <1>1. /\ DOMAIN attempt[p] = Fields /\ attempt[p].publish = TRUE
        /\ Downloaded(p) \subseteq Names
        /\ \A n \in Downloaded(p) : attempt[p].files[n] \in 1 .. scheduled[n]
    BY DEF TypeInv, AttemptType
  <1> DEFINE todo == DepositsFor(p, articles)
             clean == ToClean(good, notPublished)
  <1>2. attempt'[p] = [attempt[p] EXCEPT !.phase = "post", !.todo = todo, !.clean = clean]
    BY GoOnEffect DEF Build, ToClean, TypeInv
  <1>3. scheduled' = scheduled
    BY DEF Build, GoOn
  <1>4. todo \subseteq Deposits
    <2> SUFFICES ASSUME NEW a \in articles
                 PROVE  [name |-> a[1], content |-> attempt[p].files[a[1]], doi |-> a[2]]
                            \in Deposits
      BY DEF DepositsFor
    <2>1. a[1] \in Downloaded(p) /\ a[2] \in DoisOf(a[1])
      BY ArticlesFacts
    <2>2. a[1] \in Names /\ attempt[p].files[a[1]] \in 1 .. Contents[a[1]]
      BY <1>1, <2>1, OutboxAssumption DEF TypeInv, FoldersType
    <2> QED BY <2>1, <2>2, DepositMade
  <1>5. /\ clean \subseteq Downloaded(p) \X {"published", "not_published"}
        /\ \A d, e \in clean : d[1] = e[1] => d = e
    BY DEF ToClean
  <1> HIDE DEF todo, clean
  <1>6. /\ attempt'[p].phase = "post" /\ attempt'[p].publish = TRUE
        /\ attempt'[p].todo = todo /\ attempt'[p].clean = clean
        /\ attempt'[p].files = attempt[p].files /\ DOMAIN attempt'[p] = Fields
    BY <1>1, <1>2 DEF Fields
  <1>7. AttemptType(p)'
    BY <1>1, <1>3, <1>4, <1>5, <1>6 DEF AttemptType, Downloaded
  <1> QED BY <1>6, <1>7 DEF todo, clean

\* The attempt p after it has built the deposits for articles.
HasBuilt(p, articles, good, notPublished) ==
    /\ attempt'[p].phase = "post" /\ attempt'[p].publish
    /\ attempt'[p].todo = DepositsFor(p, articles)
    /\ attempt'[p].clean = ToClean(good, notPublished)
    /\ attempt'[p].files = attempt[p].files /\ AttemptType(p)'
    /\ \E next : GoOn(p, next)
    /\ UNCHANGED <<outbox, moved, posted>>

LEMMA CrossrefBuilds ==
    ASSUME TypeInv, NEW p \in Attempts, Generate(p), BuildCrossref(p)
    PROVE  \E built, good :
               /\ built = Articles(p) \ Withheld /\ good = {a[1] : a \in built}
               /\ HasBuilt(p, built, good, {}) /\ UNCHANGED <<excused, faults>>
  <1>1. PICK built, good :
            /\ built = Articles(p) \ Withheld /\ good = {a[1] : a \in built}
            /\ Build(p, built, good, {}) /\ UNCHANGED <<excused, faults>>
    BY DEF BuildCrossref, Build
  <1>2. built \subseteq Articles(p) /\ good \subseteq Downloaded(p)
    BY <1>1, ArticlesFacts
  <1>3. attempt[p].phase = "download" /\ UNCHANGED <<outbox, moved, posted>>
    BY DEF Generate
  <1>4. \E next : GoOn(p, next)
    BY <1>1 DEF Build
  <1>5. HasBuilt(p, built, good, {})
    <2>1. built \in SUBSET Articles(p) /\ good \in SUBSET Downloaded(p)
          /\ {} \in SUBSET Downloaded(p) /\ good \cap {} = {}
      BY <1>2
    <2>2. attempt'[p].phase = "post" /\ attempt'[p].publish /\ AttemptType(p)'
      BY <1>1, <1>3, <2>1, BuildEffect
    <2>3. attempt'[p].todo = DepositsFor(p, built) /\ attempt'[p].files = attempt[p].files
      BY <1>1, <1>3, <2>1, BuildEffect
    <2>4. attempt'[p].clean = ToClean(good, {})
      BY <1>1, <1>3, <2>1, BuildEffect
    <2> QED BY <1>3, <1>4, <2>2, <2>3, <2>4 DEF HasBuilt
  <1> QED BY <1>1, <1>5

LEMMA PendingBuilds ==
    ASSUME TypeInv, NEW p \in Attempts, Generate(p), BuildPending(p)
    PROVE  \E existing, last, built, articles, good, exist :
               /\ existing \in SUBSET Articles(p) /\ last \in Downloaded(p)
               /\ last \in VersionDois \/ VersionDois \cap Downloaded(p) = {}
               /\ built = PendingBuilt(p, existing, last)
               /\ articles = {PendingSource(p, last, a) : a \in built}
               /\ articles \subseteq Articles(p)
               /\ good = {a[1] : a \in built} /\ exist = AllExist(p, existing)
               /\ HasBuilt(p, articles, good, exist)
               /\ excused' = excused \cup
                      {<<a[1], attempt[p].files[a[1]]>> : a \in existing \ PostedDois}
               /\ IF existing \ PostedDois # {} THEN Fault ELSE UNCHANGED faults
  <1>1. PICK existing, last, built, articles, good, exist :
               /\ existing \in SUBSET Articles(p) /\ last \in Downloaded(p)
               /\ last \in VersionDois \/ VersionDois \cap Downloaded(p) = {}
               /\ built = PendingBuilt(p, existing, last)
               /\ articles = {PendingSource(p, last, a) : a \in built}
               /\ good = {a[1] : a \in built} /\ exist = AllExist(p, existing)
               /\ Build(p, articles, good, exist)
               /\ excused' = excused \cup
                      {<<a[1], attempt[p].files[a[1]]>> : a \in existing \ PostedDois}
               /\ IF existing \ PostedDois # {} THEN Fault ELSE UNCHANGED faults
    BY DEF BuildPending, Build, PendingBuilt, PendingSource, AllExist
  <1>2. Downloaded(p) \subseteq Names
    BY DEF TypeInv, AttemptType
  <1>3. /\ articles \subseteq Articles(p) /\ good \subseteq Downloaded(p)
        /\ exist \subseteq Downloaded(p) /\ good \cap exist = {}
    BY <1>1, <1>2, PendingFacts
  <1>4. attempt[p].phase = "download" /\ UNCHANGED <<outbox, moved, posted>>
    BY DEF Generate
  <1>5. \E next : GoOn(p, next)
    BY <1>1 DEF Build
  <1>6. HasBuilt(p, articles, good, exist)
    <2>1. articles \in SUBSET Articles(p) /\ good \in SUBSET Downloaded(p)
          /\ exist \in SUBSET Downloaded(p) /\ good \cap exist = {}
      BY <1>3
    <2>2. attempt'[p].phase = "post" /\ attempt'[p].publish /\ AttemptType(p)'
      BY <1>1, <1>4, <2>1, BuildEffect
    <2>3. attempt'[p].todo = DepositsFor(p, articles) /\ attempt'[p].files = attempt[p].files
      BY <1>1, <1>4, <2>1, BuildEffect
    <2>4. attempt'[p].clean = ToClean(good, exist)
      <3>1. Build(p, articles, good, exist) /\ attempt[p].phase = "download"
        BY <1>1, <1>4
      <3> QED BY <2>1, <3>1, BuildEffect
    <2> QED BY <1>4, <1>5, <2>2, <2>3, <2>4 DEF HasBuilt
  <1> QED BY <1>1, <1>3, <1>6

LEMMA GenerateType ==
    ASSUME TypeInv, NEW p \in Attempts, Generate(p)
    PROVE  TypeInv'
  <1>1. CASE BuildCrossref(p)
    <2>1. PICK built, good : HasBuilt(p, built, good, {}) /\ UNCHANGED <<excused, faults>>
      BY <1>1, CrossrefBuilds
    <2>2. PICK next : GoOn(p, next)
      BY <2>1 DEF HasBuilt
    <2>3. FoldersType'
      BY <2>1, <2>2 DEF HasBuilt, TypeInv, FoldersType, GoOn
    <2> QED BY <2>1, <2>2, <2>3, OneMovesType DEF HasBuilt
  <1>2. CASE BuildPending(p)
    <2>1. PICK existing, articles, good, exist :
              /\ existing \in SUBSET Articles(p)
              /\ HasBuilt(p, articles, good, exist)
              /\ excused' = excused \cup
                     {<<a[1], attempt[p].files[a[1]]>> : a \in existing \ PostedDois}
              /\ IF existing \ PostedDois # {} THEN Fault ELSE UNCHANGED faults
      BY <1>2, PendingBuilds
    <2>2. PICK next : GoOn(p, next)
      BY <2>1 DEF HasBuilt
    <2>3. faults' \in 0 .. MaxFaults
      BY <2>1, FaultType DEF TypeInv, FoldersType
    <2>4. /\ excused' \subseteq Names \X Nat
          /\ \A m \in excused' : m[2] \in 1 .. scheduled[m[1]]
      <3> SUFFICES ASSUME NEW m \in excused'
                   PROVE  m \in Names \X Nat /\ m[2] \in 1 .. scheduled[m[1]]
        OBVIOUS
      <3>1. CASE m \in excused
        BY <3>1 DEF TypeInv, FoldersType
      <3>2. CASE m \notin excused
        <4>1. PICK a \in existing : m = <<a[1], attempt[p].files[a[1]]>>
          BY <2>1, <3>2
        <4>2. a[1] \in Downloaded(p)
          BY <2>1, ArticlesFacts
        <4> QED BY <4>1, <4>2 DEF TypeInv, FoldersType, AttemptType
      <3> QED BY <3>1, <3>2
    <2>5. FoldersType'
      BY <2>1, <2>2, <2>3, <2>4 DEF HasBuilt, TypeInv, FoldersType, GoOn
    <2> QED BY <2>1, <2>2, <2>5, OneMovesType DEF HasBuilt
  <1> QED BY <1>1, <1>2 DEF Generate

\* What a post does, whatever Crossref answers.
LEMMA PostEffect ==
    ASSUME TypeInv, NEW p \in Attempts, NEW d, Post(p, d)
    PROVE  /\ attempt[p].phase = "post" /\ d \in attempt[p].todo /\ d \in Deposits
           /\ attempt'[p].phase = "post" /\ attempt'[p].clean = attempt[p].clean
           /\ attempt'[p].files = attempt[p].files
           /\ attempt'[p].publish \in BOOLEAN
           /\ DOMAIN attempt'[p] = Fields
           /\ posted' \in [Deposits -> Nat]
           /\ \A e \in Deposits \ {d} : posted'[e] = posted[e]
           /\ \/ /\ attempt'[p].todo = attempt[p].todo \ {d}
                 /\ attempt'[p].publish = attempt[p].publish
                 /\ posted'[d] = posted[d] + 1 /\ faults' = faults
              \/ /\ attempt'[p].todo \in {{}, attempt[p].todo \ {d}}
                 /\ attempt'[p].publish = FALSE
                 /\ posted'[d] \in {posted[d], posted[d] + 1}
                 /\ posted'[d] # posted[d] => attempt'[p].todo = {}
                 /\ Fault
           /\ \E next : GoOn(p, next)
           /\ UNCHANGED <<outbox, moved, excused>>
  <1>1. /\ attempt[p].phase = "post" /\ d \in attempt[p].todo
        /\ UNCHANGED <<outbox, moved, excused>>
    BY DEF Post
  <1>2. PICK answer \in {"200", "refused", "raised"}, got \in BOOLEAN :
            /\ answer = "200" => got
            /\ answer = "refused" => ~got
            /\ IF answer = "200" THEN UNCHANGED faults ELSE Fault
            /\ posted' = IF got THEN [posted EXCEPT ![d] = @ + 1] ELSE posted
            /\ GoOn(p, [attempt[p] EXCEPT
                   !.todo = IF answer = "raised" THEN {} ELSE @ \ {d},
                   !.publish = @ /\ answer = "200"])
    BY DEF Post
  <1>3. /\ DOMAIN attempt[p] = Fields /\ attempt[p].publish \in BOOLEAN
        /\ d \in Deposits /\ posted \in [Deposits -> Nat]
    BY <1>1 DEF TypeInv, AttemptType, FoldersType
  <1>4. attempt'[p] = [attempt[p] EXCEPT
                          !.todo = IF answer = "raised" THEN {} ELSE @ \ {d},
                          !.publish = @ /\ answer = "200"]
    BY <1>2, GoOnEffect DEF TypeInv
  <1>5. /\ attempt'[p].phase = "post" /\ attempt'[p].clean = attempt[p].clean
        /\ attempt'[p].files = attempt[p].files
        /\ attempt'[p].publish = (attempt[p].publish /\ answer = "200")
        /\ DOMAIN attempt'[p] = Fields
        /\ attempt'[p].todo = IF answer = "raised" THEN {} ELSE attempt[p].todo \ {d}
    BY <1>1, <1>3, <1>4 DEF Fields
  <1>6. /\ posted' \in [Deposits -> Nat]
        /\ \A e \in Deposits \ {d} : posted'[e] = posted[e]
        /\ posted'[d] = IF got THEN posted[d] + 1 ELSE posted[d]
    BY <1>2, <1>3
  <1>7. CASE answer = "200"
    BY <1>1, <1>2, <1>3, <1>5, <1>6, <1>7
  <1>8. CASE answer # "200"
    <2>1. attempt'[p].publish = FALSE /\ Fault
      BY <1>2, <1>3, <1>5, <1>8
    <2>2. posted'[d] # posted[d] => answer = "raised"
      BY <1>2, <1>6, <1>8
    <2> QED BY <1>1, <1>2, <1>3, <1>5, <1>6, <2>1, <2>2
  <1> QED BY <1>7, <1>8

LEMMA PostType ==
    ASSUME TypeInv, NEW p \in Attempts, NEW d, Post(p, d)
    PROVE  TypeInv'
  <1>1. PICK next : GoOn(p, next)
    BY PostEffect
  <1>2. faults' \in 0 .. MaxFaults
    BY PostEffect, FaultType DEF TypeInv, FoldersType
  <1>3. FoldersType'
    BY <1>1, <1>2, PostEffect DEF TypeInv, FoldersType, GoOn
  <1>4. scheduled' = scheduled
    BY <1>1 DEF GoOn
  <1>5. /\ attempt[p].phase = "post" /\ attempt'[p].phase = "post"
        /\ attempt'[p].clean = attempt[p].clean /\ attempt'[p].files = attempt[p].files
        /\ attempt'[p].publish \in BOOLEAN /\ DOMAIN attempt'[p] = Fields
        /\ attempt'[p].todo \subseteq attempt[p].todo
    BY PostEffect
  <1>6. AttemptType(p)'
    BY <1>4, <1>5 DEF TypeInv, AttemptType, Downloaded
  <1> QED BY <1>1, <1>3, <1>6, OneMovesType

LEMMA CopyEffect ==
    ASSUME TypeInv, NEW p \in Attempts, NEW e \in attempt[p].clean, CopyResource(p, e),
           outbox[e[1]] # 0
    PROVE  /\ attempt'[p].phase = "copied" /\ attempt'[p].todo = {e}
           /\ attempt'[p].clean = attempt[p].clean
           /\ attempt'[p].files = attempt[p].files
           /\ attempt'[p].publish = attempt[p].publish
           /\ DOMAIN attempt'[p] = Fields
  <1>1. attempt'[p] = [attempt[p] EXCEPT !.phase = "copied", !.todo = {e}]
    BY GoOnEffect DEF CopyResource, TypeInv
  <1>2. DOMAIN attempt[p] = Fields
    BY DEF TypeInv, AttemptType
  <1> QED BY <1>1, <1>2 DEF Fields

LEMMA CopyType ==
    ASSUME TypeInv, NEW p \in Attempts, NEW e \in attempt[p].clean, CopyResource(p, e)
    PROVE  TypeInv'
  <1>1. attempt[p].publish /\ UNCHANGED <<outbox, posted, excused, faults>>
    BY DEF CopyResource, Cleaning
  <1>2. e[1] \in Names /\ e[1] \in Downloaded(p)
    BY DEF TypeInv, AttemptType
  <1>3. CASE outbox[e[1]] = 0
    <2>1. GoOn(p, Idle) /\ UNCHANGED moved
      BY <1>3 DEF CopyResource
    <2>2. FoldersType'
      BY <1>1, <2>1 DEF TypeInv, FoldersType, GoOn
    <2> QED BY <2>1, <2>2, IdleType
  <1>4. CASE outbox[e[1]] # 0
    <2>1. /\ GoOn(p, [attempt[p] EXCEPT !.phase = "copied", !.todo = {e}])
          /\ moved' = moved \cup {<<e[1], outbox[e[1]]>>}
      BY <1>4 DEF CopyResource
    <2>2. outbox[e[1]] \in Nat /\ outbox[e[1]] \in 1 .. scheduled[e[1]]
      BY <1>2, <1>4 DEF TypeInv, FoldersType
    <2>3. FoldersType'
      BY <1>1, <1>2, <2>1, <2>2 DEF TypeInv, FoldersType, GoOn
    <2>4. scheduled' = scheduled
      BY <2>1 DEF GoOn
    <2>5. AttemptType(p)'
      BY <1>1, <1>4, <2>4, CopyEffect DEF TypeInv, AttemptType, Downloaded
    <2> QED BY <2>1, <2>3, <2>5, OneMovesType
  <1> QED BY <1>3, <1>4

LEMMA DeleteEffect ==
    ASSUME TypeInv, NEW p \in Attempts, DeleteResource(p)
    PROVE  \E e \in attempt[p].todo :
               /\ e \in attempt[p].clean /\ e[1] \in Names /\ e[1] \in Downloaded(p)
               /\ attempt[p].phase = "copied" /\ attempt[p].publish
               /\ outbox' = [outbox EXCEPT ![e[1]] = 0]
               /\ attempt'[p].phase = "post" /\ attempt'[p].todo = {}
               /\ attempt'[p].clean = attempt[p].clean \ {e}
               /\ attempt'[p].files = attempt[p].files
               /\ attempt'[p].publish = attempt[p].publish
               /\ DOMAIN attempt'[p] = Fields
               /\ \E next : GoOn(p, next)
               /\ UNCHANGED <<moved, posted, excused, faults>>
  <1>1. PICK e \in attempt[p].todo :
            /\ outbox' = [outbox EXCEPT ![e[1]] = 0]
            /\ GoOn(p, [attempt[p] EXCEPT !.phase = "post", !.todo = {}, !.clean = @ \ {e}])
    BY DEF DeleteResource
  <1>2. /\ attempt[p].phase = "copied" /\ attempt[p].publish /\ e \in attempt[p].clean
        /\ e[1] \in Names /\ e[1] \in Downloaded(p) /\ DOMAIN attempt[p] = Fields
    BY DEF DeleteResource, TypeInv, AttemptType
  <1>3. attempt'[p] = [attempt[p] EXCEPT !.phase = "post", !.todo = {}, !.clean = @ \ {e}]
    BY <1>1, GoOnEffect DEF TypeInv
  <1>4. /\ attempt'[p].phase = "post" /\ attempt'[p].todo = {}
        /\ attempt'[p].clean = attempt[p].clean \ {e}
        /\ attempt'[p].files = attempt[p].files
        /\ attempt'[p].publish = attempt[p].publish
        /\ DOMAIN attempt'[p] = Fields
    BY <1>2, <1>3 DEF Fields
  <1> QED BY <1>1, <1>2, <1>4 DEF DeleteResource

LEMMA DeleteType ==
    ASSUME TypeInv, NEW p \in Attempts, DeleteResource(p)
    PROVE  TypeInv'
  <1>1. PICK e \in attempt[p].todo :
               /\ e \in attempt[p].clean /\ e[1] \in Names /\ e[1] \in Downloaded(p)
               /\ attempt[p].phase = "copied" /\ attempt[p].publish
               /\ outbox' = [outbox EXCEPT ![e[1]] = 0]
               /\ attempt'[p].phase = "post" /\ attempt'[p].todo = {}
               /\ attempt'[p].clean = attempt[p].clean \ {e}
               /\ attempt'[p].files = attempt[p].files
               /\ attempt'[p].publish = attempt[p].publish
               /\ DOMAIN attempt'[p] = Fields
               /\ \E next : GoOn(p, next)
               /\ UNCHANGED <<moved, posted, excused, faults>>
    BY DeleteEffect
  <1>2. PICK next : GoOn(p, next)
    BY <1>1
  <1>3. FoldersType'
    BY <1>1, <1>2 DEF TypeInv, FoldersType, GoOn
  <1>4. scheduled' = scheduled
    BY <1>2 DEF GoOn
  <1>5. AttemptType(p)'
    BY <1>1, <1>4 DEF TypeInv, AttemptType, Downloaded
  <1> QED BY <1>2, <1>3, <1>5, OneMovesType

LEMMA TypeInit ==
    ASSUME Init
    PROVE  TypeInv
  <1>1. FoldersType
    BY OutboxAssumption DEF Init, FoldersType
  <1>2. \A p \in Attempts : AttemptType(p)
    BY IdleFacts DEF Init, AttemptType, Downloaded
  <1> QED BY <1>1, <1>2 DEF Init, TypeInv

LEMMA TypeStep ==
    ASSUME TypeInv, [Next]_vars
    PROVE  TypeInv'
  <1>1. ASSUME NEW n \in Names, Schedule(n) PROVE TypeInv'
    BY <1>1, ScheduleType
  <1>2. ASSUME NEW p \in Attempts, ListOutbox(p) PROVE TypeInv'
    BY <1>2, ListType
  <1>3. ASSUME NEW p \in Attempts, Download(p) PROVE TypeInv'
    BY <1>3, DownloadType
  <1>4. ASSUME NEW p \in Attempts, DownloadFailed(p) PROVE TypeInv'
    BY <1>4, DownloadFailedType
  <1>5. ASSUME NEW p \in Attempts, Generate(p) PROVE TypeInv'
    BY <1>5, GenerateType
  <1>6. ASSUME NEW p \in Attempts, NEW d \in attempt[p].todo, Post(p, d) PROVE TypeInv'
    BY <1>6, PostType
  <1>7. ASSUME NEW p \in Attempts, NEW e \in attempt[p].clean, CopyResource(p, e)
        PROVE  TypeInv'
    BY <1>7, CopyType
  <1>8. ASSUME NEW p \in Attempts, DeleteResource(p) PROVE TypeInv'
    BY <1>8, DeleteType
  <1>9. ASSUME NEW p \in Attempts, Return(p) \/ Crash(p) PROVE TypeInv'
    BY <1>9, ReturnType
  <1>10. CASE UNCHANGED vars
    BY <1>10 DEF vars, TypeInv, FoldersType, AttemptType, Downloaded
  <1> QED
    BY <1>1, <1>2, <1>3, <1>4, <1>5, <1>6, <1>7, <1>8, <1>9, <1>10 DEF Next, AttemptStep

LEMMA TypeHolds == Spec => []TypeInv
  BY TypeInit, TypeStep, PTL DEF Spec

\* The variables keep their types.
THEOREM TypeCorrect == Spec => []TypeOK
  BY TypeHolds, TypeInvIsType, PTL

-----------------------------------------------------------------------------
(* Nothing leaves the outbox unsent.                                         *)

\* Nothing is taken back: neither a post nor an excuse.
Onward ==
    /\ activity' = activity /\ scheduled' = scheduled /\ excused \subseteq excused'
    /\ \A d \in Deposits : posted[d] > 0 => posted'[d] > 0

LEMMA OnwardUnsent ==
    ASSUME Onward, outbox' = outbox, NothingUnsent
    PROVE  NothingUnsent'
  BY DEF Onward, NothingUnsent, Sent

LEMMA OnwardMoved ==
    ASSUME Onward, moved' = moved, MovedWhenAllSent
    PROVE  MovedWhenAllSent'
  BY DEF Onward, MovedWhenAllSent, AllDoisSent

\* An attempt that stays as it is while posts and excuses only grow.
LEMMA OnwardStays ==
    ASSUME Onward, NEW q, attempt'[q] = attempt[q], FilesCurrent(q), SentBeforeMoved(q)
    PROVE  FilesCurrent(q)' /\ SentBeforeMoved(q)'
  <1>1. FilesCurrent(q)'
    BY DEF Onward, FilesCurrent, Downloaded
  <1>2. \A n : FileSent(q, n) => FileSent(q, n)'
    BY DEF Onward, FileSent, OnItsWay, ToPost
  <1>3. \A n : AllSent(q, n) => AllSent(q, n)'
    BY DEF Onward, AllSent, OnItsWay, ToPost
  <1> QED BY <1>1, <1>2, <1>3 DEF Onward, SentBeforeMoved

LEMMA OneMovesSafely ==
    ASSUME TypeInv, SafetyInv, Onward, NEW p \in Attempts, NEW next, GoOn(p, next),
           FilesCurrent(p)', SentBeforeMoved(p)', NothingUnsent', MovedWhenAllSent'
    PROVE  SafetyInv'
  <1>1. \A q \in Attempts \ {p} : attempt'[q] = attempt[q]
    BY GoOnEffect DEF TypeInv
  <1>2. \A q \in Attempts \ {p} : FilesCurrent(q)' /\ SentBeforeMoved(q)'
    BY <1>1, OnwardStays DEF SafetyInv
  <1> QED BY <1>2 DEF SafetyInv

\* Steps that neither move nor empty anything.
LEMMA QuietlySafe ==
    ASSUME TypeInv, SafetyInv, Onward, NEW p \in Attempts, NEW next, GoOn(p, next),
           FilesCurrent(p)', SentBeforeMoved(p)', UNCHANGED <<outbox, moved>>
    PROVE  SafetyInv'
  BY OneMovesSafely, OnwardUnsent, OnwardMoved DEF SafetyInv

LEMMA IdleSafe ==
    ASSUME TypeInv, SafetyInv, NEW p \in Attempts, GoOn(p, Idle),
           UNCHANGED <<outbox, moved, posted, excused>>
    PROVE  SafetyInv'
  <1>1. attempt'[p] = Idle
    BY GoOnEffect DEF TypeInv
  <1>2. FilesCurrent(p)' /\ SentBeforeMoved(p)'
    BY <1>1, IdleFacts DEF FilesCurrent, SentBeforeMoved, Downloaded
  <1>3. Onward
    BY DEF Onward, GoOn
  <1> QED BY <1>2, <1>3, QuietlySafe

LEMMA ScheduleSafe ==
    ASSUME TypeInv, SafetyInv, NEW n \in Names, Schedule(n)
    PROVE  SafetyInv'
  <1>1. /\ scheduled' = [scheduled EXCEPT ![n] = scheduled[n] + 1]
        /\ outbox' = [outbox EXCEPT ![n] = scheduled[n] + 1]
        /\ excused \subseteq excused'
        /\ (\E p \in Attempts : n \in Downloaded(p)) => <<n, scheduled[n] + 1>> \in excused'
        /\ UNCHANGED <<activity, attempt, moved, posted>>
    BY DEF Schedule
  <1>2. /\ \A m \in Names : scheduled'[m] = IF m = n THEN scheduled[n] + 1 ELSE scheduled[m]
        /\ \A m \in Names : outbox'[m] = IF m = n THEN scheduled[n] + 1 ELSE outbox[m]
    BY <1>1 DEF TypeInv, FoldersType
  <1>3. \A p \in Attempts : FilesCurrent(p)'
    <2> SUFFICES ASSUME NEW p \in Attempts, NEW m \in Downloaded(p)
                 PROVE  attempt[p].files[m] = scheduled'[m] \/ <<m, scheduled'[m]>> \in excused'
      BY <1>1 DEF FilesCurrent, Downloaded
    <2>1. m \in Names
      BY DEF TypeInv, AttemptType
    <2> QED BY <1>1, <1>2, <2>1 DEF SafetyInv, FilesCurrent
  <1>4. \A p \in Attempts : SentBeforeMoved(p)'
    <2>1. \A p \in Attempts : \A m : FileSent(p, m) => FileSent(p, m)'
      BY <1>1 DEF FileSent, OnItsWay, ToPost
    <2>2. \A p \in Attempts : \A m : AllSent(p, m) => AllSent(p, m)'
      BY <1>1 DEF AllSent, OnItsWay, ToPost
    <2> QED BY <1>1, <2>1, <2>2 DEF SafetyInv, SentBeforeMoved
  <1>5. NothingUnsent'
    BY <1>1, <1>2 DEF SafetyInv, NothingUnsent, Sent
  <1>6. MovedWhenAllSent'
    BY <1>1 DEF SafetyInv, MovedWhenAllSent, AllDoisSent
  <1> QED BY <1>3, <1>4, <1>5, <1>6 DEF SafetyInv

LEMMA ListSafe ==
    ASSUME TypeInv, SafetyInv, NEW p \in Attempts, ListOutbox(p)
    PROVE  SafetyInv'
  <1> DEFINE next == [Idle EXCEPT !.phase = "download",
                                  !.todo = {n \in Names : outbox[n] # 0}]
  <1>1. next.files = Idle.files /\ next.clean = {}
    BY IdleFacts DEF Fields
  <1>2. GoOn(p, next) /\ UNCHANGED <<outbox, moved, posted, excused>>
    BY DEF ListOutbox
  <1>3. attempt'[p] = next
    BY <1>2, GoOnEffect DEF TypeInv
  <1> HIDE DEF next
  <1>4. FilesCurrent(p)' /\ SentBeforeMoved(p)'
    BY <1>1, <1>3, IdleFacts DEF FilesCurrent, SentBeforeMoved, Downloaded
  <1>5. Onward
    BY <1>2 DEF Onward, GoOn
  <1> QED BY <1>2, <1>4, <1>5, QuietlySafe

LEMMA DownloadSafe ==
    ASSUME TypeInv, SafetyInv, NEW p \in Attempts, Download(p)
    PROVE  SafetyInv'
  <1>1. UNCHANGED <<outbox, moved, posted, excused>> /\ attempt[p].phase = "download"
    BY DEF Download
  <1>2. PICK n \in attempt[p].todo :
            GoOn(p, IF outbox[n] = 0 THEN Idle
                    ELSE [attempt[p] EXCEPT !.todo = @ \ {n}, !.files = WithFile(@, n)])
    BY DEF Download
  <1>3. CASE outbox[n] = 0
    BY <1>1, <1>2, <1>3, IdleSafe
  <1>4. CASE outbox[n] # 0
    <2>1. n \in Names /\ outbox[n] = scheduled[n]
      BY <1>1, <1>4 DEF TypeInv, FoldersType, AttemptType
    <2>2. /\ Downloaded(p)' = Downloaded(p) \cup {n}
          /\ attempt'[p].files[n] = outbox[n]
          /\ \A m \in Downloaded(p) : attempt'[p].files[m] = attempt[p].files[m]
          /\ attempt'[p].clean = {}
      <3>1. attempt[p].clean = {}
        BY <1>1 DEF TypeInv, AttemptType
      <3> QED BY <1>1, <1>2, <1>4, <3>1, DownloadEffect
    <2>3. Onward
      BY <1>1, <1>2 DEF Onward, GoOn
    <2>4. FilesCurrent(p)'
      BY <1>1, <2>1, <2>2, <2>3 DEF Onward, SafetyInv, FilesCurrent
    <2>5. SentBeforeMoved(p)'
      BY <2>2 DEF SentBeforeMoved
    <2> QED BY <1>1, <1>2, <2>3, <2>4, <2>5, QuietlySafe
  <1> QED BY <1>3, <1>4

LEMMA DownloadFailedSafe ==
    ASSUME TypeInv, SafetyInv, NEW p \in Attempts, DownloadFailed(p)
    PROVE  SafetyInv'
  <1>1. /\ UNCHANGED <<outbox, moved, posted, excused>>
        /\ GoOn(p, [attempt[p] EXCEPT !.todo = {}]) /\ attempt[p].phase = "download"
    BY DEF DownloadFailed
  <1>2. attempt'[p].files = attempt[p].files /\ attempt'[p].clean = {}
    BY <1>1, GoOnEffect DEF TypeInv, AttemptType, Fields
  <1>3. Onward
    BY <1>1 DEF Onward, GoOn
  <1>4. FilesCurrent(p)' /\ SentBeforeMoved(p)'
    BY <1>1, <1>2, <1>3 DEF Onward, SafetyInv, FilesCurrent, SentBeforeMoved, Downloaded
  <1> QED BY <1>1, <1>3, <1>4, QuietlySafe

\* What Generate builds is on its way.
LEMMA BuiltIsOnItsWay ==
    ASSUME NEW p, NEW articles, NEW a \in articles, TypeInv, p \in Attempts,
           a \in Articles(p), attempt'[p].phase = "post",
           attempt'[p].todo = DepositsFor(p, articles)
    PROVE  \E d \in Deposits :
               /\ d.name = a[1] /\ d.content = attempt[p].files[a[1]] /\ d.doi = a[2]
               /\ OnItsWay(p, d)'
  <1>1. a[1] \in Downloaded(p) /\ a[2] \in DoisOf(a[1])
    BY ArticlesFacts
  <1>2. a[1] \in Names /\ attempt[p].files[a[1]] \in 1 .. Contents[a[1]]
    BY <1>1, OutboxAssumption DEF TypeInv, FoldersType, AttemptType
  <1> DEFINE d == [name |-> a[1], content |-> attempt[p].files[a[1]], doi |-> a[2]]
  <1>3. d \in Deposits
    BY <1>1, <1>2, DepositMade
  <1>4. d \in attempt'[p].todo
    BY DEF DepositsFor
  <1> QED BY <1>3, <1>4 DEF OnItsWay, ToPost

LEMMA CrossrefSafe ==
    ASSUME TypeInv, SafetyInv, NEW p \in Attempts, Generate(p), BuildCrossref(p)
    PROVE  SafetyInv'
  <1>1. PICK built, good :
            /\ built = Articles(p) \ Withheld /\ good = {a[1] : a \in built}
            /\ HasBuilt(p, built, good, {}) /\ UNCHANGED <<excused, faults>>
    BY CrossrefBuilds
  <1>2. /\ attempt'[p].phase = "post" /\ attempt'[p].files = attempt[p].files
        /\ attempt'[p].todo = DepositsFor(p, built)
        /\ attempt'[p].clean = good \X {"published"} \cup {} \X {"not_published"}
        /\ UNCHANGED <<outbox, moved, posted, excused>>
    BY <1>1 DEF HasBuilt, ToClean
  <1>3. PICK next : GoOn(p, next)
    BY <1>1 DEF HasBuilt
  <1>4. Onward
    BY <1>2, <1>3 DEF Onward, GoOn
  <1>5. FilesCurrent(p)'
    BY <1>2, <1>4 DEF Onward, SafetyInv, FilesCurrent, Downloaded
  <1>6. SentBeforeMoved(p)'
    <2> SUFFICES ASSUME NEW e \in attempt'[p].clean
                 PROVE  FileSent(p, e[1])' /\ AllSent(p, e[1])'
      BY DEF SentBeforeMoved
    <2>1. PICK a \in built : a[1] = e[1]
      BY <1>1, <1>2
    <2>2. a \in Articles(p) /\ e[1] \in Downloaded(p)
      BY <1>1, <2>1, ArticlesFacts
    <2>3. FileSent(p, e[1])'
      <3>1. PICK d \in Deposits : /\ d.name = a[1] /\ d.content = attempt[p].files[a[1]]
                                  /\ d.doi = a[2] /\ OnItsWay(p, d)'
        BY <1>2, <2>2, BuiltIsOnItsWay
      <3> QED BY <1>2, <2>1, <3>1 DEF FileSent
    <2>4. AllSent(p, e[1])'
      <3> SUFFICES ASSUME NEW d \in Deposits, d.name = e[1],
                          d.content = attempt[p].files[e[1]], <<e[1], d.doi>> \notin Withheld
                   PROVE  OnItsWay(p, d)'
        BY <1>2 DEF AllSent
      <3>1. <<e[1], d.doi>> \in built
        BY <1>1, <2>2, DepositFacts DEF Articles, DoisOf
      <3>2. d = [name |-> e[1], content |-> attempt[p].files[e[1]], doi |-> d.doi]
        BY DepositFacts
      <3>3. d \in attempt'[p].todo
        BY <1>2, <3>1, <3>2 DEF DepositsFor
      <3> QED BY <1>2, <3>3 DEF OnItsWay, ToPost
    <2> QED BY <2>3, <2>4
  <1> QED BY <1>2, <1>3, <1>4, <1>5, <1>6, QuietlySafe

LEMMA PendingSafe ==
    ASSUME TypeInv, SafetyInv, VersionedAreBuilt,
           NEW p \in Attempts, Generate(p), BuildPending(p)
    PROVE  SafetyInv'
  <1>1. PICK existing, last, built, articles, good, exist :
               /\ existing \in SUBSET Articles(p) /\ last \in Downloaded(p)
               /\ last \in VersionDois \/ VersionDois \cap Downloaded(p) = {}
               /\ built = PendingBuilt(p, existing, last)
               /\ articles = {PendingSource(p, last, a) : a \in built}
               /\ articles \subseteq Articles(p)
               /\ good = {a[1] : a \in built} /\ exist = AllExist(p, existing)
               /\ HasBuilt(p, articles, good, exist)
               /\ excused' = excused \cup
                      {<<a[1], attempt[p].files[a[1]]>> : a \in existing \ PostedDois}
               /\ IF existing \ PostedDois # {} THEN Fault ELSE UNCHANGED faults
    BY PendingBuilds
  <1>2. /\ activity = "DepositCrossrefPendingPublication"
        /\ activity \in Activities /\ UNCHANGED <<outbox, moved, posted>>
    BY <1>1 DEF BuildPending, HasBuilt, TypeInv, FoldersType
  <1>3. /\ attempt'[p].phase = "post" /\ attempt'[p].files = attempt[p].files
        /\ attempt'[p].todo = DepositsFor(p, articles)
        /\ attempt'[p].clean = good \X {"published"} \cup exist \X {"not_published"}
    BY <1>1 DEF HasBuilt, ToClean
  <1>4. PICK next : GoOn(p, next)
    BY <1>1 DEF HasBuilt
  <1>5. Onward
    BY <1>1, <1>2, <1>4 DEF Onward, GoOn
  <1>6. FilesCurrent(p)'
    BY <1>3, <1>5 DEF Onward, SafetyInv, FilesCurrent, Downloaded
  <1>7. ASSUME NEW n \in Downloaded(p), <<n, "doi">> \in existing
        PROVE  FileSent(p, n)'
    <2>1. CASE <<n, "doi">> \in PostedDois
      <3>1. PICK d \in Deposits : d.name = n /\ posted[d] > 0
        BY <2>1 DEF PostedDois
      <3> QED BY <1>2, <1>5, <3>1 DEF Onward, FileSent, OnItsWay
    <2>2. CASE <<n, "doi">> \notin PostedDois
      <3>1. <<n, attempt[p].files[n]>> \in excused'
        BY <1>1, <1>7, <2>2
      <3> QED BY <1>3, <3>1 DEF FileSent
    <2> QED BY <2>1, <2>2
  <1>8. ASSUME NEW n, NEW a \in articles, a[1] = n
        PROVE  FileSent(p, n)'
    <2>1. PICK d \in Deposits : /\ d.name = a[1] /\ d.content = attempt[p].files[a[1]]
                                /\ d.doi = a[2] /\ OnItsWay(p, d)'
      BY <1>1, <1>3, <1>8, BuiltIsOnItsWay
    <2> QED BY <1>3, <1>8, <2>1 DEF FileSent
  <1>9. SentBeforeMoved(p)'
    <2> SUFFICES ASSUME NEW e \in attempt'[p].clean
                 PROVE  FileSent(p, e[1])'
      BY <1>2, <1>5 DEF SentBeforeMoved, Onward, DepositActivities
    <2>1. CASE e[1] \in exist
      <3>1. e[1] \in Downloaded(p) /\ <<e[1], "doi">> \in existing
        BY <1>1, <2>1 DEF AllExist, DoisOf
      <3> QED BY <1>7, <3>1
    <2>2. CASE e[1] \in good
      <3>1. PICK a \in built : a[1] = e[1]
        BY <1>1, <2>2
      <3>2. /\ a \in Articles(p) /\ a \notin existing /\ PendingSource(p, last, a) \notin Withheld
            /\ a[1] \in Downloaded(p) /\ a[2] \in DoisOf(a[1]) /\ a = <<a[1], a[2]>>
        BY <1>1, <3>1, ArticlesFacts DEF PendingBuilt
      <3>3. CASE a[2] = "doi"
        <4>1. PendingSource(p, last, a) \in articles /\ PendingSource(p, last, a)[1] = e[1]
          BY <1>1, <3>1, <3>3 DEF PendingSource
        <4> QED BY <1>8, <4>1
      <3>4. CASE a[2] # "doi"
        <4>1. a[1] \in VersionDois /\ <<a[1], "doi">> \in Articles(p)
          BY <3>2, <3>4 DEF DoisOf, Articles
        <4>2. CASE <<a[1], "doi">> \in existing
          BY <1>7, <3>1, <3>2, <4>2
        <4>3. CASE <<a[1], "doi">> \notin existing
          <5>1. PendingSource(p, last, <<a[1], "doi">>) = <<a[1], "doi">>
            BY DEF PendingSource
          <5>2. <<a[1], "doi">> \notin Withheld
            BY <1>2, <4>1 DEF VersionedAreBuilt
          <5>3. <<a[1], "doi">> \in built
            BY <1>1, <4>1, <4>3, <5>1, <5>2 DEF PendingBuilt
          <5>4. <<a[1], "doi">> \in articles
            BY <1>1, <5>1, <5>3
          <5> QED BY <1>8, <3>1, <5>4
        <4> QED BY <4>2, <4>3
      <3> QED BY <3>3, <3>4
    <2> QED BY <1>3, <2>1, <2>2
  <1> QED BY <1>2, <1>4, <1>5, <1>6, <1>9, QuietlySafe

LEMMA PostSafe ==
    ASSUME TypeInv, SafetyInv, NEW p \in Attempts, NEW d, Post(p, d)
    PROVE  SafetyInv'
  <1>1. PICK next : GoOn(p, next)
    BY PostEffect
  <1>2. /\ attempt[p].phase = "post" /\ d \in attempt[p].todo /\ d \in Deposits
        /\ attempt'[p].phase = "post" /\ attempt'[p].clean = attempt[p].clean
        /\ attempt'[p].files = attempt[p].files
        /\ \A e \in Deposits \ {d} : posted'[e] = posted[e]
        /\ \/ /\ attempt'[p].todo = attempt[p].todo \ {d}
              /\ attempt'[p].publish = attempt[p].publish /\ posted'[d] = posted[d] + 1
           \/ attempt'[p].publish = FALSE /\ posted'[d] \in {posted[d], posted[d] + 1}
        /\ UNCHANGED <<outbox, moved, excused>>
    BY PostEffect
  <1>3. \A e \in Deposits : posted[e] \in Nat
    BY DEF TypeInv, FoldersType
  <1>4. Onward
    BY <1>1, <1>2, <1>3 DEF Onward, GoOn
  <1>5. FilesCurrent(p)'
    BY <1>2, <1>4 DEF Onward, SafetyInv, FilesCurrent, Downloaded
  <1>6. SentBeforeMoved(p)'
    <2> SUFFICES ASSUME attempt'[p].publish
                 PROVE  SentBeforeMoved(p)'
      BY DEF SentBeforeMoved
    <2>1. /\ attempt'[p].todo = attempt[p].todo \ {d} /\ attempt[p].publish
          /\ posted'[d] = posted[d] + 1
      BY <1>2
    <2>2. \A e \in Deposits : OnItsWay(p, e) => OnItsWay(p, e)'
      BY <1>2, <1>3, <1>4, <2>1 DEF OnItsWay, ToPost, Onward
    <2>3. \A n : FileSent(p, n) => FileSent(p, n)'
      BY <1>2, <1>4, <2>2 DEF FileSent, Onward
    <2>4. \A n : AllSent(p, n) => AllSent(p, n)'
      BY <1>2, <1>4, <2>2 DEF AllSent, Onward
    <2> QED BY <1>2, <1>4, <2>1, <2>3, <2>4 DEF SentBeforeMoved, SafetyInv, Onward
  <1> QED BY <1>1, <1>2, <1>4, <1>5, <1>6, QuietlySafe

\* With nothing left to post, what is on its way was sent.
LEMMA FilesWereSent ==
    ASSUME TypeInv, SafetyInv, NEW p \in Attempts, NEW e \in attempt[p].clean,
           attempt[p].publish, ToPost(p) = {}
    PROVE  /\ \/ <<e[1], scheduled[e[1]]>> \in excused
              \/ Sent(e[1], scheduled[e[1]])
           /\ activity = "DepositCrossref" =>
                  \/ <<e[1], scheduled[e[1]]>> \in excused
                  \/ AllDoisSent(<<e[1], scheduled[e[1]]>>)
  <1>1. e[1] \in Downloaded(p)
    BY DEF TypeInv, AttemptType
  <1>2. \/ attempt[p].files[e[1]] = scheduled[e[1]]
        \/ <<e[1], scheduled[e[1]]>> \in excused
    BY <1>1 DEF SafetyInv, FilesCurrent
  <1>3. FileSent(p, e[1]) /\ (activity = "DepositCrossref" => AllSent(p, e[1]))
    BY DEF SafetyInv, SentBeforeMoved
  <1>4. \/ <<e[1], scheduled[e[1]]>> \in excused
        \/ Sent(e[1], scheduled[e[1]])
    BY <1>2, <1>3 DEF FileSent, Sent, OnItsWay
  <1>5. activity = "DepositCrossref" =>
            \/ <<e[1], scheduled[e[1]]>> \in excused
            \/ AllDoisSent(<<e[1], scheduled[e[1]]>>)
    BY <1>2, <1>3 DEF AllSent, AllDoisSent, OnItsWay
  <1> QED BY <1>4, <1>5

LEMMA CopySafe ==
    ASSUME TypeInv, SafetyInv, NEW p \in Attempts, NEW e \in attempt[p].clean,
           CopyResource(p, e)
    PROVE  SafetyInv'
  <1>1. /\ attempt[p].publish /\ attempt[p].todo = {} /\ ToPost(p) = {}
        /\ UNCHANGED <<outbox, posted, excused>>
    BY DEF CopyResource, Cleaning, ToPost
  <1>2. CASE outbox[e[1]] = 0
    BY <1>1, <1>2, IdleSafe DEF CopyResource
  <1>3. CASE outbox[e[1]] # 0
    <2>1. /\ GoOn(p, [attempt[p] EXCEPT !.phase = "copied", !.todo = {e}])
          /\ moved' = moved \cup {<<e[1], outbox[e[1]]>>}
      BY <1>3 DEF CopyResource
    <2>2. outbox[e[1]] = scheduled[e[1]]
      BY <1>3 DEF TypeInv, FoldersType, AttemptType
    <2>3. Onward
      BY <1>1, <2>1 DEF Onward, GoOn
    <2>4. /\ attempt'[p].files = attempt[p].files /\ attempt'[p].clean = attempt[p].clean
          /\ attempt'[p].publish = attempt[p].publish
      BY <1>3, CopyEffect
    <2>5. FilesCurrent(p)'
      BY <2>3, <2>4 DEF Onward, SafetyInv, FilesCurrent, Downloaded
    <2>6. SentBeforeMoved(p)'
      <3>1. \A d \in Deposits : OnItsWay(p, d) => OnItsWay(p, d)'
        BY <1>1, <2>3 DEF OnItsWay, Onward
      <3>2. \A n : FileSent(p, n) => FileSent(p, n)'
        BY <2>3, <2>4, <3>1 DEF FileSent, Onward
      <3>3. \A n : AllSent(p, n) => AllSent(p, n)'
        BY <2>3, <2>4, <3>1 DEF AllSent, Onward
      <3> QED BY <2>3, <2>4, <3>2, <3>3 DEF SentBeforeMoved, SafetyInv, Onward
    <2>7. MovedWhenAllSent'
      <3>1. activity = "DepositCrossref" =>
                \A m \in moved' \ excused' : AllDoisSent(m)
        BY <1>1, <2>1, <2>2, FilesWereSent DEF SafetyInv, MovedWhenAllSent
      <3> QED BY <1>1, <2>3, <3>1 DEF MovedWhenAllSent, AllDoisSent, Onward
    <2>8. NothingUnsent'
      BY <1>1, <2>3, OnwardUnsent DEF SafetyInv
    <2> QED BY <2>1, <2>3, <2>5, <2>6, <2>7, <2>8, OneMovesSafely
  <1> QED BY <1>2, <1>3

LEMMA DeleteSafe ==
    ASSUME TypeInv, SafetyInv, NEW p \in Attempts, DeleteResource(p)
    PROVE  SafetyInv'
  <1>1. PICK e \in attempt[p].todo :
               /\ e \in attempt[p].clean /\ e[1] \in Names /\ e[1] \in Downloaded(p)
               /\ attempt[p].phase = "copied" /\ attempt[p].publish
               /\ outbox' = [outbox EXCEPT ![e[1]] = 0]
               /\ attempt'[p].phase = "post" /\ attempt'[p].todo = {}
               /\ attempt'[p].clean = attempt[p].clean \ {e}
               /\ attempt'[p].files = attempt[p].files
               /\ attempt'[p].publish = attempt[p].publish
               /\ DOMAIN attempt'[p] = Fields
               /\ \E next : GoOn(p, next)
               /\ UNCHANGED <<moved, posted, excused, faults>>
    BY DeleteEffect
  <1>2. PICK next : GoOn(p, next)
    BY <1>1
  <1>3. Onward
    BY <1>1, <1>2 DEF Onward, GoOn
  <1>4. ToPost(p) = {}
    BY <1>1 DEF ToPost
  <1>5. FilesCurrent(p)'
    BY <1>1, <1>3 DEF Onward, SafetyInv, FilesCurrent, Downloaded
  <1>6. SentBeforeMoved(p)'
    <2>1. \A d \in Deposits : OnItsWay(p, d) => OnItsWay(p, d)'
      BY <1>3, <1>4 DEF OnItsWay, Onward
    <2>2. \A n : FileSent(p, n) => FileSent(p, n)'
      BY <1>1, <1>3, <2>1 DEF FileSent, Onward
    <2>3. \A n : AllSent(p, n) => AllSent(p, n)'
      BY <1>1, <1>3, <2>1 DEF AllSent, Onward
    <2> QED BY <1>1, <1>3, <2>2, <2>3 DEF SentBeforeMoved, SafetyInv, Onward
  <1>7. NothingUnsent'
    <2>1. \/ <<e[1], scheduled[e[1]]>> \in excused
          \/ Sent(e[1], scheduled[e[1]])
      BY <1>1, <1>4, FilesWereSent
    <2>2. \A n \in Names : outbox'[n] = IF n = e[1] THEN 0 ELSE outbox[n]
      BY <1>1 DEF TypeInv, FoldersType
    <2>3. \A n \in Names : Sent(n, scheduled[n]) => Sent(n, scheduled[n])'
      BY <1>3 DEF Onward, Sent
    <2> QED BY <1>3, <2>1, <2>2, <2>3 DEF Onward, SafetyInv, NothingUnsent
  <1>8. MovedWhenAllSent'
    BY <1>1, <1>3, OnwardMoved DEF SafetyInv
  <1> QED BY <1>2, <1>3, <1>5, <1>6, <1>7, <1>8, OneMovesSafely

LEMMA SafetyInit ==
    ASSUME Init
    PROVE  SafetyInv
  <1>1. \A p \in Attempts : FilesCurrent(p) /\ SentBeforeMoved(p)
    BY IdleFacts DEF Init, FilesCurrent, SentBeforeMoved, Downloaded
  <1> QED BY <1>1 DEF Init, SafetyInv, NothingUnsent, MovedWhenAllSent

LEMMA SafetyStep ==
    ASSUME TypeInv, SafetyInv, VersionedAreBuilt, [Next]_vars
    PROVE  SafetyInv'
  <1>1. ASSUME NEW n \in Names, Schedule(n) PROVE SafetyInv'
    BY <1>1, ScheduleSafe
  <1>2. ASSUME NEW p \in Attempts, ListOutbox(p) PROVE SafetyInv'
    BY <1>2, ListSafe
  <1>3. ASSUME NEW p \in Attempts, Download(p) PROVE SafetyInv'
    BY <1>3, DownloadSafe
  <1>4. ASSUME NEW p \in Attempts, DownloadFailed(p) PROVE SafetyInv'
    BY <1>4, DownloadFailedSafe
  <1>5. ASSUME NEW p \in Attempts, Generate(p) PROVE SafetyInv'
    BY <1>5, CrossrefSafe, PendingSafe DEF Generate
  <1>6. ASSUME NEW p \in Attempts, NEW d \in attempt[p].todo, Post(p, d) PROVE SafetyInv'
    BY <1>6, PostSafe
  <1>7. ASSUME NEW p \in Attempts, NEW e \in attempt[p].clean, CopyResource(p, e)
        PROVE  SafetyInv'
    BY <1>7, CopySafe
  <1>8. ASSUME NEW p \in Attempts, DeleteResource(p) PROVE SafetyInv'
    BY <1>8, DeleteSafe
  <1>9. ASSUME NEW p \in Attempts, Return(p) \/ Crash(p) PROVE SafetyInv'
    BY <1>9, IdleSafe DEF Return, Crash
  <1>10. CASE UNCHANGED vars
    BY <1>10 DEF vars, SafetyInv, FilesCurrent, SentBeforeMoved, FileSent, AllSent, OnItsWay,
                 ToPost, NothingUnsent, MovedWhenAllSent, Sent, AllDoisSent, Downloaded
  <1> QED
    BY <1>1, <1>2, <1>3, <1>4, <1>5, <1>6, <1>7, <1>8, <1>9, <1>10 DEF Next, AttemptStep

LEMMA SafetyHolds ==
    ASSUME VersionedAreBuilt
    PROVE  Spec => []SafetyInv
  <1>1. TypeInv /\ SafetyInv /\ [Next]_vars => SafetyInv'
    BY SafetyStep
  <1> QED BY <1>1, SafetyInit, TypeHolds, PTL DEF Spec

LEMMA SafetyInvIsSafe ==
    ASSUME SafetyInv
    PROVE  NothingUnsent /\ MovedWhenAllSent
  BY DEF SafetyInv

\* Nothing leaves the outbox unsent, if the articles with version DOIs can be built.
THEOREM NothingLeavesUnsent ==
    ASSUME VersionedAreBuilt
    PROVE  Spec => []NothingUnsent
  BY SafetyHolds, SafetyInvIsSafe, PTL

\* What DepositCrossref moves was sent for each of its DOIs.
THEOREM MovedAfterSending ==
    ASSUME VersionedAreBuilt
    PROVE  Spec => []MovedWhenAllSent
  BY SafetyHolds, SafetyInvIsSafe, PTL

-----------------------------------------------------------------------------
(* How often a deposit is posted.                                            *)

LEMMA AttemptSetsFinite ==
    ASSUME NEW S \in SUBSET Attempts
    PROVE  IsFiniteSet(S) /\ Cardinality(S) \in Nat
  BY OutboxAssumption, FS_Subset, FS_CardinalityType

LEMMA FewerAttempts ==
    ASSUME NEW S \in SUBSET Attempts, NEW T \in SUBSET S
    PROVE  Cardinality(T) <= Cardinality(S)
  BY AttemptSetsFinite, FS_Subset

LEMMA OneLeaves ==
    ASSUME NEW S \in SUBSET Attempts, NEW p \in S, NEW T \in SUBSET (S \ {p})
    PROVE  Cardinality(T) + 1 <= Cardinality(S)
  <1>1. Cardinality(S \ {p}) = Cardinality(S) - 1
    BY AttemptSetsFinite, FS_RemoveElement
  <1>2. Cardinality(T) <= Cardinality(S \ {p})
    BY FewerAttempts
  <1> QED BY <1>1, <1>2, AttemptSetsFinite

LEMMA OneJoins ==
    ASSUME NEW S \in SUBSET Attempts, NEW p \in Attempts, NEW T \in SUBSET (S \cup {p})
    PROVE  Cardinality(T) <= Cardinality(S) + 1
  <1>1. Cardinality(S \cup {p}) <= Cardinality(S) + 1
    BY AttemptSetsFinite, FS_AddElement
  <1>2. Cardinality(T) <= Cardinality(S \cup {p})
    BY FewerAttempts
  <1> QED BY <1>1, <1>2, AttemptSetsFinite

LEMMA TwoAtWork ==
    ASSUME NEW S \in SUBSET Attempts, NEW p \in S, NEW q \in S, p # q
    PROVE  Cardinality(S) >= 2
  <1>1. Cardinality(S \ {p}) + 1 <= Cardinality(S)
    BY OneLeaves
  <1>2. Cardinality({}) + 1 <= Cardinality(S \ {p})
    BY OneLeaves
  <1> QED BY <1>1, <1>2, AttemptSetsFinite, FS_EmptySet

LEMMA NobodyCounts == Cardinality({}) = 0
  BY FS_EmptySet

LEMMA CountTypes ==
    ASSUME TypeInv, NEW d \in Deposits
    PROVE  /\ posted[d] \in Nat /\ faults \in Nat
           /\ Cardinality(Posters(d)) \in Nat /\ Cardinality(BusyOnes) \in Nat
           /\ \A b : One(b) \in {0, 1}
  <1>1. posted[d] \in Nat /\ faults \in Nat
    BY OutboxAssumption DEF TypeInv, FoldersType
  <1>2. Posters(d) \subseteq Attempts /\ BusyOnes \subseteq Attempts
    BY DEF Posters, BusyOnes
  <1> QED BY <1>1, <1>2, AttemptSetsFinite DEF One

\* Attempts that do nothing in a step that leaves the outbox as it is.
LEMMA OthersSame ==
    ASSUME NEW q, attempt'[q] = attempt[q], outbox' = outbox
    PROVE  /\ \A d : /\ Has(q, d)' <=> Has(q, d)
                     /\ MayPost(q, d)' <=> MayPost(q, d)
                     /\ TakesAway(q, d)' <=> TakesAway(q, d)
           /\ Spoilt(q)' <=> Spoilt(q)
           /\ Busy(q)' <=> Busy(q)
           /\ ToPost(q)' = ToPost(q)
  BY DEF Has, MayPost, TakesAway, Spoilt, Busy, ToPost, Downloaded

\* A step of p that adds nothing to what p may do.
Shrinks(p) ==
    /\ outbox' = outbox /\ \A q \in Attempts \ {p} : attempt'[q] = attempt[q]
    /\ \A d \in Deposits : /\ MayPost(p, d)' => MayPost(p, d)
                           /\ TakesAway(p, d)' => TakesAway(p, d)
    /\ Spoilt(p)' => Spoilt(p)
    /\ Busy(p)' => Busy(p)

LEMMA ShrinkEffect ==
    ASSUME NEW p \in Attempts, Shrinks(p), NEW d \in Deposits
    PROVE  /\ Posters(d)' \subseteq Posters(d) /\ BusyOnes' \subseteq BusyOnes
           /\ ~MayPost(p, d)' => Posters(d)' \subseteq Posters(d) \ {p}
           /\ AtRisk(d)' => AtRisk(d)
           /\ Loose(d)' => Loose(d) \/ (TakesAway(p, d) /\ ~TakesAway(p, d)')
           /\ (\E q \in Attempts : Spoilt(q)') => \E q \in Attempts : Spoilt(q)
  <1>1. \A q \in Attempts \ {p} :
            /\ MayPost(q, d)' <=> MayPost(q, d)
            /\ TakesAway(q, d)' <=> TakesAway(q, d)
            /\ Spoilt(q)' <=> Spoilt(q)
            /\ Busy(q)' <=> Busy(q)
    BY OthersSame DEF Shrinks
  <1>2. /\ MayPost(p, d)' => MayPost(p, d)
        /\ TakesAway(p, d)' => TakesAway(p, d)
        /\ Spoilt(p)' => Spoilt(p)
        /\ Busy(p)' => Busy(p)
    BY DEF Shrinks
  <1>3. /\ Posters(d)' \subseteq Posters(d)
        /\ ~MayPost(p, d)' => Posters(d)' \subseteq Posters(d) \ {p}
    BY <1>1, <1>2 DEF Posters
  <1>4. BusyOnes' \subseteq BusyOnes
    BY <1>1, <1>2 DEF Shrinks, BusyOnes
  <1>5. AtRisk(d)' => AtRisk(d)
    <2>1. \A q \in Attempts : Busy(q)' => Busy(q)
      BY <1>1, <1>2 DEF Busy
    <2>2. ASSUME NEW r \in Attempts \ {p}, TakesAway(r, d)',
                 Spoilt(r)' \/ \E q \in Attempts \ {r} : Busy(q)'
          PROVE  TakesAway(r, d) /\ (Spoilt(r) \/ \E q \in Attempts \ {r} : Busy(q))
      BY <1>1, <2>1, <2>2
    <2>3. ASSUME TakesAway(p, d)', Spoilt(p)' \/ \E q \in Attempts \ {p} : Busy(q)'
          PROVE  TakesAway(p, d) /\ (Spoilt(p) \/ \E q \in Attempts \ {p} : Busy(q))
      BY <1>2, <2>1, <2>3
    <2> QED BY <2>2, <2>3 DEF AtRisk
  <1>6. Loose(d)' => Loose(d) \/ (TakesAway(p, d) /\ ~TakesAway(p, d)')
    BY <1>1 DEF Loose, Shrinks
  <1>7. (\E q \in Attempts : Spoilt(q)') => \E q \in Attempts : Spoilt(q)
    BY <1>1, <1>2 DEF Shrinks
  <1> QED BY <1>3, <1>4, <1>5, <1>6, <1>7

\* After a fault such a step may leave one thing more to be posted again.
LEMMA ShrinkWithFault ==
    ASSUME TypeInv, CountInv, NEW p \in Attempts, Shrinks(p), faults' = faults + 1,
           NEW d \in Deposits, posted'[d] \in {posted[d], posted[d] + 1}
    PROVE  CountedPosts(d)'
  <1>1. Cardinality(Posters(d)') <= Cardinality(Posters(d))
    BY ShrinkEffect, FewerAttempts DEF Posters
  <1>2. One(AtRisk(d)') <= One(AtRisk(d))
    BY ShrinkEffect DEF One
  <1>3. CountedPosts(d)
    BY DEF CountInv
  <1>4. /\ posted[d] \in Nat /\ faults \in Nat /\ Cardinality(Posters(d)) \in Nat
        /\ One(Loose(d)) \in {0, 1} /\ One(AtRisk(d)) \in {0, 1}
        /\ One(Loose(d)') \in {0, 1} /\ One(AtRisk(d)') \in {0, 1}
    BY CountTypes
  <1>5. Cardinality(Posters(d)') \in Nat
    BY AttemptSetsFinite DEF Posters
  <1> QED BY <1>1, <1>2, <1>3, <1>4, <1>5 DEF CountedPosts

\* Without one, it may do so only for what it would have posted itself, or has
\* put at risk.
LEMMA ShrinkWithoutFault ==
    ASSUME TypeInv, CountInv, NEW p \in Attempts, Shrinks(p), faults' = faults,
           NEW d \in Deposits, posted'[d] = posted[d],
           Loose(d)' => \/ TakesAway(p, d) => TakesAway(p, d)'
                        \/ MayPost(p, d) /\ ~MayPost(p, d)'
                        \/ AtRisk(d) /\ ~AtRisk(d)'
    PROVE  CountedPosts(d)'
  <1>1. Cardinality(Posters(d)') <= Cardinality(Posters(d))
    BY ShrinkEffect, FewerAttempts DEF Posters
  <1>2. One(AtRisk(d)') <= One(AtRisk(d))
    BY ShrinkEffect DEF One
  <1>3. CountedPosts(d)
    BY DEF CountInv
  <1>4. /\ posted[d] \in Nat /\ faults \in Nat /\ Cardinality(Posters(d)) \in Nat
        /\ One(Loose(d)) \in {0, 1} /\ One(AtRisk(d)) \in {0, 1}
        /\ One(Loose(d)') \in {0, 1} /\ One(AtRisk(d)') \in {0, 1}
    BY CountTypes
  <1>5. Cardinality(Posters(d)') \in Nat
    BY AttemptSetsFinite DEF Posters
  <1>6. CASE Loose(d)' => Loose(d)
    <2>1. One(Loose(d)') <= One(Loose(d))
      BY <1>6 DEF One
    <2> QED BY <1>1, <1>2, <1>3, <1>4, <1>5, <2>1 DEF CountedPosts
  <1>7. CASE Loose(d)' /\ ~Loose(d) /\ MayPost(p, d) /\ ~MayPost(p, d)'
    <2>1. p \in Posters(d) /\ Posters(d)' \subseteq Posters(d) \ {p}
      BY <1>7, ShrinkEffect DEF Posters
    <2>2. Cardinality(Posters(d)') + 1 <= Cardinality(Posters(d))
      BY <2>1, OneLeaves DEF Posters
    <2> QED BY <1>2, <1>3, <1>4, <1>5, <2>2 DEF CountedPosts
  <1>8. CASE Loose(d)' /\ ~Loose(d) /\ AtRisk(d) /\ ~AtRisk(d)'
    <2>1. One(AtRisk(d)) = 1 /\ One(AtRisk(d)') = 0 /\ One(Loose(d)) = 0
      BY <1>8 DEF One
    <2> QED BY <1>1, <1>3, <1>4, <1>5, <2>1 DEF CountedPosts
  <1> QED BY <1>6, <1>7, <1>8, ShrinkEffect

LEMMA ShrinkCounts ==
    ASSUME TypeInv, CountInv, NEW p \in Attempts, Shrinks(p), scheduled' = scheduled,
           faults' \in {faults, faults + 1},
           \A d \in ToPost(p)' :
               d.name \in Downloaded(p)' /\ attempt'[p].files[d.name] = d.content,
           \A d \in Deposits : posted'[d] > 0 => posted[d] > 0 \/ d \in ToPost(p),
           \A d \in Deposits : CountedPosts(d)'
    PROVE  CountInv'
  <1>1. faults \in Nat /\ Cardinality(BusyOnes) \in Nat /\ Cardinality(BusyOnes) <= 1 + faults
    BY OutboxAssumption, AttemptSetsFinite DEF TypeInv, FoldersType, CountInv, BusyOnes
  <1>2. /\ BusyOnes' \subseteq BusyOnes
        /\ (\E q \in Attempts : Spoilt(q)') => \E q \in Attempts : Spoilt(q)
    <2>1. \A q \in Attempts \ {p} : (Spoilt(q)' <=> Spoilt(q)) /\ (Busy(q)' <=> Busy(q))
      BY OthersSame DEF Shrinks
    <2> QED BY <2>1 DEF Shrinks, BusyOnes
  <1>3. Cardinality(BusyOnes') \in Nat /\ Cardinality(BusyOnes') <= Cardinality(BusyOnes)
    BY <1>2, FewerAttempts, AttemptSetsFinite DEF BusyOnes
  <1>4. Cardinality(BusyOnes') <= 1 + faults'
    BY <1>1, <1>3
  <1>5. (\E q \in Attempts : Spoilt(q)') => faults' >= 1
    BY <1>1, <1>2 DEF CountInv
  <1>6. \A q \in Attempts : \A d \in ToPost(q)' :
            d.name \in Downloaded(q)' /\ attempt'[q].files[d.name] = d.content
    BY DEF Shrinks, CountInv, ToPost, Downloaded
  <1>7. \A d \in Deposits : posted'[d] > 0 => d.content <= scheduled'[d.name]
    <2> SUFFICES ASSUME NEW d \in Deposits, d \in ToPost(p)
                 PROVE  d.content <= scheduled[d.name]
      BY DEF CountInv
    <2>1. d.name \in Downloaded(p) /\ attempt[p].files[d.name] = d.content /\ d.name \in Names
      BY DepositFacts DEF CountInv
    <2> QED BY <2>1 DEF TypeInv, FoldersType, AttemptType
  <1> QED BY <1>4, <1>5, <1>6, <1>7 DEF CountInv

\* An attempt that ends.
LEMMA IdleShrinks ==
    ASSUME TypeInv, NEW p \in Attempts, GoOn(p, Idle), outbox' = outbox
    PROVE  /\ Shrinks(p) /\ ToPost(p)' = {}
           /\ \A d : ~MayPost(p, d)' /\ ~TakesAway(p, d)'
           /\ scheduled' = scheduled
  <1>1. attempt'[p] = Idle /\ \A q \in Attempts \ {p} : attempt'[q] = attempt[q]
    BY GoOnEffect DEF TypeInv
  <1>2. /\ ToPost(p)' = {} /\ ~Spoilt(p)' /\ ~Busy(p)'
        /\ \A d : ~MayPost(p, d)' /\ ~TakesAway(p, d)'
    BY <1>1, IdleFacts DEF ToPost, Spoilt, Busy, MayPost, TakesAway, Has
  <1> QED BY <1>1, <1>2 DEF Shrinks, GoOn

LEMMA CrashCounts ==
    ASSUME TypeInv, CountInv, NEW p \in Attempts, Crash(p)
    PROVE  CountInv'
  <1>1. GoOn(p, Idle) /\ UNCHANGED <<outbox, posted>> /\ faults' = faults + 1
    BY FaultType DEF Crash, TypeInv, FoldersType
  <1>2. Shrinks(p) /\ ToPost(p)' = {} /\ scheduled' = scheduled
    BY <1>1, IdleShrinks
  <1>3. \A d \in Deposits : CountedPosts(d)'
    BY <1>1, <1>2, ShrinkWithFault
  <1> QED BY <1>1, <1>2, <1>3, ShrinkCounts

LEMMA DownloadFailedCounts ==
    ASSUME TypeInv, CountInv, NEW p \in Attempts, DownloadFailed(p)
    PROVE  CountInv'
  <1>1. /\ attempt[p].phase = "download" /\ GoOn(p, [attempt[p] EXCEPT !.todo = {}])
        /\ UNCHANGED <<outbox, posted>> /\ faults' = faults + 1
    BY FaultType DEF DownloadFailed, TypeInv, FoldersType
  <1>2. /\ attempt'[p].phase = "download" /\ attempt'[p].todo = {}
        /\ attempt'[p].files = attempt[p].files
        /\ \A q \in Attempts \ {p} : attempt'[q] = attempt[q]
    BY <1>1, GoOnEffect DEF TypeInv, AttemptType, Fields
  <1>3. Shrinks(p) /\ ToPost(p)' = {}
    BY <1>1, <1>2 DEF Shrinks, MayPost, TakesAway, Has, Spoilt, Busy, ToPost, Downloaded
  <1>4. \A d \in Deposits : CountedPosts(d)'
    BY <1>1, <1>3, ShrinkWithFault
  <1> QED BY <1>1, <1>3, <1>4, ShrinkCounts DEF GoOn

LEMMA ReturnCounts ==
    ASSUME TypeInv, CountInv, NEW p \in Attempts, Return(p)
    PROVE  CountInv'
  <1>1. GoOn(p, Idle) /\ UNCHANGED <<outbox, posted, faults>>
    BY DEF Return
  <1>2. Shrinks(p) /\ ToPost(p)' = {} /\ scheduled' = scheduled
    BY <1>1, IdleShrinks
  <1>3. \A d : ~TakesAway(p, d)
    BY DEF Return, TakesAway, Has
  <1>4. \A d \in Deposits : CountedPosts(d)'
    BY <1>1, <1>2, <1>3, ShrinkWithoutFault
  <1> QED BY <1>1, <1>2, <1>4, ShrinkCounts

LEMMA DownloadCounts ==
    ASSUME TypeInv, CountInv, NEW p \in Attempts, Download(p)
    PROVE  CountInv'
  <1>1. /\ UNCHANGED <<outbox, moved, posted, excused, faults>>
        /\ attempt[p].phase = "download"
    BY DEF Download
  <1>2. PICK n \in attempt[p].todo :
            GoOn(p, IF outbox[n] = 0 THEN Idle
                    ELSE [attempt[p] EXCEPT !.todo = @ \ {n}, !.files = WithFile(@, n)])
    BY DEF Download
  <1>3. CASE outbox[n] = 0
    <2>1. /\ Shrinks(p) /\ ToPost(p)' = {} /\ scheduled' = scheduled
          /\ \A d : ~MayPost(p, d)'
      BY <1>1, <1>2, <1>3, IdleShrinks
    <2>2. \A d : TakesAway(p, d) => MayPost(p, d)
      BY <1>1 DEF TakesAway, MayPost
    <2>3. \A d \in Deposits : CountedPosts(d)'
      BY <1>1, <2>1, <2>2, ShrinkWithoutFault
    <2> QED BY <1>1, <2>1, <2>3, ShrinkCounts
  <1>4. CASE outbox[n] # 0
    <2>1. /\ attempt'[p].phase = "download" /\ attempt'[p].todo = attempt[p].todo \ {n}
          /\ Downloaded(p)' = Downloaded(p) \cup {n}
          /\ attempt'[p].files[n] = outbox[n]
          /\ \A m \in Downloaded(p) : attempt'[p].files[m] = attempt[p].files[m]
      BY <1>1, <1>2, <1>4, DownloadEffect
    <2>2. \A q \in Attempts \ {p} : attempt'[q] = attempt[q]
      BY <1>2, <1>4, GoOnEffect DEF TypeInv
    <2>3. \A d : Has(p, d)' <=> Has(p, d)
      <3>1. n \notin Downloaded(p)
        BY <1>1 DEF TypeInv, AttemptType
      <3> QED BY <1>1, <2>1, <3>1 DEF Has
    <2>4. \A d : (MayPost(p, d)' <=> MayPost(p, d)) /\ (TakesAway(p, d)' <=> TakesAway(p, d))
      BY <1>1, <2>1, <2>3 DEF MayPost, TakesAway, ToPost
    <2>5. /\ Spoilt(p)' => Spoilt(p)
          /\ Busy(p)' => Busy(p)
      BY <1>1, <2>1 DEF Spoilt, Busy
    <2>6. Shrinks(p) /\ ToPost(p)' = {}
      BY <1>1, <2>1, <2>2, <2>4, <2>5 DEF Shrinks, ToPost
    <2>7. \A d \in Deposits : CountedPosts(d)'
      BY <1>1, <2>4, <2>6, ShrinkWithoutFault
    <2> QED BY <1>1, <1>2, <2>6, <2>7, ShrinkCounts DEF GoOn
  <1> QED BY <1>3, <1>4

\* Whatever is to be posted is to be moved as well.
LEMMA BuildCounts ==
    ASSUME TypeInv, CountInv, NEW p \in Attempts, NEW articles \in SUBSET Articles(p),
           NEW good, NEW notPublished, HasBuilt(p, articles, good, notPublished),
           attempt[p].phase = "download", attempt[p].todo = {},
           \A a \in articles : a[1] \in good \cup notPublished,
           faults' \in {faults, faults + 1}
    PROVE  CountInv'
  <1>1. /\ attempt'[p].phase = "post" /\ attempt'[p].publish
        /\ attempt'[p].todo = DepositsFor(p, articles)
        /\ attempt'[p].clean = ToClean(good, notPublished)
        /\ attempt'[p].files = attempt[p].files
        /\ UNCHANGED <<outbox, moved, posted>>
    BY DEF HasBuilt
  <1>2. PICK next : GoOn(p, next)
    BY DEF HasBuilt
  <1>3. scheduled' = scheduled /\ \A q \in Attempts \ {p} : attempt'[q] = attempt[q]
    BY <1>2, GoOnEffect DEF TypeInv
  <1>4. \A d \in ToPost(p)' :
            /\ d.name \in Downloaded(p) /\ attempt[p].files[d.name] = d.content
            /\ \E e \in attempt'[p].clean : e[1] = d.name
    <2> SUFFICES ASSUME NEW d \in DepositsFor(p, articles)
                 PROVE  /\ d.name \in Downloaded(p) /\ attempt[p].files[d.name] = d.content
                        /\ \E e \in attempt'[p].clean : e[1] = d.name
      BY <1>1 DEF ToPost
    <2>1. PICK a \in articles : d.name = a[1] /\ d.content = attempt[p].files[a[1]]
      BY DEF DepositsFor
    <2>2. a[1] \in Downloaded(p)
      BY ArticlesFacts
    <2>3. \/ <<a[1], "published">> \in attempt'[p].clean
          \/ <<a[1], "not_published">> \in attempt'[p].clean
      BY <1>1, <2>1 DEF ToClean
    <2> QED BY <2>1, <2>2, <2>3
  <1>5. \A d : MayPost(p, d)' => MayPost(p, d) /\ TakesAway(p, d)'
    BY <1>1, <1>4 DEF MayPost, TakesAway, Has, ToPost, Downloaded
  <1>6. \A d : TakesAway(p, d)' => TakesAway(p, d)
    BY <1>1 DEF TakesAway, Has, Downloaded
  <1>7. \A d : TakesAway(p, d) => MayPost(p, d)
    BY DEF TakesAway, MayPost
  <1>8. Shrinks(p)
    <2>1. attempt'[p].clean \subseteq Downloaded(p) \X {"published", "not_published"}
      BY <1>1 DEF HasBuilt, AttemptType, Downloaded
    <2>2. Spoilt(p)' => Spoilt(p)
      BY <1>1, <2>1 DEF Spoilt
    <2>3. Busy(p)
      BY DEF Busy
    <2> QED BY <1>1, <1>3, <1>5, <1>6, <2>2, <2>3 DEF Shrinks
  <1>9. \A d \in Deposits : CountedPosts(d)'
    BY <1>1, <1>5, <1>7, <1>8, ShrinkWithFault, ShrinkWithoutFault
  <1>10. \A d \in ToPost(p)' :
             d.name \in Downloaded(p)' /\ attempt'[p].files[d.name] = d.content
    BY <1>1, <1>4 DEF Downloaded
  <1> QED BY <1>1, <1>3, <1>8, <1>9, <1>10, ShrinkCounts

LEMMA GenerateCounts ==
    ASSUME TypeInv, CountInv, VersionedAreBuilt, NEW p \in Attempts, Generate(p)
    PROVE  CountInv'
  <1>1. attempt[p].phase = "download" /\ attempt[p].todo = {}
    BY DEF Generate
  <1>2. CASE BuildCrossref(p)
    <2>1. PICK built, good :
              /\ built = Articles(p) \ Withheld /\ good = {a[1] : a \in built}
              /\ HasBuilt(p, built, good, {}) /\ UNCHANGED <<excused, faults>>
      BY <1>2, CrossrefBuilds
    <2>2. built \subseteq Articles(p) /\ \A a \in built : a[1] \in good \cup {}
      BY <2>1
    <2> QED BY <1>1, <2>1, <2>2, BuildCounts
  <1>3. CASE BuildPending(p)
    <2>1. PICK existing, last, built, articles, good, exist :
                 /\ existing \in SUBSET Articles(p) /\ last \in Downloaded(p)
                 /\ last \in VersionDois \/ VersionDois \cap Downloaded(p) = {}
                 /\ built = PendingBuilt(p, existing, last)
                 /\ articles = {PendingSource(p, last, a) : a \in built}
                 /\ articles \subseteq Articles(p)
                 /\ good = {a[1] : a \in built} /\ exist = AllExist(p, existing)
                 /\ HasBuilt(p, articles, good, exist)
                 /\ excused' = excused \cup
                        {<<a[1], attempt[p].files[a[1]]>> : a \in existing \ PostedDois}
                 /\ IF existing \ PostedDois # {} THEN Fault ELSE UNCHANGED faults
      BY <1>3, PendingBuilds
    <2>2. faults' \in {faults, faults + 1}
      BY <2>1 DEF Fault
    <2>3. activity = "DepositCrossrefPendingPublication" /\ activity \in Activities
      BY <1>3 DEF BuildPending, TypeInv, FoldersType
    <2>4. ASSUME NEW b \in built
          PROVE  PendingSource(p, last, b)[1] \in good \cup exist
      <3>1. /\ b \in Articles(p) /\ PendingSource(p, last, b) \notin Withheld
            /\ b[1] \in Downloaded(p) /\ b[2] \in DoisOf(b[1])
        BY <2>1, ArticlesFacts DEF PendingBuilt
      <3>2. CASE b[2] = "doi"
        BY <2>1, <3>2 DEF PendingSource
      <3>3. CASE b[2] # "doi"
        <4>1. b[2] = "version_doi" /\ last \in VersionDois
          BY <2>1, <3>1, <3>3 DEF DoisOf
        <4>2. PendingSource(p, last, b) = <<last, "version_doi">>
          BY <4>1 DEF PendingSource
        <4>3. /\ <<last, "doi">> \in Articles(p) /\ <<last, "version_doi">> \in Articles(p)
              /\ DoisOf(last) = {"doi", "version_doi"}
          BY <2>1, <4>1 DEF Articles, DoisOf
        <4>4. CASE <<last, "doi">> \in existing /\ <<last, "version_doi">> \in existing
          BY <2>1, <4>2, <4>3, <4>4 DEF AllExist
        <4>5. CASE <<last, "doi">> \notin existing
          <5>1. PendingSource(p, last, <<last, "doi">>) = <<last, "doi">>
            BY DEF PendingSource
          <5>2. <<last, "doi">> \notin Withheld
            BY <2>3, <4>1 DEF VersionedAreBuilt
          <5>3. <<last, "doi">> \in built
            BY <2>1, <4>3, <4>5, <5>1, <5>2 DEF PendingBuilt
          <5> QED BY <2>1, <4>2, <5>3
        <4>6. CASE <<last, "version_doi">> \notin existing
          <5>1. PendingSource(p, last, <<last, "version_doi">>) = <<last, "version_doi">>
            BY DEF PendingSource
          <5>2. <<last, "version_doi">> \in built
            BY <2>1, <3>1, <4>2, <4>3, <4>6, <5>1 DEF PendingBuilt
          <5> QED BY <2>1, <4>2, <5>2
        <4> QED BY <4>4, <4>5, <4>6
      <3> QED BY <3>2, <3>3
    <2>5. \A a \in articles : a[1] \in good \cup exist
      BY <2>1, <2>4
    <2> QED BY <1>1, <2>1, <2>2, <2>5, BuildCounts
  <1> QED BY <1>2, <1>3 DEF Generate

LEMMA PostCounts ==
    ASSUME TypeInv, CountInv, NEW p \in Attempts, NEW d, Post(p, d)
    PROVE  CountInv'
  <1>1. /\ attempt[p].phase = "post" /\ d \in attempt[p].todo /\ d \in Deposits
        /\ attempt'[p].phase = "post" /\ attempt'[p].clean = attempt[p].clean
        /\ attempt'[p].files = attempt[p].files
        /\ \A e \in Deposits \ {d} : posted'[e] = posted[e]
        /\ \/ /\ attempt'[p].todo = attempt[p].todo \ {d}
              /\ attempt'[p].publish = attempt[p].publish
              /\ posted'[d] = posted[d] + 1 /\ faults' = faults
           \/ /\ attempt'[p].todo \in {{}, attempt[p].todo \ {d}}
              /\ attempt'[p].publish = FALSE
              /\ posted'[d] \in {posted[d], posted[d] + 1}
              /\ Fault
        /\ \E next : GoOn(p, next)
        /\ UNCHANGED <<outbox, moved, excused>>
    BY PostEffect
  <1>2. PICK next : GoOn(p, next)
    BY <1>1
  <1>3. scheduled' = scheduled /\ \A q \in Attempts \ {p} : attempt'[q] = attempt[q]
    BY <1>2, GoOnEffect DEF TypeInv
  <1>4. ToPost(p)' \subseteq ToPost(p) \ {d} /\ d \in ToPost(p)
    BY <1>1 DEF ToPost
  <1>5. \A e : Has(p, e)' = FALSE /\ Has(p, e) = FALSE
    BY <1>1 DEF Has
  <1>6. /\ \A e : MayPost(p, e)' => MayPost(p, e)
        /\ \A e : TakesAway(p, e)' => TakesAway(p, e)
    BY <1>1, <1>4, <1>5 DEF MayPost, TakesAway, Downloaded
  <1>7. Shrinks(p)
    <2>1. Spoilt(p)' => Spoilt(p)
      BY <1>1 DEF Spoilt
    <2> QED BY <1>1, <1>3, <1>6, <2>1 DEF Shrinks, Busy
  <1>8. \A e \in ToPost(p)' :
            e.name \in Downloaded(p)' /\ attempt'[p].files[e.name] = e.content
    BY <1>1, <1>4 DEF CountInv, Downloaded
  <1>9. \A e \in Deposits : posted'[e] > 0 => posted[e] > 0 \/ e \in ToPost(p)
    BY <1>1, <1>4
  <1>10. CASE faults' = faults + 1
    <2>1. \A e \in Deposits : posted'[e] \in {posted[e], posted[e] + 1}
      BY <1>1
    <2>2. \A e \in Deposits : CountedPosts(e)'
      BY <1>7, <1>10, <2>1, ShrinkWithFault
    <2> QED BY <1>3, <1>7, <1>8, <1>9, <1>10, <2>2, ShrinkCounts
  <1>11. CASE faults' = faults
    <2>1. /\ attempt'[p].publish = attempt[p].publish /\ posted'[d] = posted[d] + 1
      BY <1>1, <1>11, FaultType DEF TypeInv, FoldersType
    <2>2. \A e : TakesAway(p, e)' <=> TakesAway(p, e)
      BY <1>1, <1>5, <2>1 DEF TakesAway, Downloaded
    <2>3. \A e \in Deposits \ {d} : CountedPosts(e)'
      BY <1>1, <1>7, <1>11, <2>2, ShrinkWithoutFault
    <2>4. CountedPosts(d)'
      <3>1. p \in Posters(d) /\ ~MayPost(p, d)'
        BY <1>4, <1>5 DEF Posters, MayPost
      <3>2. /\ Posters(d)' \subseteq Posters(d) \ {p}
            /\ AtRisk(d)' => AtRisk(d)
            /\ Loose(d)' => Loose(d)
        BY <1>1, <1>7, <2>2, <3>1, ShrinkEffect
      <3>3. Cardinality(Posters(d)') + 1 <= Cardinality(Posters(d))
        BY <3>1, <3>2, OneLeaves DEF Posters
      <3>4. One(AtRisk(d)') <= One(AtRisk(d)) /\ One(Loose(d)') <= One(Loose(d))
        BY <3>2 DEF One
      <3>5. /\ posted[d] \in Nat /\ faults \in Nat /\ Cardinality(Posters(d)) \in Nat
            /\ One(Loose(d)) \in {0, 1} /\ One(AtRisk(d)) \in {0, 1}
            /\ One(Loose(d)') \in {0, 1} /\ One(AtRisk(d)') \in {0, 1}
        BY <1>1, CountTypes
      <3>6. Cardinality(Posters(d)') \in Nat
        BY AttemptSetsFinite DEF Posters
      <3>7. CountedPosts(d)
        BY <1>1 DEF CountInv
      <3> QED BY <1>11, <2>1, <3>3, <3>4, <3>5, <3>6, <3>7 DEF CountedPosts
    <2>5. \A e \in Deposits : CountedPosts(e)'
      BY <2>3, <2>4
    <2> QED BY <1>3, <1>7, <1>8, <1>9, <1>11, <2>5, ShrinkCounts
  <1> QED BY <1>1, <1>10, <1>11, FaultType DEF TypeInv, FoldersType

LEMMA CopyCounts ==
    ASSUME TypeInv, CountInv, NEW p \in Attempts, NEW e \in attempt[p].clean,
           CopyResource(p, e)
    PROVE  CountInv'
  <1>1. /\ attempt[p].phase = "post" /\ attempt[p].publish /\ attempt[p].todo = {}
        /\ UNCHANGED <<outbox, posted, faults>> /\ e[1] \in Names
    BY DEF CopyResource, Cleaning, TypeInv, AttemptType
  <1>2. CASE outbox[e[1]] = 0
    <2>1. GoOn(p, Idle)
      BY <1>2 DEF CopyResource
    <2>2. /\ Shrinks(p) /\ ToPost(p)' = {} /\ scheduled' = scheduled
          /\ \A d : ~MayPost(p, d)' /\ ~TakesAway(p, d)'
      BY <1>1, <2>1, IdleShrinks
    <2>3. Spoilt(p)
      BY <1>1, <1>2 DEF Spoilt
    <2>4. ASSUME NEW d \in Deposits, Loose(d)'
          PROVE  (TakesAway(p, d) => TakesAway(p, d)') \/ (AtRisk(d) /\ ~AtRisk(d)')
      <3>1. ~AtRisk(d)'
        BY <2>4 DEF Loose, AtRisk
      <3>2. TakesAway(p, d) => AtRisk(d)
        BY <2>3 DEF AtRisk
      <3> QED BY <3>1, <3>2
    <2>5. \A d \in Deposits : CountedPosts(d)'
      BY <1>1, <2>2, <2>4, ShrinkWithoutFault
    <2> QED BY <1>1, <2>2, <2>5, ShrinkCounts
  <1>3. CASE outbox[e[1]] # 0
    <2>1. /\ attempt'[p].phase = "copied" /\ attempt'[p].todo = {e}
          /\ attempt'[p].clean = attempt[p].clean
          /\ attempt'[p].files = attempt[p].files
          /\ attempt'[p].publish = attempt[p].publish
      BY <1>3, CopyEffect
    <2>2. GoOn(p, [attempt[p] EXCEPT !.phase = "copied", !.todo = {e}])
      BY <1>3 DEF CopyResource
    <2>3. scheduled' = scheduled /\ \A q \in Attempts \ {p} : attempt'[q] = attempt[q]
      BY <2>2, GoOnEffect DEF TypeInv
    <2>4. ToPost(p)' = {} /\ \A d : Has(p, d)' = FALSE /\ Has(p, d) = FALSE
      BY <1>1, <2>1 DEF ToPost, Has
    <2>5. \A d : ~MayPost(p, d)' /\ (TakesAway(p, d)' <=> TakesAway(p, d))
      BY <1>1, <2>1, <2>4 DEF MayPost, TakesAway, Downloaded
    <2>6. Spoilt(p)' => Spoilt(p)
      BY <1>1, <2>1 DEF Spoilt
    <2>7. Shrinks(p)
      BY <1>1, <2>3, <2>5, <2>6 DEF Shrinks, Busy
    <2>8. \A d \in Deposits : CountedPosts(d)'
      BY <1>1, <2>5, <2>7, ShrinkWithoutFault
    <2> QED BY <1>1, <2>3, <2>4, <2>7, <2>8, ShrinkCounts
  <1> QED BY <1>2, <1>3

\* Deleting a file may spoil it for others, which overlap then.
LEMMA DeleteCounts ==
    ASSUME TypeInv, CountInv, NEW p \in Attempts, DeleteResource(p)
    PROVE  CountInv'
  <1>1. PICK e \in attempt[p].todo :
               /\ e \in attempt[p].clean /\ e[1] \in Names /\ e[1] \in Downloaded(p)
               /\ attempt[p].phase = "copied" /\ attempt[p].publish
               /\ outbox' = [outbox EXCEPT ![e[1]] = 0]
               /\ attempt'[p].phase = "post" /\ attempt'[p].todo = {}
               /\ attempt'[p].clean = attempt[p].clean \ {e}
               /\ attempt'[p].files = attempt[p].files
               /\ attempt'[p].publish = attempt[p].publish
               /\ DOMAIN attempt'[p] = Fields
               /\ \E next : GoOn(p, next)
               /\ UNCHANGED <<moved, posted, excused, faults>>
    BY DeleteEffect
  <1>2. scheduled' = scheduled /\ \A q \in Attempts \ {p} : attempt'[q] = attempt[q]
    BY <1>1, GoOnEffect DEF TypeInv
  <1>3. \A n \in Names : outbox'[n] = IF n = e[1] THEN 0 ELSE outbox[n]
    BY <1>1 DEF TypeInv, FoldersType
  <1>4. Busy(p) /\ Busy(p)' /\ \A q \in Attempts \ {p} : Busy(q)' <=> Busy(q)
    BY <1>1, <1>2 DEF Busy
  <1>5. BusyOnes' = BusyOnes
    BY <1>4 DEF BusyOnes
  <1>6. \A q \in Attempts, d \in Deposits : Has(q, d)' => Has(q, d)
    BY <1>1, <1>2, <1>3, DepositFacts DEF Has, Downloaded
  <1>7. \A q \in Attempts, d \in Deposits : MayPost(q, d)' => MayPost(q, d)
    BY <1>1, <1>2, <1>6 DEF MayPost, ToPost
  <1>8. \A q \in Attempts, d \in Deposits : TakesAway(q, d)' => TakesAway(q, d)
    BY <1>1, <1>2, <1>6 DEF TakesAway, Downloaded
  <1>9. \A q \in Attempts, d \in Deposits :
            d.name # e[1] /\ TakesAway(q, d) => TakesAway(q, d)'
    <2> SUFFICES ASSUME NEW q \in Attempts, NEW d \in Deposits, d.name # e[1],
                        TakesAway(q, d)
                 PROVE  TakesAway(q, d)'
      OBVIOUS
    <2>1. d.name \in Names /\ outbox'[d.name] = outbox[d.name]
      BY <1>3, DepositFacts
    <2>2. CASE q = p
      BY <1>1, <2>1, <2>2 DEF TakesAway, Has, Downloaded
    <2>3. CASE q # p
      BY <1>2, <2>1, <2>3 DEF TakesAway, Has, Downloaded
    <2> QED BY <2>2, <2>3
  <1>10. Spoilt(p)' => Spoilt(p)
    <2> SUFFICES ASSUME NEW n \in Names, outbox'[n] = 0,
                        NEW c \in attempt'[p].clean, c[1] = n
                 PROVE  Spoilt(p)
      BY <1>1 DEF Spoilt
    <2>1. n # e[1]
      BY <1>1 DEF TypeInv, AttemptType
    <2> QED BY <1>1, <1>3, <2>1 DEF Spoilt
  <1>11. \A q \in Attempts \ {p} : Spoilt(q)' => Busy(q)
    BY <1>2 DEF Spoilt, Busy
  <1>12. (\E q \in Attempts : Spoilt(q)') => faults >= 1
    <2>1. CASE Spoilt(p)'
      BY <1>10, <2>1 DEF CountInv
    <2>2. ASSUME NEW q \in Attempts \ {p}, Spoilt(q)'
          PROVE  faults >= 1
      <3>1. p \in BusyOnes /\ q \in BusyOnes
        BY <1>4, <1>11, <2>2 DEF BusyOnes
      <3>2. Cardinality(BusyOnes) >= 2
        BY <3>1, TwoAtWork DEF BusyOnes
      <3>3. faults \in Nat /\ Cardinality(BusyOnes) \in Nat
        BY OutboxAssumption, AttemptSetsFinite DEF TypeInv, FoldersType, BusyOnes
      <3> QED BY <3>2, <3>3 DEF CountInv
    <2> QED BY <2>1, <2>2
  <1>13. ASSUME NEW d \in Deposits
         PROVE  CountedPosts(d)'
    <2>1. Cardinality(Posters(d)') <= Cardinality(Posters(d))
      <3>1. Posters(d)' \subseteq Posters(d)
        BY <1>7 DEF Posters
      <3> QED BY <3>1, FewerAttempts DEF Posters
    <2>2. Loose(d)' => Loose(d)
      <3>1. d.name \in Names /\ d.content >= 1
        BY DepositFacts
      <3> QED BY <1>3, <1>9, <3>1 DEF Loose
    <2>3. AtRisk(d)' => AtRisk(d)
      <3>1. ASSUME NEW r \in Attempts \ {p}, TakesAway(r, d)'
            PROVE  AtRisk(d)
        BY <1>4, <1>8, <3>1 DEF AtRisk
      <3>2. ASSUME TakesAway(p, d)', Spoilt(p)' \/ \E q \in Attempts \ {p} : Busy(q)'
            PROVE  AtRisk(d)
        <4>1. TakesAway(p, d)
          BY <1>8, <3>2
        <4> QED BY <1>4, <1>10, <3>2, <4>1 DEF AtRisk
      <3> QED BY <3>1, <3>2 DEF AtRisk
    <2>4. One(Loose(d)') <= One(Loose(d)) /\ One(AtRisk(d)') <= One(AtRisk(d))
      BY <2>2, <2>3 DEF One
    <2>5. /\ posted[d] \in Nat /\ faults \in Nat /\ Cardinality(Posters(d)) \in Nat
          /\ One(Loose(d)) \in {0, 1} /\ One(AtRisk(d)) \in {0, 1}
          /\ One(Loose(d)') \in {0, 1} /\ One(AtRisk(d)') \in {0, 1}
      BY CountTypes
    <2>6. Cardinality(Posters(d)') \in Nat
      BY AttemptSetsFinite DEF Posters
    <2>7. CountedPosts(d)
      BY DEF CountInv
    <2> QED BY <1>1, <2>1, <2>4, <2>5, <2>6, <2>7 DEF CountedPosts
  <1>14. \A q \in Attempts : \A d \in ToPost(q)' :
             d.name \in Downloaded(q)' /\ attempt'[q].files[d.name] = d.content
    BY <1>1, <1>2 DEF CountInv, ToPost, Downloaded
  <1>15. faults' = faults /\ posted' = posted
    BY <1>1
  <1>16. /\ Cardinality(BusyOnes') <= 1 + faults'
         /\ (\E q \in Attempts : Spoilt(q)') => faults' >= 1
         /\ \A d \in Deposits : posted'[d] > 0 => d.content <= scheduled'[d.name]
    BY <1>2, <1>5, <1>12, <1>15 DEF CountInv
  <1> QED BY <1>13, <1>14, <1>16 DEF CountInv

\* A content that is new to the outbox.
LEMMA ScheduleCounts ==
    ASSUME TypeInv, CountInv, NEW n \in Names, Schedule(n)
    PROVE  CountInv'
  <1>1. /\ scheduled' = [scheduled EXCEPT ![n] = scheduled[n] + 1]
        /\ outbox' = [outbox EXCEPT ![n] = scheduled[n] + 1]
        /\ attempt' = attempt /\ posted' = posted /\ faults' = faults
    BY DEF Schedule
  <1>2. /\ \A m \in Names : scheduled'[m] = IF m = n THEN scheduled[n] + 1 ELSE scheduled[m]
        /\ \A m \in Names : outbox'[m] = IF m = n THEN scheduled[n] + 1 ELSE outbox[m]
        /\ \A m \in Names : scheduled[m] \in Nat /\ outbox[m] \in Nat
    BY <1>1 DEF TypeInv, FoldersType
  <1>3. /\ \A q \in Attempts : Spoilt(q)' => Spoilt(q)
        /\ \A q \in Attempts : (Busy(q)' <=> Busy(q)) /\ ToPost(q)' = ToPost(q)
        /\ BusyOnes' = BusyOnes
    BY <1>1, <1>2 DEF Spoilt, Busy, BusyOnes, ToPost, Downloaded
  <1>4. /\ posted \in [Deposits -> Nat] /\ faults \in Nat
        /\ Cardinality(BusyOnes) \in Nat /\ Cardinality(BusyOnes) <= 1 + faults
    BY OutboxAssumption, AttemptSetsFinite DEF TypeInv, FoldersType, CountInv, BusyOnes
  <1>5. ASSUME NEW d \in Deposits, ~(d.name = n /\ d.content = scheduled[n] + 1)
        PROVE  CountedPosts(d)'
    <2>1. d.name \in Names /\ (d.name # n => outbox'[d.name] = outbox[d.name])
      BY <1>2, DepositFacts
    <2>2. d.name = n => outbox'[d.name] # d.content
      BY <1>2, <1>5, <2>1
    <2>3. \A q \in Attempts : Has(q, d)' => Has(q, d)
      BY <1>1, <2>1, <2>2 DEF Has, Downloaded
    <2>4. /\ \A q \in Attempts : MayPost(q, d)' => MayPost(q, d)
          /\ \A q \in Attempts : TakesAway(q, d)' => TakesAway(q, d)
      BY <1>1, <2>3 DEF MayPost, TakesAway, ToPost, Downloaded
    <2>5. d.name # n => \A q \in Attempts : TakesAway(q, d) => TakesAway(q, d)'
      BY <1>1, <2>1 DEF TakesAway, Has, Downloaded
    <2>6. Loose(d)' => Loose(d)
      BY <2>1, <2>2, <2>5 DEF Loose
    <2>7. AtRisk(d)' => AtRisk(d)
      BY <1>3, <2>4 DEF AtRisk
    <2>8. Cardinality(Posters(d)') <= Cardinality(Posters(d))
      <3>1. Posters(d)' \subseteq Posters(d)
        BY <2>4 DEF Posters
      <3> QED BY <3>1, FewerAttempts DEF Posters
    <2>9. One(Loose(d)') <= One(Loose(d)) /\ One(AtRisk(d)') <= One(AtRisk(d))
      BY <2>6, <2>7 DEF One
    <2>10. /\ posted[d] \in Nat /\ faults \in Nat /\ Cardinality(Posters(d)) \in Nat
           /\ One(Loose(d)) \in {0, 1} /\ One(AtRisk(d)) \in {0, 1}
           /\ One(Loose(d)') \in {0, 1} /\ One(AtRisk(d)') \in {0, 1}
      BY CountTypes
    <2>11. Cardinality(Posters(d)') \in Nat
      BY AttemptSetsFinite DEF Posters
    <2>12. CountedPosts(d)
      BY DEF CountInv
    <2> QED BY <1>1, <2>8, <2>9, <2>10, <2>11, <2>12 DEF CountedPosts
  <1>6. ASSUME NEW d \in Deposits, d.name = n, d.content = scheduled[n] + 1
        PROVE  CountedPosts(d)'
    <2>1. posted[d] = 0
      BY <1>2, <1>4, <1>6 DEF CountInv
    <2>2. \A q \in Attempts : n \in Downloaded(q) => attempt[q].files[n] # d.content
      BY <1>2, <1>6 DEF TypeInv, AttemptType
    <2>3. \A q \in Attempts : d \notin ToPost(q)
      BY <1>6, <2>2 DEF CountInv
    <2>4. \A q \in Attempts : MayPost(q, d)' => Has(q, d)'
      BY <1>3, <2>3 DEF MayPost
    <2>5. \A q \in Attempts : Has(q, d)' => Busy(q) /\ TakesAway(q, d)'
      BY <1>1 DEF Has, Busy, TakesAway
    <2>6. /\ Cardinality(Posters(d)') <= Cardinality(BusyOnes)
          /\ Cardinality(Posters(d)') \in Nat
      <3>1. Posters(d)' \subseteq BusyOnes
        BY <2>4, <2>5 DEF Posters, BusyOnes
      <3> QED BY <3>1, FewerAttempts, AttemptSetsFinite DEF BusyOnes
    <2>7. CASE Loose(d)'
      <3>1. Posters(d)' = {}
        BY <2>4, <2>5, <2>7 DEF Posters, Loose
      <3>2. ~AtRisk(d)'
        BY <2>7 DEF Loose, AtRisk
      <3>3. One(Loose(d)') = 1 /\ One(AtRisk(d)') = 0 /\ Cardinality(Posters(d)') = 0
        BY <2>7, <3>1, <3>2, NobodyCounts DEF One
      <3> QED BY <1>1, <1>4, <2>1, <3>3 DEF CountedPosts
    <2>8. CASE ~Loose(d)' /\ ~AtRisk(d)'
      <3>1. One(Loose(d)') = 0 /\ One(AtRisk(d)') = 0
        BY <2>8 DEF One
      <3> QED BY <1>1, <1>4, <2>1, <2>6, <3>1 DEF CountedPosts
    <2>9. CASE ~Loose(d)' /\ AtRisk(d)'
      <3>1. One(Loose(d)') = 0 /\ One(AtRisk(d)') = 1
        BY <2>9 DEF One
      <3>2. PICK r \in Attempts :
                /\ TakesAway(r, d)'
                /\ Spoilt(r)' \/ \E q \in Attempts \ {r} : Busy(q)'
        BY <2>9 DEF AtRisk
      <3>3. CASE Spoilt(r)'
        <4>1. faults >= 1
          BY <1>3, <3>3 DEF CountInv
        <4> QED BY <1>1, <1>4, <2>1, <2>6, <3>1, <4>1 DEF CountedPosts
      <3>4. ASSUME NEW q \in Attempts \ {r}, Busy(q)'
            PROVE  CountedPosts(d)'
        <4>1. Busy(r)
          BY <1>1, <3>2 DEF TakesAway, Has, Busy
        <4>2. r \in BusyOnes /\ q \in BusyOnes
          BY <1>3, <3>4, <4>1 DEF BusyOnes
        <4>3. Cardinality(BusyOnes) >= 2
          BY <4>2, TwoAtWork DEF BusyOnes
        <4>4. faults >= 1
          BY <1>4, <4>3
        <4> QED BY <1>1, <1>4, <2>1, <2>6, <3>1, <4>4 DEF CountedPosts
      <3> QED BY <3>2, <3>3, <3>4
    <2> QED BY <2>7, <2>8, <2>9
  <1>7. \A d \in Deposits : CountedPosts(d)'
    BY <1>5, <1>6
  <1>8. /\ \A d \in Deposits : posted'[d] > 0 => d.content <= scheduled'[d.name]
        /\ \A p \in Attempts : \A d \in ToPost(p)' :
               d.name \in Downloaded(p)' /\ attempt'[p].files[d.name] = d.content
        /\ (\E p \in Attempts : Spoilt(p)') => faults' >= 1
    <2>1. \A d \in Deposits : /\ scheduled[d.name] <= scheduled'[d.name]
                              /\ scheduled[d.name] \in Nat /\ scheduled'[d.name] \in Nat
                              /\ d.content \in Nat
      BY <1>2, DepositFacts
    <2>2. \A d \in Deposits : posted[d] > 0 => d.content <= scheduled[d.name]
      BY DEF CountInv
    <2>3. \A d \in Deposits : posted'[d] > 0 => d.content <= scheduled'[d.name]
      BY <1>1, <2>1, <2>2
    <2> QED BY <1>1, <1>3, <2>3 DEF CountInv, Downloaded
  <1>9. Cardinality(BusyOnes') <= 1 + faults'
    BY <1>1, <1>3, <1>4
  <1> QED BY <1>7, <1>8, <1>9 DEF CountInv

\* An attempt that begins: alone, or by a fault while another is at work.
LEMMA ListEffect ==
    ASSUME TypeInv, NEW p \in Attempts, ListOutbox(p)
    PROVE  /\ ~Busy(p) /\ attempt'[p].phase = "download"
           /\ attempt'[p].todo = {n \in Names : outbox[n] # 0}
           /\ Downloaded(p)' = {} /\ ToPost(p)' = {}
           /\ \A q \in Attempts \ {p} : attempt'[q] = attempt[q]
           /\ UNCHANGED <<outbox, posted, scheduled>>
           /\ IF \E q \in Attempts : Busy(q) THEN Fault ELSE UNCHANGED faults
  <1> DEFINE next == [Idle EXCEPT !.phase = "download",
                                  !.todo = {n \in Names : outbox[n] # 0}]
  <1>1. /\ next.phase = "download" /\ next.todo = {n \in Names : outbox[n] # 0}
        /\ next.files = Idle.files
    BY IdleFacts DEF Fields
  <1>2. /\ GoOn(p, next) /\ ~Busy(p) /\ UNCHANGED <<outbox, posted>>
        /\ IF \E q \in Attempts : Busy(q) THEN Fault ELSE UNCHANGED faults
    BY DEF ListOutbox
  <1> HIDE DEF next
  <1>3. /\ attempt'[p] = next /\ scheduled' = scheduled
        /\ \A q \in Attempts \ {p} : attempt'[q] = attempt[q]
    BY <1>2, GoOnEffect DEF TypeInv
  <1>4. Downloaded(p)' = {} /\ ToPost(p)' = {}
    BY <1>1, <1>3, IdleFacts DEF Downloaded, ToPost
  <1> QED BY <1>1, <1>2, <1>3, <1>4

LEMMA ListCounts ==
    ASSUME TypeInv, CountInv, NEW p \in Attempts, ListOutbox(p)
    PROVE  CountInv'
  <1>1. /\ ~Busy(p) /\ attempt'[p].phase = "download"
        /\ attempt'[p].todo = {n \in Names : outbox[n] # 0}
        /\ Downloaded(p)' = {} /\ ToPost(p)' = {}
        /\ \A q \in Attempts \ {p} : attempt'[q] = attempt[q]
        /\ UNCHANGED <<outbox, posted, scheduled>>
    BY ListEffect
  <1>2. ~Spoilt(p)'
    BY <1>1 DEF Spoilt, Busy, TakesAway, Has, ToPost
  <1>3. \A q \in Attempts \ {p} : (Spoilt(q)' <=> Spoilt(q)) /\ (Busy(q)' <=> Busy(q))
    BY <1>1 DEF Spoilt, Busy, Downloaded
  <1>4. \A q \in Attempts \ {p}, d \in Deposits :
            (MayPost(q, d)' <=> MayPost(q, d)) /\ (TakesAway(q, d)' <=> TakesAway(q, d))
    BY <1>1 DEF MayPost, TakesAway, Has, ToPost, Downloaded
  <1>5. BusyOnes' \subseteq BusyOnes \cup {p}
    BY <1>3 DEF BusyOnes
  <1>6. \A d \in Deposits : ~Loose(d)'
    <2>1. \A d \in Deposits : outbox[d.name] = d.content => Has(p, d)'
      BY <1>1, DepositFacts DEF Has
    <2> QED BY <1>1, <2>1 DEF Loose, TakesAway
  <1>7. \A q \in Attempts : \A d \in ToPost(q)' :
            d.name \in Downloaded(q)' /\ attempt'[q].files[d.name] = d.content
    BY <1>1 DEF CountInv, ToPost, Downloaded
  <1>8. \A d \in Deposits : posted'[d] > 0 => d.content <= scheduled'[d.name]
    BY <1>1 DEF CountInv
  <1>9. /\ faults \in Nat /\ BusyOnes \subseteq Attempts /\ BusyOnes' \subseteq Attempts
        /\ Cardinality(BusyOnes) \in Nat /\ Cardinality(BusyOnes') \in Nat
    <2>1. BusyOnes \subseteq Attempts /\ BusyOnes' \subseteq Attempts
      BY DEF BusyOnes
    <2>2. Cardinality(BusyOnes') \in Nat
      BY <2>1, AttemptSetsFinite
    <2> QED BY <2>1, <2>2, AttemptSetsFinite, OutboxAssumption DEF TypeInv, FoldersType
  <1>10. CASE \E q \in Attempts : Busy(q)
    <2>1. faults' = faults + 1
      BY <1>10, ListEffect DEF Fault
    <2>2. Cardinality(BusyOnes') <= 1 + faults'
      <3>1. Cardinality(BusyOnes') <= Cardinality(BusyOnes) + 1
        BY <1>5, <1>9, OneJoins
      <3> QED BY <1>9, <2>1, <3>1 DEF CountInv
    <2>3. ASSUME NEW d \in Deposits
          PROVE  CountedPosts(d)'
      <3>1. Cardinality(Posters(d)') <= Cardinality(Posters(d)) + 1
        <4>1. Posters(d) \subseteq Attempts /\ Posters(d)' \subseteq Posters(d) \cup {p}
          BY <1>4 DEF Posters
        <4> QED BY <4>1, OneJoins
      <3>2. One(Loose(d)') = 0 /\ One(AtRisk(d)') \in {0, 1}
        BY <1>6 DEF One
      <3>3. /\ posted[d] \in Nat /\ Cardinality(Posters(d)) \in Nat
            /\ One(Loose(d)) \in {0, 1} /\ One(AtRisk(d)) \in {0, 1}
        BY CountTypes
      <3>4. Cardinality(Posters(d)') \in Nat
        BY AttemptSetsFinite DEF Posters
      <3>5. CountedPosts(d)
        BY DEF CountInv
      <3> QED BY <1>1, <1>9, <2>1, <3>1, <3>2, <3>3, <3>4, <3>5 DEF CountedPosts
    <2> QED BY <1>7, <1>8, <1>9, <2>1, <2>2, <2>3 DEF CountInv
  <1>11. CASE \A q \in Attempts : ~Busy(q)
    <2>1. faults' = faults
      BY <1>11, ListEffect
    <2>2. /\ \A q \in Attempts \ {p} : ~Busy(q)'
          /\ \A q \in Attempts, d \in Deposits : ~MayPost(q, d) /\ ~TakesAway(q, d)
          /\ \A q \in Attempts : ~Spoilt(q)
      BY <1>3, <1>11 DEF Busy, MayPost, TakesAway, Has, ToPost, Spoilt
    <2>3. Cardinality(BusyOnes') <= 1 + faults'
      <3>1. BusyOnes' \subseteq {} \cup {p}
        BY <2>2 DEF BusyOnes
      <3>2. Cardinality(BusyOnes') <= Cardinality({}) + 1
        BY <3>1, OneJoins
      <3> QED BY <1>9, <2>1, <3>2, NobodyCounts
    <2>4. ASSUME NEW d \in Deposits
          PROVE  CountedPosts(d)'
      <3>1. Posters(d) = {} /\ Posters(d)' \subseteq {} \cup {p}
        BY <1>4, <2>2 DEF Posters
      <3>2. Posters(d)' # {} => Loose(d)
        <4>1. MayPost(p, d)' => outbox[d.name] = d.content
          BY <1>1 DEF MayPost, Has
        <4> QED BY <2>2, <3>1, <4>1 DEF Posters, Loose
      <3>3. Cardinality(Posters(d)') <= One(Loose(d))
        <4>1. CASE Posters(d)' = {}
          BY <4>1, NobodyCounts DEF One
        <4>2. CASE Posters(d)' # {}
          <5>1. Cardinality(Posters(d)') <= Cardinality({}) + 1
            BY <3>1, OneJoins
          <5> QED BY <3>2, <4>2, <5>1, NobodyCounts DEF One
        <4> QED BY <4>1, <4>2
      <3>4. ~AtRisk(d)'
        BY <1>2, <1>4, <2>2 DEF AtRisk
      <3>5. One(Loose(d)') = 0 /\ One(AtRisk(d)') = 0
        BY <1>6, <3>4 DEF One
      <3>6. /\ posted[d] \in Nat /\ Cardinality(Posters(d)) = 0
            /\ One(Loose(d)) \in {0, 1} /\ One(AtRisk(d)) \in {0, 1}
        BY <3>1, CountTypes, NobodyCounts
      <3>7. Cardinality(Posters(d)') \in Nat
        BY AttemptSetsFinite DEF Posters
      <3>8. CountedPosts(d)
        BY DEF CountInv
      <3> QED BY <1>1, <1>9, <2>1, <3>3, <3>5, <3>6, <3>7, <3>8 DEF CountedPosts
    <2>5. \A q \in Attempts : ~Spoilt(q)'
      BY <1>2, <1>3, <2>2
    <2> QED BY <1>7, <1>8, <2>3, <2>4, <2>5 DEF CountInv
  <1> QED BY <1>10, <1>11

LEMMA CountInit == Init => CountInv
  <1> SUFFICES ASSUME Init PROVE CountInv
    OBVIOUS
  <1>1. \A p \in Attempts : attempt[p] = Idle
    BY DEF Init
  <1>2. /\ \A p \in Attempts : ~Busy(p) /\ ~Spoilt(p) /\ ToPost(p) = {}
        /\ \A p \in Attempts, d \in Deposits : ~MayPost(p, d) /\ ~TakesAway(p, d)
    BY <1>1, IdleFacts DEF Busy, Spoilt, ToPost, MayPost, TakesAway, Has
  <1>3. BusyOnes = {} /\ \A d \in Deposits : Posters(d) = {} /\ ~AtRisk(d) /\ ~Loose(d)
    <2>1. \A d \in Deposits : outbox[d.name] # d.content
      BY DepositFacts DEF Init
    <2> QED BY <1>2, <2>1 DEF BusyOnes, Posters, AtRisk, Loose
  <1>4. faults = 0 /\ \A d \in Deposits : posted[d] = 0
    BY DEF Init
  <1>5. \A d \in Deposits : CountedPosts(d)
    BY <1>3, <1>4, NobodyCounts DEF CountedPosts, One
  <1> QED BY <1>2, <1>3, <1>4, <1>5, NobodyCounts DEF CountInv

LEMMA CountStep ==
    ASSUME TypeInv, CountInv, VersionedAreBuilt, [Next]_vars
    PROVE  CountInv'
  <1>1. ASSUME NEW n \in Names, Schedule(n) PROVE CountInv'
    BY <1>1, ScheduleCounts
  <1>2. ASSUME NEW p \in Attempts, ListOutbox(p) PROVE CountInv'
    BY <1>2, ListCounts
  <1>3. ASSUME NEW p \in Attempts, Download(p) PROVE CountInv'
    BY <1>3, DownloadCounts
  <1>4. ASSUME NEW p \in Attempts, DownloadFailed(p) PROVE CountInv'
    BY <1>4, DownloadFailedCounts
  <1>5. ASSUME NEW p \in Attempts, Generate(p) PROVE CountInv'
    BY <1>5, GenerateCounts
  <1>6. ASSUME NEW p \in Attempts, NEW d \in attempt[p].todo, Post(p, d) PROVE CountInv'
    BY <1>6, PostCounts
  <1>7. ASSUME NEW p \in Attempts, NEW e \in attempt[p].clean, CopyResource(p, e)
        PROVE  CountInv'
    BY <1>7, CopyCounts
  <1>8. ASSUME NEW p \in Attempts, DeleteResource(p) PROVE CountInv'
    BY <1>8, DeleteCounts
  <1>9. ASSUME NEW p \in Attempts, Return(p) PROVE CountInv'
    BY <1>9, ReturnCounts
  <1>10. ASSUME NEW p \in Attempts, Crash(p) PROVE CountInv'
    BY <1>10, CrashCounts
  <1>11. CASE UNCHANGED vars
    <2>1. /\ outbox' = outbox /\ attempt' = attempt /\ scheduled' = scheduled
          /\ posted' = posted /\ faults' = faults
      BY <1>11 DEF vars
    <2>2. /\ \A q : (Busy(q)' <=> Busy(q)) /\ (Spoilt(q)' <=> Spoilt(q))
          /\ \A q : ToPost(q)' = ToPost(q) /\ Downloaded(q)' = Downloaded(q)
          /\ \A q, d : (Has(q, d)' <=> Has(q, d)) /\ (TakesAway(q, d)' <=> TakesAway(q, d))
      BY <2>1 DEF Busy, Spoilt, ToPost, Downloaded, Has, TakesAway
    <2>3. /\ BusyOnes' = BusyOnes /\ \A d : Posters(d)' = Posters(d)
          /\ \A d : (Loose(d)' <=> Loose(d)) /\ (AtRisk(d)' <=> AtRisk(d))
      BY <2>1, <2>2 DEF BusyOnes, Posters, MayPost, Loose, AtRisk
    <2>4. \A d \in Deposits : CountedPosts(d)'
      BY <2>1, <2>3 DEF CountInv, CountedPosts, One
    <2> QED BY <2>1, <2>2, <2>3, <2>4 DEF CountInv
  <1> QED
    BY <1>1, <1>2, <1>3, <1>4, <1>5, <1>6, <1>7, <1>8, <1>9, <1>10, <1>11
    DEF Next, AttemptStep

LEMMA CountHolds ==
    ASSUME VersionedAreBuilt
    PROVE  Spec => []CountInv
  <1>1. TypeInv /\ CountInv /\ [Next]_vars => CountInv'
    BY CountStep
  <1> QED BY <1>1, CountInit, TypeHolds, PTL DEF Spec

LEMMA CountInvBoundsPosts ==
    ASSUME TypeInv, CountInv
    PROVE  RepeatsAreFaults
  <1> SUFFICES ASSUME NEW d \in Deposits
               PROVE  posted[d] <= 1 + 2 * faults
    BY DEF RepeatsAreFaults
  <1>1. /\ posted[d] \in Nat /\ faults \in Nat /\ Cardinality(Posters(d)) \in Nat
        /\ One(Loose(d)) \in {0, 1} /\ One(AtRisk(d)) \in {0, 1}
    BY CountTypes
  <1>2. CountedPosts(d)
    BY DEF CountInv
  <1> QED BY <1>1, <1>2 DEF CountedPosts

\* A deposit is posted again only after a fault, and at most twice for each.
THEOREM RepeatsNeedFaults ==
    ASSUME VersionedAreBuilt
    PROVE  Spec => []RepeatsAreFaults
  BY CountHolds, TypeHolds, CountInvBoundsPosts, PTL

=============================================================================
