------------------------------- MODULE Outbox -------------------------------
(***************************************************************************)
(* The S3 outbox of the activities that deposit with Crossref.  Workflows   *)
(* that publish an article copy its XML to the outbox (ScheduleCrossref and *)
(* its kin); a scheduled workflow runs the depositing activity, which lists *)
(* and downloads the outbox, builds deposits, posts them, and moves to      *)
(* another folder, by name, the files it is done with.                      *)
(*                                                                         *)
(* DepositCrossref, and DepositCrossrefPendingPublication, which first asks *)
(* whether the DOIs exist already, share all of it but how they build.      *)
(***************************************************************************)
EXTENDS Naturals, FiniteSets

CONSTANTS
    Activities,   \* which of the two activities the outbox may belong to
    Names,        \* names of article XML files
    Contents,     \* bound: how often a file of that name is scheduled
    VersionDois,  \* the names whose articles have a version DOI as well
    Withheld,     \* the names and DOIs no deposit can be built for, or may be
    Attempts,     \* processes that perform the activity
    MaxFaults     \* bound: crashes, calls that fail, attempts timed out

DepositActivities == {"DepositCrossref", "DepositCrossrefPendingPublication"}

DoisOf(n) == IF n \in VersionDois THEN {"doi", "version_doi"} ELSE {"doi"}

ASSUME OutboxAssumption ==
    /\ Activities \subseteq DepositActivities
    /\ Contents \in [Names -> Nat] /\ VersionDois \subseteq Names
    /\ \A w \in Withheld : w[1] \in Names /\ w[2] \in DoisOf(w[1])
    /\ IsFiniteSet(Attempts) /\ MaxFaults \in Nat

VARIABLES
    activity,   \* the activity the outbox belongs to
    outbox,     \* the content of each name in the outbox, 0 when there is none
    scheduled,  \* how many contents were scheduled under each name
    attempt,    \* what each attempt is doing
    moved,      \* the contents in the published and not_published folders
    posted,     \* how often Crossref has got each deposit
    excused,    \* observer: contents that may go astray, see the properties
    faults

vars == <<activity, outbox, scheduled, attempt, moved, posted, excused, faults>>

Deposits ==
    UNION {[name : {n}, content : 1 .. Contents[n], doi : DoisOf(n)] : n \in Names}

Fault == faults < MaxFaults /\ faults' = faults + 1

-----------------------------------------------------------------------------
(* Scheduling: the object in the outbox is overwritten.                      *)

Downloaded(p) == DOMAIN attempt[p].files

\* copy_article_xml_to_outbox
Schedule(n) ==
    LET content == scheduled[n] + 1 IN
    /\ content <= Contents[n]
    /\ scheduled' = [scheduled EXCEPT ![n] = content]
    /\ outbox' = [outbox EXCEPT ![n] = content]
    /\ excused' = IF \E p \in Attempts : n \in Downloaded(p)
                  THEN excused \cup {<<n, content>>} ELSE excused
    /\ UNCHANGED <<activity, attempt, moved, posted, faults>>

-----------------------------------------------------------------------------
(* do_activity: get_outbox_s3_key_names, download_files_from_s3_outbox.      *)

Idle == [phase |-> "idle", todo |-> {}, files |-> << >>, clean |-> {}, publish |-> TRUE]

Busy(p) == attempt[p].phase # "idle"

GoOn(p, next) ==
    /\ attempt' = [attempt EXCEPT ![p] = next]
    /\ UNCHANGED <<activity, scheduled>>

\* SWF runs one attempt at a time: when there are two, the first was timed out.
ListOutbox(p) ==
    /\ ~Busy(p)
    /\ IF \E q \in Attempts : Busy(q) THEN Fault ELSE UNCHANGED faults
    /\ GoOn(p, [Idle EXCEPT !.phase = "download", !.todo = {n \in Names : outbox[n] # 0}])
    /\ UNCHANGED <<outbox, moved, posted, excused>>

WithFile(files, n) == [m \in DOMAIN files \cup {n} |-> IF m = n THEN outbox[n] ELSE files[m]]

\* Mutant: a key that is no longer there leaves an empty file behind.
DownloadEmpty(p) ==
    /\ attempt[p].phase = "download"
    /\ \E n \in attempt[p].todo :
           GoOn(p, [attempt[p] EXCEPT !.todo = @ \ {n}, !.files = WithFile(@, n)])
    /\ UNCHANGED <<outbox, moved, posted, excused, faults>>

\* A key that is no longer there raises ClientError, which is no IOError.
Download(p) ==
    /\ attempt[p].phase = "download"
    /\ \E n \in attempt[p].todo :
           GoOn(p, IF outbox[n] = 0 THEN Idle
                   ELSE [attempt[p] EXCEPT !.todo = @ \ {n}, !.files = WithFile(@, n)])
    /\ UNCHANGED <<outbox, moved, posted, excused, faults>>

\* An IOError ends the download; the activity goes on with the files it has.
DownloadFailed(p) ==
    /\ attempt[p].phase = "download" /\ attempt[p].todo # {}
    /\ Fault
    /\ GoOn(p, [attempt[p] EXCEPT !.todo = {}])
    /\ UNCHANGED <<outbox, moved, posted, excused>>

-----------------------------------------------------------------------------
(* Building the deposits.                                                    *)

\* The articles in the files, once for each DOI they have.
Articles(p) ==
    {a \in Downloaded(p) \X {"doi", "version_doi"} : a[2] \in DoisOf(a[1])}

DepositsFor(p, articles) ==
    {[name |-> a[1], content |-> attempt[p].files[a[1]], doi |-> a[2]] : a \in articles}

\* Mutant: every file counts as good.
BuildAllGood(p, articles, good, notPublished) ==
    GoOn(p, [attempt[p] EXCEPT
        !.phase = "post",
        !.todo = DepositsFor(p, articles),
        !.clean = Downloaded(p) \X {"published"}])

\* Articles to deposit, files that count as good, and files not to be published.
Build(p, articles, good, notPublished) ==
    GoOn(p, [attempt[p] EXCEPT
        !.phase = "post",
        !.todo = DepositsFor(p, articles),
        !.clean = good \X {"published"} \cup notPublished \X {"not_published"}])

\* Mutant: one deposit that cannot be built stops the others.
BuildAllOrNothing(p) ==
    LET built == IF Articles(p) \cap Withheld = {} THEN Articles(p) ELSE {}
    IN /\ activity = "DepositCrossref"
       /\ Build(p, built, {a[1] : a \in built}, {})
       /\ UNCHANGED <<excused, faults>>

\* A file is good when at least one of its deposits could be built.
BuildCrossref(p) ==
    LET built == Articles(p) \ Withheld
    IN /\ activity = "DepositCrossref"
       /\ Build(p, built, {a[1] : a \in built}, {})
       /\ UNCHANGED <<excused, faults>>

PostedDois == {<<d.name, d.doi>> : d \in {e \in Deposits : posted[e] > 0}}

\* prune_article_object_map drops DOIs that exist: one that was deposited may
\* exist by now, and one that doi.org gives no answer about counts as existing.
\* The loop over version DOIs then builds from article_version, which is still
\* the last article that an earlier loop made a copy of.
BuildPending(p) ==
    /\ activity = "DepositCrossrefPendingPublication"
    /\ \E existing \in SUBSET Articles(p), last \in Downloaded(p) :
           LET unanswered == existing \ PostedDois
               source(a) == <<IF a[2] = "doi" THEN a[1] ELSE last, a[2]>>
               built == {a \in Articles(p) \ existing : source(a) \notin Withheld}
           IN /\ last \in VersionDois \/ VersionDois \cap Downloaded(p) = {}
              /\ Build(p, {source(a) : a \in built}, {a[1] : a \in built},
                       {n \in Downloaded(p) : \A doi \in DoisOf(n) : <<n, doi>> \in existing})
              /\ excused' = excused \cup {<<a[1], attempt[p].files[a[1]]>> : a \in unanswered}
              /\ IF unanswered # {} THEN Fault ELSE UNCHANGED faults

Generate(p) ==
    /\ attempt[p].phase = "download" /\ attempt[p].todo = {} /\ Downloaded(p) # {}
    /\ BuildCrossref(p) \/ BuildPending(p)
    /\ UNCHANGED <<outbox, moved, posted>>

-----------------------------------------------------------------------------
(* upload_files_to_endpoint                                                  *)

\* Any status but 200 makes the outcome of all posts a failure, and so does an
\* exception, which skips the rest of them as well.
Post(p, d) ==
    /\ attempt[p].phase = "post" /\ d \in attempt[p].todo
    /\ \E answer \in {"200", "refused", "raised"}, got \in BOOLEAN :
           /\ answer = "200" => got
           /\ answer = "refused" => ~got
           /\ IF answer = "200" THEN UNCHANGED faults ELSE Fault
           /\ posted' = IF got THEN [posted EXCEPT ![d] = @ + 1] ELSE posted
           /\ GoOn(p, [attempt[p] EXCEPT
                  !.todo = IF answer = "raised" THEN {} ELSE @ \ {d},
                  !.publish = @ /\ answer = "200"])
    /\ UNCHANGED <<outbox, moved, excused>>

-----------------------------------------------------------------------------
(* clean_outbox                                                              *)

\* Mutant: the outbox is cleaned whatever became of the posts.
CleaningAlways(p) == attempt[p].phase = "post" /\ attempt[p].todo = {}

Cleaning(p) ==
    attempt[p].phase = "post" /\ attempt[p].todo = {} /\ attempt[p].publish

\* First copy.  Copying what is no longer there raises.
CopyResource(p, entry) ==
    LET n == entry[1] IN
    /\ Cleaning(p) /\ entry \in attempt[p].clean
    /\ entry[2] = "not_published" =>
           \A other \in attempt[p].clean : other[2] = "not_published"
    /\ IF outbox[n] = 0
       THEN GoOn(p, Idle) /\ UNCHANGED moved
       ELSE /\ GoOn(p, [attempt[p] EXCEPT !.phase = "copied", !.todo = {entry}])
            /\ moved' = moved \cup {<<n, outbox[n]>>}
    /\ UNCHANGED <<outbox, posted, excused, faults>>

\* Mutant: the old key is not deleted.
KeepResource(p) ==
    /\ attempt[p].phase = "copied"
    /\ \E entry \in attempt[p].todo :
           GoOn(p, [attempt[p] EXCEPT !.phase = "post", !.todo = {}, !.clean = @ \ {entry}])
    /\ UNCHANGED <<outbox, moved, posted, excused, faults>>

\* Then delete the old key.
DeleteResource(p) ==
    /\ attempt[p].phase = "copied"
    /\ \E entry \in attempt[p].todo :
           /\ outbox' = [outbox EXCEPT ![entry[1]] = 0]
           /\ GoOn(p, [attempt[p] EXCEPT !.phase = "post", !.todo = {}, !.clean = @ \ {entry}])
    /\ UNCHANGED <<moved, posted, excused, faults>>

\* The activity returns True whatever came of it.
Return(p) ==
    /\ attempt[p].todo = {}
    /\ \/ attempt[p].phase = "download" /\ Downloaded(p) = {}
       \/ attempt[p].phase = "post" /\ (attempt[p].publish => attempt[p].clean = {})
    /\ GoOn(p, Idle)
    /\ UNCHANGED <<outbox, moved, posted, excused, faults>>

\* The worker dies, or a call raises.
Crash(p) ==
    /\ Busy(p)
    /\ Fault
    /\ GoOn(p, Idle)
    /\ UNCHANGED <<outbox, moved, posted, excused>>

-----------------------------------------------------------------------------
Init ==
    /\ activity \in Activities
    /\ outbox = [n \in Names |-> 0] /\ scheduled = [n \in Names |-> 0]
    /\ attempt = [p \in Attempts |-> Idle]
    /\ moved = {} /\ posted = [d \in Deposits |-> 0]
    /\ excused = {} /\ faults = 0

AttemptStep(p) ==
    \/ Download(p)
    \/ Generate(p)
    \/ \E d \in attempt[p].todo : Post(p, d)
    \/ \E entry \in attempt[p].clean : CopyResource(p, entry)
    \/ DeleteResource(p)
    \/ Return(p)

Next ==
    \/ \E n \in Names : Schedule(n)
    \/ \E p \in Attempts :
           \/ ListOutbox(p)
           \/ DownloadFailed(p)
           \/ AttemptStep(p)
           \/ Crash(p)

Spec == Init /\ [][Next]_vars

\* The activity is run again and again, and comes to an end but for faults.
Fairness ==
    /\ WF_vars((\A q \in Attempts : ~Busy(q)) /\ \E p \in Attempts : ListOutbox(p))
    /\ \A p \in Attempts : WF_vars(AttemptStep(p))

FairSpec == Spec /\ Fairness

-----------------------------------------------------------------------------
(* Properties.                                                               *)

\* The types of the variables.
TypeOK ==
    /\ activity \in DepositActivities
    /\ \A n \in Names : outbox[n] \in {0, scheduled[n]} /\ scheduled[n] <= Contents[n]
    /\ \A p \in Attempts :
           /\ attempt[p].phase \in {"idle", "download", "post", "copied"}
           /\ \A n \in Downloaded(p) : attempt[p].files[n] \in 1 .. scheduled[n]
           /\ attempt[p].clean \subseteq Downloaded(p) \X {"published", "not_published"}
           /\ attempt[p].publish \in BOOLEAN
    /\ posted \in [Deposits -> Nat] /\ faults \in 0 .. MaxFaults
    /\ \A m \in moved \cup excused : m[2] \in 1 .. scheduled[m[1]]

\* A pending publication need not be sent when the DOI was sent before.
Sent(n, content) ==
    \E d \in Deposits :
        /\ d.name = n /\ posted[d] > 0
        /\ d.content = content \/ activity = "DepositCrossrefPendingPublication"

\* Nothing leaves the outbox unsent: what was last scheduled under a name is
\* there or was sent to Crossref.  The exceptions are a content that was
\* scheduled while an attempt was at work on an earlier one, which clean_outbox
\* moves in its place, and one whose DOI counted as existing without an answer.
NothingUnsent ==
    \A n \in Names :
        \/ scheduled[n] = 0 \/ outbox[n] = scheduled[n]
        \/ Sent(n, scheduled[n])
        \/ <<n, scheduled[n]>> \in excused

\* A deposit is posted a second time only after a fault, and at most twice more
\* for each: once by the attempt that is the fault, and once because attempts
\* that overlap can each find a file gone that the other has moved, so that both
\* give up and leave the rest of the outbox to be posted again.
RepeatsAreFaults == \A d \in Deposits : posted[d] <= 1 + 2 * faults

AllDoisSent(m) ==
    \A d \in Deposits :
        d.name = m[1] /\ d.content = m[2] /\ <<d.name, d.doi>> \notin Withheld => posted[d] > 0

\* What DepositCrossref moves out of the outbox was sent for each of its DOIs.
MovedWhenAllSent ==
    activity = "DepositCrossref" => \A m \in moved \ excused : AllDoisSent(m)

\* "build version_doi Crossef deposits": without any fault, every pending
\* publication that is moved had its DOI and its version DOI deposited.
VersionDoisSent == faults = 0 => \A m \in moved \ excused : AllDoisSent(m)

\* A file for which a deposit can be built does not stay in the outbox, be there
\* others for which none can be built.
EventuallyMoved ==
    \A n \in Names :
        (\A doi \in DoisOf(n) : <<n, doi>> \notin Withheld) => <>[](outbox[n] = 0)
=============================================================================
