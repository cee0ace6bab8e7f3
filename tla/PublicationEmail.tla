-------------------------- MODULE PublicationEmail --------------------------
(***************************************************************************)
(* activity/activity_PublicationEmail.py: the articles that wait in its     *)
(* outbox are announced to their authors by mail and moved away.  An        *)
(* insight is not mailed when the research article it is about waits in the *)
(* same outbox: the mail of that article names it.  The activity works by   *)
(* DOI, and files of one DOI are known to it as one.  Nothing in S3 tells   *)
(* the next run which mails have gone out.                                  *)
(***************************************************************************)
EXTENDS Naturals, FiniteSets

CONSTANTS
    Files,        \* the XML files that may come to the outbox
    Doi,          \* the DOI of the article of each file
    Insights,     \* the files that are insights (article-commentary)
    Related,      \* the DOI an insight is about; NoDoi when its XML has none,
                  \* and for other articles
    Rule,         \* what the rules have for each article: an email type, "none",
                  \* "refused" (EmailRulesException), or "do not send"
    Features,     \* the files whose mail also goes to the features team
    NoDoi,
    MaxFaults     \* bound: runs that end half-way, mails that are refused, and
                  \* authors and related articles that cannot be found

Dois == {Doi[f] : f \in Files}

ASSUME FilesAssumption ==
    /\ Doi \in [Files -> Dois] /\ NoDoi \notin Dois
    /\ Related \in [Files -> Dois \cup {NoDoi}] /\ Insights \subseteq Files
    /\ \A f \in Files \ Insights : Related[f] = NoDoi
    /\ Rule \in [Files -> {"type", "none", "refused", "do not send"}]
    /\ Features \subseteq Files /\ IsFiniteSet(Files) /\ MaxFaults \in Nat

VARIABLES
    outbox,       \* the files in the folders of the bucket
    published,
    notPublished,
    phase,        \* of the run: idle, parsing, sending or moving
    found,        \* the files it has downloaded
    names,        \* the file it knows for each DOI (xml_file_to_doi_map)
    unsent,       \* articles of a type that is not sent (not_published_articles)
    paired,       \* insight_articles_to_remove_from_outbox
    about,        \* the insight that the mail of a research article names
    toMail,       \* prepared articles that are still to be mailed
    handled,      \* and those that were seen to
    authorless,   \* articles_do_not_remove_from_outbox, by DOI
    toMove,       \* files still to be moved, each with its folder
    copied,       \* those that have been copied and not yet deleted
    told,         \* observer: articles a mail has told of
    failed,       \* observer: articles whose mail could not be sent
    again,        \* observer: articles a second mail has told of
    torn,         \* observer: told of, and in the outbox when a run broke off
    faults

folders == <<outbox, published, notPublished>>
local == <<found, names, unsent, paired, about, toMail, handled, authorless,
           toMove, copied>>
observers == <<told, failed, again, torn>>
vars == <<folders, phase, local, observers, faults>>

-----------------------------------------------------------------------------
Insight(f) == f \in Insights

\* set_related_article_external: an insight about a DOI, of another day.
Buildable == {i \in Insights : Related[i] # NoDoi}

DoisOf(files) == {Doi[f] : f \in files}

OneOfEach(files) ==
    {fs \in SUBSET files :
        DoisOf(fs) = DoisOf(files) /\ \A f, g \in fs : Doi[f] = Doi[g] => f = g}

\* parse_article_xml: of the files of one DOI it knows one.
Names(files) ==
    {[d \in DoisOf(files) |-> CHOOSE f \in fs : Doi[f] = d] : fs \in OneOfEach(files)}

Unsent == {f \in found : Rule[f] = "do not send"}

\* approve_articles goes by DOI.
Approved == {f \in found : Doi[f] \notin DoisOf(Unsent)}

\* set_related_article_internal: the research article is approved, too.
PairedInternally ==
    {i \in Approved :
        Insight(i) /\ \E r \in Approved : ~Insight(r) /\ Doi[r] = Related[i]}

\* prepare_articles, when the articles related to these insights can be built.
\* Neither is mailed nor removed an insight for which there is no such article.
Prepared(built) ==
    LET removed == DoisOf({i \in Approved : Insight(i) /\
                              (i \in PairedInternally \/ i \notin built)})
    IN {f \in Approved : Doi[f] \notin removed /\ Rule[f] # "refused"}

\* The first file of each research article that has insights, with one of
\* them, the last one found.
Abouts ==
    LET research == {r \in Approved : ~Insight(r) /\
                         \E i \in PairedInternally : Related[i] = Doi[r]}
    IN {a \in UNION {[rs -> PairedInternally] : rs \in OneOfEach(research)} :
            \A r \in DOMAIN a : Related[a[r]] = Doi[r]}

EndRun ==
    /\ phase' = "idle" /\ found' = {} /\ names' = [d \in {} |-> d]
    /\ unsent' = {} /\ paired' = {} /\ about' = [f \in {} |-> f]
    /\ toMail' = {} /\ handled' = {} /\ authorless' = {} /\ toMove' = {}
    /\ copied' = {}

-----------------------------------------------------------------------------
\* ScheduleDownstream puts an article into the outbox.
Schedule(f) ==
    /\ f \notin outbox \cup published \cup notPublished
    /\ outbox' = outbox \cup {f}
    /\ UNCHANGED <<published, notPublished, phase, local, observers, faults>>

\* download_templates and download_files_from_s3_outbox
Download ==
    /\ phase = "idle" /\ outbox # {}
    /\ phase' = "parsing" /\ found' = outbox
    /\ UNCHANGED <<folders, names, unsent, paired, about, toMail, handled,
                   authorless, toMove, copied, observers, faults>>

\* process_articles: parse, approve and prepare.
ProcessArticles(built) ==
    /\ phase = "parsing"
    /\ faults' = faults + Cardinality((found \cap Buildable) \ built)
    /\ faults' <= MaxFaults
    /\ \/ Prepared(built) = {} /\ Unsent = {} /\ EndRun
       \/ /\ Prepared(built) # {} \/ Unsent # {}
          /\ phase' = "sending"
          /\ names' \in Names(found)
          /\ unsent' = Unsent /\ paired' = PairedInternally
          /\ about' \in Abouts
          /\ toMail' = Prepared(built)
          /\ UNCHANGED <<found, handled, authorless, toMove, copied>>
    /\ UNCHANGED <<folders, observers>>

\* The features team gets the mail of a research article with an insight, and
\* that of an insight that is prepared, for its related article was built.
HasRecipients(f) == f \in Features \/ f \in DOMAIN about \/ Insight(f)

Tells(f) == {f} \cup (IF f \in DOMAIN about THEN {about[f]} ELSE {})

\* Mutant: that there are no recipients is only logged.
LeaveForLogOnly(f) ==
    /\ phase = "sending" /\ f \in toMail /\ ~HasRecipients(f)
    /\ faults < MaxFaults /\ faults' = faults + 1
    /\ toMail' = toMail \ {f} /\ handled' = handled \cup {f}
    /\ UNCHANGED <<folders, phase, found, names, unsent, paired, about, authorless,
                   toMove, copied, observers>>

\* Mutant: the file is noted, not its DOI.
LeaveFileForLater(f) ==
    /\ phase = "sending" /\ f \in toMail /\ ~HasRecipients(f)
    /\ faults < MaxFaults /\ faults' = faults + 1
    /\ toMail' = toMail \ {f} /\ handled' = handled \cup {f}
    /\ authorless' = authorless \cup {f}
    /\ UNCHANGED <<folders, phase, found, names, unsent, paired, about, toMove,
                   copied, observers>>

\* log_cannot_find_authors
LeaveForLater(f) ==
    /\ phase = "sending" /\ f \in toMail /\ ~HasRecipients(f)
    /\ faults < MaxFaults /\ faults' = faults + 1
    /\ toMail' = toMail \ {f} /\ handled' = handled \cup {f}
    /\ authorless' = authorless \cup {Doi[f]}
    /\ UNCHANGED <<folders, phase, found, names, unsent, paired, about, toMove,
                   copied, observers>>

\* A mail gets through to a recipient: the rules had an email type for it.
SendEmail(f) ==
    /\ phase = "sending" /\ f \in toMail /\ Rule[f] = "type"
    /\ toMail' = toMail \ {f} /\ handled' = handled \cup {f}
    /\ again' = again \cup (Tells(f) \cap told)
    /\ told' = told \cup Tells(f)
    /\ UNCHANGED <<folders, phase, found, names, unsent, paired, about, authorless,
                   toMove, copied, failed, torn, faults>>

\* No template, or the server refuses the mail three times: only logged.
FailToSend(f) ==
    /\ phase = "sending" /\ f \in toMail
    /\ toMail' = toMail \ {f} /\ handled' = handled \cup {f}
    /\ failed' = failed \cup Tells(f)
    /\ faults' = faults + (IF Rule[f] = "type" THEN 1 ELSE 0) /\ faults' <= MaxFaults
    /\ UNCHANGED <<folders, phase, found, names, unsent, paired, about, authorless,
                   toMove, copied, told, again, torn>>

\* Mutant: the articles that are not sent are left where they are.
CleanPublishedOnly ==
    /\ phase = "sending" /\ toMail = {}
    /\ phase' = "moving"
    /\ toMove' =
        {<<names[d], "published">> :
            d \in (DoisOf(handled) \ authorless) \cup DoisOf(paired)}
    /\ UNCHANGED <<folders, found, names, unsent, paired, about, toMail, handled,
                   authorless, copied, observers, faults>>

\* s3_key_names_to_clean, of the articles to publish and of the others.
CleanOutbox ==
    /\ phase = "sending" /\ toMail = {}
    /\ phase' = "moving"
    /\ toMove' =
        {<<names[d], "published">> :
            d \in (DoisOf(handled) \ authorless) \cup DoisOf(paired)}
        \cup {<<names[d], "not_published">> : d \in DoisOf(unsent) \ authorless}
    /\ UNCHANGED <<folders, found, names, unsent, paired, about, toMail, handled,
                   authorless, copied, observers, faults>>

\* The published files are moved before the others, one after the other.
IsNextMove(move) ==
    /\ phase = "moving" /\ move \in toMove /\ copied \subseteq {move}
    /\ move[2] = "published" \/ \A m \in toMove : m[2] = "not_published"

CopyResource(move) ==
    /\ IsNextMove(move) /\ copied = {} /\ move[1] \in outbox
    /\ copied' = {move}
    /\ IF move[2] = "published"
       THEN published' = published \cup {move[1]} /\ UNCHANGED notPublished
       ELSE notPublished' = notPublished \cup {move[1]} /\ UNCHANGED published
    /\ UNCHANGED <<outbox, phase, found, names, unsent, paired, about, toMail,
                   handled, authorless, toMove, observers, faults>>

\* Mutant: the file is deleted from wherever it is.
DeleteEverywhere(move) ==
    /\ IsNextMove(move) /\ copied = {move}
    /\ outbox' = outbox \ {move[1]} /\ published' = published \ {move[1]}
    /\ toMove' = toMove \ {move} /\ copied' = {}
    /\ UNCHANGED <<notPublished, phase, found, names, unsent, paired, about,
                   toMail, handled, authorless, observers, faults>>

\* Mutant: the file is copied only.
KeepResource(move) ==
    /\ IsNextMove(move) /\ copied = {move}
    /\ toMove' = toMove \ {move} /\ copied' = {}
    /\ UNCHANGED <<folders, phase, found, names, unsent, paired, about,
                   toMail, handled, authorless, observers, faults>>

DeleteResource(move) ==
    /\ IsNextMove(move) /\ copied = {move}
    /\ outbox' = outbox \ {move[1]}
    /\ toMove' = toMove \ {move} /\ copied' = {}
    /\ UNCHANGED <<published, notPublished, phase, found, names, unsent, paired,
                   about, toMail, handled, authorless, observers, faults>>

\* The admin mail, and True.
Finish ==
    /\ phase = "moving" /\ toMove = {}
    /\ EndRun
    /\ UNCHANGED <<folders, observers, faults>>

\* A download, a list of authors, a copy or a deletion raises, which ends the
\* run, in success or not; or the worker dies.
BreakOff ==
    /\ phase # "idle" /\ faults < MaxFaults
    /\ faults' = faults + 1
    /\ torn' = torn \cup (told \cap outbox)
    /\ EndRun
    /\ UNCHANGED <<folders, told, failed, again>>

-----------------------------------------------------------------------------
Init ==
    /\ outbox = {} /\ published = {} /\ notPublished = {}
    /\ phase = "idle" /\ found = {} /\ names = [d \in {} |-> d]
    /\ unsent = {} /\ paired = {} /\ about = [f \in {} |-> f]
    /\ toMail = {} /\ handled = {} /\ authorless = {} /\ toMove = {} /\ copied = {}
    /\ told = {} /\ failed = {} /\ again = {} /\ torn = {} /\ faults = 0

RunStep ==
    \/ Download
    \/ \E built \in SUBSET (found \cap Buildable) : ProcessArticles(built)
    \/ \E f \in toMail : LeaveForLater(f) \/ SendEmail(f) \/ FailToSend(f)
    \/ CleanOutbox
    \/ \E move \in toMove : CopyResource(move) \/ DeleteResource(move)
    \/ Finish

Next == (\E f \in Files : Schedule(f)) \/ RunStep \/ BreakOff

Spec == Init /\ [][Next]_vars

\* Cron starts the workflow every day, and its runs go on until they end.
FairSpec == Spec /\ WF_vars(RunStep)

-----------------------------------------------------------------------------
Moves == Files \X {"published", "not_published"}

\* All variables hold values of the kinds above, and what the run is about to
\* do is about what it has found.
TypeOK ==
    /\ outbox \subseteq Files /\ published \subseteq Files
    /\ notPublished \subseteq Files
    /\ phase \in {"idle", "parsing", "sending", "moving"}
    /\ found \subseteq Files
    /\ unsent \cup paired \cup toMail \cup handled \subseteq found
    /\ DOMAIN names \subseteq DoisOf(found)
    /\ \A d \in DOMAIN names : names[d] \in found
    /\ DOMAIN about \subseteq found /\ about \in [DOMAIN about -> paired]
    /\ authorless \subseteq DoisOf(found)
    /\ toMove \subseteq Moves /\ copied \subseteq toMove
    /\ told \cup failed \cup again \cup torn \subseteq Files
    /\ faults \in 0 .. MaxFaults

\* Files of one DOI: of two in the outbox one is moved, and both are mailed.
Alone(f) == \A g \in Files \ {f} : Doi[g] # Doi[f]

\* A file leaves the outbox only for another folder, and stays in that one.
NothingLost ==
    [][/\ outbox \ outbox' \subseteq published' \cup notPublished'
       /\ published \subseteq published' /\ notPublished \subseteq notPublished']_vars

\* An article is published only when a mail about it was sent or tried: its
\* own, or for an insight that of its research article; one that has no
\* recipients waits "for a later day" (log_cannot_find_authors).  Not so the
\* insight about an article for which the rules raise: it is paired before they
\* are asked (prepare_articles), and moved although that article stays.
PublishedWasMailed ==
    \A f \in published :
        \/ f \in told \cup failed
        \/ \E r \in Files :
              Doi[r] = Related[f] /\ (r \in told \cup failed \/ Rule[r] = "refused")

\* No article is announced twice, by its own mail and by the mail of the
\* article it is about, unless a run has broken off before the article was
\* moved, or files have their DOI in common.
RepeatsAreFaults == \A f \in again : f \in torn \/ ~Alone(f)

\* The articles that no run need see to: the rules raise for them, or they are
\* insights about nothing, or about an article for which the rules raise: a run
\* that has nothing else to mail or to move ends before it cleans the outbox.
Stays(f) ==
    \/ Rule[f] = "refused"
    \/ Insight(f) /\ Related[f] = NoDoi
    \/ \E r \in Files : Doi[r] = Related[f] /\ Rule[r] = "refused"

\* Whatever is scheduled leaves the outbox, but for those.
EventuallyLeaves ==
    \A f \in Files : ~Stays(f) => []<>(f \notin outbox)
=============================================================================
