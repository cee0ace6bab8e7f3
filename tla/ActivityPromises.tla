-------------------------- MODULE ActivityPromises --------------------------
(***************************************************************************)
(* What the activities of a workflow may rely on and what they must leave   *)
(* behind, whichever of their attempts die half-way: the properties of      *)
(* ActivityExecution with the scripts of activity/activity_*.py.            *)
(***************************************************************************)
EXTENDS ActivityExecution

Operations == UNION {ToSet(Scripts[a]) : a \in DOMAIN Scripts}

\* Scripts are sequences, and so are workflows, with activities that have one.
ASSUME ScriptsAssumption ==
    /\ \A a \in DOMAIN Scripts : Scripts[a] \in Seq(Operations)
    /\ \A w \in DOMAIN Workflows : Workflows[w] \in Seq(DOMAIN Scripts) \ {<< >>}

Named(kinds) == {op.what : op \in {o \in Operations : o.do \in kinds}}

Keys == Named({"need", "input", "get", "put", "blank", "keep", "count"})

Things == Named({"look", "read", "write", "send", "drop"})

Values == Named({"need", "input"})

Objects == Named({"read"})

Asked == Named({"fact"})

Sendings == Named({"send"})

Conditions == UNION {op.when \cup op.unless : op \in Operations}

Between == ~running /\ outcome # "FAILED"

\* All variables hold values of the kinds above.
TypeOK ==
    /\ workflow \in DOMAIN Workflows
    /\ step \in DOMAIN Workflows[workflow]
    /\ running \in BOOLEAN
    /\ ToSet(rest) \subseteq Operations
    /\ flags \subseteq Conditions
    /\ DOMAIN facts \subseteq Asked
    /\ DOMAIN session \subseteq Keys
    /\ world \subseteq Things \cup UNION Givens[workflow]
    /\ sent \cup ({repeated} \ {"nothing"}) \subseteq Sendings
    /\ missing \in Keys \cup Things \cup {"nothing", "error"}
    /\ died \in BOOLEAN
    /\ outcome \in {"OPEN", "COMPLETED", "FAILED"}

-----------------------------------------------------------------------------
(* Values and objects are there when they are used.                          *)

\* The session value that is not stored when there is no docmap_index_url.
UnsetByConfiguration == {"new_run_docmap_index_resource"}

\* No activity of a shipped workflow uses a session value that no earlier one
\* has stored and that is not in the input (get_value of execution_context.py
\* answers None, and the use raises), whichever attempts died and whatever
\* the services answered.
ValuesArePresent == missing \notin Values \ UnsetByConfiguration

\* What is renamed or deleted under the name by which the next attempt looks
\* for it: an attempt that dies half-way leaves one that raises for ever.
GoneOnRetry == {
    "videos", "code files", "cover art", "formula images",
    "MECA XML", "images", "table images", "equation images"}

\* No activity reads an object that no earlier one has stored, and an attempt
\* finds what it reads after one before it died half-way, but for the objects
\* above.
ObjectsArePresent ==
    missing \in Objects => died /\ missing \in GoneOnRetry

-----------------------------------------------------------------------------
(* What was stored stays consistent.                                         *)

\* Old names and new ones (rename_expanded_folder_files, modify_content_folder,
\* clean_outbox).
MovedTo == {
    <<"MECA XML", "content XML">>, <<"content files", "moved content files">>,
    <<"images", "figures">>, <<"table images", "tables">>,
    <<"equation images", "equations">>, <<"videos", "renamed videos">>,
    <<"cover art", "renamed cover art">>, <<"article files", "versioned files">>,
    <<"article XML", "versioned XML">>,
    <<"router file", "published router file">>,
    <<"router file", "not_published router file">>,
    <<"pubmed file", "published pubmed file">>,
    <<"crossref file", "published crossref file">>,
    <<"minimal file", "published minimal file">>,
    <<"preprint file", "published preprint file">>,
    <<"review file", "published review file">>,
    <<"pending file", "published pending file">>,
    <<"pending file", "not_published pending file">>,
    <<"PoA PDF", "published PoA PDF">>, <<"PoA XML", "published PoA XML">>,
    <<"PoA ds zip", "published PoA ds zip">>}

Places(thing) == {thing} \cup {m[2] : m \in {n \in MovedTo : n[1] = thing}}

\* A step never removes the only copy of something: what is in none of its
\* places after it was in none before, however the attempt or the next one
\* ends.  (When the next attempt begins, the copies nobody reads are forgotten.)
NothingLost ==
    [][running =>
        \A m \in MovedTo : m[1] \in world => Places(m[1]) \cap world' # {}]_vars

\* What the XML or the manifest is said to name, and what is then in the
\* bucket.
NamedFiles == {
    <<"images in XML", {"images", "figures"}>>,
    <<"images in manifest", {"images", "figures"}>>,
    <<"figures in XML", {"figures"}>>, <<"figures in manifest", {"figures"}>>,
    <<"tables in XML", {"tables"}>>, <<"tables in manifest", {"tables"}>>,
    <<"equations in XML", {"equations"}>>,
    <<"equations in manifest", {"equations"}>>,
    <<"article images in XML", {"images", "figures"}>>,
    <<"article figures in XML", {"figures"}>>,
    <<"article tables in XML", {"tables"}>>,
    <<"renamed videos in XML", {"renamed videos"}>>,
    <<"renamed cover art in XML", {"renamed cover art"}>>,
    <<"code archive in XML", {"code archive"}>>,
    <<"new PDF in manifest", {"new PDF"}>>, <<"new PDF in XML", {"new PDF"}>>,
    <<"versioned names in XML", {"versioned files"}>>}

\* Even when attempts die, a file is in the bucket before the uploaded XML or
\* manifest names it.
NamedArePresent ==
    \A n \in NamedFiles : n[1] \in world => n[2] \cap world # {}

\* What is written after what: the second names the same files as the first.
NamedTogether == {
    <<"images in XML", "images in manifest">>,
    <<"figures in XML", "figures in manifest">>,
    <<"tables in XML", "tables in manifest">>,
    <<"equations in XML", "equations in manifest">>,
    <<"moved content files", "moved names in manifest">>,
    <<"new PDF in manifest", "new PDF in XML">>,
    <<"versioned files", "versioned names in XML">>}

\* The second is never there without the first; and both are, between the
\* attempts, when none of them died and the workflow was not given up.
NamesAgree ==
    \A n \in NamedTogether :
        /\ n[2] \in world => n[1] \in world
        /\ Between /\ ~died /\ n[1] \in world => n[2] \in world

\* rename_article_s3_objects, of an ingest that completes: "rename article
\* objects on S3 and apply the renamed file names to the article XML file".
RenamedInXml ==
    outcome = "COMPLETED" /\ "versioned files" \in world =>
        "versioned names in XML" \in world

-----------------------------------------------------------------------------
(* What is sent.                                                             *)

\* What is sent again by the next attempt when it is unknown whether it has
\* arrived: the activity catches the exception of a transfer whose answer was
\* lost, or whose connection could not be closed after the last file
\* (ftp_to_endpoint of PMCDeposit, FTPArticle and DepositAcceptedSubmissionVideos,
\* send_message of PublishToLax, doaj_post_request of DepositDOAJ), and asks to
\* be made again.
SentAgain == {
    "first file at endpoint", "last file at endpoint", "zip at PMC",
    "videos to Glencoe", "publication request to Lax", "article to DOAJ"}

\* A message, mail, commit, deposit or start of a workflow is not sent twice by
\* the attempts of an activity unless one of them died after sending it, also
\* when it failed after that for another reason; but for what is above.
RepeatsAreFaults ==
    repeated \in {"nothing"} \cup SentAgain \/ died

\* Lax is asked to ingest only a version whose assets are all in the CDN.
DepositedBeforeIngest ==
    "ingest request to Lax" \in world =>
        {"JPGs in CDN", "ingest assets in CDN", "assets in CDN"} \subseteq world

\* What is moved to a published folder, and what must have been sent by then.
SentFor == {
    <<"published pubmed file", {"XML at PubMed"}>>,
    <<"published crossref file", {"crossref deposit", "crossref version deposit"}>>,
    <<"published minimal file", {"minimal deposit"}>>,
    <<"published preprint file", {"preprint deposit", "preprint version deposit"}>>,
    <<"published review file", {"review deposit"}>>,
    <<"published pending file", {"pending deposit", "pending version deposit"}>>,
    <<"published PoA XML", {"PoA zip of the next revision"}>>}

\* An article leaves an outbox for the published folder only when it was sent.
\* (The outboxes of PubRouterDeposit are not in the list: it moves an article
\* also when its workflow could not be started.)
MovedWhenSent ==
    \A s \in SentFor : s[1] \in world => s[2] \cap world # {}

\* When the look for new docmaps is over, the ingest of what has changed was
\* asked for, or an attempt died.
ChangesFound ==
    /\ workflow = "FindNewDocmaps" /\ outcome = "COMPLETED" /\ ~died
    /\ "docmaps to ingest" \in world
    => "IngestMeca starts" \in world

-----------------------------------------------------------------------------
(* The end.                                                                  *)

\* The services whose refusal has an activity made again without a limit.
Waited == {
    "dashboard accepts", "Glencoe has videos", "Glencoe answers",
    "Lax answers", "GitHub accepts", "BigQuery answers",
    "zip downloaded", "retraction known", "SWF answers"}

Refusal == Caught \/ (Doing({"ask"}) /\ What \in Waited /\ What \notin flags')

\* The workflows that wait for a service at most a counted number of times.
Bounded == {
    "IngestMeca", "SilentIngestMeca", "IngestDigest", "IngestDecisionLetter",
    "SoftwareHeritageDeposit", "FindReingestPreprint", "PubmedArticleDeposit",
    "DepositCrossrefPendingPublication", "PackagePOA", "PublishPOA",
    "LensArticlePublish", "CopyGlencoeStillImages", "Ping"}

\* An attempt dies that would not have failed at this operation anyway.
Death == Fault /\ ~Fail /\ ~Lack

\* SWF goes on offering an open activity to the workers, which poll (this is
\* WF_vars(Next), for Next is enabled just while the execution is open, and no
\* other step changes a variable); attempts do not die for ever; and, but for the workflows above, the outside
\* refuses only for a while.
FairSpec ==
    /\ Spec
    /\ []<>(outcome # "OPEN") \/ []<><<TRUE>>_vars
    /\ <>[][~Death]_vars
    /\ workflow \in Bounded \/ <>[][~Refusal]_vars

\* Settings and articles with which an activity fails whenever it is made.
Hopeless ==
    \E fact \in {"PDF in manifest", "credentials", "known protocol",
                 "folders known", "zip repackages"} \cap DOMAIN facts : ~facts[fact]

\* Every execution closes, unless it has come to an activity that no attempt
\* can do any more.
EventuallyCloses ==
    <>(outcome # "OPEN" \/ Hopeless \/ missing \in GoneOnRetry \cup UnsetByConfiguration)

-----------------------------------------------------------------------------
(* The whole.                                                                *)

\* No activity of a workflow is passed over, although the decider looks up by
\* id whether it has been done (helper.py), and the workflow completes after
\* the last one.
EveryStepRuns ==
    [][/\ step' <= step + 1
       /\ outcome' = "COMPLETED" => step = Len(Workflows[workflow])]_vars
=============================================================================
