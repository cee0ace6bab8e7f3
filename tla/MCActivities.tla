---------------------------- MODULE MCActivities ----------------------------
(***************************************************************************)
(* ActivityExecution with the scripts of the activities and the shipped     *)
(* workflows, but for PublicationEmail, which has a module of its own.      *)
(***************************************************************************)
EXTENDS ActivityPromises, ArticleActivities, AcceptedSubmissionActivities,
        DigestActivities, PreprintActivities, DocmapActivities,
        SoftwareHeritageActivities, DownstreamActivities

W == INSTANCE WorkflowDefinitions

\* The second VerifyGlencoe of an ingest is the same activity.
ShippedScripts == [
    PingWorker |-> PingWorker, AdminEmailHistory |-> AdminEmailHistory,
    PublishToLax |-> PublishToLax,
    CopyGlencoeStillImages |-> CopyGlencoeStillImages,
    DepositCrossrefMinimal |-> DepositCrossrefMinimal,
    DepositCrossrefPostedContent |-> DepositCrossrefPostedContent,
    DepositCrossref |-> DepositCrossref,
    DepositCrossrefPeerReview |-> DepositCrossrefPeerReview,
    DepositCrossrefPendingPublication |-> DepositCrossrefPendingPublication,
    DepositDOAJ |-> DepositDOAJ, FTPArticle |-> FTPArticle,
    FindFuturePreprints |-> FindFuturePreprints,
    DownloadDocmapIndex |-> DownloadDocmapIndex,
    FindNewDocmaps |-> FindNewDocmaps, FindNewPreprints |-> FindNewPreprints,
    FindReingestPreprint |-> FindReingestPreprint,
    ExpandAcceptedSubmission |-> ExpandAcceptedSubmission,
    RepairAcceptedSubmission |-> RepairAcceptedSubmission,
    AcceptedSubmissionDocmap |-> AcceptedSubmissionDocmap,
    ValidateAcceptedSubmission |-> ValidateAcceptedSubmission,
    ValidateAcceptedSubmissionVideos |-> ValidateAcceptedSubmissionVideos,
    RenameAcceptedSubmissionVideos |-> RenameAcceptedSubmissionVideos,
    DepositAcceptedSubmissionVideos |-> DepositAcceptedSubmissionVideos,
    AnnotateAcceptedSubmissionVideos |-> AnnotateAcceptedSubmissionVideos,
    TransformAcceptedSubmission |-> TransformAcceptedSubmission,
    AcceptedSubmissionVersionDoi |-> AcceptedSubmissionVersionDoi,
    AcceptedSubmissionHistory |-> AcceptedSubmissionHistory,
    AcceptedSubmissionStrikingImages |-> AcceptedSubmissionStrikingImages,
    AcceptedSubmissionPeerReviews |-> AcceptedSubmissionPeerReviews,
    AcceptedSubmissionPeerReviewImages |-> AcceptedSubmissionPeerReviewImages,
    AcceptedSubmissionPeerReviewFigs |-> AcceptedSubmissionPeerReviewFigs,
    AcceptedSubmissionPeerReviewTables |-> AcceptedSubmissionPeerReviewTables,
    AcceptedSubmissionPeerReviewOcr |-> AcceptedSubmissionPeerReviewOcr,
    AddCommentsToAcceptedSubmissionXml |-> AddCommentsToAcceptedSubmissionXml,
    ScheduleCrossrefPendingPublication |-> ScheduleCrossrefPendingPublication,
    OutputAcceptedSubmission |-> OutputAcceptedSubmission,
    EmailAcceptedSubmissionOutput |-> EmailAcceptedSubmissionOutput,
    VersionLookup |-> VersionLookup, ExpandArticle |-> ExpandArticle,
    SendDashboardProperties |-> SendDashboardProperties,
    ApplyVersionNumber |-> ApplyVersionNumber,
    VerifyGlencoe |-> VerifyGlencoe,
    ConvertImagesToJPG |-> ConvertImagesToJPG,
    DepositIngestAssets |-> DepositIngestAssets,
    DepositAssets |-> DepositAssets, InvalidateCdn |-> InvalidateCdn,
    VerifyImageServer |-> VerifyImageServer,
    VerifyGlencoeAgain |-> VerifyGlencoe, IngestToLax |-> IngestToLax,
    ValidateDecisionLetterInput |-> ValidateDecisionLetterInput,
    GenerateDecisionLetterJATS |-> GenerateDecisionLetterJATS,
    DepositDecisionLetterIngestAssets |-> DepositDecisionLetterIngestAssets,
    PostDecisionLetterJATS |-> PostDecisionLetterJATS,
    ValidateDigestInput |-> ValidateDigestInput, EmailDigest |-> EmailDigest,
    DepositDigestIngestAssets |-> DepositDigestIngestAssets,
    CopyDigestToOutbox |-> CopyDigestToOutbox,
    PostDigestJATS |-> PostDigestJATS, MecaDetails |-> MecaDetails,
    ExpandMeca |-> ExpandMeca, ModifyMecaFiles |-> ModifyMecaFiles,
    ModifyMecaXml |-> ModifyMecaXml, MecaPeerReviews |-> MecaPeerReviews,
    MecaPeerReviewImages |-> MecaPeerReviewImages,
    MecaPeerReviewFigs |-> MecaPeerReviewFigs,
    MecaPeerReviewTables |-> MecaPeerReviewTables,
    MecaPeerReviewEquations |-> MecaPeerReviewEquations,
    PreprintOcr |-> PreprintOcr, MecaXslt |-> MecaXslt,
    MecaEnrichRefs |-> MecaEnrichRefs, ValidateJatsDtd |-> ValidateJatsDtd,
    ValidatePreprintSchematron |-> ValidatePreprintSchematron,
    GeneratePreprintPDF |-> GeneratePreprintPDF,
    ReplacePreprintPDF |-> ReplacePreprintPDF, OutputMeca |-> OutputMeca,
    EmailMecaOutput |-> EmailMecaOutput,
    AddPreprintIssueLabel |-> AddPreprintIssueLabel,
    LensArticle |-> LensArticle, PMCDeposit |-> PMCDeposit,
    PackagePOA |-> PackagePOA,
    VerifyPublishResponse |-> VerifyPublishResponse,
    ArchiveArticle |-> ArchiveArticle,
    ScheduleDownstream |-> ScheduleDownstream,
    ScheduleCrossref |-> ScheduleCrossref,
    ScheduleCrossrefMinimal |-> ScheduleCrossrefMinimal,
    ScheduleCrossrefPeerReview |-> ScheduleCrossrefPeerReview,
    UpdateRepository |-> UpdateRepository,
    EmailVideoArticlePublished |-> EmailVideoArticlePublished,
    PublishDigest |-> PublishDigest,
    CreateDigestMediumPost |-> CreateDigestMediumPost,
    MecaPostPublicationDetails |-> MecaPostPublicationDetails,
    InvalidatePreprintCdn |-> InvalidatePreprintCdn,
    ModifyMecaPublishedXml |-> ModifyMecaPublishedXml,
    ScheduleCrossrefPreprint |-> ScheduleCrossrefPreprint,
    SchedulePreprintDownstream |-> SchedulePreprintDownstream,
    ArchivePreprint |-> ArchivePreprint,
    PreprintRepository |-> PreprintRepository,
    DepositPreprintAssets |-> DepositPreprintAssets,
    StartMecaImport |-> StartMecaImport,
    VerifyLaxResponse |-> VerifyLaxResponse,
    IngestDigestToEndpoint |-> IngestDigestToEndpoint,
    ReadyToPublish |-> ReadyToPublish, PubRouterDeposit |-> PubRouterDeposit,
    PublishFinalPOA |-> PublishFinalPOA,
    PubmedArticleDeposit |-> PubmedArticleDeposit,
    VersionDateLookup |-> VersionDateLookup,
    ModifyArticleSubjects |-> ModifyArticleSubjects, ResetMeca |-> ResetMeca,
    SilentPublishPreprint |-> SilentPublishPreprint,
    DownstreamStart |-> DownstreamStart, PackageSWH |-> PackageSWH,
    GenerateSWHMetadata |-> GenerateSWHMetadata,
    GenerateSWHReadme |-> GenerateSWHReadme,
    PushSWHDeposit |-> PushSWHDeposit]

Ids(definition) == [n \in DOMAIN definition |-> definition[n][1]]

ShippedWorkflows == [
    AdminEmail |-> Ids(W!AdminEmail),
    ApproveArticlePublication |-> Ids(W!ApproveArticlePublication),
    CopyGlencoeStillImages |-> Ids(W!CopyGlencoeStillImages),
    DepositCrossref |-> Ids(W!DepositCrossref),
    DepositCrossrefPeerReview |-> Ids(W!DepositCrossrefPeerReview),
    DepositCrossrefPendingPublication |-> Ids(W!DepositCrossrefPendingPublication),
    DepositDOAJ |-> Ids(W!DepositDOAJ), FTPArticle |-> Ids(W!FTPArticle),
    FindFuturePreprints |-> Ids(W!FindFuturePreprints),
    FindNewDocmaps |-> Ids(W!FindNewDocmaps),
    FindReingestPreprint |-> Ids(W!FindReingestPreprint),
    IngestAcceptedSubmission |-> Ids(W!IngestAcceptedSubmission),
    IngestArticleZip |-> Ids(W!IngestArticleZip),
    IngestDecisionLetter |-> Ids(W!IngestDecisionLetter),
    IngestDigest |-> Ids(W!IngestDigest), IngestMeca |-> Ids(W!IngestMeca),
    LensArticlePublish |-> Ids(W!LensArticlePublish),
    PMCDeposit |-> Ids(W!PMCDeposit), PackagePOA |-> Ids(W!PackagePOA),
    Ping |-> Ids(W!Ping),
    PostPerfectPublication |-> Ids(W!PostPerfectPublication),
    PostPreprintPublication |-> Ids(W!PostPreprintPublication),
    ProcessArticleZip |-> Ids(W!ProcessArticleZip),
    PubRouterDeposit |-> Ids(W!PubRouterDeposit),
    PublishPOA |-> Ids(W!PublishPOA),
    PubmedArticleDeposit |-> Ids(W!PubmedArticleDeposit),
    SilentCorrectionsIngest |-> Ids(W!SilentCorrectionsIngest),
    SilentCorrectionsProcess |-> Ids(W!SilentCorrectionsProcess),
    SilentIngestMeca |-> Ids(W!SilentIngestMeca),
    SoftwareHeritageDeposit |-> Ids(W!SoftwareHeritageDeposit)]

-----------------------------------------------------------------------------
(* What the starters put in the input of a workflow. *)

ZipInput == {"run", "file_name", "bucket_name", "version_lookup_function", "run_type"}

FileInput == {"run", "file_name", "bucket_name"}

LaxInput == {
    "run", "article_id", "version", "expanded_folder", "status", "result",
    "message", "update_date", "requested_action", "force", "run_type"}

PreprintInput == {"run", "article_id", "version", "standalone"}

ShippedInputs == [w \in DOMAIN ShippedWorkflows |->
    CASE w \in {"IngestArticleZip", "SilentCorrectionsIngest"} -> ZipInput
      [] w \in {"IngestAcceptedSubmission", "IngestDigest",
                "IngestDecisionLetter", "SilentIngestMeca"} -> FileInput
      [] w \in {"ProcessArticleZip", "SilentCorrectionsProcess",
                "PostPerfectPublication"} -> LaxInput
      [] w = "ApproveArticlePublication" ->
            {"run", "article_id", "version", "publication_data"}
      [] w \in {"IngestMeca", "PostPreprintPublication"} -> PreprintInput
      [] w = "CopyGlencoeStillImages" ->
            {"run", "article_id", "version", "standalone", "standalone_is_poa"}
      [] w \in {"LensArticlePublish", "DepositDOAJ"} -> {"article_id"}
      [] w = "SoftwareHeritageDeposit" ->
            {"run", "article_id", "input_file", "version", "workflow"}
      [] w = "FTPArticle" ->
            {"elife_id", "workflow", "version", "publication_state"}
      [] w = "PubRouterDeposit" -> {"workflow"}
      [] w \in {"PMCDeposit", "PackagePOA"} -> {"run", "document"}
      [] OTHER -> {"run"}]

\* An outbox is empty or has a file.
MaybeFile(file) == {{}, {file}}

ShippedGivens == [w \in DOMAIN ShippedWorkflows |->
    CASE w \in {"IngestArticleZip", "SilentCorrectionsIngest"} -> {{"article zip"}}
      [] w \in {"IngestAcceptedSubmission", "IngestDigest",
                "IngestDecisionLetter"} -> {{"input file"}}
      [] w \in {"ProcessArticleZip", "SilentCorrectionsProcess"} ->
            {{"versioned XML", "digest docx"}, {"versioned XML"}}
      [] w = "ApproveArticlePublication" -> {{"versioned XML"}}
      [] w = "PostPerfectPublication" ->
            {{"versioned XML", "versioned files", "versioned names in XML",
              "published XML"} \cup digest :
                digest \in {{}, {"digest docx", "digest preview"}}}
      [] w = "LensArticlePublish" -> MaybeFile("published XML")
      [] w = "FindNewDocmaps" ->
            {{"docmaps to ingest"}, {"index of the previous run"},
             {"docmaps to ingest", "index of the previous run"}}
      [] w = "FindReingestPreprint" -> MaybeFile("assigned issues")
      [] w = "DepositCrossref" ->
            {{}, {"crossref file", "minimal file", "preprint file", "review file"}}
      [] w = "DepositCrossrefPeerReview" -> MaybeFile("review file")
      [] w = "DepositCrossrefPendingPublication" -> MaybeFile("pending file")
      [] w = "PubRouterDeposit" -> MaybeFile("router file")
      [] w = "PubmedArticleDeposit" -> MaybeFile("pubmed file")
      [] w = "PublishPOA" -> SUBSET {"PoA PDF", "PoA XML", "PoA ds zip"}
      [] OTHER -> {{}}]

\* Bound: MAX_ATTEMPTS of the activities.
ShippedMaximum ==
    [video_deposit_ftp_attempt_count |-> 3, video_metadata_attempt_count |-> 12]
    @@ [c \in {"meca_xslt_attempt_count", "meca_enrich_refs_attempt_count",
               "validate_jats_dtd_attempt_count",
               "validate_preprint_schematron_attempt_count",
               "generate_preprint_pdf_attempt_count"} |-> 4]

\* What the properties relate to what later activities still deal with.
ShippedCompanions ==
    [s \in {"ingest request to Lax"} |->
        {"JPGs in CDN", "ingest assets in CDN", "assets in CDN",
         "versioned files", "versioned names in XML"}]
    @@ [s \in {"versioned files"} |-> {"versioned names in XML"}]
    @@ [s \in {"PostPreprintPublication starts"} |->
            {"docmaps to ingest", "IngestMeca starts"}]
    @@ [s \in {"images in XML"} |-> {"images", "figures", "images in manifest"}]
    @@ [s \in {"article images in XML"} |-> {"images", "figures"}]

-----------------------------------------------------------------------------
(* TLC keeps the value of a definition, not that of what stands for a         *)
(* constant.                                                                  *)

MCScripts == ShippedScripts
MCWorkflows == ShippedWorkflows
MCInputs == ShippedInputs
MCGivens == ShippedGivens
MCMaximum == ShippedMaximum
MCCompanions == ShippedCompanions
=============================================================================
