------------------------ MODULE WorkflowDefinitions ------------------------
(***************************************************************************)
(* The workflow definitions of workflow/workflow_*.py: the activity ids of  *)
(* their steps, in order.  An id is the activity type, except the second    *)
(* VerifyGlencoe of an ingest, whose id is VerifyGlencoeAgain.  Time-outs   *)
(* and the input passed to every step are left out.                         *)
(***************************************************************************)
EXTENDS Naturals, Sequences

\* define_workflow_step: each step of a shipped definition is one activity.
Steps(ids) == [n \in DOMAIN ids |-> <<ids[n]>>]

AdminEmail == Steps(<<
    "PingWorker", "AdminEmailHistory">>)

ApproveArticlePublication == Steps(<<
    "PingWorker", "PublishToLax">>)

CopyGlencoeStillImages == Steps(<<
    "PingWorker", "CopyGlencoeStillImages">>)

DepositCrossref == Steps(<<
    "PingWorker", "DepositCrossrefMinimal",
    "DepositCrossrefPostedContent", "DepositCrossref",
    "DepositCrossrefPeerReview">>)

DepositCrossrefPeerReview == Steps(<<
    "PingWorker", "DepositCrossrefPeerReview">>)

DepositCrossrefPendingPublication == Steps(<<
    "PingWorker", "DepositCrossrefPendingPublication">>)

DepositDOAJ == Steps(<<
    "PingWorker", "DepositDOAJ">>)

FTPArticle == Steps(<<
    "PingWorker", "FTPArticle">>)

FindFuturePreprints == Steps(<<
    "PingWorker", "FindFuturePreprints">>)

FindNewDocmaps == Steps(<<
    "PingWorker", "DownloadDocmapIndex", "FindNewDocmaps",
    "FindNewPreprints">>)

FindReingestPreprint == Steps(<<
    "PingWorker", "FindReingestPreprint">>)

IngestAcceptedSubmission == Steps(<<
    "PingWorker", "ExpandAcceptedSubmission", "RepairAcceptedSubmission",
    "AcceptedSubmissionDocmap", "ValidateAcceptedSubmission",
    "ValidateAcceptedSubmissionVideos", "RenameAcceptedSubmissionVideos",
    "DepositAcceptedSubmissionVideos", "AnnotateAcceptedSubmissionVideos",
    "TransformAcceptedSubmission", "AcceptedSubmissionVersionDoi",
    "AcceptedSubmissionHistory", "AcceptedSubmissionStrikingImages",
    "AcceptedSubmissionPeerReviews", "AcceptedSubmissionPeerReviewImages",
    "AcceptedSubmissionPeerReviewFigs",
    "AcceptedSubmissionPeerReviewTables",
    "AcceptedSubmissionPeerReviewOcr",
    "AddCommentsToAcceptedSubmissionXml",
    "ScheduleCrossrefPendingPublication", "OutputAcceptedSubmission",
    "EmailAcceptedSubmissionOutput">>)

\* Mutant: the second VerifyGlencoe goes by the same id as the first.
IngestArticleZipSameId == Steps(<<
    "PingWorker", "VersionLookup", "ExpandArticle",
    "SendDashboardProperties", "ApplyVersionNumber", "VerifyGlencoe",
    "ConvertImagesToJPG", "DepositIngestAssets", "CopyGlencoeStillImages",
    "DepositAssets", "InvalidateCdn", "VerifyImageServer",
    "VerifyGlencoe", "IngestToLax">>)

IngestArticleZip == Steps(<<
    "PingWorker", "VersionLookup", "ExpandArticle",
    "SendDashboardProperties", "ApplyVersionNumber", "VerifyGlencoe",
    "ConvertImagesToJPG", "DepositIngestAssets", "CopyGlencoeStillImages",
    "DepositAssets", "InvalidateCdn", "VerifyImageServer",
    "VerifyGlencoeAgain", "IngestToLax">>)

IngestDecisionLetter == Steps(<<
    "PingWorker", "ValidateDecisionLetterInput",
    "GenerateDecisionLetterJATS", "DepositDecisionLetterIngestAssets",
    "PostDecisionLetterJATS">>)

IngestDigest == Steps(<<
    "PingWorker", "ValidateDigestInput", "EmailDigest",
    "DepositDigestIngestAssets", "CopyDigestToOutbox", "PostDigestJATS">>)

IngestMeca == Steps(<<
    "PingWorker", "MecaDetails", "ExpandMeca", "ModifyMecaFiles",
    "ModifyMecaXml", "MecaPeerReviews", "MecaPeerReviewImages",
    "MecaPeerReviewFigs", "MecaPeerReviewTables",
    "MecaPeerReviewEquations", "PreprintOcr", "MecaXslt",
    "MecaEnrichRefs", "ValidateJatsDtd", "ValidatePreprintSchematron",
    "GeneratePreprintPDF", "ReplacePreprintPDF", "OutputMeca",
    "EmailMecaOutput", "AddPreprintIssueLabel">>)

LensArticlePublish == Steps(<<
    "PingWorker", "LensArticle">>)

PMCDeposit == Steps(<<
    "PingWorker", "PMCDeposit">>)

PackagePOA == Steps(<<
    "PingWorker", "PackagePOA">>)

Ping == Steps(<<
    "PingWorker">>)

PostPerfectPublication == Steps(<<
    "PingWorker", "VerifyPublishResponse", "ArchiveArticle",
    "LensArticle", "ScheduleDownstream", "ScheduleCrossref",
    "ScheduleCrossrefMinimal", "ScheduleCrossrefPeerReview",
    "UpdateRepository", "EmailVideoArticlePublished", "PublishDigest",
    "CreateDigestMediumPost", "DepositDOAJ">>)

PostPreprintPublication == Steps(<<
    "PingWorker", "MecaPostPublicationDetails", "InvalidatePreprintCdn",
    "ExpandMeca", "ModifyMecaPublishedXml", "GeneratePreprintPDF",
    "ReplacePreprintPDF", "ScheduleCrossrefPreprint",
    "SchedulePreprintDownstream", "OutputMeca", "ArchivePreprint",
    "PreprintRepository", "DepositPreprintAssets", "StartMecaImport">>)

ProcessArticleZip == Steps(<<
    "PingWorker", "VerifyLaxResponse", "IngestDigestToEndpoint",
    "ReadyToPublish">>)

PubRouterDeposit == Steps(<<
    "PingWorker", "PubRouterDeposit">>)

PublicationEmail == Steps(<<
    "PingWorker", "PublicationEmail">>)

PublishPOA == Steps(<<
    "PingWorker", "PublishFinalPOA">>)

PubmedArticleDeposit == Steps(<<
    "PingWorker", "PubmedArticleDeposit">>)

SilentCorrectionsIngest == Steps(<<
    "PingWorker", "VersionLookup", "VersionDateLookup", "ExpandArticle",
    "SendDashboardProperties", "ApplyVersionNumber",
    "ModifyArticleSubjects", "VerifyGlencoe", "ConvertImagesToJPG",
    "DepositIngestAssets", "CopyGlencoeStillImages", "DepositAssets",
    "InvalidateCdn", "VerifyGlencoeAgain", "IngestToLax">>)

SilentCorrectionsProcess == Steps(<<
    "PingWorker", "VerifyLaxResponse", "IngestDigestToEndpoint",
    "PublishToLax">>)

SilentIngestMeca == Steps(<<
    "PingWorker", "MecaDetails", "ExpandMeca", "ResetMeca",
    "ModifyMecaFiles", "ModifyMecaXml", "MecaPeerReviews",
    "MecaPeerReviewImages", "MecaPeerReviewFigs", "MecaPeerReviewTables",
    "MecaPeerReviewEquations", "MecaXslt", "OutputMeca",
    "SilentPublishPreprint">>)

SoftwareHeritageDeposit == Steps(<<
    "PingWorker", "DownstreamStart", "PackageSWH", "GenerateSWHMetadata",
    "GenerateSWHReadme", "PushSWHDeposit">>)
=============================================================================
