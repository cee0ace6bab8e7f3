------------------------- MODULE DigestActivities -------------------------
(***************************************************************************)
(* The activities of the digest and decision letter workflows, and those by *)
(* which the ingest and publication of an article ingest and publish its    *)
(* digest, as scripts in the words of ActivityOps.  "digest docx" is the    *)
(* object of the digest's folder of the outbox in the bot bucket.           *)
(***************************************************************************)
EXTENDS ActivityOps

\* parse_activity_data, and the download of the file the workflow is about
OpenInput == Input("file_name") \o Read("input file")

\* The mails that report a failure go out as well as the connection allows.
ReportError == Send("error email")

ValidateDigestInput ==
    OpenInput
    \o Fact("valid digest")
    \o Unless("valid digest", ReportError \o Refuse)

\* What validate_digest finds decides only whether there is a mail.
EmailDigest ==
    OpenInput
    \o Fact("digest builds") \o Unless("digest builds", Refuse)
    \o Fact("valid digest") \o When("valid digest", Send("digest email"))

DepositDigestIngestAssets ==
    OpenInput
    \o Fact("digest builds") \o Unless("digest builds", Refuse)
    \o Fact("digest image") \o Unless("digest image", Succeed)
    \o Write("digest image in CDN")

\* clean_outbox, then copy_files_to_outbox
CopyDigestToOutbox ==
    OpenInput
    \o Fact("digest builds") \o Unless("digest builds", Refuse)
    \o Look("digest docx") \o When("digest docx", Drop("digest docx"))
    \o Write("digest docx")

\* Whatever goes wrong with the post, a mail says so and the activity succeeds.
PostDigestJATS ==
    Fact("typesetter endpoint") \o Unless("typesetter endpoint", Succeed)
    \o Input("file_name")
    \o Fact("silent digest") \o When("silent digest", Succeed)
    \o OpenInput
    \o Fact("digest builds") \o Unless("digest builds", ReportError \o Succeed)
    \o Fact("digest JATS") \o Unless("digest JATS", ReportError \o Succeed)
    \o Try("posted", Send("digest JATS post"))
    \o Either("posted", Send("digest posted email"), ReportError)

\* session_data, and the tests of approve
ApproveDigest ==
    Fact("approved by status") \o Unless("approved by status", Succeed)

IngestDigestToEndpoint ==
    Session \o Get("version") \o Get("article_id")
    \o Ask("dashboard accepts") \o Unless("dashboard accepts", Refuse)
    \o Get("status") \o Get("run_type")
    \o ApproveDigest
    \o Ask("approved by Lax") \o Unless("approved by Lax", Succeed)
    \o Look("digest docx") \o Unless("digest docx", Succeed)
    \o Try("gathered",
           Read("digest docx") \o Need("expanded_folder")
           \o Read("versioned XML")
           \o Ask("Lax answers") \o Unless("Lax answers", Clear("gathered")))
    \o Unless("gathered", ReportError \o Succeed)
    \o Fact("digest JSON builds")
    \o Unless("digest JSON builds", ReportError \o Succeed)
    \o Try("put", Send("digest preview"))
    \o Unless("put", ReportError \o Succeed)

\* An exception is logged, and the activity is a success all the same.
PublishDigest ==
    Ask("dashboard accepts") \o Unless("dashboard accepts", Refuse)
    \o ApproveDigest
    \o Look("digest preview") \o Unless("digest preview", Succeed)
    \o Fact("digest published already")
    \o Unless("digest published already",
            Ask("Lax answers") \o Unless("Lax answers", Succeed)
            \o Try("put", Send("published digest")))

CreateDigestMediumPost ==
    Ask("dashboard accepts") \o Unless("dashboard accepts", Refuse)
    \o Fact("medium credentials") \o Unless("medium credentials", Succeed)
    \o Look("digest docx") \o Unless("digest docx", Succeed)
    \o ApproveDigest
    \o Fact("silent correction") \o When("silent correction", Succeed)
    \o Ask("first vor") \o Unless("first vor", Succeed)
    \o Try("gathered", Read("digest docx") \o Read("versioned XML"))
    \o Unless("gathered", Succeed)
    \o Fact("medium content") \o Unless("medium content", Succeed)
    \o Try("posted", Send("medium post"))
    \o When("posted", Try("emailed", Send("medium email")))

-----------------------------------------------------------------------------
(* Decision letters. *)

ValidateDecisionLetterInput ==
    OpenInput
    \o Fact("valid letter")
    \o Unless("valid letter", ReportError \o Refuse)

GenerateDecisionLetterJATS ==
    Session \o OpenInput
    \o OrRefuse(Write("letter XML"))
    \o Put("bucket_folder_name") \o Put("xml_file_name")

DepositDecisionLetterIngestAssets ==
    Input("file_name")
    \o OrRefuse(
        Read("input file") \o Check("letter processed")
        \o Fact("letter assets") \o Unless("letter assets", Succeed)
        \o Write("letter assets in bucket"))

\* A post that fails ends the workflow after a mail.
PostDecisionLetterJATS ==
    Session \o Get("bucket_folder_name") \o Get("xml_file_name")
    \o Unless("bucket_folder_name", Refuse) \o Unless("xml_file_name", Refuse)
    \o Fact("typesetter endpoint") \o Unless("typesetter endpoint", Refuse)
    \o Read("letter XML")
    \o Fact("letter DOI") \o Unless("letter DOI", Refuse)
    \o Try("posted", Send("letter JATS post"))
    \o Unless("posted", ReportError \o Refuse)
    \o Send("letter posted email")

\* No shipped workflow has this activity.
DecisionLetterReceipt ==
    Input("file_name")
    \o OrRetry(Send("letter receipt"))
=============================================================================
