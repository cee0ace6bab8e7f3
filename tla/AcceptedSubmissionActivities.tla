-------------------- MODULE AcceptedSubmissionActivities --------------------
(***************************************************************************)
(* The activities of the workflow IngestAcceptedSubmission, as scripts in   *)
(* the words of ActivityOps, and the parts of activity/objects.py they      *)
(* share.  "article XML" and the other things are objects of the expanded   *)
(* folder of the submission in the bot bucket; "... in XML" says that the   *)
(* uploaded XML names or contains what is meant.                            *)
(***************************************************************************)
EXTENDS ActivityOps

\* AcceptedBaseActivity.read_session, and the download of the XML by its name
\* in the listing of the expanded folder.
OpenSubmission ==
    Need("expanded_folder") \o Need("input_filename") \o Need("article_id")
    \o Read("article XML")

\* end_cleaner_log: what was logged is appended to the stored cleaner_log.
EndCleanerLog == Put("cleaner_log")

\* upload_xml_file_to_bucket
UploadXml == Write("article XML")

\* send_error_email and the result that follows
Complain(result) == Send("error email") \o result

\* copy_expanded_folder_file finds no object under the old name.
Rename(old, new) == Write(new) \o Drop(old)

ExpandAcceptedSubmission ==
    Put("run") \o Put("input_filename") \o Put("input_bucket_name")
    \o Put("input_bucket_folder") \o Put("article_id")
    \o Try("expanded",
           Read("input file") \o Write("expanded files") \o Write("videos")
           \o Write("code files") \o Write("cover art")
           \o Fact("XML in zip") \o When("XML in zip", Write("article XML"))
           \o Put("expanded_folder"))
    \o Unless("expanded", Refuse)
    \o Unless("XML in zip", Refuse)
    \o Fact("PRC article")
    \o When("PRC article", Put("prc_status"))
    \o Unless("PRC article", PutBlank("prc_status"))

RepairAcceptedSubmission ==
    OpenSubmission
    \o Fact("XML parses") \o When("XML parses", UploadXml)
    \o EndCleanerLog

\* The docmap is fetched with retries; without one the activity goes on.
AcceptedSubmissionDocmap ==
    Need("input_filename") \o Need("article_id")
    \o Get("prc_status") \o Unless("prc_status", Succeed)
    \o Ask("docmap found")
    \o When("docmap found",
            Put("docmap_datetime_string") \o Put("docmap_string"))

\* A missing preprint URL is only logged, a missing docmap ends the workflow.
ValidateAcceptedSubmission ==
    Get("prc_status") \o OpenSubmission
    \o Fact("XML parses") \o Unless("XML parses", Complain(Refuse))
    \o Fact("preprint URL")
    \o When("preprint URL", Put("preprint_url"))
    \o Unless("preprint URL", PutBlank("preprint_url"))
    \o Get("docmap_string")
    \o When("prc_status", Unless("docmap_string", Complain(Refuse)))
    \o Read("expanded files")
    \o EndCleanerLog

\* When the metadata service answers anything but "article has no videos" the
\* article's videos are not deposited; an unforeseen answer raises.
ValidateAcceptedSubmissionVideos ==
    OpenSubmission
    \o Fact("videos") \o Fact("video data valid")
    \o When("videos", Unless("video data valid", Complain(Refuse)))
    \o When("videos",
            Ask("Glencoe answers") \o Unless("Glencoe answers", Raise)
            \o Ask("Glencoe has videos")
            \o When("Glencoe has videos", PutBlank("deposit_videos"))
            \o Unless("Glencoe has videos",
                 Ask("article has no videos")
                 \o When("article has no videos", Put("deposit_videos"))))
    \o EndCleanerLog

RenameAcceptedSubmissionVideos ==
    Need("expanded_folder")
    \o Get("deposit_videos") \o Unless("deposit_videos", Succeed)
    \o OpenSubmission
    \o Fact("file tags rewritten")
    \o When("file tags rewritten",
            Read("videos") \o Rename("videos", "renamed videos")
            \o UploadXml \o Write("renamed videos in XML"))
    \o EndCleanerLog

\* After MAX_ATTEMPTS failures of the upload the workflow goes on without it.
DepositAcceptedSubmissionVideos ==
    Get("deposit_videos") \o Unless("deposit_videos", Succeed)
    \o Fact("settings") \o Unless("settings", Succeed)
    \o OpenSubmission
    \o Fact("videos")
    \o When("videos",
            Try("deposited", Send("videos to Glencoe") \o Put("annotate_videos"))
            \o Unless("deposited",
                 Count("video_deposit_ftp_attempt_count")
                 \o Unless("video_deposit_ftp_attempt_count", Retry)
                 \o When("video_deposit_ftp_attempt_count", Succeed)))
    \o EndCleanerLog

AnnotateAcceptedSubmissionVideos ==
    Get("annotate_videos") \o Unless("annotate_videos", Succeed)
    \o Fact("settings") \o Unless("settings", Succeed)
    \o OpenSubmission
    \o Ask("Glencoe answers")
    \o Unless("Glencoe answers",
            Count("video_metadata_attempt_count")
            \o Unless("video_metadata_attempt_count", Retry)
            \o When("video_metadata_attempt_count", Succeed))
    \o Fact("XML annotated") \o When("XML annotated", UploadXml)
    \o EndCleanerLog

\* Code files are zipped; with a docmap's volume and elocation id in the XML.
TransformAcceptedSubmission ==
    OpenSubmission
    \o Look("code archive in XML")
    \o Unless("code archive in XML", Read("code files"))
    \o Get("prc_status") \o When("prc_status", Need("docmap_string"))
    \o EndCleanerLog
    \o Fact("files transformed")
    \o When("files transformed",
            Unless("code archive in XML",
                Drop("code files") \o Write("code archive"))
            \o UploadXml \o Write("code archive in XML"))

\* The XML edits that only preprint articles get, from the docmap.
AcceptedSubmissionVersionDoi ==
    Get("prc_status") \o Unless("prc_status", Succeed)
    \o OpenSubmission \o Need("docmap_string")
    \o Fact("version DOI") \o When("version DOI", UploadXml)
    \o EndCleanerLog

AcceptedSubmissionHistory ==
    Get("prc_status") \o Unless("prc_status", Succeed)
    \o OpenSubmission \o Need("docmap_string")
    \o Fact("history") \o When("history", UploadXml)
    \o EndCleanerLog

\* An exception on the way to the striking image bucket is logged only.
AcceptedSubmissionStrikingImages ==
    OpenSubmission
    \o Fact("cover art") \o Unless("cover art", EndCleanerLog \o Succeed)
    \o Read("cover art") \o Rename("cover art", "renamed cover art")
    \o UploadXml \o Write("renamed cover art in XML")
    \o Try("copied", Read("renamed cover art") \o Write("striking image"))
    \o EndCleanerLog

AcceptedSubmissionPeerReviews ==
    Get("prc_status") \o Unless("prc_status", Succeed)
    \o OpenSubmission \o Need("docmap_string")
    \o UploadXml \o Write("reviews in XML")
    \o EndCleanerLog

\* Images that cannot be downloaded are left out, unless none can.
AcceptedSubmissionPeerReviewImages ==
    OpenSubmission
    \o Look("reviews in XML") \o Unless("reviews in XML", Succeed)
    \o Look("article images in XML") \o When("article images in XML", Succeed)
    \o Fact("external images") \o Unless("external images", Succeed)
    \o Ask("images downloaded")
    \o Unless("images downloaded", Complain(Refuse))
    \o Write("images") \o Write("table images")
    \o Write("formula images")
    \o UploadXml \o Write("article images in XML")
    \o EndCleanerLog

\* The same scheme for figures and tables.  A file that is not there under its
\* old name is no reason to fail: a mail is sent and the XML is not uploaded.
ReviewGraphics(old, new, inXml) ==
    OpenSubmission
    \o Look("article images in XML") \o Look(inXml)
    \o Unless("article images in XML", EndCleanerLog \o Succeed)
    \o When(inXml, EndCleanerLog \o Succeed)
    \o Fact("graphics to rename")
    \o When("graphics to rename",
            Look(old) \o Unless(old, Complain(Succeed))
            \o Rename(old, new)
            \o Write(inXml))
    \o UploadXml
    \o EndCleanerLog

AcceptedSubmissionPeerReviewFigs ==
    ReviewGraphics("images", "figures", "article figures in XML")

AcceptedSubmissionPeerReviewTables ==
    ReviewGraphics("table images", "tables", "article tables in XML")

\* Recognised graphics are deleted before the XML that names them is replaced.
AcceptedSubmissionPeerReviewOcr ==
    Fact("settings") \o Unless("settings", Succeed)
    \o OpenSubmission
    \o Look("article images in XML") \o Look("formulae in XML")
    \o Unless("article images in XML", EndCleanerLog \o Succeed)
    \o When("formulae in XML", EndCleanerLog \o Succeed)
    \o Read("formula images")
    \o Ask("graphics recognised")
    \o When("graphics recognised",
            Drop("formula images") \o UploadXml \o Write("formulae in XML"))
    \o EndCleanerLog

AddCommentsToAcceptedSubmissionXml ==
    Need("cleaner_log")
    \o Fact("comments") \o Unless("comments", Succeed)
    \o OpenSubmission
    \o Fact("comments added") \o When("comments added", UploadXml)
    \o EndCleanerLog

ScheduleCrossrefPendingPublication ==
    Need("expanded_folder") \o Read("article XML")
    \o Write("crossref_pending_publication outbox")

\* Any failure of the downloads is logged, and then there is no output.
OutputAcceptedSubmission ==
    Need("expanded_folder") \o Need("input_filename") \o Need("article_id")
    \o Try("download", Read("article XML") \o Read("expanded files"))
    \o When("download", Write("output zip"))

EmailAcceptedSubmissionOutput ==
    Need("input_filename") \o Need("cleaner_log")
    \o Ask("mail server accepts") \o Unless("mail server accepts", Refuse)
    \o Send("output email")
=============================================================================
