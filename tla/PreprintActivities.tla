------------------------- MODULE PreprintActivities -------------------------
(***************************************************************************)
(* The activities that ingest the MECA file of a preprint and follow up its *)
(* publication, as scripts in the words of ActivityOps, and the parts of    *)
(* activity/objects.py they share.  The XML of the preprint is "MECA XML"   *)
(* under the name it came with and "content XML" under the name that        *)
(* ModifyMecaFiles gives it; the session value article_xml_path says which, *)
(* and "content/article_xml_path" stands for its second value.  "... in XML"*)
(* and "... in manifest" say what an uploaded file names.                   *)
(***************************************************************************)
EXTENDS ActivityOps

\* The session values that say where the XML is, and its download.
MecaPaths ==
    Session \o Need("article_xml_path") \o Need("expanded_folder")
    \o Get("version_doi") \o Get("content/article_xml_path")

DownloadMecaXml ==
    Either("content/article_xml_path", Read("content XML"), Read("MECA XML"))

OpenMeca == MecaPaths \o DownloadMecaXml

UploadMecaXml ==
    Either("content/article_xml_path", Write("content XML"), Write("MECA XML"))

\* download_manifest
OpenManifest == Read("manifest")

UploadManifest == Write("manifest")

\* start_cleaner_log and end_cleaner_log
EndLog == Put("cleaner_log")

\* add_github_issue_comment: a failure is only logged.
Comment == Try("commented", Send("issue comment"))

\* Mutant: the attempts are not counted.
AnswerSometime(service, counter, result) == Ask(service) \o Unless(service, Retry)

\* Give up after the MAX_ATTEMPTS-th time the service did not answer.
AnswerWithin(service, counter, result) ==
    Ask(service)
    \o Unless(service,
            Count(counter) \o Either(counter, result, Retry))

-----------------------------------------------------------------------------
(* Details and expansion. *)

MecaDetailsFrom(url) ==
    Session \o Put("run") \o Keep("run_type")
    \o Fact("MECA file in input")
    \o Put("article_id") \o Put("version")
    \o Try("fetched",
           Ask("docmap found") \o Unless("docmap found", Clear("fetched"))
           \o When("docmap found",
                Put("docmap_datetime_string") \o Put("docmap_string")))
    \o Unless("fetched", Refuse)
    \o Fact("docmap parses") \o Unless("docmap parses", Refuse)
    \o Put("version_doi")
    \o Unless("MECA file in input", Fact(url) \o Unless(url, Refuse))
    \o Put("computer_file_url") \o Put("meca_details_module")

MecaDetails == MecaDetailsFrom("input_computer_file_url in docmap")

MecaPostPublicationDetails == MecaDetailsFrom("output_computer_file_url in docmap")

ExpandMeca ==
    Session \o Get("article_id") \o Get("version") \o Get("version_doi")
    \o Need("computer_file_url")
    \o Fact("external bucket")
    \o When("external bucket",
            Ask("role assumed") \o Unless("role assumed", Comment \o Refuse))
    \o OrRefuse(Call("MECA downloaded"))
    \o OrRefuse(
        Check("zip opens")
        \o Write("content files") \o Write("MECA XML") \o Write("manifest")
        \o Write("transfer XML") \o Put("expanded_folder"))
    \o Fact("XML in manifest") \o Unless("XML in manifest", Refuse)
    \o Put("article_xml_path")

\* The files are deleted before the XML and the manifest that name them are
\* replaced.  To delete what is not there is not an error.
ResetMeca ==
    OpenMeca
    \o Fact("reviews shipped") \o Look("reviews reset")
    \o Unless("reviews shipped", EndLog \o Succeed)
    \o When("reviews reset", EndLog \o Succeed)
    \o Fact("review graphics")
    \o When("review graphics", OpenManifest \o Drop("shipped review graphics"))
    \o UploadMecaXml \o Write("reviews reset")
    \o When("review graphics", UploadManifest)
    \o EndLog

\* modify_content_folder: object by object, a copy and a deletion; the copy of
\* an object that is not there raises.
Move(old, new) == Read(old) \o Write(new) \o Drop(old)

\* The listing of the old folder says what is moved; the old name of the XML
\* is moved whether it is listed or not.
MoveContentFolder ==
    Look("content files")
    \o When("content files", Move("content files", "moved content files"))
    \o Move("MECA XML", "content XML")

ModifyMecaFiles ==
    Session \o Need("article_xml_path") \o Get("article_id") \o Get("version")
    \o Need("expanded_folder") \o Get("version_doi") \o Get("run_type")
    \o Get("content/article_xml_path")
    \o OpenManifest
    \o Fact("silent correction") \o Fact("folder or name differs")
    \o Unless("silent correction", Unless("content/article_xml_path",
            When("folder or name differs",
                MoveContentFolder \o Put("content/article_xml_path"))))
    \o Drop("directives XML")
    \o Read("transfer XML")
    \o UploadManifest
    \o When("content files", Write("moved names in manifest"))
    \o Write("transfer XML")
    \o EndLog

-----------------------------------------------------------------------------
(* The XML and the reviews. *)

\* The history, the licence and the editors come from the docmap.
DocmapEdits ==
    Need("docmap_string")
    \o Fact("history in docmap") \o Unless("history in docmap", EndLog \o Refuse)

\* get_data_availability_data, get_funding_data and get_author_data answer None
\* when BigQuery fails; an edit that fails is logged.
BigQueryEdits ==
    Get("run_type") \o Fact("silent correction")
    \o Unless("silent correction", Ask("BigQuery answers"))

ModifyMecaXml ==
    OpenMeca \o DocmapEdits \o BigQueryEdits \o UploadMecaXml \o EndLog

ModifyMecaPublishedXml ==
    OpenMeca \o Need("docmap_string") \o UploadMecaXml \o EndLog

MecaPeerReviews ==
    OpenMeca \o Need("docmap_string")
    \o Fact("reviews build")
    \o Unless("reviews build", Comment \o EndLog \o Succeed)
    \o UploadMecaXml \o Write("reviews in XML") \o EndLog

\* Once the uploaded XML has the names of the images in it, an attempt has
\* nothing left to do: it does not look whether the manifest has them.
MecaPeerReviewImages ==
    OpenMeca \o Get("article_id") \o OpenManifest
    \o Look("reviews in XML") \o Unless("reviews in XML", Succeed)
    \o Fact("inline graphics") \o Unless("inline graphics", Succeed)
    \o Look("images in XML") \o When("images in XML", EndLog \o Succeed)
    \o Ask("images downloaded")
    \o Unless("images downloaded", Comment \o EndLog \o Succeed)
    \o Write("images") \o Write("table images") \o Write("equation images")
    \o UploadMecaXml \o Write("images in XML")
    \o UploadManifest \o Write("images in manifest")
    \o EndLog

\* The scheme of figures, tables and equations.  Files are copied for names
\* used twice and renamed, and so are their names in the manifest.  A new name
\* that collect_transformation_file_details does not find at its place in the
\* XML is a RuntimeError: a comment says so, and XML and manifest are uploaded
\* all the same, the one with names for which there is no file.
ReviewFiles(old, new, inXml, inManifest, unmatched) ==
    OpenMeca
    \o Look("images in XML") \o Look(inXml) \o Look(unmatched)
    \o Fact("graphics to rename")
    \o Unless("images in XML", EndLog \o Succeed)
    \o When(inXml, EndLog \o Succeed) \o When(unmatched, EndLog \o Succeed)
    \o Unless("graphics to rename", EndLog \o Succeed)
    \o OpenManifest \o Fact("new names found")
    \o Either("new names found",
            Read(old) \o Write(new) \o Move(old, new)
            \o UploadMecaXml \o Write(inXml)
            \o UploadManifest \o Write(inManifest),
            Comment \o UploadMecaXml \o Write(unmatched) \o UploadManifest)
    \o EndLog

MecaPeerReviewFigs ==
    ReviewFiles("images", "figures", "figures in XML", "figures in manifest",
                "unmatched figures in XML")

MecaPeerReviewTables ==
    ReviewFiles("table images", "tables", "tables in XML", "tables in manifest",
                "unmatched tables in XML")

MecaPeerReviewEquations ==
    ReviewFiles("equation images", "equations", "equations in XML",
                "equations in manifest", "unmatched equations in XML")

\* file_paths_from_manifest and download_graphics: what cannot be downloaded
\* is skipped.
PreprintOcr ==
    Fact("mathpix endpoint") \o Unless("mathpix endpoint", Succeed)
    \o OpenMeca
    \o Fact("formulae") \o Unless("formulae", Succeed)
    \o OpenManifest
    \o Ask("formulae recognised") \o Unless("formulae recognised", Succeed)
    \o UploadMecaXml \o EndLog

-----------------------------------------------------------------------------
(* Services that check or transform the XML, and the PDF. *)

MecaXslt ==
    Session \o Get("run_type") \o Fact("XSLT endpoint")
    \o Unless("XSLT endpoint", Succeed)
    \o OpenMeca
    \o AnswerWithin("XSLT answers", "meca_xslt_attempt_count", Refuse)
    \o UploadMecaXml

MecaEnrichRefs ==
    Session \o Get("run_type")
    \o Fact("silent correction") \o When("silent correction", Succeed)
    \o Fact("references endpoint") \o Unless("references endpoint", Succeed)
    \o OpenMeca
    \o AnswerWithin("references answered", "meca_enrich_refs_attempt_count", Succeed)
    \o UploadMecaXml

ValidateJatsDtd ==
    Fact("DTD endpoint") \o Unless("DTD endpoint", Succeed)
    \o OpenMeca
    \o AnswerWithin("DTD answered", "validate_jats_dtd_attempt_count", Succeed)
    \o Ask("valid by DTD") \o Unless("valid by DTD", Comment)

ValidatePreprintSchematron ==
    Fact("schematron endpoint") \o Unless("schematron endpoint", Succeed)
    \o OpenMeca
    \o AnswerWithin("schematron answered",
                    "validate_preprint_schematron_attempt_count", Comment \o Succeed)
    \o Comment

\* Everything but the wait for the service ends in success, with or without
\* the PDF.
GeneratePreprintPDF ==
    Fact("PDF endpoint") \o Unless("PDF endpoint", Succeed)
    \o Session \o Get("article_id") \o Get("version")
    \o OpenMeca
    \o AnswerWithin("PDF generated", "generate_preprint_pdf_attempt_count",
                    Comment \o Succeed)
    \o Try("saved", Write("generated PDF")) \o Unless("saved", Succeed)
    \o Put("pdf_s3_path")
    \o Get("meca_details_module") \o When("meca_details_module", Comment)

\* The new PDF is there before the manifest names it, and the manifest names
\* it before the XML does.
ReplacePreprintPDF ==
    Session \o Get("article_id") \o Get("version") \o Get("pdf_s3_path")
    \o Unless("pdf_s3_path", Succeed)
    \o Need("expanded_folder") \o Need("article_xml_path")
    \o OpenManifest
    \o Read("generated PDF") \o Write("new PDF")
    \o Fact("PDF under another name") \o When("PDF under another name", Drop("old PDF"))
    \o UploadManifest \o Write("new PDF in manifest")
    \o OpenMeca \o UploadMecaXml \o Write("new PDF in XML")

\* The listing of the expanded folder, whatever the manifest says of it.
OutputMeca ==
    Fact("MECA bucket") \o Unless("MECA bucket", Succeed)
    \o Get("article_id") \o Get("version")
    \o OpenMeca \o OpenManifest
    \o Write("output MECA")

EmailMecaOutput ==
    Session \o Get("cleaner_log") \o Get("version_doi")
    \o Ask("mail server accepts") \o Unless("mail server accepts", Refuse)
    \o Send("MECA output email")

AddPreprintIssueLabel ==
    Fact("GitHub settings") \o Unless("GitHub settings", Succeed)
    \o Session \o Get("version_doi")
    \o OrRefuse(Call("issues found"))
    \o OrRefuse(Call("label accepted"))

SilentPublishPreprint ==
    Session \o Get("article_id") \o Get("version")
    \o Need("version_doi") \o Need("docmap_string")
    \o Fact("published in docmap") \o Unless("published in docmap", Succeed)
    \o Send("PostPreprintPublication start")

-----------------------------------------------------------------------------
(* After the publication of a preprint. *)

InvalidatePreprintCdn ==
    Session \o Get("article_id") \o Get("version")
    \o OrRefuse(Call("CDN purged"))

\* download_xml, and two uploads one after the other.
ScheduleCrossrefPreprint ==
    Session \o Get("article_id") \o Get("version")
    \o MecaPaths \o OrRefuse(DownloadMecaXml)
    \o Write("preprint in crossref_posted_content outbox")
    \o Write("preprint in crossref_peer_review outbox")

SchedulePreprintDownstream ==
    Session \o Get("article_id") \o Get("version")
    \o OrRetry(
        MecaPaths \o DownloadMecaXml \o Write("preprint in downstream outboxes"))

ArchivePreprint ==
    Session \o Get("article_id") \o Get("version") \o Need("computer_file_url")
    \o OrRefuse(Call("MECA copied"))

PreprintRepository ==
    Session \o Get("article_id") \o Get("version")
    \o Fact("GitHub settings")
    \o Unless("GitHub settings",
            Fact("live environment") \o Either("live environment", Refuse, Succeed))
    \o MecaPaths
    \o OrRefuse(DownloadMecaXml)
    \o UpdateGithub("preprint XML in repository")

\* Without a PDF in the manifest there is no path to copy from.
DepositPreprintAssets ==
    Session \o Get("article_id") \o Get("version")
    \o MecaPaths \o OpenManifest
    \o Fact("PDF in manifest") \o Unless("PDF in manifest", Raise)
    \o OrRefuse(Call("PDF copied") \o DownloadMecaXml \o Write("preprint in CDN"))

StartMecaImport ==
    Fact("import endpoint") \o Unless("import endpoint", Succeed)
    \o Session \o Get("article_id") \o Get("version")
    \o Try("posted", Send("MECA import request"))
=============================================================================
