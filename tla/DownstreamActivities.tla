------------------------ MODULE DownstreamActivities ------------------------
(***************************************************************************)
(* The activities that pass published articles on: deposits from the        *)
(* outboxes, the workflows started for each article, and the packaging of   *)
(* publish-on-accept articles, as scripts in the words of ActivityOps.  A   *)
(* script is about one article of the outbox; several at a time are what    *)
(* Outbox is about.                                                         *)
(***************************************************************************)
EXTENDS ActivityOps

\* get_outbox_s3_key_names, download_files_from_s3_outbox
OpenOutbox(file) == Look(file) \o When(file, Read(file))

\* clean_outbox, of one file
MoveOut(file, folder) == Read(file) \o Write(folder) \o Drop(file)

\* Admin and recipients' mails go out as well as the connection allows.
AdminEmail == Send("admin email")

-----------------------------------------------------------------------------
(* Routing to other services. *)

\* An article that fails one of the tests goes to not_published.
ApproveArticle ==
    Set("approved")
    \o Fact("preprint")
    \o Unless("preprint",
            Ask("published at Lax") \o Unless("published at Lax", Clear("approved")))
    \o Fact("article type sent") \o Unless("article type sent", Clear("approved"))
    \o Fact("sent before") \o When("sent before", Clear("approved"))
    \o Fact("archive zip") \o Unless("archive zip", Clear("approved"))

\* start_pmc_deposit_workflow and start_ftp_article_workflow log what they
\* catch.
StartDeposit == Try("started", Send("deposit workflow start"))

PubRouterDeposit ==
    Input("workflow")
    \o Fact("folders known") \o Unless("folders known", Retry)
    \o OpenOutbox("router file")
    \o When("router file",
            ApproveArticle
            \o When("approved",
                    StartDeposit \o MoveOut("router file", "published router file"))
            \o Unless("approved",
                    MoveOut("router file", "not_published router file")))
    \o AdminEmail
    \o When("router file", When("approved", Send("friendly email")))

\* download_archive_zip_from_s3, repackage_archive_zip_to_pmc_zip and
\* move_or_repackage_pmc_zip; a preprint's zip is sent as it is.  The starter
\* always gives a publication state, which may be None or another one.
FetchZip ==
    When("publication_state", Fact("preprint")) \o Fact("archive zip")
    \o When("archive zip",
            Either("preprint", Set("zip to send"),
                Fact("zip repackages")
                \o When("zip repackages", Set("zip to send"))))

\* ftp_to_endpoint and sftp_to_endpoint: file by file, when they are unzipped
SendZip ==
    Fact("known protocol") \o Unless("known protocol", Clear("delivered"))
    \o Fact("unzipped files")
    \o When("delivered",
            Send("first file at endpoint")
            \o When("unzipped files", Send("last file at endpoint")))

FTPArticle ==
    Input("elife_id") \o Input("workflow")
    \o Get("version") \o Get("publication_state")
    \o Fact("credentials") \o Unless("credentials", Retry)
    \o Fact("endpoint URI") \o Unless("endpoint URI", Refuse)
    \o FetchZip
    \o Unless("zip to send", Refuse)
    \o Try("delivered", SendZip)
    \o Unless("delivered", Retry)

\* One mail per workflow about exceptions of the FTP.
ReportFtp ==
    Get("ftp_exception")
    \o Unless("ftp_exception", Send("FTP error email") \o Put("ftp_exception"))

\* The zip of an article that is retracted is stored, not sent.  The revision
\* number comes from the zips stored by earlier deposits.
PMCDeposit ==
    Session \o Input("document")
    \o Fact("PMC endpoint") \o Unless("PMC endpoint", Refuse)
    \o Ask("zip downloaded") \o Unless("zip downloaded", Retry)
    \o Fact("zip repackages")
    \o Ask("retraction known") \o Unless("retraction known", Retry)
    \o Fact("retracted")
    \o Unless("retracted",
            Unless("zip repackages", Retry)
            \o Try("delivered", Send("zip at PMC"))
            \o Unless("delivered", ReportFtp \o Retry))
    \o Write("zip of this revision")

\* generate_pubmed_xml: what Lax does not answer for is not published
PubmedXml ==
    Fact("XML parses") \o Ask("published at Lax") \o Fact("PubMed XML builds")
    \o When("XML parses", When("published at Lax",
            When("PubMed XML builds", Set("PubMed XML"))))

PubmedArticleDeposit ==
    Fact("PubMed endpoint") \o Unless("PubMed endpoint", Refuse)
    \o OpenOutbox("pubmed file")
    \o When("pubmed file", PubmedXml)
    \o When("PubMed XML",
            Try("delivered", Send("XML at PubMed"))
            \o Unless("delivered", Refuse)
            \o MoveOut("pubmed file", "published pubmed file")
            \o Write("batch file") \o AdminEmail)

-----------------------------------------------------------------------------
(* Deposits at Crossref.  Outbox has their listing, several files and        *)
(* overlapping attempts; here is which deposits each of them builds.         *)

\* upload_files_to_endpoint posts one file after the other, whatever Crossref
\* answers; without a file to post it is content.
Post(built, name) ==
    When(built,
         Ask("accepted") \o Either("accepted", Send(name), Clear("published")))

Deposit(first, second) ==
    Set("published") \o Post("first builds", first) \o Post("second builds", second)

\* clean_outbox of the good files, upload of the batch, mail
CleanUp(file, published) ==
    When("published", When("good file",
        MoveOut(file, published) \o Write("batch file") \o AdminEmail))

\* A file of which one deposit builds is a good one.
Build(deposit) == Fact(deposit) \o When(deposit, Set("good file"))

BuildVersion ==
    Fact("version DOI") \o When("version DOI", Build("second builds"))

DepositCrossref ==
    OpenOutbox("crossref file")
    \o When("crossref file",
            Fact("not under embargo")
            \o When("not under embargo", Build("first builds") \o BuildVersion)
            \o Deposit("crossref deposit", "crossref version deposit")
            \o CleanUp("crossref file", "published crossref file"))

DepositCrossrefMinimal ==
    OpenOutbox("minimal file")
    \o When("minimal file",
            Fact("not under embargo")
            \o When("not under embargo", Build("first builds"))
            \o Deposit("minimal deposit", "no other")
            \o CleanUp("minimal file", "published minimal file"))

\* The concept DOI is deposited unless Lax has a version of the article or the
\* docmap a newer preprint; the version DOI always is.
DepositCrossrefPostedContent ==
    OpenOutbox("preprint file")
    \o When("preprint file",
            Ask("versions at Lax") \o Ask("newest version DOI")
            \o Unless("versions at Lax", When("newest version DOI",
                    Build("first builds")))
            \o BuildVersion
            \o When("good file",
                    Deposit("preprint deposit", "preprint version deposit"))
            \o CleanUp("preprint file", "published preprint file"))

\* prune_article_object_map: reviews, a DOI that exists, a VOR that is published
PruneReviews ==
    Fact("review articles")
    \o When("review articles", Ask("DOI exists"))
    \o Fact("preprint")
    \o Unless("preprint",
            When("DOI exists", Ask("VOR at Lax"))
            \o Unless("VOR at Lax", Clear("DOI exists")))

DepositCrossrefPeerReview ==
    OpenOutbox("review file")
    \o When("review file",
            Ask("BigQuery answers") \o Unless("BigQuery answers", Raise)
            \o PruneReviews
            \o When("DOI exists", Build("first builds"))
            \o Deposit("review deposit", "no other")
            \o CleanUp("review file", "published review file"))

\* A DOI that exists already is not deposited again: its file goes to
\* not_published, when everything else could be deposited.
DepositCrossrefPendingPublication ==
    OpenOutbox("pending file")
    \o When("pending file",
            Ask("DOI is new") \o Fact("version DOI")
            \o When("version DOI", Ask("version DOI is new"))
            \o When("DOI is new", Build("first builds"))
            \o When("version DOI is new", Build("second builds"))
            \o Deposit("pending deposit", "pending version deposit")
            \o CleanUp("pending file", "published pending file")
            \o When("published", Unless("DOI is new", Unless("version DOI is new",
                    MoveOut("pending file", "not_published pending file")))))

-----------------------------------------------------------------------------
(* Publish-on-accept articles. *)

\* copy_files_to_s3_outbox: whatever there is
CopyPoaFiles ==
    When("PDF decapitated", Write("PoA PDF"))
    \o When("PoA XML builds", Write("PoA XML"))
    \o When("PoA zip opens", Write("PoA ds zip"))

PackagePOA ==
    Input("document")
    \o Ask("PoA zip downloaded")
    \o When("PoA zip downloaded", Fact("DOI in PoA zip"))
    \o When("DOI in PoA zip",
            Fact("PoA zip opens") \o Fact("PDF decapitated")
            \o Fact("PoA XML builds")
            \o CopyPoaFiles)
    \o AdminEmail

\* filter_ds_zip_files and filter_file_pairs: an XML and a PDF, or nothing;
\* a ds zip only with them, and when it opens and is not empty
FilterFiles ==
    Look("PoA XML") \o Look("PoA PDF") \o Look("PoA ds zip")
    \o When("PoA XML", When("PoA PDF", Set("pair")))
    \o Fact("ds zip valid")
    \o When("pair", When("ds zip valid",
            When("PoA ds zip", Set("ds zip goes along"))))

\* modify_xml and convert_xml: without a date from Lax it is today's
PreparePoaXml == Fact("PoA XML converts") \o Unless("PoA XML converts", Clear("pair"))

\* The files of an article in the order of the listing of a folder on disk,
\* which may be any.
MovePoaFiles ==
    LET pdf == MoveOut("PoA PDF", "published PoA PDF")
        xml == MoveOut("PoA XML", "published PoA XML")
        zip == When("ds zip goes along", MoveOut("PoA ds zip", "published PoA ds zip"))
    IN
    When("ds zip goes along", Ask("ds zip first"))
    \o When("ds zip first", zip \o Clear("ds zip goes along"))
    \o Ask("PDF first") \o Either("PDF first", pdf, xml)
    \o When("ds zip goes along", Ask("ds zip second"))
    \o When("ds zip second", zip \o Clear("ds zip goes along"))
    \o Either("PDF first", xml, pdf) \o zip

\* Each attempt that uploads takes the next revision number.
PublishFinalPOA ==
    FilterFiles \o PreparePoaXml
    \o When("pair", Send("PoA zip of the next revision") \o MovePoaFiles)
    \o AdminEmail

-----------------------------------------------------------------------------
(* Others. *)

PingWorker == Succeed

AdminEmailHistory ==
    Ask("SWF answers") \o Unless("SWF answers", Raise) \o AdminEmail
=============================================================================
