------------------------- MODULE ArticleActivities -------------------------
(***************************************************************************)
(* The activities that ingest an article zip, send it to Lax and follow up  *)
(* its publication, as scripts in the words of ActivityOps.  Until          *)
(* ApplyVersionNumber has run, the objects of the expanded folder are       *)
(* "article files" and "article XML"; after it, "versioned files" and       *)
(* "versioned XML".                                                         *)
(***************************************************************************)
EXTENDS ActivityOps

VersionLookup ==
    OrRefuse(
        Input("file_name") \o Session
        \o Put("filename_last_element") \o Keep("run_type")
        \o Check("article id in file name")
        \o Fact("version in file name")
        \o Unless("version in file name",
                Input("version_lookup_function") \o Call("Lax answers"))
        \o Put("version") \o Put("article_id"))

VersionDateLookup ==
    OrRefuse(
        Session \o Get("version") \o Need("filename_last_element")
        \o Fact("date in file name")
        \o Unless("date in file name", Call("Lax answers"))
        \o Put("update_date"))

ExpandArticle ==
    Session \o Get("article_id") \o Input("file_name")
    \o Need("filename_last_element") \o Put("file_name") \o Need("version")
    \o Fact("vor or poa") \o Unless("vor or poa", Refuse)
    \o Put("article_version_id") \o Put("run") \o Put("status")
    \o OrRefuse(
        Read("article zip") \o Check("XML in zip")
        \o Write("article files") \o Write("article XML")
        \o Put("expanded_folder"))

\* Only the last message to the dashboard is guarded.
SendDashboardProperties ==
    Session \o Get("version") \o Get("article_id")
    \o OrRefuse(Need("expanded_folder") \o Read("article XML"))
    \o Ask("dashboard accepts") \o Unless("dashboard accepts", Retry)

\* build_file_name_map lists what is in the folder now: what was renamed by an
\* earlier attempt maps to itself and is nothing to rewrite in the XML.
ApplyVersionNumber ==
    Session \o Get("version") \o Unless("version", Refuse)
    \o OrRefuse(
        Need("expanded_folder")
        \o Look("article files") \o Look("article XML")
        \o When("article files",
                Write("versioned files") \o Drop("article files"))
        \o When("article XML", Write("versioned XML") \o Drop("article XML"))
        \o Read("versioned XML") \o Write("versioned XML")
        \o When("article files", Write("versioned names in XML")))

ModifyArticleSubjects ==
    Session \o Get("version") \o Get("article_id")
    \o OrRefuse(
        Need("expanded_folder") \o Read("versioned XML")
        \o Fact("subjects for the article")
        \o When("subjects for the article", Write("versioned XML")))

\* An AssertionError, after a minute's sleep, is a reason to try again.
VerifyGlencoe ==
    Session \o Get("article_id") \o Get("version")
    \o OrRefuse(
        Need("expanded_folder") \o Read("versioned XML")
        \o Fact("videos in XML")
        \o When("videos in XML",
                Need("article_id") \o Call("Glencoe answers")
                \o Ask("Glencoe has videos")
                \o Unless("Glencoe has videos", Retry)))

ConvertImagesToJPG ==
    Session \o Get("version") \o Get("article_id")
    \o OrRefuse(
        Need("expanded_folder") \o Read("versioned files")
        \o Check("images convert") \o Write("JPGs in CDN"))

DepositIngestAssets ==
    Session \o Get("version") \o Get("article_id")
    \o OrRefuse(
        Need("expanded_folder") \o Need("article_id")
        \o Read("versioned files") \o Write("ingest assets in CDN"))

DepositAssets ==
    Session \o Get("version") \o Get("article_id")
    \o OrRefuse(
        Need("expanded_folder") \o Need("article_id")
        \o Read("versioned files") \o Write("assets in CDN"))

InvalidateCdn ==
    Session \o Get("article_id") \o Get("version")
    \o OrRefuse(Call("Fastly accepts") \o Send("CDN purge"))

VerifyImageServer ==
    Session \o Get("article_id") \o Get("version")
    \o OrRefuse(
        Need("article_id") \o Call("bucket listed") \o Call("images served"))

\* Where Glencoe has no videos, the XML of the article says whether to wait.
CopyGlencoeStillImages ==
    OrRefuse(
        Get("standalone")
        \o When("standalone",
                Input("article_id") \o Input("standalone_is_poa"))
        \o Unless("standalone",
                Session \o Get("article_id") \o Get("version")
                \o Need("file_name") \o Need("expanded_folder")
                \o Read("versioned XML"))
        \o Fact("poa") \o When("poa", Succeed)
        \o Ask("Glencoe has videos")
        \o Unless("Glencoe has videos",
                Call("article has no videos")
                \o When("ok", Unless("standalone",
                        Fact("videos in XML") \o When("videos in XML", Retry)))
                \o When("ok", Succeed))
        \o Write("stills in CDN"))

IngestToLax ==
    Session \o Get("status") \o Get("update_date") \o Get("run_type")
    \o OrRefuse(
        Need("version") \o Need("article_id") \o Need("expanded_folder")
        \o Read("versioned XML"))
    \o Send("ingest request to Lax")

-----------------------------------------------------------------------------
(* After the response of Lax. *)

VerifyLaxResponse ==
    Input("article_id") \o Session \o Input("version") \o Input("force")
    \o OrRefuse(
        Input("result")
        \o Fact("ingested") \o Unless("ingested", Refuse)
        \o Fact("forced")
        \o Either("forced", Put("published"), PutBlank("published")))

ReadyToPublish ==
    Session
    \o OrRefuse(
        Need("version") \o Need("article_id") \o Need("expanded_folder")
        \o Need("status") \o Get("update_date") \o Get("run_type")
        \o Send("publication data to dashboard"))

PublishToLax ==
    Input("article_id") \o Input("version") \o Session
    \o Get("publication_data")
    \o Unless("publication_data", Input("status") \o Input("expanded_folder"))
    \o OrRetry(Read("versioned XML") \o Send("publication request to Lax"))

VerifyPublishResponse ==
    Input("result") \o Input("article_id") \o Input("version") \o Session
    \o Fact("published") \o Unless("published", Refuse)

ArchiveArticle ==
    OrRefuse(
        Input("article_id") \o Input("version") \o Session
        \o Input("expanded_folder") \o Input("update_date") \o Input("status")
        \o Read("versioned files") \o Write("article archive"))

LensArticle ==
    Look("published XML") \o Unless("published XML", Succeed)
    \o Fact("poa") \o When("poa", Succeed)
    \o Write("lens page")

ScheduleDownstream ==
    Input("article_id") \o Input("version") \o Session
    \o Input("expanded_folder") \o Input("status")
    \o Ask("Lax answers") \o Unless("Lax answers", Raise)
    \o OrRetry(Read("versioned XML") \o Write("article in downstream outboxes"))

\* A silent correction of a version that is not the highest goes no further.
SkipOldCorrection ==
    Get("run_type")
    \o When("run_type",
            Fact("silent correction")
            \o When("silent correction",
                    Ask("highest version") \o Unless("highest version", Succeed)))

ScheduleCrossref ==
    Session \o Get("version") \o Get("article_id") \o SkipOldCorrection
    \o OrRetry(
        Need("expanded_folder") \o Read("versioned XML")
        \o Write("article in crossref outbox"))

ScheduleCrossrefMinimal ==
    Session \o Get("version") \o Get("article_id") \o SkipOldCorrection
    \o OrRetry(
        Need("expanded_folder") \o Read("versioned XML")
        \o Write("article in crossref_minimal outbox"))

ScheduleCrossrefPeerReview ==
    Session \o Get("version") \o Get("article_id") \o SkipOldCorrection
    \o Need("expanded_folder") \o Read("versioned XML")
    \o Fact("sub-articles") \o Unless("sub-articles", Succeed)
    \o OrRetry(
        Read("versioned XML") \o Write("article in crossref_peer_review outbox"))

UpdateRepository ==
    Input("article_id") \o Input("version") \o Session
    \o Fact("GitHub settings")
    \o Unless("GitHub settings",
            Fact("live environment") \o Either("live environment", Refuse, Succeed))
    \o OrRefuse(Read("published XML"))
    \o UpdateGithub("XML in repository")

\* What could not be sent to a recipient is only logged.
EmailVideoArticlePublished ==
    Ask("dashboard accepts") \o Unless("dashboard accepts", Refuse)
    \o Fact("poa") \o When("poa", Succeed)
    \o Fact("silent correction") \o When("silent correction", Succeed)
    \o Ask("first vor") \o Unless("first vor", Succeed)
    \o Look("versioned XML") \o Unless("versioned XML", Succeed)
    \o Fact("videos in XML") \o Unless("videos in XML", Succeed)
    \o Ask("templates downloaded") \o Unless("templates downloaded", Refuse)
    \o Try("emailed", Send("video article email"))

DepositDOAJ ==
    Fact("DOAJ endpoint") \o Unless("DOAJ endpoint", Succeed)
    \o Get("run") \o Get("article_id")
    \o Ask("Lax answers") \o Unless("Lax answers", Retry)
    \o Fact("vor") \o Unless("vor", Succeed)
    \o Fact("DOAJ JSON builds") \o Unless("DOAJ JSON builds", Refuse)
    \o OrRetry(Send("article to DOAJ"))
=============================================================================
