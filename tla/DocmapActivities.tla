-------------------------- MODULE DocmapActivities --------------------------
(***************************************************************************)
(* The activities that look for new, published or reingested preprints and  *)
(* start their workflows, as scripts in the words of ActivityOps.  "docmaps *)
(* to ingest" stands for what the index of docmaps has that the index of    *)
(* the previous run had not.                                                *)
(***************************************************************************)
EXTENDS ActivityOps

\* previous_run_folder is the last folder of today or before, which is also
\* the one this run has made, once it has.
PreviousIndex ==
    Look("index of this run") \o Look("index of the previous run")
    \o Either("index of this run",
            Put("prev_run_docmap_index_resource")
            \o Put("prev_run_docmap_index_resource is this run's"),
            When("index of the previous run",
                Put("prev_run_docmap_index_resource")))

DownloadDocmapIndex ==
    Fact("docmap_index_url") \o Unless("docmap_index_url", Succeed)
    \o Session
    \o Ask("index downloaded") \o Unless("index downloaded", Refuse)
    \o PreviousIndex
    \o Write("index of this run")
    \o Put("new_run_docmap_index_resource")

\* changed_version_doi_data compares the two indices.
FindNewDocmaps ==
    Session
    \o Get("prev_run_docmap_index_resource is this run's")
    \o Need("new_run_docmap_index_resource") \o Read("index of this run")
    \o Get("prev_run_docmap_index_resource")
    \o Unless("prev_run_docmap_index_resource is this run's",
            When("prev_run_docmap_index_resource",
                Read("index of the previous run"))
            \o Look("docmaps to ingest")
            \o When("docmaps to ingest", Send("IngestMeca starts")))
    \o Try("commented", Send("issue comments"))
    \o When("docmaps to ingest", Try("emailed", Send("docmaps admin email")))

\* The messages go out before the placeholders that stop the next run from
\* sending them again.
FindNewPreprints ==
    Fact("epp_data_bucket") \o Unless("epp_data_bucket", Succeed)
    \o Session
    \o Need("new_run_docmap_index_resource") \o Read("index of this run")
    \o Fact("recently published") \o Look("placeholders")
    \o Unless("recently published", Succeed) \o When("placeholders", Succeed)
    \o Send("PostPreprintPublication starts")
    \o Write("placeholders")
    \o Try("emailed", Send("preprints admin email"))

\* A BigQuery that does not answer makes the attempt raise.
FindFuturePreprints ==
    Ask("BigQuery answers") \o Unless("BigQuery answers", Raise)
    \o Fact("future preprints") \o Unless("future preprints", Succeed)
    \o Write("preprint in crossref_posted_content outbox")

\* What goes wrong with one issue is logged.
FindReingestPreprint ==
    Fact("github_named_user") \o Unless("github_named_user", Succeed)
    \o Ask("issues found") \o Unless("issues found", Refuse)
    \o Look("assigned issues") \o Unless("assigned issues", Succeed)
    \o Try("restarted", Send("IngestMeca starts") \o Drop("assigned issues"))
=============================================================================
