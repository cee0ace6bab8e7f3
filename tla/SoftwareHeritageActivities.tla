--------------------- MODULE SoftwareHeritageActivities ---------------------
(***************************************************************************)
(* The activities that deposit the code of a research object with Software  *)
(* Heritage, as scripts in the words of ActivityOps.                        *)
(***************************************************************************)
EXTENDS ActivityOps

\* What the input has is stored for the activities that follow.
KeepGiven(key) == Get(key) \o When(key, Put(key))

DownstreamStart ==
    OrRefuse(
        Session
        \o KeepGiven("article_id") \o KeepGiven("input_file")
        \o KeepGiven("recipient") \o KeepGiven("version")
        \o KeepGiven("workflow"))

PackageSWH ==
    Session \o Get("version")
    \o OrRefuse(
        Need("article_id") \o Need("input_file") \o Call("input downloaded"))
    \o OrRefuse(Check("zip opens"))
    \o OrRefuse(Write("package zip"))
    \o Put("bucket_resource")

\* Without an origin of the code there is no create_origin_url.
GenerateSWHMetadata ==
    Session \o Get("version") \o Get("input_file")
    \o Fact("origin found")
    \o Either("origin found", Put("create_origin_url"), PutBlank("create_origin_url"))
    \o OrRefuse(Need("article_id") \o Call("article XML downloaded"))
    \o OrRefuse(Check("article XML parses"))
    \o OrRefuse(Need("bucket_resource"))
    \o OrRefuse(Write("metadata atom"))
    \o Put("bucket_metadata_resource")

GenerateSWHReadme ==
    Session \o Get("version") \o Get("input_file") \o Get("create_origin_url")
    \o OrRefuse(Need("article_id") \o Call("article XML downloaded"))
    \o OrRefuse(Check("article XML parses"))
    \o OrRefuse(Write("readme"))
    \o Put("bucket_readme_resource")

\* The zip is split; the atom goes with the first part, and the last part says
\* that the deposit is complete.
PostParts ==
    Fact("several parts")
    \o Try("posted", Send("first part to Software Heritage"))
    \o Unless("posted", Refuse)
    \o When("several parts",
            Try("posted", Send("last part to Software Heritage"))
            \o Unless("posted", Refuse))

PushSWHDeposit ==
    Fact("Software Heritage endpoint")
    \o Unless("Software Heritage endpoint", Refuse)
    \o Session
    \o Need("bucket_resource") \o Read("package zip")
    \o Need("bucket_metadata_resource") \o Read("metadata atom")
    \o Get("bucket_readme_resource")
    \o When("bucket_readme_resource", Read("readme"))
    \o Get("article_id") \o Get("version") \o Get("input_file")
    \o PostParts
=============================================================================
