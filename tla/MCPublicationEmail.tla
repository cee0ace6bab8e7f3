------------------------- MODULE MCPublicationEmail -------------------------
(* PublicationEmail with two versions of a research article and an insight    *)
(* about it, an article for which the rules raise and an insight about that,  *)
(* and an article of a type that is not sent.                                 *)
EXTENDS PublicationEmail, TLC

MCInsights == {"insight", "insight on essay"}

MCFiles == MCInsights \cup {"research v1", "research v2", "essay", "correction"}

MCDoi ==
    [f \in {"research v1", "research v2"} |-> "research"] @@ [f \in MCFiles |-> f]

MCRelated ==
    ("insight" :> "research") @@ ("insight on essay" :> "essay")
    @@ [f \in MCFiles |-> "no DOI"]

MCRule ==
    ("essay" :> "refused") @@ ("correction" :> "do not send")
    @@ [f \in MCFiles |-> "type"]
=============================================================================
