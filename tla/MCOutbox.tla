------------------------------ MODULE MCOutbox ------------------------------
(* Small sets of files for Outbox.                                          *)
EXTENDS Outbox, TLC

CONSTANTS p1, p2, other, revised, embargoed

\* A file that is scheduled twice and has a version DOI, one that is scheduled
\* once, and one under embargo.
SomeContents == revised :> 2 @@ embargoed :> 1 @@ other :> 1
SomeWithheld == {<<embargoed, "doi">>}

\* Two articles with version DOIs.
TwoContents == other :> 1 @@ revised :> 1
=============================================================================
