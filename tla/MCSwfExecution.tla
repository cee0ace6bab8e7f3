--------------------------- MODULE MCSwfExecution ---------------------------
(* Small definitions for SwfExecution.                                      *)
EXTENDS SwfExecution, TLC

CONSTANTS d1, d2, w1, w2

\* Three steps of one activity, so that there is a first, a middle and a last
\* one, and a step of two activities before one of one.
OrderActivities == {"PingWorker", "ApplyVersion", "PublishToLax"}
InSequence == << <<"PingWorker">>, <<"ApplyVersion">>, <<"PublishToLax">> >>
InParallel == << <<"PingWorker", "ApplyVersion">>, <<"PublishToLax">> >>
OrderDefinitions == {InSequence, InParallel}

\* Enough for every history of the sequence.  In parallel a failure beside an
\* open task makes decisions that fail and ask for the next, without end.
OrderEvents == (InSequence :> 40) @@ (InParallel :> 5)

\* Two steps, for the run that follows behaviours to their end.
ShortActivities == {"PingWorker", "PublishToLax"}
ShortDefinitions == {<< <<"PingWorker">>, <<"PublishToLax">> >>}
ShortEvents == [steps \in ShortDefinitions |-> 40]

Processes == Permutations({d1, d2}) \cup Permutations({w1, w2})
=============================================================================
