-------------------------- MODULE WorkflowPipeline --------------------------
(***************************************************************************)
(* What a workflow execution promises to whoever started it: the activities *)
(* of its definition succeed one step after the other (the next may begin   *)
(* when one activity of a parallel step has succeeded), it is complete only *)
(* when all of them have, and it fails only when an activity asked for it   *)
(* and some activity is still missing.  How many attempts, processes,       *)
(* decisions or time-outs this takes is not visible here.                   *)
(***************************************************************************)
EXTENDS Naturals, Sequences

VARIABLES
    definition,  \* the steps, each a sequence of activities
    done,        \* the activities that have succeeded
    stop,        \* an activity asked to give the execution up
    outcome      \* "OPEN" until the execution closes

pipeline == <<definition, done, stop, outcome>>

StepDone(s) == \A k \in DOMAIN definition[s] : definition[s][k] \in done

\* The code takes a parallel step for started when one activity has succeeded.
StepBegun(s) == definition[s] = << >> \/ \E k \in DOMAIN definition[s] : definition[s][k] \in done

AllDone == \A s \in DOMAIN definition : StepDone(s)

Init ==
    /\ done = {} /\ stop = FALSE /\ outcome = "OPEN"

\* An activity succeeds; the steps before its own have begun.
Perform(s, k) ==
    /\ outcome = "OPEN"
    /\ \A t \in 1 .. s - 1 : StepBegun(t)
    /\ definition[s][k] \notin done
    /\ done' = done \cup {definition[s][k]}
    /\ UNCHANGED <<definition, stop, outcome>>

RequestStop ==
    /\ outcome = "OPEN" /\ ~stop
    /\ stop' = TRUE
    /\ UNCHANGED <<definition, done, outcome>>

Complete ==
    /\ outcome = "OPEN" /\ AllDone
    /\ outcome' = "COMPLETED"
    /\ UNCHANGED <<definition, done, stop>>

Fail ==
    /\ outcome = "OPEN" /\ stop /\ ~AllDone
    /\ outcome' = "FAILED"
    /\ UNCHANGED <<definition, done, stop>>

TimeOut ==
    /\ outcome = "OPEN"
    /\ outcome' = "TIMED_OUT"
    /\ UNCHANGED <<definition, done, stop>>

Next ==
    \/ \E s \in DOMAIN definition : \E k \in DOMAIN definition[s] : Perform(s, k)
    \/ RequestStop
    \/ Complete
    \/ Fail
    \/ TimeOut

Spec == Init /\ [][Next]_pipeline
=============================================================================
