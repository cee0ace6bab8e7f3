------------------------- MODULE ActivityExecution -------------------------
(***************************************************************************)
(* A workflow execution seen from inside its activities.  SwfExecution      *)
(* shows that the activities of a definition run one after the other and    *)
(* that a failed attempt is made again; here an attempt is the run of a     *)
(* script (ActivityOps), operation by operation, and what counts is what    *)
(* the activities leave for each other in the session and in the buckets,   *)
(* and what a second attempt finds after a first one died half-way.         *)
(***************************************************************************)
EXTENDS ActivityOps, FiniteSets, SequencesExt

CONSTANTS
    Scripts,      \* the script of every activity id
    Workflows,    \* the activity ids of every workflow, in order
    Inputs,       \* the keys of the input each workflow is started with
    Givens,       \* what may be there before each workflow starts
    Maximum,      \* how high every counter of the session may go
    Companions    \* the things not to forget while another is looked at

VARIABLES
    workflow,     \* the workflow of this execution
    step,         \* the position of the current activity
    running,      \* whether an attempt is under way
    rest,         \* the operations it has left, the next one first
    flags,        \* what the attempt has read or been told
    facts,        \* the answers that every attempt of the activity gets
    sent,         \* what the attempts of the activity have sent so far
    session,      \* the stored session values; 0 stands for None or blank
    world,        \* the things stored and sent
    missing,      \* observer: what the last attempt raised for want of
    repeated,     \* observer: what was sent although it had been sent
    died,         \* observer: an attempt died or lost a call half-way
    outcome       \* of the execution

attempt == <<running, rest, flags, facts>>
place == <<workflow, step>>
observed == <<missing, repeated, died>>
vars == <<place, attempt, sent, session, world, observed, outcome>>

-----------------------------------------------------------------------------
Activity == Workflows[workflow][step]

\* The decider goes by the ids of the activities that have succeeded.
Upcoming ==
    {n \in DOMAIN Workflows[workflow] :
        \A m \in 1 .. step : Workflows[workflow][m] # Workflows[workflow][n]}

Running == outcome = "OPEN" /\ running

Passed(op, f) == ~(op.when \subseteq f) \/ op.unless \cap f # {}

\* The operations from the first one on that is not passed over.
Ahead(ops, f) ==
    SubSeq(ops,
           Min({n \in 1 .. Len(ops) + 1 : n > Len(ops) \/ ~Passed(ops[n], f)}),
           Len(ops))

Mentioned(ops) == UNION {ops[n].when \cup ops[n].unless : n \in DOMAIN ops}

\* Go on with the flags f; those that nobody reads any more are forgotten.
GoOn(f) ==
    /\ rest' = Ahead(Tail(rest), f)
    /\ flags' = f \cap Mentioned(rest')
    /\ UNCHANGED running

Flagged(flag, holds) == IF holds THEN flags \cup {flag} ELSE flags \ {flag}

Truthy(key) ==
    IF key \in DOMAIN session THEN session[key] > 0 ELSE key \in Inputs[workflow]

Tally(key) == IF key \in DOMAIN session THEN session[key] ELSE 0

\* One more; beyond the maximum the number makes no difference.
Counted(key) == Min({Tally(key) + 1, Maximum[key]})

With(f, key, value) ==
    [k \in DOMAIN f \cup {key} |-> IF k = key THEN value ELSE f[k]]

Stored(key, value) == With(session, key, value)

\* What the nth activity and those after it deal with, and its companions.
Concerns(w, n) ==
    {op.what : op \in
        UNION {ToSet(Scripts[Workflows[w][k]]) : k \in n .. Len(Workflows[w])}}

Remembered(w, n) ==
    Concerns(w, n) \cup UNION {Companions[c] : c \in Concerns(w, n) \cap DOMAIN Companions}

Doing(kinds) == Running /\ rest # << >> /\ Head(rest).do \in kinds

What == Head(rest).what

Instead == Head(rest).instead

-----------------------------------------------------------------------------
(* Operations.                                                               *)

\* Mutant: every attempt begins with a session of its own.
BeginNewSession ==
    /\ outcome = "OPEN" /\ ~running
    /\ running' = TRUE /\ rest' = Ahead(Scripts[Activity], {})
    /\ flags' = {} /\ missing' = "nothing" /\ session' = << >>
    /\ world' = world \cap Remembered(workflow, step)
    /\ UNCHANGED <<place, facts, sent, repeated, died, outcome>>

\* process_activity calls do_activity.  What neither this activity nor a later
\* one deals with is forgotten, but for companions.
Begin ==
    /\ outcome = "OPEN" /\ ~running
    /\ running' = TRUE /\ rest' = Ahead(Scripts[Activity], {})
    /\ flags' = {} /\ missing' = "nothing"
    /\ session' = Restrict(session, DOMAIN session \cap Remembered(workflow, step))
    /\ world' = world \cap Remembered(workflow, step)
    /\ UNCHANGED <<place, facts, sent, repeated, died, outcome>>

Stop == running' = FALSE /\ rest' = << >> /\ flags' = {}

\* The attempt ends with nothing done and will be made again.
AttemptFails ==
    /\ Stop
    /\ UNCHANGED <<place, facts, sent, session, world, repeated, outcome>>

GetValue ==
    /\ \/ Doing({"get"}) /\ GoOn(Flagged(What, Truthy(What)))
       \/ Doing({"look"}) /\ GoOn(Flagged(What, What \in world))
    /\ UNCHANGED <<place, facts, sent, session, world, observed, outcome>>

Learn ==
    /\ \E answer \in BOOLEAN :
          \/ Doing({"ask"}) /\ GoOn(Flagged(What, answer)) /\ UNCHANGED facts
          \/ /\ Doing({"fact"})
             /\ What \in DOMAIN facts => facts[What] = answer
             /\ facts' = With(facts, What, answer)
             /\ GoOn(Flagged(What, answer))
    /\ UNCHANGED <<place, sent, session, world, observed, outcome>>

SetFlag ==
    /\ \/ Doing({"set"}) /\ GoOn(Flagged(What, TRUE))
       \/ Doing({"clear"}) /\ GoOn(Flagged(What, FALSE))
    /\ UNCHANGED <<place, facts, sent, session, world, observed, outcome>>

Present ==
    \/ Doing({"need"}) /\ Truthy(What)
    \/ Doing({"input"}) /\ What \in Inputs[workflow]
    \/ Doing({"read"}) /\ What \in world

Use ==
    /\ Present /\ GoOn(flags)
    /\ UNCHANGED <<place, facts, sent, session, world, observed, outcome>>

\* The value is None, the input has no such key, or the object is not in the
\* bucket: an exception, which a surrounding try may catch.
Lack ==
    /\ Doing({"need", "input", "read"}) /\ ~Present
    /\ missing' = What
    /\ \/ Instead = "raise" /\ Stop
       \/ Instead # "raise" /\ GoOn(flags \ {Instead})
    /\ UNCHANGED <<place, facts, sent, session, world, repeated, died, outcome>>

\* What a store_value of the session does.
Stores ==
    \/ Doing({"put"}) /\ session' = Stored(What, 1)
    \/ Doing({"blank"}) /\ session' = Stored(What, 0)
    \/ /\ Doing({"keep"})
       /\ session' = Stored(What, IF What \in Inputs[workflow] THEN 1 ELSE 0)
    \/ Doing({"count"}) /\ session' = Stored(What, Counted(What))

\* A count flags that the maximum is reached.
StoreValue ==
    /\ Stores
    /\ GoOn(IF Doing({"count"})
            THEN Flagged(What, Counted(What) = Maximum[What]) ELSE flags)
    /\ UNCHANGED <<place, facts, sent, world, observed, outcome>>

\* What an upload, a call to a service or a deletion does.
Made ==
    \/ Doing({"write"}) /\ world' = world \cup {What} /\ UNCHANGED <<sent, repeated>>
    \/ /\ Doing({"send"}) /\ world' = world \cup {What}
       /\ sent' = sent \cup {What}
       /\ repeated' = IF What \in sent THEN What ELSE repeated
    \/ Doing({"drop"}) /\ world' = world \ {What} /\ UNCHANGED <<sent, repeated>>

\* Mutant: an upload that is refused goes unnoticed.
ChangeOrNot ==
    /\ Made \/ (Doing({"write"}) /\ UNCHANGED <<world, sent, repeated>>)
    /\ GoOn(flags)
    /\ UNCHANGED <<place, facts, session, missing, died, outcome>>

Change ==
    /\ Made /\ GoOn(flags)
    /\ UNCHANGED <<place, facts, session, missing, died, outcome>>

\* What may have happened when the code sees an exception: nothing or all, for
\* it may have been only the answer that was lost, or the closing of a
\* connection that failed after the last file.
HalfDone ==
    \/ Made /\ UNCHANGED session
    \/ Stores /\ UNCHANGED <<world, sent, repeated>>
    \/ UNCHANGED <<world, sent, repeated, session>>

\* Mutant: every failure is caught, and only logged.
CaughtAlways ==
    /\ Doing({"read", "write", "send", "drop", "put", "blank", "keep", "count"})
    /\ HalfDone /\ GoOn(flags \ {Instead})
    /\ UNCHANGED <<place, facts, missing, died, outcome>>

\* A failure of the storage, of the session or of a service that the code
\* catches; the change may or may not have been made.
Caught ==
    /\ Doing({"read", "write", "send", "drop", "put", "blank", "keep", "count"})
    /\ Instead # "raise"
    /\ HalfDone /\ GoOn(flags \ {Instead})
    /\ UNCHANGED <<place, facts, missing, died, outcome>>

-----------------------------------------------------------------------------
(* Results.                                                                  *)

Result ==
    IF rest = << >> THEN "ActivitySuccess"
    ELSE IF Doing({"return"}) THEN What ELSE "none"

\* Mutant: the next activity is begun also after the last one.
CompleteBeyond ==
    /\ Running /\ Result = "ActivitySuccess"
    /\ Stop /\ facts' = << >> /\ sent' = {}
    /\ step' = step + 1
    /\ outcome' = IF Upcoming = {} THEN "COMPLETED" ELSE outcome
    /\ UNCHANGED <<workflow, session, world, observed>>

\* Mutant: an attempt that broke off half-way counts as completed, too.
CompleteAnyway ==
    /\ Running /\ Result # "ActivityPermanentFailure"
    /\ Stop /\ facts' = << >> /\ sent' = {}
    /\ \/ Upcoming # {} /\ step' = Min(Upcoming) /\ UNCHANGED outcome
       \/ Upcoming = {} /\ outcome' = "COMPLETED" /\ UNCHANGED step
    /\ UNCHANGED <<workflow, session, world, observed>>

\* respond_completed: the next activity, or the end of the workflow.
Complete ==
    /\ Running /\ Result = "ActivitySuccess"
    /\ Stop /\ facts' = << >> /\ sent' = {}
    /\ \/ /\ Upcoming # {}
          /\ step' = Min(Upcoming) /\ UNCHANGED outcome
       \/ /\ Upcoming = {}
          /\ outcome' = "COMPLETED" /\ UNCHANGED step
    /\ UNCHANGED <<workflow, session, world, observed>>

\* Mutant: a success may be reported as a failure.
FailAnyway ==
    /\ Running /\ Result \in {"ActivitySuccess", "ActivityTemporaryFailure", "raise"}
    /\ missing' = IF Result = "raise" THEN "error" ELSE missing
    /\ UNCHANGED died
    /\ AttemptFails

\* respond_failed: the decider schedules the activity again.
Fail ==
    /\ Running /\ Result \in {"ActivityTemporaryFailure", "raise"}
    /\ missing' = IF Result = "raise" THEN "error" ELSE missing
    /\ UNCHANGED died
    /\ AttemptFails

\* signal_fail_workflow: the decider fails the workflow.
GiveUp ==
    /\ Running /\ Result = "ActivityPermanentFailure"
    /\ Stop /\ outcome' = "FAILED"
    /\ UNCHANGED <<place, facts, sent, session, world, observed>>

\* The worker dies, a call is lost, or SWF stops waiting for the attempt, as
\* often as it may.
Fault ==
    /\ Running
    /\ died' = TRUE /\ UNCHANGED missing
    /\ AttemptFails

-----------------------------------------------------------------------------
Init ==
    /\ workflow \in DOMAIN Workflows
    /\ step = 1 /\ running = FALSE /\ rest = << >> /\ flags = {} /\ facts = << >>
    /\ sent = {} /\ session = << >> /\ world \in Givens[workflow]
    /\ missing = "nothing" /\ repeated = "nothing" /\ died = FALSE /\ outcome = "OPEN"

Next ==
    \/ Begin \/ GetValue \/ Learn \/ SetFlag \/ Use \/ Lack \/ StoreValue
    \/ Change \/ Caught \/ Complete \/ Fail \/ GiveUp \/ Fault

Spec == Init /\ [][Next]_vars
=============================================================================
