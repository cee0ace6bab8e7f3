--------------------------- MODULE WorkflowIntake ---------------------------
(***************************************************************************)
(* From a message on an SQS queue to a started workflow: queue_worker.py    *)
(* (files that arrive in S3 buckets), lax_response_adapter.py (answers of   *)
(* the article store) and era_queue_worker.py (ERA articles) turn messages  *)
(* into requests on one queue, and queue_workflow_starter.py starts the     *)
(* workflows.  SQS delivers at least once: a message that was received and  *)
(* not deleted becomes visible again when its visibility timeout runs out.  *)
(***************************************************************************)
EXTENDS Naturals, Sequences, FiniteSets

CONSTANTS
    Inputs,     \* the messages that may arrive, each a record, see InputType
    Processes,  \* processes that poll a queue
    Reads,      \* the queue each of them polls
    MaxFaults   \* bound: crashes, late deletions, start calls that are lost

Queues == {"new_file", "lax_response", "era_incoming", "workflow_starter"}

Kinds == [new_file |-> {"matched", "unmatched", "not an S3Event"},
          lax_response |-> {"ingest", "forced ingest", "publish", "unreadable token"},
          era_incoming |-> {"display", "no display"}]

\* number tells messages about the same file or article apart.
InputType(m) == m.queue \in DOMAIN Kinds /\ m.kind \in Kinds[m.queue]

ASSUME IntakeAssumption ==
    /\ \A m \in Inputs : InputType(m)
    /\ IsFiniteSet(Processes) /\ Reads \in [Processes -> Queues]
    /\ MaxFaults \in Nat

VARIABLES
    messages,  \* the input (first) and the requests sent for it: their state
    process,   \* what each process is doing
    open,      \* inputs whose workflow execution is open
    started,   \* observer: executions started for an input
    tried,     \* observer: calls made to start one
    lost,      \* observer: inputs for which such a call was lost
    faults

swf == <<open, started, tried, lost>>
vars == <<messages, process, swf, faults>>

-----------------------------------------------------------------------------
(* What the workers make of a message.                                       *)

\* "start" and "drop" delete the message, "keep" does not, and "raise" ends the
\* process.  The look-up at Software Heritage may find the article, not find
\* it, or raise, which counts as found.  A token of Lax that cannot be parsed is
\* replaced by one without the key "force", which parse_message reads next.
Verdicts(m) ==
    CASE m.kind \in {"matched", "ingest", "forced ingest", "publish"} -> {"start"}
      [] m.kind = "display" -> {"start", "drop"}
      [] m.kind = "unmatched" -> {"drop"}
      [] m.kind \in {"not an S3Event", "no display"} -> {"keep"}
      [] m.kind = "unreadable token" -> {"raise"}

starter_name(m) ==
    CASE m.queue = "new_file" -> "IngestArticleZip"
      [] m.queue = "era_incoming" -> "SoftwareHeritageDeposit"
      [] m.kind = "ingest" -> "ProcessArticleZip"
      [] m.kind = "forced ingest" -> "SilentCorrectionsProcess"
      [] OTHER -> "PostPerfectPublication"

workflow_id(m) == <<starter_name(m), m.subject>>

-----------------------------------------------------------------------------
(* SQS.                                                                      *)

QueueOf(m, k) == IF k = 1 THEN m.queue ELSE "workflow_starter"

Idle == [phase |-> "polling", message |-> << >>, receipt |-> FALSE]

Input(p) == process[p].message[1]
Copy(p) == process[p].message[2]
Holds(p, m, k) ==
    /\ process[p].phase # "polling"
    /\ process[p].message = <<m, k>> /\ process[p].receipt

Fault == faults < MaxFaults /\ faults' = faults + 1

\* Mutant: the message is deleted as soon as it is received.
ReceiveAndDelete(p, m, k) ==
    /\ process[p].phase = "polling" /\ k \in DOMAIN messages[m]
    /\ messages[m][k] = "waiting" /\ QueueOf(m, k) = Reads[p]
    /\ messages' = [messages EXCEPT ![m][k] = "deleted"]
    /\ process' = [process EXCEPT ![p] =
           [phase |-> "received", message |-> <<m, k>>, receipt |-> TRUE]]
    /\ UNCHANGED <<swf, faults>>

\* Mutant: the process polls the queue of another one.
ReceiveFromAny(p, m, k) ==
    /\ process[p].phase = "polling" /\ k \in DOMAIN messages[m]
    /\ messages[m][k] = "waiting"
    /\ messages' = [messages EXCEPT ![m][k] = "received"]
    /\ process' = [process EXCEPT ![p] =
           [phase |-> "received", message |-> <<m, k>>, receipt |-> TRUE]]
    /\ UNCHANGED <<swf, faults>>

Receive(p, m, k) ==
    /\ process[p].phase = "polling" /\ k \in DOMAIN messages[m]
    /\ messages[m][k] = "waiting" /\ QueueOf(m, k) = Reads[p]
    /\ messages' = [messages EXCEPT ![m][k] = "received"]
    /\ process' = [process EXCEPT ![p] =
           [phase |-> "received", message |-> <<m, k>>, receipt |-> TRUE]]
    /\ UNCHANGED <<swf, faults>>

Held(m, k) == \E p \in Processes : Holds(p, m, k)

\* A time-out that a process at work did not beat counts as a fault.
VisibilityTimeout(m, k) ==
    /\ k \in DOMAIN messages[m] /\ messages[m][k] = "received"
    /\ messages' = [messages EXCEPT ![m][k] = "waiting"]
    /\ process' = [p \in Processes |->
           IF Holds(p, m, k) THEN [process[p] EXCEPT !.receipt = FALSE] ELSE process[p]]
    /\ IF Held(m, k) THEN Fault ELSE UNCHANGED faults
    /\ UNCHANGED swf

\* A receipt that is no longer the latest may or may not delete the message.
Delete(p) ==
    /\ \E state \in IF process[p].receipt THEN {"deleted"}
                    ELSE {"deleted", messages[Input(p)][Copy(p)]} :
           messages' = [messages EXCEPT ![Input(p)][Copy(p)] = state]
    /\ process' = [process EXCEPT ![p] = Idle]
    /\ UNCHANGED <<swf, faults>>

-----------------------------------------------------------------------------
(* queue_worker.py, lax_response_adapter.py, era_queue_worker.py             *)

Decides(p, verdict) ==
    /\ process[p].phase = "received" /\ Reads[p] # "workflow_starter"
    /\ verdict \in Verdicts(Input(p))

SendRequest(p) ==
    /\ Decides(p, "start")
    /\ messages' = [messages EXCEPT ![Input(p)] = Append(@, "waiting")]
    /\ process' = [process EXCEPT ![p].phase = "done"]
    /\ UNCHANGED <<swf, faults>>

\* The worker goes on without the message, or dies and is started again.
LeaveMessage(p) ==
    /\ \E verdict \in {"keep", "raise"} : Decides(p, verdict)
    /\ process' = [process EXCEPT ![p] = Idle]
    /\ UNCHANGED <<messages, swf, faults>>

\* Mutant: a message that starts nothing is not deleted.
DeleteStarted(p) ==
    IF process[p].phase = "done" THEN Delete(p)
    ELSE /\ Decides(p, "drop")
         /\ process' = [process EXCEPT ![p] = Idle]
         /\ UNCHANGED <<messages, swf, faults>>

DeleteMessage(p) ==
    /\ process[p].phase = "done" \/ Decides(p, "drop")
    /\ Delete(p)

\* The process dies, or a call of it raises, which ends it too.
Crash(p) ==
    /\ process[p].phase # "polling"
    /\ Fault
    /\ process' = [process EXCEPT ![p] = Idle]
    /\ UNCHANGED <<messages, swf>>

-----------------------------------------------------------------------------
(* queue_workflow_starter.py                                                 *)

Starting(p) == process[p].phase = "received" /\ Reads[p] = "workflow_starter"

\* Mutant: one execution at a time, of whichever workflow.
IsAnyOpen(m) == open # {}

IsOpen(m) == \E other \in open : workflow_id(other) = workflow_id(m)

Start(m) ==
    /\ tried' = [tried EXCEPT ![m] = @ + 1]
    /\ IF IsOpen(m)
       THEN UNCHANGED <<open, started>>
       ELSE open' = open \cup {m} /\ started' = [started EXCEPT ![m] = @ + 1]

\* Mutant: what is raised for a start that SWF refuses ends the starter.
StartOrRaise(p) ==
    /\ Starting(p) /\ Start(Input(p))
    /\ process' = [process EXCEPT ![p] =
           IF IsOpen(Input(p)) THEN Idle ELSE [@ EXCEPT !.phase = "done"]]
    /\ UNCHANGED <<messages, lost, faults>>

\* SWF refuses a second open execution of a workflow_id.  The starter logs
\* that and any other error, and the message is deleted.
StartWorkflow(p) ==
    /\ Starting(p) /\ Start(Input(p))
    /\ process' = [process EXCEPT ![p].phase = "done"]
    /\ UNCHANGED <<messages, lost, faults>>

StartLost(p) ==
    /\ Starting(p)
    /\ Fault
    /\ tried' = [tried EXCEPT ![Input(p)] = @ + 1]
    /\ lost' = lost \cup {Input(p)}
    /\ process' = [process EXCEPT ![p].phase = "done"]
    /\ UNCHANGED <<messages, open, started>>

CloseExecution(m) ==
    /\ m \in open /\ open' = open \ {m}
    /\ UNCHANGED <<messages, process, started, tried, lost, faults>>

-----------------------------------------------------------------------------
\* A message that arrives later is one that is received later; none arrives
\* beyond those of Inputs.
Init ==
    /\ messages = [m \in Inputs |-> <<"waiting">>]
    /\ process = [p \in Processes |-> Idle]
    /\ open = {} /\ lost = {}
    /\ started = [m \in Inputs |-> 0] /\ tried = [m \in Inputs |-> 0]
    /\ faults = 0

ProcessStep(p) ==
    \/ SendRequest(p)
    \/ LeaveMessage(p)
    \/ StartWorkflow(p)
    \/ DeleteMessage(p)

Next ==
    \/ \E m \in Inputs :
           \/ CloseExecution(m)
           \/ \E k \in DOMAIN messages[m] :
                  \/ VisibilityTimeout(m, k)
                  \/ \E p \in Processes : Receive(p, m, k)
    \/ \E p \in Processes : ProcessStep(p) \/ StartLost(p) \/ Crash(p)

Spec == Init /\ [][Next]_vars

\* Processes do not stop half-way but for faults, SQS hands a message that keeps
\* waiting to some reader in the end, and its time-outs run out.
Fairness ==
    /\ \A p \in Processes : WF_vars(ProcessStep(p))
    /\ \A m \in Inputs :
           /\ SF_vars(\E p \in Processes, k \in DOMAIN messages[m] : Receive(p, m, k))
           /\ WF_vars(\E k \in DOMAIN messages[m] : ~Held(m, k) /\ VisibilityTimeout(m, k))

FairSpec == Spec /\ Fairness

-----------------------------------------------------------------------------
(* Properties.                                                               *)

\* The types of the variables.
TypeOK ==
    /\ messages \in [Inputs -> Seq({"waiting", "received", "deleted"})]
    /\ process \in [Processes -> [phase : {"polling", "received", "done"},
                                  message : {<< >>} \cup (Inputs \X Nat),
                                  receipt : BOOLEAN]]
    /\ \A p \in Processes : process[p].phase # "polling" =>
           /\ Copy(p) \in DOMAIN messages[Input(p)]
           /\ QueueOf(Input(p), Copy(p)) = Reads[p]
    /\ open \subseteq Inputs /\ lost \subseteq Inputs
    /\ \A m, n \in open : workflow_id(m) = workflow_id(n) => m = n
    /\ started \in [Inputs -> Nat] /\ tried \in [Inputs -> Nat]
    /\ faults \in 0 .. MaxFaults

Consumed(m) == \A k \in DOMAIN messages[m] : messages[m][k] = "deleted"

\* Send, then delete: a message that calls for a workflow does not leave the
\* queues before somebody tried to start it, whichever process dies and when.
NothingDropped ==
    \A m \in Inputs : Verdicts(m) = {"start"} /\ Consumed(m) => tried[m] > 0

\* Every attempt to start the workflow of a message after the first has a fault
\* of its own to blame, over both hops together.
RepeatsAreFaults == \A m \in Inputs : tried[m] <= 1 + faults

\* When the messages about a file or an article have all been handled it was
\* ingested at least once, unless a call to start that was lost.  Starts that SWF
\* refused are no harm: something with the same id was running.
IngestedAtLeastOnce ==
    \A m \in Inputs :
        LET same == {n \in Inputs : Verdicts(n) = {"start"} /\ workflow_id(n) = workflow_id(m)}
        IN m \in same /\ (\A n \in same : Consumed(n)) /\ same \cap lost = {} =>
               \E n \in same : started[n] > 0

\* "When a new or modified file is identified a workflow is trigged in SWF":
\* without any fault every message about a file starts a workflow.
EveryFileTriggers ==
    \A m \in Inputs :
        m.kind = "matched" /\ Consumed(m) /\ faults = 0 => started[m] > 0

\* Messages that the workers know what to do with are handled in the end, in
\* spite of others that come back for ever.
EventuallyConsumed ==
    \A m \in Inputs : Verdicts(m) \subseteq {"start", "drop"} =>
        <>Consumed(m)
=============================================================================
