---------------------------- MODULE SwfExecution ----------------------------
(***************************************************************************)
(* One Amazon SWF workflow execution of elife-bot: the deciders that choose *)
(* the next step from a snapshot of the history (decider.py and             *)
(* workflow/objects.py), the workers that run activities (worker.py), and   *)
(* the parts of SWF itself that this code relies on.                        *)
(*                                                                         *)
(* A workflow definition is a sequence of steps and a step is the sequence  *)
(* of the activities it lists.  The code also allows a step that is one     *)
(* activity instead of a list: that is a list of length one, on which both  *)
(* branches of get_next_activities and is_workflow_complete agree.          *)
(***************************************************************************)
EXTENDS Naturals, Sequences, FiniteSets

CONSTANTS
    Activities,    \* activities: an activity_type with its activity_id
    Definitions,   \* the workflow definitions an execution may be started with
    Deciders,      \* decider.py processes
    Workers,       \* worker.py processes
    NoActivity,    \* stands for "this event names no activity"
    MaxFailures,   \* bound: how often activities fail and are to be retried
    MaxFaults,     \* bound: crashes, lost calls and time-outs of live processes
    MaxEvents      \* bound: events in a history, by definition (SWF stops at 25000)

ASSUME ConstantsAssumption ==
    /\ \A definition \in Definitions : definition \in Seq(Seq(Activities))
    /\ NoActivity \notin Activities
    /\ MaxFailures \in Nat /\ MaxFaults \in Nat
    /\ MaxEvents \in [Definitions -> Nat]

VARIABLES
    definition,    \* self.definition["steps"] of the workflow
    history,       \* the events of the execution that the code reads
    execution,     \* the status of the execution in SWF
    decisionTask,  \* SWF keeps at most one decision task per execution
    taskList,      \* scheduled activity tasks that no worker has polled yet
    decider,       \* what each decider process is doing
    worker,        \* what each worker process is doing
    performed,     \* observer: activities whose do_activity succeeded
    refused,       \* observer: activities whose do_activity gave up for good
    failures,      \* failures counted against MaxFailures
    faults         \* faults counted against MaxFaults

swf == <<history, execution, decisionTask, taskList>>
observers == <<performed, refused>>
bounds == <<failures, faults>>
vars == <<definition, swf, decider, worker, observers, bounds>>

-----------------------------------------------------------------------------
(* Events.  The identity of an event is its position in the history.  Events *)
(* the code never looks at (decision tasks, activity starts) are left out.   *)

EventTypes ==
    {"ActivityTaskScheduled", "ScheduleActivityTaskFailed",
     "ActivityTaskCompleted", "ActivityTaskFailed", "ActivityTaskTimedOut",
     "WorkflowExecutionCancelRequested"}

Event(type, activity, id) ==
    [eventType |-> type, activity |-> activity, scheduledEventId |-> id]

IsScheduled(h, i) == i \in DOMAIN h /\ h[i].eventType = "ActivityTaskScheduled"

\* SWF has no answer and no time-out yet for the task scheduled by event i
IsOpen(h, i) ==
    /\ IsScheduled(h, i)
    /\ \A j \in DOMAIN h : h[j].scheduledEventId # i

OpenActivities(h) == {h[i].activity : i \in {k \in DOMAIN h : IsOpen(h, k)}}

CancelRequested(h) ==
    \E i \in DOMAIN h : h[i].eventType = "WorkflowExecutionCancelRequested"

-----------------------------------------------------------------------------
(* The workflow base class: what it reads out of a decision's events.       *)

\* An activity is completed when a scheduled event of its type and id is the
\* one some ActivityTaskCompleted event refers to.
ActivityStatus(h, a) ==
    \E j \in DOMAIN h :
        /\ h[j].eventType = "ActivityTaskCompleted"
        /\ IsScheduled(h, h[j].scheduledEventId)
        /\ h[h[j].scheduledEventId].activity = a

IsWorkflowComplete(h) ==
    \A s \in DOMAIN definition : \A k \in DOMAIN definition[s] :
        ActivityStatus(h, definition[s][k])

\* Mutant: a step is fresh only while none of its activities was ever scheduled.
StepIsFreshOnce(h, step) ==
    \A k \in DOMAIN step : \A i \in DOMAIN h :
        ~(IsScheduled(h, i) /\ h[i].activity = step[k])

\* The list branch: not all_completed, and none_started, which the code clears
\* when an activity has completed, not when one has started.
StepIsFresh(h, step) ==
    /\ \E k \in DOMAIN step : ~ActivityStatus(h, step[k])
    /\ \A k \in DOMAIN step : ~ActivityStatus(h, step[k])

\* Mutant: any fresh step will do.
IsAnyFreshStep(h, s) == StepIsFresh(h, definition[s])

\* get_next_activities returns the activities of the first fresh step.
IsNextStep(h, s) ==
    /\ StepIsFresh(h, definition[s])
    /\ \A t \in 1 .. s - 1 : ~StepIsFresh(h, definition[t])

\* Mutant: look only at the last event.
FailRequestedLast(h) ==
    h # << >> /\ h[Len(h)].eventType = "WorkflowExecutionCancelRequested"

\* check_for_failed_workflow_request looks for the request in the whole list
FailRequested(h) == CancelRequested(h)

-----------------------------------------------------------------------------
(* SWF, as far as the code can see it.                                      *)

Trigger(task) == IF task = "none" THEN "scheduled" ELSE task

\* A new event that a decider has to hear of.
RecordEvent(e) ==
    /\ history' = Append(history, e)
    /\ decisionTask' = Trigger(decisionTask)

\* What SWF records for one ScheduleActivityTask decision: an activity id can
\* have one open task at a time.
ScheduleResult(h, a) ==
    IF a \in OpenActivities(h)
    THEN Event("ScheduleActivityTaskFailed", a, 0)
    ELSE Event("ActivityTaskScheduled", a, 0)

Seen(d) == SubSeq(history, 1, decider[d].snapshot)
TokenAccepted(d) == execution = "OPEN" /\ decider[d].current
UnhandledEvents(d) == Len(history) > decider[d].snapshot

\* A decision that closes the execution fails (UNHANDLED_DECISION) when events
\* arrived after the decision task was started.
CloseExecution(d, status) ==
    /\ IF UnhandledEvents(d)
       THEN decisionTask' = "scheduled" /\ UNCHANGED execution
       ELSE decisionTask' = "none" /\ execution' = status
    /\ UNCHANGED <<history, taskList>>

\* Mutant: event ids counted from zero.
ScheduleActivitiesFromZero(d, activities) ==
    LET new == [k \in DOMAIN activities |-> ScheduleResult(history, activities[k])]
    IN /\ history' = history \o new
       /\ taskList' = taskList \cup {Len(history) + k - 1 : k \in DOMAIN new}
       /\ decisionTask' = IF UnhandledEvents(d) THEN "scheduled" ELSE "none"
       /\ UNCHANGED execution

\* Decisions to schedule activities; those that fail ask for a new decision.
ScheduleActivities(d, activities) ==
    LET new == [k \in DOMAIN activities |-> ScheduleResult(history, activities[k])]
        scheduled == {k \in DOMAIN new : new[k].eventType = "ActivityTaskScheduled"}
    IN /\ Len(history) + Len(activities) <= MaxEvents[definition]
       /\ history' = history \o new
       /\ taskList' = taskList \cup {Len(history) + k : k \in scheduled}
       /\ decisionTask' = IF UnhandledEvents(d) \/ scheduled # DOMAIN new
                          THEN "scheduled" ELSE "none"
       /\ UNCHANGED execution

Fault == faults < MaxFaults /\ faults' = faults + 1

-----------------------------------------------------------------------------
(* decider.py and Workflow.do_workflow.                                      *)

IdleDecider == [phase |-> "polling", snapshot |-> 0, current |-> FALSE]

\* Mutant: the last page of events is lost.
PollWithoutLastPage(d) ==
    /\ decider[d].phase = "polling"
    /\ execution = "OPEN" /\ decisionTask = "scheduled"
    /\ decisionTask' = "started"
    /\ \E n \in {Len(history), Len(history) - 1} \cap Nat :
           decider' = [decider EXCEPT ![d] =
               [phase |-> "deciding", snapshot |-> n, current |-> TRUE]]
    /\ UNCHANGED <<definition, history, execution, taskList, worker, observers, bounds>>

\* The decision holds the whole history up to now: get_all_paged_events follows
\* nextPageToken to the last page, so handle_nextPageToken never finds one.
PollForDecisionTask(d) ==
    /\ decider[d].phase = "polling"
    /\ execution = "OPEN" /\ decisionTask = "scheduled"
    /\ decisionTask' = "started"
    /\ decider' = [decider EXCEPT ![d] =
           [phase |-> "deciding", snapshot |-> Len(history), current |-> TRUE]]
    /\ UNCHANGED <<definition, history, execution, taskList, worker, observers, bounds>>

\* Mutant: an activity is done when its task is no longer open.
CompleteWhenNothingOpen(d) ==
    /\ decider[d].phase = "deciding"
    /\ OpenActivities(Seen(d)) = {}
    /\ \A s \in DOMAIN definition : \A k \in DOMAIN definition[s] :
          \E i \in DOMAIN Seen(d) : Seen(d)[i].activity = definition[s][k]
    /\ IF TokenAccepted(d) THEN CloseExecution(d, "COMPLETED") ELSE UNCHANGED swf
    /\ decider' = [decider EXCEPT ![d] = IdleDecider]
    /\ UNCHANGED <<definition, worker, observers, bounds>>

CompleteWorkflow(d) ==
    /\ decider[d].phase = "deciding"
    /\ IsWorkflowComplete(Seen(d))
    /\ IF TokenAccepted(d) THEN CloseExecution(d, "COMPLETED") ELSE UNCHANGED swf
    /\ decider' = [decider EXCEPT ![d] = IdleDecider]
    /\ UNCHANGED <<definition, worker, observers, bounds>>

\* Mutant: look for a request to fail before looking whether all is done.
FailBeforeComplete(d) ==
    /\ decider[d].phase = "deciding" /\ FailRequested(Seen(d))
    /\ IF TokenAccepted(d) THEN CloseExecution(d, "FAILED") ELSE UNCHANGED swf
    /\ decider' = [decider EXCEPT ![d] = IdleDecider]
    /\ UNCHANGED <<definition, worker, observers, bounds>>

\* The method answers the decision task and returns to do_workflow, which goes
\* on with the same token.  A rejected call raises and ends do_workflow.
CheckForFailedWorkflowRequest(d) ==
    /\ decider[d].phase = "deciding"
    /\ ~IsWorkflowComplete(Seen(d)) /\ FailRequested(Seen(d))
    /\ IF TokenAccepted(d)
       THEN /\ CloseExecution(d, "FAILED")
            /\ decider' = [decider EXCEPT ![d].phase = "answered", ![d].current = FALSE]
       ELSE UNCHANGED swf /\ decider' = [decider EXCEPT ![d] = IdleDecider]
    /\ UNCHANGED <<definition, worker, observers, bounds>>

AtSchedule(d) ==
    \/ decider[d].phase = "answered"
    \/ /\ decider[d].phase = "deciding"
       /\ ~IsWorkflowComplete(Seen(d)) /\ ~FailRequested(Seen(d))

\* Mutant: the loop over the steps goes on after the one that is next.
ScheduleNextAndOneMore(d) ==
    /\ AtSchedule(d)
    /\ \E s \in DOMAIN definition :
           /\ IsNextStep(Seen(d), s)
           /\ IF TokenAccepted(d)
              THEN ScheduleActivities(d, definition[s] \o
                       IF s < Len(definition) THEN definition[s + 1] ELSE << >>)
              ELSE UNCHANGED swf
    /\ decider' = [decider EXCEPT ![d] = IdleDecider]
    /\ UNCHANGED <<definition, worker, observers, bounds>>

ScheduleNextActivities(d) ==
    /\ AtSchedule(d)
    /\ \E s \in DOMAIN definition :
           /\ IsNextStep(Seen(d), s)
           /\ IF TokenAccepted(d)
              THEN ScheduleActivities(d, definition[s])
              ELSE UNCHANGED swf
    /\ decider' = [decider EXCEPT ![d] = IdleDecider]
    /\ UNCHANGED <<definition, worker, observers, bounds>>

\* complete_decision(None) raises; invoke_do_workflow logs it and the decision
\* task is left without an answer.
NoNextActivity(d) ==
    /\ AtSchedule(d)
    /\ ~ \E s \in DOMAIN definition : IsNextStep(Seen(d), s)
    /\ decider' = [decider EXCEPT ![d] = IdleDecider]
    /\ UNCHANGED <<definition, swf, worker, observers, bounds>>

\* The process dies, or its call never reaches SWF and raises.
DeciderLost(d) ==
    /\ decider[d].phase # "polling"
    /\ Fault
    /\ decider' = [decider EXCEPT ![d] = IdleDecider]
    /\ UNCHANGED <<definition, swf, worker, observers, failures>>

-----------------------------------------------------------------------------
(* worker.py: poll, do the activity, tell SWF.                               *)

Results == {"ACTIVITY_SUCCESS", "ACTIVITY_TEMPORARY_FAILURE",
            "ACTIVITY_PERMANENT_FAILURE", "ACTIVITY_EXIT_WORKFLOW",
            "legacy true", "legacy false or exception", "not importable"}

\* Mutants: only success is no failure for good; only giving up is no success.
ResponseWithoutRetry(result) ==
    IF result \in {"ACTIVITY_SUCCESS", "legacy true"} THEN "completed" ELSE "cancel"

ResponseWithoutFailure(result) ==
    IF result \in {"ACTIVITY_PERMANENT_FAILURE", "ACTIVITY_EXIT_WORKFLOW"}
    THEN "cancel" ELSE "completed"

\* The call process_activity makes for what do_activity returned.
ResponseTo(result) ==
    CASE result \in {"ACTIVITY_SUCCESS", "legacy true"} -> "completed"
      [] result \in {"ACTIVITY_TEMPORARY_FAILURE", "legacy false or exception",
                     "not importable"} -> "failed"
      [] OTHER -> "cancel"

IdleWorker == [phase |-> "polling", task |-> 0, response |-> "none"]

PollForActivityTask(w, i) ==
    /\ worker[w].phase = "polling"
    /\ execution = "OPEN" /\ i \in taskList
    /\ taskList' = taskList \ {i}
    /\ worker' = [worker EXCEPT ![w] =
                      [phase |-> "running", task |-> i, response |-> "none"]]
    /\ UNCHANGED <<definition, history, execution, decisionTask, decider, observers, bounds>>

DoActivity(w, result) ==
    /\ worker[w].phase = "running"
    /\ worker' = [worker EXCEPT ![w].phase = "responding",
                                ![w].response = ResponseTo(result)]
    /\ LET a == history[worker[w].task].activity IN
       /\ performed' = IF result \in {"ACTIVITY_SUCCESS", "legacy true"}
                       THEN performed \cup {a} ELSE performed
       /\ refused' = IF result \in {"ACTIVITY_PERMANENT_FAILURE", "ACTIVITY_EXIT_WORKFLOW"}
                     THEN refused \cup {a} ELSE refused
    /\ IF ResponseTo(result) = "failed"
       THEN failures < MaxFailures /\ failures' = failures + 1
       ELSE UNCHANGED failures
    /\ UNCHANGED <<definition, swf, decider, faults>>

\* respond_completed and respond_failed: SWF refuses the token of a task that
\* is closed, and the worker logs the error.
Respond(w, response, type) ==
    LET i == worker[w].task IN
    /\ worker[w].phase = "responding" /\ worker[w].response = response
    /\ IF execution = "OPEN" /\ IsOpen(history, i)
       THEN RecordEvent(Event(type, NoActivity, i))
       ELSE UNCHANGED <<history, decisionTask>>
    /\ worker' = [worker EXCEPT ![w] = IdleWorker]
    /\ UNCHANGED <<definition, execution, taskList, decider, observers, bounds>>

RespondCompleted(w) == Respond(w, "completed", "ActivityTaskCompleted")
RespondFailed(w) == Respond(w, "failed", "ActivityTaskFailed")

\* The activity task itself gets no answer; SWF accepts the request whether or
\* not the task is still open, as long as the execution is.
SignalFailWorkflow(w) ==
    /\ worker[w].phase = "responding" /\ worker[w].response = "cancel"
    /\ IF execution = "OPEN"
       THEN RecordEvent(Event("WorkflowExecutionCancelRequested", NoActivity, 0))
       ELSE UNCHANGED <<history, decisionTask>>
    /\ worker' = [worker EXCEPT ![w] = IdleWorker]
    /\ UNCHANGED <<definition, execution, taskList, decider, observers, bounds>>

\* The process dies, or its call is lost and the ClientError only logged.
WorkerLost(w) ==
    /\ worker[w].phase # "polling"
    /\ Fault
    /\ worker' = [worker EXCEPT ![w] = IdleWorker]
    /\ UNCHANGED <<definition, swf, decider, observers, failures>>

-----------------------------------------------------------------------------
(* Time-outs.  One that strikes a process still at work counts as a fault:   *)
(* that process carries on with a token SWF no longer accepts.               *)

InHand(i) == i \in taskList \/ \E w \in Workers : worker[w].task = i

ActivityTimeout(i) ==
    /\ execution = "OPEN" /\ IsOpen(history, i)
    /\ RecordEvent(Event("ActivityTaskTimedOut", NoActivity, i))
    /\ taskList' = taskList \ {i}
    /\ IF InHand(i) THEN Fault ELSE UNCHANGED faults
    /\ UNCHANGED <<definition, execution, decider, worker, observers, failures>>

DecisionTimeout ==
    /\ execution = "OPEN" /\ decisionTask = "started"
    /\ decisionTask' = "scheduled"
    /\ IF \E d \in Deciders : decider[d].current THEN Fault ELSE UNCHANGED faults
    /\ decider' = [d \in Deciders |-> [decider[d] EXCEPT !.current = FALSE]]
    /\ UNCHANGED <<definition, history, execution, taskList, worker, observers, failures>>

\* default_execution_start_to_close_timeout of the workflow runs out.
ExecutionTimeout ==
    /\ execution = "OPEN"
    /\ execution' = "TIMED_OUT" /\ decisionTask' = "none"
    /\ UNCHANGED <<definition, history, taskList, decider, worker, observers, bounds>>

\* Nothing is left to do when the execution is closed and every process polls.
Quiescent ==
    /\ execution # "OPEN"
    /\ \A d \in Deciders : decider[d].phase = "polling"
    /\ \A w \in Workers : worker[w].phase = "polling"
    /\ UNCHANGED vars

-----------------------------------------------------------------------------
Init ==
    /\ definition \in Definitions
    /\ history = << >> /\ execution = "OPEN"
    /\ decisionTask = "scheduled" /\ taskList = {}
    /\ decider = [d \in Deciders |-> IdleDecider]
    /\ worker = [w \in Workers |-> IdleWorker]
    /\ performed = {} /\ refused = {}
    /\ failures = 0 /\ faults = 0

DeciderStep(d) ==
    \/ CompleteWorkflow(d)
    \/ CheckForFailedWorkflowRequest(d)
    \/ ScheduleNextActivities(d)
    \/ NoNextActivity(d)

WorkerStep(w) ==
    \/ \E result \in Results : DoActivity(w, result)
    \/ RespondCompleted(w) \/ RespondFailed(w) \/ SignalFailWorkflow(w)

Next ==
    \/ \E d \in Deciders : PollForDecisionTask(d) \/ DeciderStep(d) \/ DeciderLost(d)
    \/ \E w \in Workers :
           \/ \E i \in taskList : PollForActivityTask(w, i)
           \/ WorkerStep(w)
           \/ WorkerLost(w)
    \/ \E i \in DOMAIN history : ActivityTimeout(i)
    \/ DecisionTimeout
    \/ ExecutionTimeout
    \/ Quiescent

Spec == Init /\ [][Next]_vars

\* Processes keep polling and finish what they began, and SWF times out what
\* nobody works on.  The execution time-out is not among what must happen.
Fairness ==
    /\ WF_vars(\E d \in Deciders : PollForDecisionTask(d))
    /\ \A d \in Deciders : WF_vars(DeciderStep(d))
    /\ WF_vars(\E w \in Workers : \E i \in taskList : PollForActivityTask(w, i))
    /\ \A w \in Workers : WF_vars(WorkerStep(w))
    /\ WF_vars(\E i \in DOMAIN history : ~InHand(i) /\ ActivityTimeout(i))
    /\ WF_vars((\A d \in Deciders : ~decider[d].current) /\ DecisionTimeout)

FairSpec == Spec /\ Fairness

-----------------------------------------------------------------------------
(* Properties.                                                               *)

\* Every shipped definition has one activity in each step.
Sequential == \A steps \in Definitions : \A s \in DOMAIN steps : Len(steps[s]) = 1

\* The types of the variables; what is polled, worked on or
\* answered was scheduled.
TypeOK ==
    /\ definition \in Definitions
    /\ history \in Seq([eventType : EventTypes,
                        activity : Activities \cup {NoActivity},
                        scheduledEventId : Nat])
    /\ execution \in {"OPEN", "COMPLETED", "FAILED", "TIMED_OUT"}
    /\ decisionTask \in {"none", "scheduled", "started"}
    /\ \A i \in DOMAIN history : IsScheduled(history, i) => history[i].activity \in Activities
    /\ \A i \in DOMAIN history : history[i].scheduledEventId < i
    /\ \A i \in taskList : IsScheduled(history, i)
    /\ decider \in [Deciders -> [phase : {"polling", "deciding", "answered"},
                                 snapshot : Nat, current : BOOLEAN]]
    /\ \A d \in Deciders : decider[d].snapshot <= Len(history)
    /\ worker \in [Workers -> [phase : {"polling", "running", "responding"},
                               task : Nat,
                               response : {"none", "completed", "failed", "cancel"}]]
    /\ \A w \in Workers : worker[w].phase # "polling" => IsScheduled(history, worker[w].task)
    /\ performed \subseteq Activities /\ refused \subseteq Activities
    /\ failures \in 0 .. MaxFailures /\ faults \in 0 .. MaxFaults

\* Nothing is missing of the step, or of a parallel one not everything.
StepBegun(h, step) ==
    step = << >> \/ \E k \in DOMAIN step : ActivityStatus(h, step[k])

\* get_next_activities: an activity is scheduled only after each step before its
\* own was completed, or has one completed activity if it is a parallel one;
\* whichever decider schedules it, however stale.
StepOrder ==
    \A j \in DOMAIN history : IsScheduled(history, j) =>
        \E s \in DOMAIN definition :
            /\ \E k \in DOMAIN definition[s] : definition[s][k] = history[j].activity
            /\ \A t \in 1 .. s - 1 : StepBegun(SubSeq(history, 1, j - 1), definition[t])

\* Two activities that one step lists, to run beside each other.
SideBySide(a, b) ==
    \E s \in DOMAIN definition : \E k, l \in DOMAIN definition[s] :
        k # l /\ definition[s][k] = a /\ definition[s][l] = b

\* An activity of a parallel step, or of a step that may begin beside one.
FromParallel(a) ==
    \E s \in DOMAIN definition : \E t \in 1 .. s :
        Len(definition[t]) > 1 /\ \E k \in DOMAIN definition[s] : definition[s][k] = a

\* A completed activity is never scheduled a second time, though SWF times out
\* attempts that later succeed and decisions that are later answered.  From a
\* parallel step on this is not so: what fails takes the others with it.
NoRepeatAfterCompletion ==
    \A j \in DOMAIN history :
        IsScheduled(history, j) /\ ~FromParallel(history[j].activity)
        => ~ActivityStatus(SubSeq(history, 1, j - 1), history[j].activity)

\* SWF never has two activity tasks of the execution open at once, but for
\* different activities from a parallel step on.
OneOpenAttempt ==
    \A i, j \in DOMAIN history : i # j /\ IsOpen(history, i) /\ IsOpen(history, j) =>
        LET a == history[i].activity  b == history[j].activity
        IN a # b /\ FromParallel(a) /\ FromParallel(b)

\* Once an activity asked to fail the workflow (signal_fail_workflow) at most
\* one more step is scheduled: by the decider that polled before it asked.
CancelStopsScheduling ==
    \A i \in DOMAIN history : history[i].eventType = "WorkflowExecutionCancelRequested" =>
        \A j, k \in DOMAIN history :
            /\ i < j /\ j < k
            /\ IsScheduled(history, j) /\ IsScheduled(history, k)
            => SideBySide(history[j].activity, history[k].activity)

\* do_workflow completes the execution on a snapshot: no activity is missing.
CompletedOnlyWhenDone ==
    execution = "COMPLETED" => IsWorkflowComplete(history)

\* An execution fails only because some do_activity gave up for good, and never
\* when the work was done in spite of it.
FailedOnlyOnRequest ==
    execution = "FAILED" => refused # {} /\ ~IsWorkflowComplete(history)

\* What the history calls completed is an activity whose do_activity succeeded.
CompletedIsPerformed ==
    \A a \in Activities : ActivityStatus(history, a) => a \in performed

\* The execution closes without having to run out of its own time.
EventuallyCloses == <>(execution # "OPEN")

\* The promise of WorkflowPipeline.
Pipeline == INSTANCE WorkflowPipeline WITH
    done <- {a \in Activities : ActivityStatus(history, a)},
    stop <- CancelRequested(history),
    outcome <- execution

PipelineSpec == Pipeline!Spec
=============================================================================
