------------------------- MODULE SwfExecutionProofs -------------------------
(***************************************************************************)
(* Proofs about SwfExecution, for any definitions, any processes and any    *)
(* bounds.                                                                  *)
(***************************************************************************)
EXTENDS SwfExecution, TLAPS, SequenceTheorems

EventRecord == [eventType : EventTypes,
                activity : Activities \cup {NoActivity},
                scheduledEventId : Nat]

\* An event built from parts of the right kind is an event record.
LEMMA EventType ==
    ASSUME NEW type \in EventTypes, NEW a \in Activities \cup {NoActivity}, NEW i \in Nat
    PROVE  /\ Event(type, a, i) \in EventRecord
           /\ Event(type, a, i).eventType = type
           /\ Event(type, a, i).activity = a
           /\ Event(type, a, i).scheduledEventId = i
  BY DEF Event, EventRecord

\* RecordEvent appends one event and leaves the ones before it alone.
LEMMA RecordEventType ==
    ASSUME TypeOK, NEW e \in EventRecord, RecordEvent(e)
    PROVE  /\ history' \in Seq(EventRecord)
           /\ Len(history') = Len(history) + 1
           /\ \A i \in 1 .. Len(history) : history'[i] = history[i]
           /\ history'[Len(history) + 1] = e
           /\ decisionTask' \in {"none", "scheduled", "started"}
  BY DEF TypeOK, RecordEvent, Trigger, EventRecord

\* The activities of a step of the definition.
LEMMA StepType ==
    ASSUME TypeOK, NEW s \in DOMAIN definition
    PROVE  /\ definition \in Seq(Seq(Activities))
           /\ definition[s] \in Seq(Activities)
           /\ s \in Nat /\ s >= 1
  <1>1. definition \in Seq(Seq(Activities))
    BY ConstantsAssumption DEF TypeOK
  <1> QED BY <1>1, ElementOfSeq

\* The events that scheduling a step adds to the history.
LEMMA ScheduleActivitiesType ==
    ASSUME TypeOK, NEW d \in Deciders, NEW s \in DOMAIN definition,
           ScheduleActivities(d, definition[s])
    PROVE  /\ history' \in Seq(EventRecord)
           /\ Len(history') = Len(history) + Len(definition[s])
           /\ \A i \in 1 .. Len(history) : history'[i] = history[i]
           /\ \A k \in DOMAIN definition[s] :
                  history'[Len(history) + k] = ScheduleResult(history, definition[s][k])
           /\ taskList' \subseteq taskList \cup {Len(history) + k : k \in DOMAIN definition[s]}
           /\ decisionTask' \in {"none", "scheduled"}
           /\ execution' = execution
  <1> DEFINE step == definition[s]
             new == [k \in DOMAIN step |-> ScheduleResult(history, step[k])]
             scheduled == {k \in DOMAIN new : new[k].eventType = "ActivityTaskScheduled"}
  <1>1. step \in Seq(Activities)
    BY StepType
  <1>2. /\ history' = history \o new
        /\ taskList' = taskList \cup {Len(history) + k : k \in scheduled}
        /\ decisionTask' = IF UnhandledEvents(d) \/ scheduled # DOMAIN new
                           THEN "scheduled" ELSE "none"
        /\ execution' = execution
    BY DEF ScheduleActivities
  <1>3. \A k \in DOMAIN step : ScheduleResult(history, step[k]) \in EventRecord
    <2> TAKE k \in DOMAIN step
    <2>1. step[k] \in Activities
      BY <1>1
    <2> QED BY <2>1 DEF ScheduleResult, Event, EventRecord, EventTypes
  <1>4. new \in Seq(EventRecord) /\ Len(new) = Len(step) /\ DOMAIN new = DOMAIN step
    BY <1>1, <1>3
  <1>5. history \in Seq(EventRecord)
    BY DEF TypeOK, EventRecord
  <1> HIDE DEF new
  <1>6. /\ history' \in Seq(EventRecord)
        /\ Len(history') = Len(history) + Len(new)
        /\ \A i \in 1 .. Len(history) : history'[i] = history[i]
        /\ \A k \in 1 .. Len(new) : history'[Len(history) + k] = new[k]
    <2>1. /\ history \o new \in Seq(EventRecord)
          /\ Len(history \o new) = Len(history) + Len(new)
          /\ \A i \in 1 .. Len(history) + Len(new) : (history \o new)[i] =
                 IF i <= Len(history) THEN history[i] ELSE new[i - Len(history)]
      BY <1>4, <1>5, ConcatProperties
    <2>2. Len(history) \in Nat /\ Len(new) \in Nat
      BY <1>4, <1>5
    <2>3. \A i \in 1 .. Len(history) : i \in 1 .. Len(history) + Len(new) /\ i <= Len(history)
      BY <2>2
    <2>4. \A k \in 1 .. Len(new) :
              /\ Len(history) + k \in 1 .. Len(history) + Len(new)
              /\ ~(Len(history) + k <= Len(history))
              /\ Len(history) + k - Len(history) = k
      BY <2>2
    <2> QED BY <1>2, <2>1, <2>3, <2>4
  <1>7. \A k \in DOMAIN step : new[k] = ScheduleResult(history, step[k])
    BY DEF new
  <1>8. DOMAIN new = 1 .. Len(new)
    BY <1>4
  <1> QED BY <1>2, <1>4, <1>6, <1>7, <1>8

-----------------------------------------------------------------------------
DeciderRecord == [phase : {"polling", "deciding", "answered"},
                  snapshot : Nat, current : BOOLEAN]

WorkerRecord == [phase : {"polling", "running", "responding"},
                 task : Nat,
                 response : {"none", "completed", "failed", "cancel"}]

\* TypeOK in two parts: the processes and observers, and SWF.
LocalTypeOK ==
    /\ decider \in [Deciders -> DeciderRecord]
    /\ \A d \in Deciders : decider[d].snapshot <= Len(history)
    /\ worker \in [Workers -> WorkerRecord]
    /\ \A w \in Workers : worker[w].phase # "polling" => IsScheduled(history, worker[w].task)
    /\ performed \subseteq Activities /\ refused \subseteq Activities
    /\ failures \in 0 .. MaxFailures /\ faults \in 0 .. MaxFaults

SwfTypeOK ==
    /\ definition \in Definitions
    /\ history \in Seq(EventRecord)
    /\ execution \in {"OPEN", "COMPLETED", "FAILED", "TIMED_OUT"}
    /\ decisionTask \in {"none", "scheduled", "started"}
    /\ \A i \in DOMAIN history : IsScheduled(history, i) => history[i].activity \in Activities
    /\ \A i \in DOMAIN history : history[i].scheduledEventId < i
    /\ \A i \in taskList : IsScheduled(history, i)

LEMMA TypeParts ==
    /\ TypeOK <=> SwfTypeOK /\ LocalTypeOK
    /\ TypeOK' <=> SwfTypeOK' /\ LocalTypeOK'
  BY DEF TypeOK, SwfTypeOK, LocalTypeOK, EventRecord, DeciderRecord, WorkerRecord

\* The records of processes that poll are of the right type.
LEMMA IdleType ==
    /\ IdleDecider \in DeciderRecord /\ IdleDecider.snapshot = 0
    /\ IdleDecider.phase = "polling" /\ IdleDecider.current = FALSE
    /\ IdleWorker \in WorkerRecord /\ IdleWorker.phase = "polling"
    /\ IdleWorker.task = 0 /\ IdleWorker.response = "none"
  BY DEF IdleDecider, IdleWorker, DeciderRecord, WorkerRecord

-----------------------------------------------------------------------------
(* A history only ever grows at its end, and what was true of an event or of *)
(* a completed activity stays true.                                          *)

Extends(h, g) ==
    /\ h \in Seq(EventRecord) /\ g \in Seq(EventRecord)
    /\ Len(h) <= Len(g)
    /\ \A i \in 1 .. Len(h) : g[i] = h[i]

LEMMA ExtendsMonotone ==
    ASSUME NEW h, NEW g, Extends(h, g)
    PROVE  /\ \A i : IsScheduled(h, i) => IsScheduled(g, i) /\ g[i] = h[i]
           /\ \A a : ActivityStatus(h, a) => ActivityStatus(g, a)
           /\ CancelRequested(h) => CancelRequested(g)
  <1>1. DOMAIN h = 1 .. Len(h) /\ DOMAIN g = 1 .. Len(g) /\ DOMAIN h \subseteq DOMAIN g
    BY DEF Extends
  <1>2. \A i \in DOMAIN h : g[i] = h[i]
    BY <1>1 DEF Extends
  <1> QED BY <1>1, <1>2 DEF IsScheduled, ActivityStatus, CancelRequested

\* A prefix of a history is one of its earlier states.
LEMMA PrefixExtends ==
    ASSUME NEW h \in Seq(EventRecord), NEW n \in Nat, n <= Len(h)
    PROVE  Extends(SubSeq(h, 1, n), h) /\ Len(SubSeq(h, 1, n)) = n
  <1>1. \A i \in 1 .. n : i \in 1 .. Len(h) /\ i \in 1 .. n - 1 + 1 /\ 1 + i - 1 = i
    OBVIOUS
  <1>2. /\ SubSeq(h, 1, n) \in Seq(EventRecord)
        /\ Len(SubSeq(h, 1, n)) = n
        /\ \A i \in 1 .. n : SubSeq(h, 1, n)[i] = h[i]
    BY SubSeqProperties, <1>1
  <1> QED BY <1>2 DEF Extends

\* An event that SWF records on its own account: any but a scheduled one.
LEMMA RecordKeepsSwf ==
    ASSUME TypeOK, NEW type \in EventTypes \ {"ActivityTaskScheduled"}, NEW i \in 0 .. Len(history),
           RecordEvent(Event(type, NoActivity, i)),
           definition' = definition, execution' = execution, taskList' \subseteq taskList
    PROVE  SwfTypeOK' /\ Extends(history, history')
  <1> DEFINE e == Event(type, NoActivity, i)
  <1>0. i \in Nat /\ i < Len(history) + 1
    BY TypeParts DEF SwfTypeOK
  <1>1. e \in EventRecord /\ e.eventType = type /\ e.scheduledEventId = i
    BY <1>0, EventType
  <1>2. /\ history \in Seq(EventRecord) /\ history' \in Seq(EventRecord)
        /\ Len(history') = Len(history) + 1 /\ Len(history) \in Nat
        /\ \A k \in 1 .. Len(history) : history'[k] = history[k]
        /\ history'[Len(history) + 1] = e
        /\ decisionTask' \in {"none", "scheduled", "started"}
    BY <1>1, RecordEventType, TypeParts DEF SwfTypeOK
  <1>3. Extends(history, history')
    BY <1>2 DEF Extends
  <1>4. \A k \in DOMAIN history' : IsScheduled(history', k) =>
            k \in DOMAIN history /\ IsScheduled(history, k) /\ history'[k] = history[k]
    <2> HIDE DEF e
    <2>1. e.eventType # "ActivityTaskScheduled"
      BY <1>1
    <2>2. DOMAIN history = 1 .. Len(history) /\ DOMAIN history' = 1 .. Len(history) + 1
      BY <1>2
    <2> QED BY <1>2, <2>1, <2>2 DEF IsScheduled
  <1>5. \A k \in taskList' : IsScheduled(history', k)
    BY <1>3, ExtendsMonotone, TypeParts DEF SwfTypeOK
  <1>6. \A k \in DOMAIN history' : history'[k].scheduledEventId < k
    <2> HIDE DEF e
    <2>1. DOMAIN history = 1 .. Len(history) /\ DOMAIN history' = 1 .. Len(history) + 1
      BY <1>2
    <2> QED BY <1>0, <1>1, <1>2, <2>1, TypeParts DEF SwfTypeOK
  <1> QED BY <1>2, <1>3, <1>4, <1>5, <1>6, TypeParts DEF SwfTypeOK

\* The answer to a decision task that schedules a step.
LEMMA ScheduleKeepsSwf ==
    ASSUME TypeOK, NEW d \in Deciders, NEW s \in DOMAIN definition,
           ScheduleActivities(d, definition[s]), definition' = definition
    PROVE  SwfTypeOK' /\ Extends(history, history')
  <1> DEFINE step == definition[s]
  <1>1. /\ history' \in Seq(EventRecord)
        /\ Len(history') = Len(history) + Len(step)
        /\ \A i \in 1 .. Len(history) : history'[i] = history[i]
        /\ \A k \in DOMAIN step :
               history'[Len(history) + k] = ScheduleResult(history, step[k])
        /\ decisionTask' \in {"none", "scheduled"}
        /\ execution' = execution
    BY ScheduleActivitiesType
  <1>2. history \in Seq(EventRecord) /\ Len(history) \in Nat
    BY TypeParts DEF SwfTypeOK
  <1>3. step \in Seq(Activities) /\ Len(step) \in Nat /\ DOMAIN step = 1 .. Len(step)
    BY StepType
  <1>4. Extends(history, history')
    BY <1>1, <1>2, <1>3 DEF Extends
  <1>5. \A k \in DOMAIN step : ScheduleResult(history, step[k]).activity \in Activities
    BY <1>3 DEF ScheduleResult, Event
  <1>6. \A i \in DOMAIN history' : i \in DOMAIN history \/ \E k \in DOMAIN step : i = Len(history) + k
    <2>1. SUFFICES ASSUME NEW i \in DOMAIN history', i \notin DOMAIN history
                   PROVE  \E k \in DOMAIN step : i = Len(history) + k
      OBVIOUS
    <2>2. i - Len(history) \in DOMAIN step /\ i = Len(history) + (i - Len(history))
      BY <1>1, <1>2, <1>3, <2>1
    <2> QED BY <2>2
  <1>7. \A i \in DOMAIN history' : IsScheduled(history', i) => history'[i].activity \in Activities
    <2>1. SUFFICES ASSUME NEW i \in DOMAIN history', IsScheduled(history', i)
                   PROVE  history'[i].activity \in Activities
      OBVIOUS
    <2>2. CASE i \in DOMAIN history
      <3>1. history'[i] = history[i]
        BY <1>1, <1>2, <2>2
      <3> QED BY <2>1, <2>2, <3>1, TypeParts DEF SwfTypeOK, IsScheduled
    <2>3. CASE \E k \in DOMAIN step : i = Len(history) + k
      BY <1>1, <1>5, <2>3
    <2> QED BY <1>6, <2>2, <2>3
  <1>8. \A i \in taskList' : IsScheduled(history', i)
    <2>1. taskList' = taskList \cup
              {Len(history) + k : k \in {m \in DOMAIN step :
                   ScheduleResult(history, step[m]).eventType = "ActivityTaskScheduled"}}
      BY DEF ScheduleActivities
    <2>2. \A i \in taskList : IsScheduled(history', i)
      BY <1>4, ExtendsMonotone, TypeParts DEF SwfTypeOK
    <2>3. ASSUME NEW k \in DOMAIN step,
                 ScheduleResult(history, step[k]).eventType = "ActivityTaskScheduled"
          PROVE  IsScheduled(history', Len(history) + k)
      <3>1. Len(history) + k \in DOMAIN history'
        BY <1>1, <1>2, <1>3
      <3> QED BY <1>1, <2>3, <3>1 DEF IsScheduled
    <2> QED BY <2>1, <2>2, <2>3
  <1>9. \A i \in DOMAIN history' : history'[i].scheduledEventId < i
    <2>1. \A k \in DOMAIN step : ScheduleResult(history, step[k]).scheduledEventId = 0
      BY DEF ScheduleResult, Event
    <2>2. \A i \in DOMAIN history : history'[i] = history[i] /\ history[i].scheduledEventId < i
      BY <1>1, <1>2, TypeParts DEF SwfTypeOK
    <2>3. \A k \in DOMAIN step : Len(history) + k > 0
      BY <1>2, <1>3
    <2> QED BY <1>1, <1>6, <2>1, <2>2, <2>3
  <1>10. definition' \in Definitions /\ execution' \in {"OPEN", "COMPLETED", "FAILED", "TIMED_OUT"}
    BY <1>1, TypeParts DEF SwfTypeOK
  <1> QED BY <1>1, <1>4, <1>7, <1>8, <1>9, <1>10 DEF SwfTypeOK

\* Steps that leave the history alone.
LEMMA SameHistory ==
    ASSUME TypeOK, history' = history, definition' = definition,
           execution' \in {"OPEN", "COMPLETED", "FAILED", "TIMED_OUT"},
           decisionTask' \in {"none", "scheduled", "started"},
           taskList' \subseteq taskList
    PROVE  SwfTypeOK' /\ Extends(history, history')
  BY TypeParts DEF SwfTypeOK, Extends

\* Every step keeps the types of SWF's part and only adds to the history.
LEMMA HistoryGrows ==
    ASSUME TypeOK, [Next]_vars
    PROVE  SwfTypeOK' /\ Extends(history, history')
  <1> DEFINE Goal == SwfTypeOK' /\ Extends(history, history')
  <1>0. /\ execution \in {"OPEN", "COMPLETED", "FAILED", "TIMED_OUT"}
        /\ decisionTask \in {"none", "scheduled", "started"}
    BY TypeParts DEF SwfTypeOK
  <1>1. ASSUME NEW d \in Deciders,
               PollForDecisionTask(d) \/ NoNextActivity(d) \/ DeciderLost(d)
        PROVE  Goal
    BY <1>0, <1>1, SameHistory DEF PollForDecisionTask, NoNextActivity, DeciderLost, swf
  <1>2. ASSUME NEW d \in Deciders,
               CompleteWorkflow(d) \/ CheckForFailedWorkflowRequest(d)
        PROVE  Goal
    BY <1>0, <1>2, SameHistory
    DEF CompleteWorkflow, CheckForFailedWorkflowRequest, CloseExecution, swf
  <1>3. ASSUME NEW d \in Deciders, ScheduleNextActivities(d) PROVE Goal
    <2>1. PICK s \in DOMAIN definition :
              IF TokenAccepted(d) THEN ScheduleActivities(d, definition[s]) ELSE UNCHANGED swf
      BY <1>3 DEF ScheduleNextActivities
    <2>2. definition' = definition
      BY <1>3 DEF ScheduleNextActivities
    <2>3. CASE UNCHANGED swf
      BY <1>0, <2>2, <2>3, SameHistory DEF swf
    <2>4. CASE ScheduleActivities(d, definition[s])
      BY <2>2, <2>4, ScheduleKeepsSwf
    <2> QED BY <2>1, <2>3, <2>4
  <1>4. ASSUME NEW w \in Workers, NEW i \in taskList, PollForActivityTask(w, i) PROVE Goal
    BY <1>0, <1>4, SameHistory DEF PollForActivityTask
  <1>5. ASSUME NEW w \in Workers,
               (\E result \in Results : DoActivity(w, result)) \/ WorkerLost(w)
        PROVE  Goal
    BY <1>0, <1>5, SameHistory DEF DoActivity, WorkerLost, swf
  <1>6. ASSUME NEW w \in Workers,
               RespondCompleted(w) \/ RespondFailed(w) \/ SignalFailWorkflow(w)
        PROVE  Goal
    <2>1. worker[w].phase = "responding" /\ worker[w].task \in 0 .. Len(history)
      <3>1. worker[w].phase = "responding"
        BY <1>6 DEF RespondCompleted, RespondFailed, SignalFailWorkflow, Respond
      <3>2. worker[w].task \in DOMAIN history
        BY <3>1, TypeParts DEF LocalTypeOK, IsScheduled
      <3> QED BY <3>1, <3>2, TypeParts DEF SwfTypeOK
    <2>2. definition' = definition /\ execution' = execution /\ taskList' = taskList
      BY <1>6 DEF RespondCompleted, RespondFailed, SignalFailWorkflow, Respond
    <2>3. CASE history' = history /\ decisionTask' = decisionTask
      BY <1>0, <2>2, <2>3, SameHistory
    <2>4. ASSUME NEW type \in {"ActivityTaskCompleted", "ActivityTaskFailed"},
                 RecordEvent(Event(type, NoActivity, worker[w].task))
          PROVE  Goal
      <3>1. type \in EventTypes \ {"ActivityTaskScheduled"}
        BY DEF EventTypes
      <3> QED BY <2>1, <2>2, <2>4, <3>1, RecordKeepsSwf
    <2>5. CASE RecordEvent(Event("WorkflowExecutionCancelRequested", NoActivity, 0))
      <3>1. "WorkflowExecutionCancelRequested" \in EventTypes \ {"ActivityTaskScheduled"}
        BY DEF EventTypes
      <3>2. 0 \in 0 .. Len(history)
        BY TypeParts DEF SwfTypeOK
      <3> QED BY <2>2, <2>5, <3>1, <3>2, RecordKeepsSwf
    <2> QED
      BY <1>6, <2>3, <2>4, <2>5 DEF RespondCompleted, RespondFailed, SignalFailWorkflow, Respond
  <1>7. ASSUME NEW i \in DOMAIN history, ActivityTimeout(i) PROVE Goal
    <2>1. "ActivityTaskTimedOut" \in EventTypes \ {"ActivityTaskScheduled"}
      BY DEF EventTypes
    <2>2. i \in 0 .. Len(history)
      BY TypeParts DEF SwfTypeOK
    <2> QED BY <1>7, <2>1, <2>2, RecordKeepsSwf DEF ActivityTimeout
  <1>8. CASE DecisionTimeout \/ ExecutionTimeout \/ Quiescent \/ UNCHANGED vars
    BY <1>0, <1>8, SameHistory
    DEF DecisionTimeout, ExecutionTimeout, Quiescent, vars, swf
  <1> QED
    BY <1>1, <1>2, <1>3, <1>4, <1>5, <1>6, <1>7, <1>8 DEF Next, DeciderStep, WorkerStep

\* Every step keeps the types of the processes and the observers.
LEMMA LocalStep ==
    ASSUME TypeOK, [Next]_vars
    PROVE  LocalTypeOK'
  <1>0. /\ LocalTypeOK /\ Len(history) \in Nat /\ Len(history') \in Nat
        /\ Len(history) <= Len(history')
        /\ \A i : IsScheduled(history, i) => IsScheduled(history', i)
    BY HistoryGrows, ExtendsMonotone, TypeParts DEF Extends
  <1>1. ASSUME NEW d \in Deciders, PollForDecisionTask(d) PROVE LocalTypeOK'
    <2>1. history' = history /\ Len(history) <= Len(history)
      BY <1>0, <1>1 DEF PollForDecisionTask
    <2> QED BY <1>0, <1>1, <2>1
      DEF PollForDecisionTask, LocalTypeOK, DeciderRecord, observers, bounds
  <1>2. ASSUME NEW d \in Deciders, DeciderStep(d) \/ DeciderLost(d) PROVE LocalTypeOK'
    <2>1. /\ UNCHANGED <<worker, performed, refused, failures>>
          /\ faults' = faults \/ (faults < MaxFaults /\ faults' = faults + 1)
      BY <1>2 DEF DeciderStep, CompleteWorkflow, CheckForFailedWorkflowRequest,
           ScheduleNextActivities, NoNextActivity, DeciderLost, Fault, observers, bounds
    <2>2. \/ decider' = [decider EXCEPT ![d] = IdleDecider]
          \/ decider' = [decider EXCEPT ![d].phase = "answered", ![d].current = FALSE]
      BY <1>2 DEF DeciderStep, CompleteWorkflow, CheckForFailedWorkflowRequest,
           ScheduleNextActivities, NoNextActivity, DeciderLost
    <2>3. /\ decider' \in [Deciders -> DeciderRecord]
          /\ \A e \in Deciders : decider'[e].snapshot <= Len(history)
      <3>1. CASE decider' = [decider EXCEPT ![d] = IdleDecider]
        BY <1>0, <3>1, IdleType DEF LocalTypeOK
      <3>2. CASE decider' = [decider EXCEPT ![d].phase = "answered", ![d].current = FALSE]
        BY <1>0, <3>2 DEF LocalTypeOK, DeciderRecord
      <3> QED BY <2>2, <3>1, <3>2
    <2>4. \A e \in Deciders : decider'[e].snapshot <= Len(history')
      BY <1>0, <2>3 DEF DeciderRecord
    <2>5. faults' \in 0 .. MaxFaults
      BY <1>0, <2>1, ConstantsAssumption DEF LocalTypeOK
    <2> QED BY <1>0, <2>1, <2>3, <2>4, <2>5 DEF LocalTypeOK
  <1>3. ASSUME NEW w \in Workers, NEW i \in taskList, PollForActivityTask(w, i)
        PROVE  LocalTypeOK'
    <2>1. IsScheduled(history, i) /\ i \in Nat /\ history' = history
      BY <1>3, TypeParts DEF SwfTypeOK, IsScheduled, PollForActivityTask
    <2> QED BY <1>0, <1>3, <2>1
      DEF PollForActivityTask, LocalTypeOK, WorkerRecord, observers, bounds
  <1>4. ASSUME NEW w \in Workers, NEW result \in Results, DoActivity(w, result)
        PROVE  LocalTypeOK'
    <2>1. ResponseTo(result) \in {"completed", "failed", "cancel"}
      BY DEF ResponseTo
    <2>2. history' = history /\ worker[w].phase = "running"
      BY <1>4 DEF DoActivity, swf
    <2>3. history[worker[w].task].activity \in Activities
      BY <1>0, <2>2, TypeParts DEF LocalTypeOK, SwfTypeOK, IsScheduled
    <2>4. performed' \subseteq Activities /\ refused' \subseteq Activities
      BY <1>0, <1>4, <2>3 DEF DoActivity, LocalTypeOK
    <2>5. failures' \in 0 .. MaxFailures /\ faults' = faults /\ decider' = decider
      <3>1. \/ failures' = failures
            \/ failures < MaxFailures /\ failures' = failures + 1
        BY <1>4 DEF DoActivity
      <3>2. failures \in 0 .. MaxFailures
        BY <1>0 DEF LocalTypeOK
      <3>3. failures' \in 0 .. MaxFailures
        BY <3>1, <3>2, ConstantsAssumption
      <3> QED BY <1>4, <3>3 DEF DoActivity
    <2>6. worker' = [worker EXCEPT ![w].phase = "responding",
                                   ![w].response = ResponseTo(result)]
      BY <1>4 DEF DoActivity
    <2>7. /\ worker' \in [Workers -> WorkerRecord]
          /\ \A v \in Workers : worker'[v].phase # "polling" => IsScheduled(history, worker'[v].task)
      BY <1>0, <2>1, <2>2, <2>6 DEF LocalTypeOK, WorkerRecord
    <2> QED BY <1>0, <2>2, <2>4, <2>5, <2>7 DEF LocalTypeOK
  <1>5. ASSUME NEW w \in Workers,
               RespondCompleted(w) \/ RespondFailed(w) \/ SignalFailWorkflow(w) \/ WorkerLost(w)
        PROVE  LocalTypeOK'
    <2>1. /\ UNCHANGED <<decider, performed, refused, failures>>
          /\ worker' = [worker EXCEPT ![w] = IdleWorker]
          /\ faults' = faults \/ (faults < MaxFaults /\ faults' = faults + 1)
      BY <1>5 DEF RespondCompleted, RespondFailed, Respond, SignalFailWorkflow,
           WorkerLost, Fault, observers, bounds
    <2>2. faults' \in 0 .. MaxFaults
      BY <1>0, <2>1, ConstantsAssumption DEF LocalTypeOK
    <2>3. \A e \in Deciders : decider[e].snapshot <= Len(history')
      BY <1>0 DEF LocalTypeOK, DeciderRecord
    <2>4. /\ worker' \in [Workers -> WorkerRecord]
          /\ \A v \in Workers : worker'[v].phase # "polling" => IsScheduled(history', worker'[v].task)
      BY <1>0, <2>1, IdleType DEF LocalTypeOK
    <2> QED BY <1>0, <2>1, <2>2, <2>3, <2>4 DEF LocalTypeOK
  <1>6. CASE \/ \E i \in DOMAIN history : ActivityTimeout(i)
             \/ DecisionTimeout \/ ExecutionTimeout \/ Quiescent \/ UNCHANGED vars
    <2>1. /\ UNCHANGED <<worker, performed, refused, failures>>
          /\ faults' = faults \/ (faults < MaxFaults /\ faults' = faults + 1)
          /\ \/ decider' = decider
             \/ decider' = [d \in Deciders |-> [decider[d] EXCEPT !.current = FALSE]]
      BY <1>6 DEF ActivityTimeout, DecisionTimeout, ExecutionTimeout, Quiescent,
           Fault, vars, observers, bounds
    <2>2. /\ decider' \in [Deciders -> DeciderRecord]
          /\ \A e \in Deciders : decider'[e].snapshot <= Len(history')
      <3>1. CASE decider' = decider
        BY <1>0, <3>1 DEF LocalTypeOK, DeciderRecord
      <3>2. CASE decider' = [d \in Deciders |-> [decider[d] EXCEPT !.current = FALSE]]
        <4>1. ASSUME NEW e \in Deciders
              PROVE  decider'[e] \in DeciderRecord /\ decider'[e].snapshot = decider[e].snapshot
          BY <1>0, <3>2 DEF LocalTypeOK, DeciderRecord
        <4>2. \A e \in Deciders : decider[e].snapshot \in Nat /\ decider[e].snapshot <= Len(history)
          BY <1>0 DEF LocalTypeOK, DeciderRecord
        <4> QED BY <1>0, <3>2, <4>1, <4>2
      <3> QED BY <2>1, <3>1, <3>2
    <2>3. faults' \in 0 .. MaxFaults
      BY <1>0, <2>1, ConstantsAssumption DEF LocalTypeOK
    <2> QED BY <1>0, <2>1, <2>2, <2>3 DEF LocalTypeOK
  <1> QED BY <1>1, <1>2, <1>3, <1>4, <1>5, <1>6 DEF Next, WorkerStep

-----------------------------------------------------------------------------
\* Type correctness: what workers poll and work on was scheduled, snapshots are
\* prefixes of the history, and the history holds well-formed events only.
THEOREM TypeCorrect == Spec => []TypeOK
  <1>1. Init => TypeOK
    <2> SUFFICES ASSUME Init PROVE SwfTypeOK /\ LocalTypeOK
      BY TypeParts
    <2>1. history \in Seq(EventRecord) /\ Len(history) = 0 /\ DOMAIN history = {}
      BY DEF Init
    <2>2. SwfTypeOK
      BY <2>1 DEF Init, SwfTypeOK
    <2>3. LocalTypeOK
      BY <2>1, IdleType, ConstantsAssumption DEF Init, LocalTypeOK
    <2> QED BY <2>2, <2>3
  <1>2. TypeOK /\ [Next]_vars => TypeOK'
    BY HistoryGrows, LocalStep, TypeParts
  <1> QED BY <1>1, <1>2, PTL DEF Spec

-----------------------------------------------------------------------------
(* What the steps that add to the history have in common.                    *)

WorkerAnswers(w, response, type) ==
    /\ worker[w].phase = "responding" /\ worker[w].response = response
    /\ execution = "OPEN"
    /\ IF response = "cancel"
       THEN RecordEvent(Event(type, NoActivity, 0))
       ELSE /\ IsOpen(history, worker[w].task)
            /\ RecordEvent(Event(type, NoActivity, worker[w].task))
    /\ UNCHANGED <<execution, decider>>

Answers == {<<"completed", "ActivityTaskCompleted">>,
            <<"failed", "ActivityTaskFailed">>,
            <<"cancel", "WorkflowExecutionCancelRequested">>}

DeciderSchedules(d, s) ==
    /\ TokenAccepted(d) /\ AtSchedule(d) /\ IsNextStep(Seen(d), s)
    /\ ScheduleActivities(d, definition[s])
    /\ decider' = [decider EXCEPT ![d] = IdleDecider]

\* The history grows by an answer of a worker, a time-out, or a decision.
LEMMA WhoAddsEvents ==
    ASSUME [Next]_vars
    PROVE  \/ history' = history
           \/ \E w \in Workers, answer \in Answers : WorkerAnswers(w, answer[1], answer[2])
           \/ \E i \in DOMAIN history : ActivityTimeout(i)
           \/ \E d \in Deciders, s \in DOMAIN definition : DeciderSchedules(d, s)
  <1>1. ASSUME NEW d \in Deciders, ScheduleNextActivities(d)
        PROVE  history' = history \/ \E s \in DOMAIN definition : DeciderSchedules(d, s)
    BY <1>1 DEF ScheduleNextActivities, DeciderSchedules, swf
  <1>2. ASSUME NEW w \in Workers,
               RespondCompleted(w) \/ RespondFailed(w) \/ SignalFailWorkflow(w)
        PROVE  \/ history' = history
               \/ \E answer \in Answers : WorkerAnswers(w, answer[1], answer[2])
    <2>1. CASE RespondCompleted(w)
      <3>1. <<"completed", "ActivityTaskCompleted">> \in Answers
        BY DEF Answers
      <3>2. history' = history \/ WorkerAnswers(w, "completed", "ActivityTaskCompleted")
        BY <2>1 DEF RespondCompleted, Respond, WorkerAnswers
      <3> QED BY <3>1, <3>2
    <2>2. CASE RespondFailed(w)
      <3>1. <<"failed", "ActivityTaskFailed">> \in Answers
        BY DEF Answers
      <3>2. history' = history \/ WorkerAnswers(w, "failed", "ActivityTaskFailed")
        BY <2>2 DEF RespondFailed, Respond, WorkerAnswers
      <3> QED BY <3>1, <3>2
    <2>3. CASE SignalFailWorkflow(w)
      <3>1. <<"cancel", "WorkflowExecutionCancelRequested">> \in Answers
        BY DEF Answers
      <3>2. history' = history \/ WorkerAnswers(w, "cancel", "WorkflowExecutionCancelRequested")
        BY <2>3 DEF SignalFailWorkflow, WorkerAnswers
      <3> QED BY <3>1, <3>2
    <2> QED BY <1>2, <2>1, <2>2, <2>3
  <1>3. ASSUME NEW d \in Deciders,
               \/ PollForDecisionTask(d) \/ CompleteWorkflow(d)
               \/ CheckForFailedWorkflowRequest(d) \/ NoNextActivity(d) \/ DeciderLost(d)
        PROVE  history' = history
    BY <1>3 DEF PollForDecisionTask, CompleteWorkflow, CheckForFailedWorkflowRequest,
         CloseExecution, NoNextActivity, DeciderLost, swf
  <1>4. ASSUME NEW w \in Workers,
               \/ \E i \in taskList : PollForActivityTask(w, i)
               \/ \E result \in Results : DoActivity(w, result)
               \/ WorkerLost(w)
        PROVE  history' = history
    BY <1>4 DEF PollForActivityTask, DoActivity, WorkerLost, swf
  <1>5. CASE DecisionTimeout \/ ExecutionTimeout \/ Quiescent \/ UNCHANGED vars
    BY <1>5 DEF DecisionTimeout, ExecutionTimeout, Quiescent, vars, swf
  <1> QED
    BY <1>1, <1>2, <1>3, <1>4, <1>5 DEF Next, DeciderStep, WorkerStep

\* Nothing is added to the history of a closed execution.
LEMMA ClosedIsFinal ==
    ASSUME TypeOK, [Next]_vars, execution # "OPEN"
    PROVE  UNCHANGED <<history, execution, definition>>
  <1>1. history' = history
    BY WhoAddsEvents DEF WorkerAnswers, ActivityTimeout, DeciderSchedules, TokenAccepted
  <1>2. execution' = execution /\ definition' = definition
    BY DEF Next, DeciderStep, WorkerStep, PollForDecisionTask, CompleteWorkflow,
       CheckForFailedWorkflowRequest, ScheduleNextActivities, NoNextActivity, DeciderLost,
       PollForActivityTask, DoActivity, RespondCompleted, RespondFailed, Respond,
       SignalFailWorkflow, WorkerLost, ActivityTimeout, DecisionTimeout, ExecutionTimeout,
       Quiescent, TokenAccepted, vars, swf
  <1> QED BY <1>1, <1>2

-----------------------------------------------------------------------------
(* Outcomes: what a closed execution says of the work.                       *)

\* A step keeps activities completed, and the whole workflow once it is.
LEMMA StatusStable ==
    ASSUME TypeOK, [Next]_vars
    PROVE  /\ \A a : ActivityStatus(history, a) => ActivityStatus(history', a)
           /\ CancelRequested(history) => CancelRequested(history')
  BY HistoryGrows, ExtendsMonotone

\* A decider's snapshot is a prefix, and with no unhandled events all of it.
LEMMA SnapshotIsPrefix ==
    ASSUME TypeOK, NEW d \in Deciders
    PROVE  /\ Extends(Seen(d), history)
           /\ Len(Seen(d)) = decider[d].snapshot
           /\ decider[d].snapshot \in Nat /\ decider[d].snapshot <= Len(history)
           /\ ~UnhandledEvents(d) => Seen(d) = history
  <1>1. /\ history \in Seq(EventRecord) /\ Len(history) \in Nat
        /\ decider[d].snapshot \in Nat /\ decider[d].snapshot <= Len(history)
    BY TypeParts DEF SwfTypeOK, LocalTypeOK, DeciderRecord
  <1>2. Extends(Seen(d), history) /\ Len(Seen(d)) = decider[d].snapshot
    BY <1>1, PrefixExtends DEF Seen
  <1>3. ASSUME ~UnhandledEvents(d) PROVE Seen(d) = history
    <2>1. decider[d].snapshot = Len(history)
      BY <1>1, <1>3 DEF UnhandledEvents
    <2>2. SubSeq(history, 1, Len(history)) = history
      BY <1>1, SubSeqFull
    <2> QED BY <2>1, <2>2 DEF Seen
  <1> QED BY <1>1, <1>2, <1>3

\* What the status of a closed execution was when it was closed.
Outcome ==
    /\ execution = "COMPLETED" => IsWorkflowComplete(history)
    /\ execution = "FAILED" => CancelRequested(history) /\ ~IsWorkflowComplete(history)

LEMMA OutcomeStep ==
    ASSUME TypeOK, Outcome, [Next]_vars
    PROVE  Outcome'
  <1>1. CASE execution # "OPEN"
    BY <1>1, ClosedIsFinal DEF Outcome, IsWorkflowComplete
  <1>2. CASE execution = "OPEN" /\ execution' \in {"OPEN", "TIMED_OUT"}
    BY <1>2 DEF Outcome
  <1>3. CASE execution = "OPEN" /\ execution' \notin {"OPEN", "TIMED_OUT"}
    <2>1. PICK d \in Deciders : CompleteWorkflow(d) \/ CheckForFailedWorkflowRequest(d)
      BY <1>3 DEF Next, DeciderStep, WorkerStep, PollForDecisionTask,
         ScheduleNextActivities, ScheduleActivities, NoNextActivity, DeciderLost,
         PollForActivityTask, DoActivity, RespondCompleted, RespondFailed, Respond,
         SignalFailWorkflow, WorkerLost, ActivityTimeout, DecisionTimeout, ExecutionTimeout,
         Quiescent, vars, swf
    <2>2. /\ ~UnhandledEvents(d) /\ history' = history /\ definition' = definition
          /\ \/ execution' = "COMPLETED" /\ IsWorkflowComplete(Seen(d))
             \/ /\ execution' = "FAILED" /\ FailRequested(Seen(d))
                /\ ~IsWorkflowComplete(Seen(d))
      BY <1>3, <2>1 DEF CompleteWorkflow, CheckForFailedWorkflowRequest, CloseExecution, swf
    <2>3. Seen(d) = history
      BY <2>2, SnapshotIsPrefix
    <2>4. IsWorkflowComplete(history)' <=> IsWorkflowComplete(history)
      BY <2>2 DEF IsWorkflowComplete
    <2>5. CancelRequested(history)' <=> CancelRequested(history)
      BY <2>2 DEF CancelRequested
    <2> QED BY <2>2, <2>3, <2>4, <2>5 DEF Outcome, FailRequested
  <1> QED BY <1>1, <1>2, <1>3

\* A completed execution has every activity of its definition completed,
\* whatever events arrived between the decision and its answer.
THEOREM CompletionIsSound == Spec => []CompletedOnlyWhenDone
  <1>1. Init => Outcome
    BY DEF Init, Outcome
  <1>2. TypeOK /\ Outcome /\ [Next]_vars => Outcome'
    BY OutcomeStep
  <1>3. Outcome => CompletedOnlyWhenDone
    BY DEF Outcome, CompletedOnlyWhenDone
  <1> QED BY <1>1, <1>2, <1>3, TypeCorrect, PTL DEF Spec

-----------------------------------------------------------------------------
(* Evidence: what the history says of an activity, a worker has seen.        *)

ToldTruth(w) ==
    /\ worker[w].response = "completed" =>
           history[worker[w].task].activity \in performed
    /\ worker[w].response = "cancel" => refused # {}

Evidence ==
    /\ \A w \in Workers : worker[w].phase = "responding" => ToldTruth(w)
    /\ CancelRequested(history) => refused # {}
    /\ \A a : ActivityStatus(history, a) => a \in performed

\* The observers only grow.
LEMMA ObserversGrow ==
    ASSUME [Next]_vars
    PROVE  performed \subseteq performed' /\ refused \subseteq refused'
  BY DEF Next, DeciderStep, WorkerStep, PollForDecisionTask, CompleteWorkflow,
     CheckForFailedWorkflowRequest, ScheduleNextActivities, NoNextActivity, DeciderLost,
     PollForActivityTask, DoActivity, RespondCompleted, RespondFailed, Respond,
     SignalFailWorkflow, WorkerLost, ActivityTimeout, DecisionTimeout, ExecutionTimeout,
     Quiescent, vars, observers

\* Workers tell what do_activity returned, also after the history has grown.
LEMMA WorkersTellTruth ==
    ASSUME TypeOK, Evidence, [Next]_vars, NEW w \in Workers, worker'[w].phase = "responding"
    PROVE  ToldTruth(w)'
  <1>1. worker \in [Workers -> WorkerRecord]
    BY TypeParts DEF LocalTypeOK
  <1>2. CASE \E result \in Results : DoActivity(w, result)
    <2>1. PICK result \in Results : DoActivity(w, result)
      BY <1>2
    <2>2. /\ history' = history /\ worker'[w].task = worker[w].task
          /\ worker'[w].response = ResponseTo(result)
      BY <1>1, <2>1 DEF DoActivity, WorkerRecord, swf
    <2>3. /\ ResponseTo(result) = "completed" => result \in {"ACTIVITY_SUCCESS", "legacy true"}
          /\ ResponseTo(result) = "cancel" =>
                 result \in {"ACTIVITY_PERMANENT_FAILURE", "ACTIVITY_EXIT_WORKFLOW"}
      BY DEF ResponseTo, Results
    <2>4. /\ result \in {"ACTIVITY_SUCCESS", "legacy true"} =>
                 history[worker[w].task].activity \in performed'
          /\ result \in {"ACTIVITY_PERMANENT_FAILURE", "ACTIVITY_EXIT_WORKFLOW"} =>
                 refused' # {}
      BY <2>1 DEF DoActivity
    <2> QED BY <2>2, <2>3, <2>4 DEF ToldTruth
  <1>3. CASE ~\E result \in Results : DoActivity(w, result)
    <2>1. worker'[w] = worker[w] /\ worker[w].phase = "responding"
      <3>1. \/ worker' = worker
            \/ \E v \in Workers : worker' = [worker EXCEPT ![v] = IdleWorker]
            \/ \E v \in Workers, i \in taskList : PollForActivityTask(v, i)
            \/ \E v \in Workers \ {w}, result \in Results : DoActivity(v, result)
        BY <1>3 DEF Next, DeciderStep, WorkerStep, PollForDecisionTask, CompleteWorkflow,
           CheckForFailedWorkflowRequest, ScheduleNextActivities, NoNextActivity, DeciderLost,
           RespondCompleted, RespondFailed, Respond, SignalFailWorkflow, WorkerLost,
           ActivityTimeout, DecisionTimeout, ExecutionTimeout, Quiescent, vars
      <3>2. ASSUME NEW v \in Workers, worker' = [worker EXCEPT ![v] = IdleWorker]
            PROVE  v # w /\ worker'[w] = worker[w]
        BY <1>1, <3>2, IdleType
      <3>3. ASSUME NEW v \in Workers, NEW i \in taskList, PollForActivityTask(v, i)
            PROVE  v # w /\ worker'[w] = worker[w]
        BY <1>1, <3>3 DEF PollForActivityTask
      <3>4. ASSUME NEW v \in Workers \ {w}, NEW result \in Results, DoActivity(v, result)
            PROVE  worker'[w] = worker[w]
        BY <1>1, <3>4 DEF DoActivity
      <3> QED BY <3>1, <3>2, <3>3, <3>4
    <2>2. IsScheduled(history, worker[w].task)
      BY <2>1, TypeParts DEF LocalTypeOK
    <2>3. history'[worker[w].task] = history[worker[w].task]
      BY <2>2, HistoryGrows, ExtendsMonotone
    <2>4. performed \subseteq performed' /\ refused \subseteq refused'
      BY ObserversGrow
    <2> QED BY <2>1, <2>3, <2>4 DEF Evidence, ToldTruth
  <1> QED BY <1>2, <1>3

\* What one recorded event changes in what a decider can read.
LEMMA OneMoreEvent ==
    ASSUME TypeOK, NEW type \in EventTypes \ {"ActivityTaskScheduled"}, NEW i \in Nat,
           RecordEvent(Event(type, NoActivity, i)),
           Extends(history, history')
    PROVE  /\ CancelRequested(history') =>
                  CancelRequested(history) \/ type = "WorkflowExecutionCancelRequested"
           /\ \A a : ActivityStatus(history', a) =>
                  \/ ActivityStatus(history, a)
                  \/ /\ type = "ActivityTaskCompleted" /\ IsScheduled(history, i)
                     /\ a = history[i].activity
           /\ \A k : IsOpen(history', k) => IsOpen(history, k) /\ k # i
  <1> DEFINE e == Event(type, NoActivity, i)
  <1>1. e \in EventRecord /\ e.eventType = type /\ e.scheduledEventId = i
    BY EventType
  <1> HIDE DEF e
  <1>2. /\ DOMAIN history = 1 .. Len(history) /\ DOMAIN history' = 1 .. Len(history) + 1
        /\ \A k \in DOMAIN history : history'[k] = history[k]
        /\ history'[Len(history) + 1] = e /\ Len(history) \in Nat
    BY <1>1, RecordEventType, TypeParts DEF SwfTypeOK, e
  <1>3. \A k \in DOMAIN history' : k \in DOMAIN history \/ history'[k] = e
    BY <1>2
  <1>4. \A k : IsScheduled(history', k) =>
            IsScheduled(history, k) /\ history'[k] = history[k]
    BY <1>1, <1>2, <1>3 DEF IsScheduled
  <1>5. CancelRequested(history') =>
            CancelRequested(history) \/ type = "WorkflowExecutionCancelRequested"
    BY <1>1, <1>2, <1>3 DEF CancelRequested
  <1>6. ASSUME NEW a, ActivityStatus(history', a), ~ActivityStatus(history, a)
        PROVE  /\ type = "ActivityTaskCompleted" /\ IsScheduled(history, i)
               /\ a = history[i].activity
    <2>1. PICK j \in DOMAIN history' :
              /\ history'[j].eventType = "ActivityTaskCompleted"
              /\ IsScheduled(history', history'[j].scheduledEventId)
              /\ history'[history'[j].scheduledEventId].activity = a
      BY <1>6 DEF ActivityStatus
    <2>2. j \notin DOMAIN history
      BY <1>2, <1>4, <1>6, <2>1 DEF ActivityStatus
    <2>3. history'[j] = e
      BY <1>3, <2>2
    <2> QED BY <1>1, <1>4, <2>1, <2>3
  <1>7. ASSUME NEW k, IsOpen(history', k) PROVE IsOpen(history, k) /\ k # i
    BY <1>1, <1>2, <1>4, <1>7 DEF IsOpen
  <1> QED BY <1>5, <1>6, <1>7

\* A decision to schedule activities completes and cancels nothing.
LEMMA ScheduleChangesNoStatus ==
    ASSUME TypeOK, NEW d \in Deciders, NEW s \in DOMAIN definition,
           ScheduleActivities(d, definition[s])
    PROVE  /\ CancelRequested(history') => CancelRequested(history)
           /\ \A a : ActivityStatus(history', a) => ActivityStatus(history, a)
  <1> DEFINE step == definition[s]
  <1>1. /\ Len(history') = Len(history) + Len(step)
        /\ \A i \in 1 .. Len(history) : history'[i] = history[i]
        /\ \A k \in DOMAIN step :
               history'[Len(history) + k] = ScheduleResult(history, step[k])
        /\ history' \in Seq(EventRecord) /\ history \in Seq(EventRecord)
    BY ScheduleActivitiesType, TypeParts DEF SwfTypeOK
  <1>2. step \in Seq(Activities)
    BY StepType
  <1>3. \A i \in DOMAIN history' : i \in DOMAIN history \/ i - Len(history) \in DOMAIN step
    BY <1>1, <1>2
  <1>4. \A i \in DOMAIN history' : i \notin DOMAIN history =>
            history'[i].eventType \in {"ActivityTaskScheduled", "ScheduleActivityTaskFailed"}
    <2> SUFFICES ASSUME NEW i \in DOMAIN history', i \notin DOMAIN history
                 PROVE  history'[i].eventType \in
                            {"ActivityTaskScheduled", "ScheduleActivityTaskFailed"}
      OBVIOUS
    <2>1. i - Len(history) \in DOMAIN step /\ Len(history) + (i - Len(history)) = i
      BY <1>1, <1>2, <1>3
    <2>2. history'[i] = ScheduleResult(history, step[i - Len(history)])
      BY <1>1, <2>1
    <2> QED BY <2>2 DEF ScheduleResult, Event
  <1>5. \A i \in DOMAIN history : i \in DOMAIN history' /\ history'[i] = history[i]
    BY <1>1, <1>2
  <1>6. CancelRequested(history') => CancelRequested(history)
    BY <1>4, <1>5 DEF CancelRequested
  <1>7. ASSUME NEW a, ActivityStatus(history', a) PROVE ActivityStatus(history, a)
    <2>1. PICK j \in DOMAIN history' :
              /\ history'[j].eventType = "ActivityTaskCompleted"
              /\ IsScheduled(history', history'[j].scheduledEventId)
              /\ history'[history'[j].scheduledEventId].activity = a
      BY <1>7 DEF ActivityStatus
    <2>2. j \in DOMAIN history /\ history[j] = history'[j]
      BY <1>4, <1>5, <2>1
    <2>3. history[j].scheduledEventId \in DOMAIN history
      <3>1. history[j].scheduledEventId \in DOMAIN history'
        BY <2>1, <2>2 DEF IsScheduled
      <3>2. history[j].scheduledEventId < j
        BY <2>2, TypeParts DEF SwfTypeOK
      <3> QED BY <1>1, <1>2, <2>2, <3>1, <3>2
    <2> QED BY <1>5, <2>1, <2>2, <2>3 DEF ActivityStatus, IsScheduled
  <1> QED BY <1>6, <1>7

LEMMA EvidenceStep ==
    ASSUME TypeOK, Evidence, [Next]_vars
    PROVE  Evidence'
  <1>1. \A w \in Workers : worker'[w].phase = "responding" => ToldTruth(w)'
    BY WorkersTellTruth
  <1>2. /\ CancelRequested(history') => refused # {}
        /\ \A a : ActivityStatus(history', a) => a \in performed
    <2>1. CASE history' = history
      BY <2>1 DEF Evidence
    <2>2. CASE \E w \in Workers, answer \in Answers : WorkerAnswers(w, answer[1], answer[2])
      <3>1. PICK w \in Workers, answer \in Answers : WorkerAnswers(w, answer[1], answer[2])
        BY <2>2
      <3>2. /\ worker[w].phase = "responding" /\ ToldTruth(w)
            /\ worker[w].response = answer[1]
        BY <3>1 DEF WorkerAnswers, Evidence
      <3>3. PICK i \in Nat : /\ RecordEvent(Event(answer[2], NoActivity, i))
                             /\ answer[1] # "cancel" => i = worker[w].task
        <4>1. worker[w].task \in Nat /\ 0 \in Nat
          BY TypeParts DEF LocalTypeOK, WorkerRecord
        <4> QED BY <3>1, <4>1 DEF WorkerAnswers
      <3>4. /\ answer[2] \in EventTypes \ {"ActivityTaskScheduled"}
            /\ answer[2] = "ActivityTaskCompleted" => answer[1] = "completed"
            /\ answer[2] = "WorkflowExecutionCancelRequested" => answer[1] = "cancel"
        BY DEF Answers, EventTypes
      <3>5. /\ CancelRequested(history') =>
                   CancelRequested(history) \/ answer[2] = "WorkflowExecutionCancelRequested"
            /\ \A a : ActivityStatus(history', a) =>
                   \/ ActivityStatus(history, a)
                   \/ /\ answer[2] = "ActivityTaskCompleted" /\ IsScheduled(history, i)
                      /\ a = history[i].activity
        BY <3>3, <3>4, HistoryGrows, OneMoreEvent
      <3> QED BY <3>2, <3>3, <3>4, <3>5 DEF Evidence, ToldTruth
    <2>3. CASE \E i \in DOMAIN history : ActivityTimeout(i)
      <3>1. PICK i \in DOMAIN history : ActivityTimeout(i)
        BY <2>3
      <3>2. i \in Nat /\ RecordEvent(Event("ActivityTaskTimedOut", NoActivity, i))
        BY <3>1, TypeParts DEF ActivityTimeout, SwfTypeOK
      <3>3. "ActivityTaskTimedOut" \in EventTypes \ {"ActivityTaskScheduled"}
        BY DEF EventTypes
      <3>4. /\ CancelRequested(history') => CancelRequested(history)
            /\ \A a : ActivityStatus(history', a) => ActivityStatus(history, a)
        BY <3>2, <3>3, HistoryGrows, OneMoreEvent
      <3> QED BY <3>4 DEF Evidence
    <2>4. CASE \E d \in Deciders, s \in DOMAIN definition : DeciderSchedules(d, s)
      <3>1. PICK d \in Deciders, s \in DOMAIN definition : DeciderSchedules(d, s)
        BY <2>4
      <3>2. /\ CancelRequested(history') => CancelRequested(history)
            /\ \A a : ActivityStatus(history', a) => ActivityStatus(history, a)
        BY <3>1, ScheduleChangesNoStatus DEF DeciderSchedules
      <3> QED BY <3>2 DEF Evidence
    <2> QED BY <2>1, <2>2, <2>3, <2>4, WhoAddsEvents
  <1>3. performed \subseteq performed' /\ refused \subseteq refused'
    BY ObserversGrow
  <1> QED BY <1>1, <1>2, <1>3 DEF Evidence

LEMMA EvidenceHolds == Spec => []Evidence
  <1>1. Init => Evidence
    <2> SUFFICES ASSUME Init PROVE Evidence
      OBVIOUS
    <2>1. DOMAIN history = {}
      BY DEF Init
    <2> QED BY <2>1, IdleType DEF Init, Evidence, ActivityStatus, CancelRequested
  <1>2. TypeOK /\ Evidence /\ [Next]_vars => Evidence'
    BY EvidenceStep
  <1> QED BY <1>1, <1>2, TypeCorrect, PTL DEF Spec

\* Whatever the history calls completed was done by some worker, though answers
\* arrive late, twice or not at all.
THEOREM CompletionsAreReal == Spec => []CompletedIsPerformed
  <1>1. Evidence => CompletedIsPerformed
    BY DEF Evidence, CompletedIsPerformed
  <1> QED BY <1>1, EvidenceHolds, PTL

\* An execution fails only when some activity gave up for good and some activity
\* is still missing.
THEOREM FailureIsJustified == Spec => []FailedOnlyOnRequest
  <1>1. Init => Outcome
    BY DEF Init, Outcome
  <1>2. TypeOK /\ Outcome /\ [Next]_vars => Outcome'
    BY OutcomeStep
  <1>3. Outcome /\ Evidence => FailedOnlyOnRequest
    BY DEF Outcome, Evidence, FailedOnlyOnRequest
  <1> QED BY <1>1, <1>2, <1>3, TypeCorrect, EvidenceHolds, PTL DEF Spec

-----------------------------------------------------------------------------
(* Order.                                                                    *)

\* Prefixes of a history grow with their length and with the history.
LEMMA PrefixesExtend ==
    ASSUME NEW h, NEW g, Extends(h, g), NEW m \in Nat, NEW n \in Nat,
           m <= n, m <= Len(h), n <= Len(g)
    PROVE  Extends(SubSeq(h, 1, m), SubSeq(g, 1, n))
  <1>1. /\ h \in Seq(EventRecord) /\ g \in Seq(EventRecord)
        /\ Extends(SubSeq(h, 1, m), h) /\ Len(SubSeq(h, 1, m)) = m
        /\ Extends(SubSeq(g, 1, n), g) /\ Len(SubSeq(g, 1, n)) = n
    BY PrefixExtends DEF Extends
  <1>2. \A i \in 1 .. m : SubSeq(h, 1, m)[i] = h[i] /\ SubSeq(g, 1, n)[i] = g[i] /\ g[i] = h[i]
    <2>1. \A i \in 1 .. m : i \in 1 .. n /\ i \in 1 .. Len(h)
      BY <1>1
    <2> QED BY <1>1, <2>1 DEF Extends
  <1>3. /\ SubSeq(h, 1, m) \in Seq(EventRecord) /\ SubSeq(g, 1, n) \in Seq(EventRecord)
        /\ \A i \in 1 .. m : SubSeq(g, 1, n)[i] = SubSeq(h, 1, m)[i]
    BY <1>1, <1>2 DEF Extends
  <1> QED BY <1>1, <1>3 DEF Extends

\* The prefixes of a growing history do not change.
LEMMA PrefixesEqual ==
    ASSUME NEW h, NEW g, Extends(h, g), NEW m \in Nat, m <= Len(h)
    PROVE  SubSeq(g, 1, m) = SubSeq(h, 1, m)
  <1>1. /\ h \in Seq(EventRecord) /\ g \in Seq(EventRecord)
        /\ Len(h) \in Nat /\ Len(g) \in Nat /\ m <= Len(g)
    BY DEF Extends
  <1>2. /\ SubSeq(h, 1, m) \in Seq(EventRecord) /\ Len(SubSeq(h, 1, m)) = m
        /\ SubSeq(g, 1, m) \in Seq(EventRecord) /\ Len(SubSeq(g, 1, m)) = m
    BY <1>1, PrefixExtends DEF Extends
  <1>3. \A i \in 1 .. m : SubSeq(g, 1, m)[i] = SubSeq(h, 1, m)[i]
    <2>1. Extends(SubSeq(h, 1, m), SubSeq(g, 1, m))
      BY <1>1, PrefixesExtend
    <2> QED BY <1>2, <2>1 DEF Extends
  <1> QED BY <1>2, <1>3, SeqEqual

\* A scheduled event is an old one, or one of those that a decision just added.
LEMMA NewlyScheduled ==
    ASSUME TypeOK, [Next]_vars, NEW j \in DOMAIN history', IsScheduled(history', j)
    PROVE  \/ j \in DOMAIN history /\ IsScheduled(history, j) /\ history'[j] = history[j]
           \/ /\ j > Len(history)
              /\ \E d \in Deciders, s \in DOMAIN definition :
                     /\ DeciderSchedules(d, s)
                     /\ j - Len(history) \in DOMAIN definition[s]
                     /\ history'[j].activity = definition[s][j - Len(history)]
                     /\ Len(history') = Len(history) + Len(definition[s])
  <1>1. /\ history \in Seq(EventRecord) /\ history' \in Seq(EventRecord)
        /\ DOMAIN history = 1 .. Len(history) /\ DOMAIN history' = 1 .. Len(history')
        /\ \A i \in DOMAIN history : history'[i] = history[i]
        /\ Len(history) \in Nat /\ Len(history') \in Nat
    BY HistoryGrows DEF Extends
  <1>2. CASE j \in DOMAIN history
    BY <1>1, <1>2 DEF IsScheduled
  <1>3. CASE j \notin DOMAIN history
    <2>1. ASSUME NEW type \in EventTypes \ {"ActivityTaskScheduled"}, NEW i \in 0 .. Len(history),
                 RecordEvent(Event(type, NoActivity, i))
          PROVE  FALSE
      <3>1. i \in Nat
        BY <1>1
      <3>2. history'[Len(history) + 1] = Event(type, NoActivity, i) /\ Len(history') = Len(history) + 1
        BY <2>1, <3>1, EventType, RecordEventType
      <3>3. j = Len(history) + 1
        BY <1>1, <1>3, <3>2
      <3> QED BY <3>1, <3>2, <3>3, EventType DEF IsScheduled
    <2>2. ~\E i \in DOMAIN history : ActivityTimeout(i)
      <3>1. "ActivityTaskTimedOut" \in EventTypes \ {"ActivityTaskScheduled"}
        BY DEF EventTypes
      <3>2. \A i \in DOMAIN history : i \in 0 .. Len(history)
        BY <1>1
      <3> QED BY <2>1, <3>1, <3>2 DEF ActivityTimeout
    <2>3. ~\E w \in Workers, answer \in Answers : WorkerAnswers(w, answer[1], answer[2])
      <3> SUFFICES ASSUME NEW w \in Workers, NEW answer \in Answers,
                          WorkerAnswers(w, answer[1], answer[2])
                   PROVE  FALSE
        OBVIOUS
      <3>1. answer[2] \in EventTypes \ {"ActivityTaskScheduled"}
        BY DEF Answers, EventTypes
      <3>2. worker[w].task \in 0 .. Len(history) /\ 0 \in 0 .. Len(history)
        <4>1. worker[w].task \in DOMAIN history
          BY TypeParts DEF WorkerAnswers, LocalTypeOK, IsScheduled
        <4> QED BY <1>1, <4>1
      <3> QED BY <2>1, <3>1, <3>2 DEF WorkerAnswers
    <2>4. PICK d \in Deciders, s \in DOMAIN definition : DeciderSchedules(d, s)
      BY <1>1, <1>3, <2>2, <2>3, WhoAddsEvents
    <2>5. definition[s] \in Seq(Activities) /\ ScheduleActivities(d, definition[s])
      BY <2>4, StepType, TypeParts DEF DeciderSchedules, SwfTypeOK
    <2>6. /\ Len(history') = Len(history) + Len(definition[s])
          /\ \A k \in DOMAIN definition[s] :
                 history'[Len(history) + k] = ScheduleResult(history, definition[s][k])
      BY <2>5, ScheduleActivitiesType
    <2>7. /\ j > Len(history) /\ j - Len(history) \in DOMAIN definition[s]
          /\ j = Len(history) + (j - Len(history))
      BY <1>1, <1>3, <2>5, <2>6
    <2>8. history'[j].activity = definition[s][j - Len(history)]
      <3>1. history'[j] = ScheduleResult(history, definition[s][j - Len(history)])
        BY <2>6, <2>7
      <3> QED BY <3>1 DEF ScheduleResult, Event
    <2> QED BY <2>4, <2>6, <2>7, <2>8
  <1> QED BY <1>2, <1>3

\* Of definitions without parallel steps it is the one event a decision added.
LEMMA NextScheduled ==
    ASSUME TypeOK, [Next]_vars, Sequential, NEW j \in DOMAIN history', IsScheduled(history', j)
    PROVE  \/ j \in DOMAIN history /\ IsScheduled(history, j) /\ history'[j] = history[j]
           \/ /\ j = Len(history) + 1 /\ Len(history') = j
              /\ \E d \in Deciders, s \in DOMAIN definition :
                     /\ DeciderSchedules(d, s) /\ Len(definition[s]) = 1
                     /\ history'[j].activity = definition[s][1]
  <1>1. SUFFICES ASSUME NEW d \in Deciders, NEW s \in DOMAIN definition,
                        DeciderSchedules(d, s), j > Len(history),
                        j - Len(history) \in DOMAIN definition[s],
                        history'[j].activity = definition[s][j - Len(history)],
                        Len(history') = Len(history) + Len(definition[s])
                 PROVE  /\ j = Len(history) + 1 /\ Len(history') = j
                        /\ Len(definition[s]) = 1
                        /\ history'[j].activity = definition[s][1]
    BY NewlyScheduled
  <1>2. definition[s] \in Seq(Activities) /\ Len(definition[s]) = 1
    BY StepType, TypeParts DEF Sequential, SwfTypeOK
  <1>3. j - Len(history) = 1 /\ Len(history) \in Nat /\ j \in Nat
    BY <1>1, <1>2, HistoryGrows DEF Extends
  <1>4. j = Len(history) + 1
    BY <1>3
  <1> QED BY <1>1, <1>2, <1>3, <1>4

LEMMA BegunStays ==
    ASSUME NEW h, NEW g, Extends(h, g), NEW step, StepBegun(h, step)
    PROVE  StepBegun(g, step)
  BY ExtendsMonotone DEF StepBegun

\* A step that is not fresh has begun, and has no activity to wait for if it has one.
LEMMA OrderStep ==
    ASSUME TypeOK, StepOrder, [Next]_vars
    PROVE  StepOrder'
  <1>1. definition' = definition
    BY DEF Next, DeciderStep, WorkerStep, PollForDecisionTask, CompleteWorkflow,
       CheckForFailedWorkflowRequest, ScheduleNextActivities, NoNextActivity, DeciderLost,
       PollForActivityTask, DoActivity, RespondCompleted, RespondFailed, Respond,
       SignalFailWorkflow, WorkerLost, ActivityTimeout, DecisionTimeout, ExecutionTimeout,
       Quiescent, vars
  <1>2. /\ history \in Seq(EventRecord) /\ history' \in Seq(EventRecord)
        /\ Extends(history, history') /\ Len(history) <= Len(history')
        /\ DOMAIN history = 1 .. Len(history) /\ DOMAIN history' = 1 .. Len(history')
    BY HistoryGrows DEF Extends
  <1> SUFFICES ASSUME NEW j \in DOMAIN history', IsScheduled(history', j)
               PROVE  \E s \in DOMAIN definition :
                          /\ \E k \in DOMAIN definition[s] :
                                 definition[s][k] = history'[j].activity
                          /\ \A t \in 1 .. s - 1 :
                                 StepBegun(SubSeq(history', 1, j - 1), definition[t])
    BY <1>1 DEF StepOrder
  <1>3. CASE j \in DOMAIN history /\ IsScheduled(history, j) /\ history'[j] = history[j]
    <2>1. j - 1 \in Nat /\ j - 1 <= Len(history) /\ j - 1 <= Len(history')
      BY <1>2, <1>3
    <2>2. Extends(SubSeq(history, 1, j - 1), SubSeq(history', 1, j - 1))
      BY <1>2, <2>1, PrefixesExtend
    <2> QED BY <1>3, <2>2, BegunStays DEF StepOrder
  <1>4. CASE /\ j > Len(history)
             /\ \E d \in Deciders, s \in DOMAIN definition :
                    /\ DeciderSchedules(d, s) /\ j - Len(history) \in DOMAIN definition[s]
                    /\ history'[j].activity = definition[s][j - Len(history)]
    <2>1. PICK d \in Deciders, s \in DOMAIN definition :
                    /\ DeciderSchedules(d, s) /\ j - Len(history) \in DOMAIN definition[s]
                    /\ history'[j].activity = definition[s][j - Len(history)]
      BY <1>4
    <2>2. /\ decider[d].snapshot \in Nat /\ decider[d].snapshot <= Len(history)
          /\ j - 1 \in Nat /\ decider[d].snapshot <= j - 1 /\ j - 1 <= Len(history')
      BY <1>2, <1>4, SnapshotIsPrefix
    <2>3. Extends(Seen(d), SubSeq(history', 1, j - 1))
      BY <1>2, <2>2, PrefixesExtend DEF Seen
    <2>4. ASSUME NEW t \in 1 .. s - 1
          PROVE  StepBegun(SubSeq(history', 1, j - 1), definition[t])
      <3>1. t \in DOMAIN definition /\ definition[t] \in Seq(Activities)
        BY StepType
      <3>2. ~StepIsFresh(Seen(d), definition[t])
        BY <2>1 DEF DeciderSchedules, IsNextStep
      <3>3. StepBegun(Seen(d), definition[t])
        BY <3>1, <3>2 DEF StepIsFresh, StepBegun
      <3> QED BY <2>3, <3>3, BegunStays
    <2> QED BY <2>1, <2>4
  <1> QED BY <1>3, <1>4, NewlyScheduled

\* An activity is scheduled only after each step before its own was completed,
\* or begun if it is a parallel one, however stale the decider.
THEOREM StepsInOrder == Spec => []StepOrder
  <1>1. Init => StepOrder
    BY DEF Init, StepOrder, IsScheduled
  <1>2. TypeOK /\ StepOrder /\ [Next]_vars => StepOrder'
    BY OrderStep
  <1> QED BY <1>1, <1>2, TypeCorrect, PTL DEF Spec

-----------------------------------------------------------------------------
(* Attempts: at most one task is open, and a decider that may still be        *)
(* answered either knows of a request to fail or of no open task.             *)

NoneOpen(h) == \A i \in DOMAIN h : ~IsOpen(h, i)

\* What the two properties about attempts say of a sequential execution.
OneAtATime ==
    \A i, j \in DOMAIN history : IsOpen(history, i) /\ IsOpen(history, j) => i = j

NeverAgain ==
    \A j \in DOMAIN history : IsScheduled(history, j) =>
        ~ActivityStatus(SubSeq(history, 1, j - 1), history[j].activity)

Attempts ==
    /\ OneAtATime
    /\ \A i \in DOMAIN history : IsOpen(history, i) =>
           ~ActivityStatus(history, history[i].activity)

\* No event but requests to fail since the decider's snapshot.
UpToDate(d) ==
    /\ NoneOpen(history)
    /\ \A k \in DOMAIN history : k > decider[d].snapshot =>
           history[k].eventType = "WorkflowExecutionCancelRequested"

HolderIsCurrent(d) ==
    /\ decisionTask = "started" /\ decider[d].phase = "deciding"
    /\ CancelRequested(Seen(d)) \/ UpToDate(d)
    /\ \A e \in Deciders : decider[e].current => e = d

Decisions ==
    execution = "OPEN" =>
        /\ decisionTask # "none" => CancelRequested(history) \/ NoneOpen(history)
        /\ \A d \in Deciders : decider[d].current => HolderIsCurrent(d)

\* An accepted decision schedules on what is still all there is to know.
LEMMA AcceptedSchedule ==
    ASSUME TypeOK, Decisions, NEW d \in Deciders, NEW s \in DOMAIN definition,
           DeciderSchedules(d, s), Len(definition[s]) = 1
    PROVE  /\ UpToDate(d) /\ ~CancelRequested(Seen(d))
           /\ ~ActivityStatus(history, definition[s][1])
           /\ UnhandledEvents(d) => CancelRequested(history)
  <1>1. HolderIsCurrent(d) /\ decider[d].phase = "deciding"
    BY DEF Decisions, DeciderSchedules, TokenAccepted, HolderIsCurrent
  <1>2. ~CancelRequested(Seen(d)) /\ UpToDate(d)
    BY <1>1 DEF DeciderSchedules, AtSchedule, FailRequested, HolderIsCurrent
  <1>3. /\ Extends(Seen(d), history) /\ Len(Seen(d)) = decider[d].snapshot
        /\ decider[d].snapshot \in Nat /\ Len(history) \in Nat
        /\ DOMAIN history = 1 .. Len(history)
        /\ DOMAIN Seen(d) = 1 .. decider[d].snapshot
    BY SnapshotIsPrefix, TypeParts DEF SwfTypeOK, Extends
  <1>4. ASSUME NEW a, ActivityStatus(history, a) PROVE ActivityStatus(Seen(d), a)
    <2>1. PICK j \in DOMAIN history :
              /\ history[j].eventType = "ActivityTaskCompleted"
              /\ IsScheduled(history, history[j].scheduledEventId)
              /\ history[history[j].scheduledEventId].activity = a
      BY <1>4 DEF ActivityStatus
    <2>2. j \in DOMAIN Seen(d) /\ Seen(d)[j] = history[j]
      BY <1>2, <1>3, <2>1 DEF UpToDate, Extends
    <2> DEFINE i == history[j].scheduledEventId
    <2>3. i \in DOMAIN history /\ i < j
      BY <2>1, TypeParts DEF SwfTypeOK, IsScheduled
    <2>4. i \in DOMAIN Seen(d) /\ Seen(d)[i] = history[i]
      BY <1>3, <2>2, <2>3 DEF Extends
    <2> QED BY <2>1, <2>2, <2>4 DEF ActivityStatus, IsScheduled
  <1>5. ~ActivityStatus(Seen(d), definition[s][1])
    <2>1. 1 \in DOMAIN definition[s]
      BY StepType
    <2> QED BY <2>1 DEF DeciderSchedules, IsNextStep, StepIsFresh
  <1>6. ASSUME UnhandledEvents(d) PROVE CancelRequested(history)
    <2>1. Len(history) \in DOMAIN history /\ Len(history) > decider[d].snapshot
      BY <1>3, <1>6 DEF UnhandledEvents
    <2> QED BY <1>2, <2>1 DEF UpToDate, CancelRequested
  <1> QED BY <1>2, <1>4, <1>5, <1>6

\* The one event that a decision adds to a sequential execution.
LEMMA OneMoreAttempt ==
    ASSUME TypeOK, NEW d \in Deciders, NEW s \in DOMAIN definition,
           DeciderSchedules(d, s), Len(definition[s]) = 1, NoneOpen(history)
    PROVE  /\ Len(history') = Len(history) + 1
           /\ history'[Len(history) + 1] =
                  Event("ActivityTaskScheduled", definition[s][1], 0)
           /\ decisionTask' = IF UnhandledEvents(d) THEN "scheduled" ELSE "none"
           /\ \A k : IsOpen(history', k) => k = Len(history) + 1
           /\ execution' = "OPEN"
  <1>1. DOMAIN definition[s] = {1} /\ 1 \in DOMAIN definition[s]
    BY StepType
  <1>2. OpenActivities(history) = {}
    BY DEF OpenActivities, NoneOpen
  <1>3. ScheduleResult(history, definition[s][1]) =
            Event("ActivityTaskScheduled", definition[s][1], 0)
    BY <1>2 DEF ScheduleResult
  <1>4. /\ Len(history') = Len(history) + 1
        /\ history'[Len(history) + 1] = ScheduleResult(history, definition[s][1])
        /\ \A i \in 1 .. Len(history) : history'[i] = history[i]
        /\ history \in Seq(EventRecord) /\ history' \in Seq(EventRecord)
        /\ execution' = execution
    BY <1>1, ScheduleActivitiesType, TypeParts DEF DeciderSchedules, SwfTypeOK
  <1>5. decisionTask' = IF UnhandledEvents(d) THEN "scheduled" ELSE "none"
    <2> DEFINE new == [k \in DOMAIN definition[s] |-> ScheduleResult(history, definition[s][k])]
               scheduled == {k \in DOMAIN new : new[k].eventType = "ActivityTaskScheduled"}
    <2>1. scheduled = DOMAIN new
      BY <1>1, <1>3 DEF Event
    <2>2. decisionTask' = IF UnhandledEvents(d) \/ scheduled # DOMAIN new
                          THEN "scheduled" ELSE "none"
      BY DEF DeciderSchedules, ScheduleActivities
    <2> QED BY <2>1, <2>2
  <1>6. ASSUME NEW k, IsOpen(history', k) PROVE k = Len(history) + 1
    <2>1. /\ DOMAIN history = 1 .. Len(history) /\ DOMAIN history' = 1 .. Len(history) + 1
          /\ \A i \in DOMAIN history : i \in DOMAIN history' /\ history'[i] = history[i]
      BY <1>4
    <2>2. k \in DOMAIN history => IsOpen(history, k)
      BY <1>6, <2>1 DEF IsOpen, IsScheduled
    <2> QED BY <1>4, <1>6, <2>1, <2>2 DEF NoneOpen, IsOpen, IsScheduled
  <1> QED BY <1>3, <1>4, <1>5, <1>6 DEF DeciderSchedules, TokenAccepted

\* A worker's answer or a time-out: one event, for the task it names.
LEMMA RecordedEvent ==
    ASSUME TypeOK,
           \/ \E w \in Workers, answer \in Answers : WorkerAnswers(w, answer[1], answer[2])
           \/ \E i \in DOMAIN history : ActivityTimeout(i)
    PROVE  \E type \in EventTypes \ {"ActivityTaskScheduled", "ScheduleActivityTaskFailed"},
              i \in 0 .. Len(history) :
               /\ RecordEvent(Event(type, NoActivity, i))
               /\ type # "WorkflowExecutionCancelRequested" => IsOpen(history, i)
               /\ execution = "OPEN" /\ execution' = "OPEN"
               /\ decider' = decider
  <1>1. ASSUME NEW w \in Workers, NEW answer \in Answers, WorkerAnswers(w, answer[1], answer[2])
        PROVE  \E type \in EventTypes \ {"ActivityTaskScheduled", "ScheduleActivityTaskFailed"},
                  i \in 0 .. Len(history) :
                   /\ RecordEvent(Event(type, NoActivity, i))
                   /\ type # "WorkflowExecutionCancelRequested" => IsOpen(history, i)
    <2>1. /\ answer[2] \in EventTypes \ {"ActivityTaskScheduled", "ScheduleActivityTaskFailed"}
          /\ answer[1] = "cancel" <=> answer[2] = "WorkflowExecutionCancelRequested"
      BY DEF Answers, EventTypes
    <2>2. worker[w].task \in 0 .. Len(history) /\ 0 \in 0 .. Len(history)
      <3>1. worker[w].task \in DOMAIN history /\ DOMAIN history = 1 .. Len(history)
        BY <1>1, TypeParts DEF WorkerAnswers, LocalTypeOK, SwfTypeOK, IsScheduled
      <3> QED BY <3>1, TypeParts DEF SwfTypeOK
    <2> QED BY <1>1, <2>1, <2>2 DEF WorkerAnswers
  <1>2. ASSUME NEW i \in DOMAIN history, ActivityTimeout(i)
        PROVE  /\ "ActivityTaskTimedOut" \in
                      EventTypes \ {"ActivityTaskScheduled", "ScheduleActivityTaskFailed"}
               /\ i \in 0 .. Len(history)
               /\ RecordEvent(Event("ActivityTaskTimedOut", NoActivity, i))
               /\ IsOpen(history, i)
    BY <1>2, TypeParts DEF ActivityTimeout, SwfTypeOK, EventTypes
  <1>3. execution = "OPEN"
    BY DEF WorkerAnswers, ActivityTimeout
  <1>4. execution' = execution /\ decider' = decider
    BY DEF WorkerAnswers, ActivityTimeout
  <1> QED BY <1>1, <1>2, <1>3, <1>4

\* Recording an event closes the task it names and opens none.
LEMMA RecordKeepsAttempts ==
    ASSUME TypeOK, Attempts, Decisions, Extends(history, history'),
           NEW type \in EventTypes \ {"ActivityTaskScheduled", "ScheduleActivityTaskFailed"},
           NEW i \in 0 .. Len(history),
           RecordEvent(Event(type, NoActivity, i)),
           type # "WorkflowExecutionCancelRequested" => IsOpen(history, i),
           execution = "OPEN", execution' = "OPEN", decider' = decider
    PROVE  Attempts' /\ Decisions'
  <1> DEFINE e == Event(type, NoActivity, i)
  <1>1. /\ i \in Nat /\ Len(history) \in Nat /\ history \in Seq(EventRecord)
        /\ type \in EventTypes \ {"ActivityTaskScheduled"}
    BY TypeParts DEF SwfTypeOK
  <1>2. /\ \A a : ActivityStatus(history', a) =>
               \/ ActivityStatus(history, a)
               \/ /\ type = "ActivityTaskCompleted" /\ IsScheduled(history, i)
                  /\ a = history[i].activity
        /\ \A k : IsOpen(history', k) => IsOpen(history, k) /\ k # i
        /\ CancelRequested(history) => CancelRequested(history')
    BY <1>1, OneMoreEvent, ExtendsMonotone
  <1>3. \A k : IsOpen(history, k) => k \in DOMAIN history /\ history'[k] = history[k]
    BY ExtendsMonotone DEF IsOpen, IsScheduled
  <1>4. type # "WorkflowExecutionCancelRequested" => NoneOpen(history')
    BY <1>2, <1>3 DEF NoneOpen, Attempts, OneAtATime, IsOpen, IsScheduled
  <1>5. type = "WorkflowExecutionCancelRequested" => CancelRequested(history')
    <2>1. /\ history'[Len(history) + 1] = e /\ e.eventType = type
          /\ Len(history) + 1 \in DOMAIN history'
      BY <1>1, EventType, RecordEventType
    <2> QED BY <2>1 DEF CancelRequested
  <1>6. Attempts'
    <2>1. OneAtATime'
      BY <1>2, <1>3 DEF Attempts, OneAtATime
    <2>2. ASSUME NEW k \in DOMAIN history', IsOpen(history', k)
          PROVE  ~ActivityStatus(history', history'[k].activity)
      <3>1. IsOpen(history, k) /\ k # i /\ k \in DOMAIN history /\ history'[k] = history[k]
        BY <1>2, <1>3, <2>2
      <3>2. type = "WorkflowExecutionCancelRequested"
        BY <1>4, <2>2 DEF NoneOpen
      <3> QED BY <1>2, <3>1, <3>2 DEF Attempts
    <2> QED BY <2>1, <2>2 DEF Attempts
  <1>7. CancelRequested(history') \/ NoneOpen(history')
    BY <1>4, <1>5
  <1>8. ASSUME NEW d \in Deciders, decider[d].current PROVE HolderIsCurrent(d)'
    <2>1. HolderIsCurrent(d)
      BY <1>8 DEF Decisions
    <2>2. decisionTask' = "started"
      BY <2>1 DEF HolderIsCurrent, RecordEvent, Trigger
    <2>3. SubSeq(history', 1, decider[d].snapshot) = Seen(d)
      BY <1>1, SnapshotIsPrefix, PrefixesEqual DEF Seen
    <2>4. CASE CancelRequested(Seen(d))
      BY <2>1, <2>2, <2>3, <2>4 DEF HolderIsCurrent, Seen
    <2>5. CASE UpToDate(d)
      <3>1. type = "WorkflowExecutionCancelRequested"
        BY <2>5 DEF UpToDate, NoneOpen, IsOpen, IsScheduled
      <3>2. NoneOpen(history')
        BY <1>2, <1>3, <2>5 DEF UpToDate, NoneOpen
      <3>3. ASSUME NEW k \in DOMAIN history', k > decider[d].snapshot
            PROVE  history'[k].eventType = "WorkflowExecutionCancelRequested"
        <4>1. /\ DOMAIN history = 1 .. Len(history) /\ DOMAIN history' = 1 .. Len(history) + 1
              /\ history'[Len(history) + 1] = e /\ e.eventType = type
              /\ \A m \in 1 .. Len(history) : history'[m] = history[m]
          <5>1. e \in EventRecord /\ e.eventType = type
            <6>1. type \in EventTypes /\ NoActivity \in Activities \cup {NoActivity} /\ i \in Nat
              BY <1>1
            <6> QED BY <6>1, EventType
          <5> HIDE DEF e
          <5>2. /\ history' \in Seq(EventRecord)
                /\ Len(history') = Len(history) + 1
                /\ \A m \in 1 .. Len(history) : history'[m] = history[m]
                /\ history'[Len(history) + 1] = e
            BY <5>1, RecordEventType DEF e
          <5> QED BY <1>1, <5>1, <5>2
        <4> HIDE DEF e
        <4>2. k \in DOMAIN history \/ k = Len(history) + 1
          BY <1>1, <4>1
        <4> QED BY <2>5, <3>1, <3>3, <4>1, <4>2 DEF UpToDate
      <3>4. UpToDate(d)'
        BY <3>2, <3>3 DEF UpToDate
      <3> QED BY <2>1, <2>2, <3>4 DEF HolderIsCurrent
    <2> QED BY <2>1, <2>4, <2>5 DEF HolderIsCurrent
  <1> QED BY <1>6, <1>7, <1>8 DEF Decisions

\* An accepted decision opens the one attempt, of an activity not yet completed.
LEMMA ScheduleKeepsAttempts ==
    ASSUME TypeOK, Attempts, Decisions, Extends(history, history'),
           NEW d \in Deciders, NEW s \in DOMAIN definition,
           DeciderSchedules(d, s), Len(definition[s]) = 1
    PROVE  Attempts' /\ Decisions'
  <1>1. /\ UpToDate(d) /\ ~ActivityStatus(history, definition[s][1])
        /\ UnhandledEvents(d) => CancelRequested(history)
    BY AcceptedSchedule
  <1>2. /\ history'[Len(history) + 1] = Event("ActivityTaskScheduled", definition[s][1], 0)
        /\ decisionTask' = IF UnhandledEvents(d) THEN "scheduled" ELSE "none"
        /\ \A k : IsOpen(history', k) => k = Len(history) + 1
        /\ execution' = "OPEN"
    BY <1>1, OneMoreAttempt DEF UpToDate
  <1>3. Attempts'
    <2>1. history'[Len(history) + 1].activity = definition[s][1]
      BY <1>2 DEF Event
    <2>2. \A a : ActivityStatus(history', a) => ActivityStatus(history, a)
      BY ScheduleChangesNoStatus DEF DeciderSchedules
    <2> QED BY <1>1, <1>2, <2>1, <2>2 DEF Attempts, OneAtATime
  <1>4. decisionTask' # "none" => CancelRequested(history')
    BY <1>1, <1>2, ExtendsMonotone
  <1>5. \A e \in Deciders : ~decider'[e].current
    <2>1. HolderIsCurrent(d)
      BY DEF Decisions, DeciderSchedules, TokenAccepted
    <2>2. decider \in [Deciders -> DeciderRecord]
      BY TypeParts DEF LocalTypeOK
    <2>3. \A e \in Deciders : decider[e].current => HolderIsCurrent(e)
      BY DEF Decisions, DeciderSchedules, TokenAccepted
    <2>4. \A e \in Deciders \ {d} : ~decider[e].current
      BY <2>1 DEF HolderIsCurrent
    <2> QED BY <2>2, <2>4, IdleType DEF DeciderSchedules
  <1> QED BY <1>3, <1>4, <1>5 DEF Decisions

\* Recording an event makes the history longer.
LEMMA RecordChangesHistory ==
    ASSUME TypeOK, NEW e, RecordEvent(e), history' = history
    PROVE  FALSE
  <1>1. history \in Seq(EventRecord \cup {e}) /\ e \in EventRecord \cup {e}
    BY TypeParts DEF SwfTypeOK
  <1>2. Len(Append(history, e)) = Len(history) + 1 /\ Len(history) \in Nat
    BY <1>1
  <1> QED BY <1>2 DEF RecordEvent

\* The steps that add no event.
LEMMA QuietStepKeepsAttempts ==
    ASSUME TypeOK, Attempts, Decisions, [Next]_vars, history' = history
    PROVE  Attempts' /\ Decisions'
  <1>1. Attempts'
    BY DEF Attempts, OneAtATime
  <1>2. decider \in [Deciders -> DeciderRecord]
    BY TypeParts DEF LocalTypeOK
  <1>3. SUFFICES ASSUME execution' = "OPEN"
                 PROVE  /\ decisionTask' # "none" => CancelRequested(history) \/ NoneOpen(history)
                        /\ \A d \in Deciders : decider'[d].current => HolderIsCurrent(d)'
    BY <1>1 DEF Decisions
  <1>4. execution = "OPEN"
    BY <1>3, ClosedIsFinal
  <1>5. CASE \E d \in Deciders : PollForDecisionTask(d)
    <2>1. PICK d \in Deciders : PollForDecisionTask(d)
      BY <1>5
    <2>2. /\ decisionTask = "scheduled" /\ decisionTask' = "started"
          /\ decider' = [decider EXCEPT ![d] =
                 [phase |-> "deciding", snapshot |-> Len(history), current |-> TRUE]]
      BY <2>1 DEF PollForDecisionTask
    <2>3. CancelRequested(history) \/ NoneOpen(history)
      BY <1>4, <2>2 DEF Decisions
    <2>4. \A e \in Deciders : ~decider[e].current
      BY <1>4, <2>2 DEF Decisions, HolderIsCurrent
    <2>5. \A e \in Deciders : decider'[e].current => e = d
      BY <1>2, <2>2, <2>4
    <2>6. /\ decider'[d].snapshot = Len(history) /\ decider'[d].phase = "deciding"
      BY <1>2, <2>2
    <2>7. Seen(d)' = history
      <3>1. history \in Seq(EventRecord)
        BY TypeParts DEF SwfTypeOK
      <3>2. Seen(d)' = SubSeq(history, 1, Len(history))
        BY <2>6 DEF Seen
      <3> QED BY <3>1, <3>2, SubSeqFull
    <2>8. NoneOpen(history) => UpToDate(d)'
      <3>1. \A k \in DOMAIN history : ~(k > Len(history))
        BY TypeParts DEF SwfTypeOK
      <3> QED BY <2>6, <3>1 DEF UpToDate
    <2>9. HolderIsCurrent(d)'
      BY <2>2, <2>3, <2>5, <2>6, <2>7, <2>8 DEF HolderIsCurrent
    <2> QED BY <2>3, <2>5, <2>9
  <1>6. CASE ~\E d \in Deciders : PollForDecisionTask(d)
    <2>1. \A d \in Deciders : decider'[d].current =>
              /\ decider[d].current /\ decisionTask' = decisionTask
              /\ decider'[d] = decider[d]
      <3>1. ASSUME NEW e \in Deciders,
                   \/ CompleteWorkflow(e) \/ CheckForFailedWorkflowRequest(e)
                   \/ ScheduleNextActivities(e) \/ NoNextActivity(e) \/ DeciderLost(e)
            PROVE  \A d \in Deciders : decider'[d].current =>
                       /\ decider[d].current /\ decisionTask' = decisionTask
                       /\ decider'[d] = decider[d]
        <4>1. /\ decisionTask' # decisionTask => TokenAccepted(e)
              /\ \/ decider' = [decider EXCEPT ![e] = IdleDecider]
                 \/ decider' = [decider EXCEPT ![e].phase = "answered", ![e].current = FALSE]
          BY <3>1 DEF CompleteWorkflow, CheckForFailedWorkflowRequest,
             ScheduleNextActivities, NoNextActivity, DeciderLost, swf
        <4>2. /\ ~decider'[e].current
              /\ \A d \in Deciders \ {e} : decider'[d] = decider[d]
          BY <1>2, <4>1, IdleType DEF DeciderRecord
        <4>3. ASSUME NEW d \in Deciders, decider'[d].current
              PROVE  decisionTask' = decisionTask
          <5>1. d # e /\ decider[d].current
            BY <4>2, <4>3
          <5>2. ~decider[e].current
            BY <1>4, <5>1 DEF Decisions, HolderIsCurrent
          <5> QED BY <4>1, <5>2 DEF TokenAccepted
        <4> QED BY <4>2, <4>3
      <3>2. CASE DecisionTimeout
        BY <1>2, <3>2 DEF DecisionTimeout, DeciderRecord
      <3>3. CASE decider' = decider /\ decisionTask' = decisionTask
        BY <3>3
      <3>4. \/ decider' = decider /\ decisionTask' = decisionTask
            \/ DecisionTimeout
            \/ \E e \in Deciders :
                   \/ CompleteWorkflow(e) \/ CheckForFailedWorkflowRequest(e)
                   \/ ScheduleNextActivities(e) \/ NoNextActivity(e) \/ DeciderLost(e)
        <4>1. ASSUME NEW w \in Workers, WorkerStep(w) \/ WorkerLost(w)
                       \/ \E i \in taskList : PollForActivityTask(w, i)
              PROVE  decider' = decider /\ decisionTask' = decisionTask
          <5>1. ASSUME NEW e, RecordEvent(e) PROVE FALSE
            BY <5>1, RecordChangesHistory
          <5> QED BY <4>1, <5>1 DEF WorkerStep, DoActivity, RespondCompleted, RespondFailed,
                  Respond, SignalFailWorkflow, WorkerLost, PollForActivityTask, swf
        <4>2. ASSUME NEW i \in DOMAIN history, ActivityTimeout(i) PROVE FALSE
          BY <4>2, RecordChangesHistory DEF ActivityTimeout
        <4>3. CASE ExecutionTimeout \/ Quiescent \/ UNCHANGED vars
          BY <1>3, <4>3 DEF ExecutionTimeout, Quiescent, vars, swf
        <4> QED BY <1>6, <4>1, <4>2, <4>3 DEF Next, DeciderStep
      <3> QED BY <3>1, <3>2, <3>3, <3>4
    <2>2. ASSUME NEW d \in Deciders, decider'[d].current PROVE HolderIsCurrent(d)'
      <3>1. /\ decider[d].current /\ decisionTask' = decisionTask
            /\ decider'[d] = decider[d]
        BY <2>1, <2>2
      <3>2. HolderIsCurrent(d)
        BY <1>4, <3>1 DEF Decisions
      <3>3. Seen(d)' = Seen(d) /\ (UpToDate(d) => UpToDate(d)')
        BY <3>1 DEF Seen, UpToDate
      <3>4. \A e \in Deciders : decider'[e].current => e = d
        BY <2>1, <3>2 DEF HolderIsCurrent
      <3> QED BY <3>1, <3>2, <3>3, <3>4 DEF HolderIsCurrent
    <2>3. decisionTask' # "none" => decisionTask # "none"
      <3>1. \A e \in Deciders : TokenAccepted(e) => decisionTask # "none"
        BY <1>4 DEF Decisions, HolderIsCurrent, TokenAccepted
      <3>2. ASSUME NEW e, RecordEvent(e) PROVE FALSE
        BY <3>2, RecordChangesHistory
      <3> QED BY <1>3, <1>6, <3>1, <3>2 DEF Next, DeciderStep, WorkerStep, CompleteWorkflow,
              CheckForFailedWorkflowRequest, ScheduleNextActivities, NoNextActivity, DeciderLost,
              PollForActivityTask, DoActivity, RespondCompleted, RespondFailed, Respond,
              SignalFailWorkflow, WorkerLost, ActivityTimeout, DecisionTimeout,
              ExecutionTimeout, Quiescent, vars, swf
    <2> QED BY <1>4, <2>2, <2>3 DEF Decisions
  <1> QED BY <1>5, <1>6

\* Every step of a sequential execution keeps both invariants.
LEMMA AttemptsStep ==
    ASSUME TypeOK, Sequential, Attempts, Decisions, [Next]_vars
    PROVE  Attempts' /\ Decisions'
  <1>0. Extends(history, history')
    BY HistoryGrows
  <1>1. CASE history' = history
    BY <1>1, QuietStepKeepsAttempts
  <1>2. CASE \/ \E w \in Workers, answer \in Answers : WorkerAnswers(w, answer[1], answer[2])
             \/ \E i \in DOMAIN history : ActivityTimeout(i)
    BY <1>0, <1>2, RecordedEvent, RecordKeepsAttempts
  <1>3. CASE \E d \in Deciders, s \in DOMAIN definition : DeciderSchedules(d, s)
    BY <1>0, <1>3, ScheduleKeepsAttempts, TypeParts DEF Sequential, SwfTypeOK
  <1> QED BY <1>1, <1>2, <1>3, WhoAddsEvents

LEMMA AttemptsHold == ASSUME Sequential PROVE Spec => [](Attempts /\ Decisions)
  <1>1. Init => Attempts /\ Decisions
    <2> SUFFICES ASSUME Init PROVE Attempts /\ Decisions
      OBVIOUS
    <2>1. DOMAIN history = {} /\ \A d \in Deciders : ~decider[d].current
      BY IdleType DEF Init
    <2> QED BY <2>1 DEF Attempts, OneAtATime, Decisions, NoneOpen
  <1>2. TypeOK /\ Attempts /\ Decisions /\ [Next]_vars => Attempts' /\ Decisions'
    BY AttemptsStep, Sequential
  <1> QED BY <1>1, <1>2, TypeCorrect, PTL DEF Spec

\* SWF never has two activity tasks of a sequential execution open: a decider
\* that lags behind is refused, and a retry waits for SWF to close the attempt.
THEOREM AttemptsAreAlone == ASSUME Sequential PROVE Spec => []OneOpenAttempt
  <1>1. Attempts => OneOpenAttempt
    BY DEF Attempts, OneAtATime, OneOpenAttempt
  <1> QED BY <1>1, AttemptsHold, PTL

LEMMA NoRepeatStep ==
    ASSUME TypeOK, Sequential, Decisions, NeverAgain, [Next]_vars
    PROVE  NeverAgain'
  <1>1. /\ Extends(history, history') /\ Len(history) \in Nat
        /\ DOMAIN history = 1 .. Len(history)
    BY HistoryGrows DEF Extends
  <1> SUFFICES ASSUME NEW j \in DOMAIN history', IsScheduled(history', j)
               PROVE  ~ActivityStatus(SubSeq(history', 1, j - 1), history'[j].activity)
    BY DEF NeverAgain
  <1>2. CASE j \in DOMAIN history /\ IsScheduled(history, j) /\ history'[j] = history[j]
    <2>1. j - 1 \in Nat /\ j - 1 <= Len(history)
      BY <1>1, <1>2
    <2>2. SubSeq(history', 1, j - 1) = SubSeq(history, 1, j - 1)
      BY <1>1, <2>1, PrefixesEqual
    <2> QED BY <1>2, <2>2 DEF NeverAgain
  <1>3. CASE /\ j = Len(history) + 1
             /\ \E d \in Deciders, s \in DOMAIN definition :
                    /\ DeciderSchedules(d, s) /\ Len(definition[s]) = 1
                    /\ history'[j].activity = definition[s][1]
    <2>1. PICK d \in Deciders, s \in DOMAIN definition :
                    /\ DeciderSchedules(d, s) /\ Len(definition[s]) = 1
                    /\ history'[j].activity = definition[s][1]
      BY <1>3
    <2>2. ~ActivityStatus(history, definition[s][1])
      BY <2>1, AcceptedSchedule
    <2>3. SubSeq(history', 1, j - 1) = history
      <3>1. j - 1 = Len(history) /\ Len(history) <= Len(history)
        BY <1>1, <1>3
      <3>2. SubSeq(history, 1, Len(history)) = history
        BY SubSeqFull, TypeParts DEF SwfTypeOK
      <3> QED BY <1>1, <3>1, <3>2, PrefixesEqual
    <2> QED BY <2>1, <2>2, <2>3
  <1> QED BY <1>2, <1>3, NextScheduled

\* A completed activity is never scheduled again, though SWF gives up attempts
\* that later succeed and hands out decision tasks that are answered late.
THEOREM CompletedStaysDone == ASSUME Sequential PROVE Spec => []NoRepeatAfterCompletion
  <1>1. Init => NeverAgain
    BY DEF Init, NeverAgain
  <1>2. /\ TypeOK /\ Decisions /\ NeverAgain /\ [Next]_vars
        => NeverAgain'
    BY NoRepeatStep, Sequential
  <1>3. NeverAgain => NoRepeatAfterCompletion
    BY DEF NeverAgain, NoRepeatAfterCompletion
  <1> QED BY <1>1, <1>2, <1>3, TypeCorrect, AttemptsHold, PTL DEF Spec

-----------------------------------------------------------------------------
(* After a request to cancel.                                                *)

\* One decision task, one decider whose answer is accepted.
OneHolder ==
    execution = "OPEN" =>
        \A d \in Deciders : decider[d].current =>
            /\ decisionTask = "started" /\ decider[d].phase = "deciding"
            /\ \A e \in Deciders : decider[e].current => e = d

\* Once something was scheduled after a request, whoever may still be answered
\* knows of the request.
Heard ==
    execution = "OPEN" =>
        \A i, j \in DOMAIN history :
            /\ i < j /\ IsScheduled(history, j)
            /\ history[i].eventType = "WorkflowExecutionCancelRequested"
            => \A d \in Deciders : decider[d].current => i <= decider[d].snapshot

CancelInv == OneHolder /\ Heard /\ CancelStopsScheduling

\* After the steps that do not poll a decider is current only if it was.
LEMMA HoldersStay ==
    ASSUME TypeOK, OneHolder, [Next]_vars, execution = "OPEN", execution' = "OPEN",
           ~\E d \in Deciders : PollForDecisionTask(d)
    PROVE  /\ \A d \in Deciders : decider'[d].current =>
                 /\ decider[d].current /\ decider'[d] = decider[d]
                 /\ decisionTask = "started" => decisionTask' = "started"
  <1>1. decider \in [Deciders -> DeciderRecord]
    BY TypeParts DEF LocalTypeOK
  <1>2. ASSUME NEW e \in Deciders,
               \/ CompleteWorkflow(e) \/ CheckForFailedWorkflowRequest(e)
               \/ ScheduleNextActivities(e) \/ NoNextActivity(e) \/ DeciderLost(e)
        PROVE  \A d \in Deciders : decider'[d].current =>
                   /\ decider[d].current /\ decider'[d] = decider[d]
                   /\ decisionTask' = decisionTask
    <2>1. /\ decisionTask' # decisionTask => TokenAccepted(e)
          /\ \/ decider' = [decider EXCEPT ![e] = IdleDecider]
             \/ decider' = [decider EXCEPT ![e].phase = "answered", ![e].current = FALSE]
      BY <1>2 DEF CompleteWorkflow, CheckForFailedWorkflowRequest,
         ScheduleNextActivities, NoNextActivity, DeciderLost, swf
    <2>2. /\ ~decider'[e].current
          /\ \A d \in Deciders \ {e} : decider'[d] = decider[d]
      BY <1>1, <2>1, IdleType DEF DeciderRecord
    <2>3. ASSUME NEW d \in Deciders, decider'[d].current
          PROVE  decisionTask' = decisionTask
      <3>1. d # e /\ decider[d].current
        BY <2>2, <2>3
      <3>2. ~decider[e].current
        BY <3>1 DEF OneHolder
      <3> QED BY <2>1, <3>2 DEF TokenAccepted
    <2> QED BY <2>2, <2>3
  <1>3. CASE DecisionTimeout
    BY <1>1, <1>3 DEF DecisionTimeout, DeciderRecord
  <1>4. ASSUME NEW w \in Workers, \/ WorkerStep(w) \/ WorkerLost(w)
                                  \/ \E i \in taskList : PollForActivityTask(w, i)
        PROVE  decider' = decider /\ (decisionTask = "started" => decisionTask' = "started")
    BY <1>4 DEF WorkerStep, DoActivity, RespondCompleted, RespondFailed, Respond, RecordEvent,
       Trigger, SignalFailWorkflow, WorkerLost, PollForActivityTask, swf
  <1>5. ASSUME NEW i \in DOMAIN history, ActivityTimeout(i)
        PROVE  decider' = decider /\ (decisionTask = "started" => decisionTask' = "started")
    BY <1>5 DEF ActivityTimeout, RecordEvent, Trigger
  <1>6. CASE ExecutionTimeout \/ Quiescent \/ UNCHANGED vars
    BY <1>6 DEF ExecutionTimeout, Quiescent, vars, swf
  <1> QED BY <1>2, <1>3, <1>4, <1>5, <1>6 DEF Next, DeciderStep

LEMMA HolderStep ==
    ASSUME TypeOK, OneHolder, [Next]_vars
    PROVE  OneHolder'
  <1>1. SUFFICES ASSUME execution' = "OPEN", NEW d \in Deciders, decider'[d].current
                 PROVE  /\ decisionTask' = "started" /\ decider'[d].phase = "deciding"
                        /\ \A e \in Deciders : decider'[e].current => e = d
    BY DEF OneHolder
  <1>2. execution = "OPEN"
    BY <1>1, ClosedIsFinal
  <1>3. decider \in [Deciders -> DeciderRecord]
    BY TypeParts DEF LocalTypeOK
  <1>4. CASE \E e \in Deciders : PollForDecisionTask(e)
    <2>1. PICK p \in Deciders : PollForDecisionTask(p)
      BY <1>4
    <2>2. \A e \in Deciders : ~decider[e].current
      BY <1>2, <2>1 DEF PollForDecisionTask, OneHolder
    <2>3. \A e \in Deciders : decider'[e].current => e = p
      BY <1>3, <2>1, <2>2 DEF PollForDecisionTask
    <2>4. decider'[p].phase = "deciding" /\ decisionTask' = "started"
      BY <1>3, <2>1 DEF PollForDecisionTask
    <2> QED BY <1>1, <2>3, <2>4
  <1>5. CASE ~\E e \in Deciders : PollForDecisionTask(e)
    BY <1>1, <1>2, <1>5, HoldersStay DEF OneHolder
  <1> QED BY <1>4, <1>5

LEMMA HeardStep ==
    ASSUME TypeOK, OneHolder, Heard, [Next]_vars
    PROVE  Heard'
  <1>1. SUFFICES ASSUME execution' = "OPEN", NEW i \in DOMAIN history', NEW j \in DOMAIN history',
                        i < j, IsScheduled(history', j),
                        history'[i].eventType = "WorkflowExecutionCancelRequested",
                        NEW d \in Deciders, decider'[d].current
                 PROVE  i <= decider'[d].snapshot
    BY DEF Heard
  <1>2. execution = "OPEN"
    BY <1>1, ClosedIsFinal
  <1>3. decider \in [Deciders -> DeciderRecord]
    BY TypeParts DEF LocalTypeOK
  <1>4. /\ \A k \in DOMAIN history : history'[k] = history[k]
        /\ Len(history) \in Nat /\ DOMAIN history = 1 .. Len(history)
        /\ history' \in Seq(EventRecord) /\ DOMAIN history' = 1 .. Len(history')
    BY HistoryGrows DEF Extends
  <1>5. CASE \E e \in Deciders : PollForDecisionTask(e)
    <2>1. PICK p \in Deciders : PollForDecisionTask(p)
      BY <1>5
    <2>2. \A e \in Deciders : ~decider[e].current
      BY <1>2, <2>1 DEF PollForDecisionTask, OneHolder
    <2>3. d = p /\ decider'[p].snapshot = Len(history) /\ history' = history
      BY <1>1, <1>3, <2>1, <2>2 DEF PollForDecisionTask
    <2> QED BY <1>1, <1>4, <2>3
  <1>6. CASE ~\E e \in Deciders : PollForDecisionTask(e)
    <2>1. decider[d].current /\ decider'[d] = decider[d]
      BY <1>1, <1>2, <1>6, HoldersStay
    <2>2. CASE j \in DOMAIN history
      <3>1. i \in DOMAIN history /\ IsScheduled(history, j)
        BY <1>1, <1>4, <2>2 DEF IsScheduled
      <3> QED BY <1>1, <1>2, <1>4, <2>1, <2>2, <3>1 DEF Heard
    <2>3. CASE j \notin DOMAIN history
      <3>1. PICK e \in Deciders, s \in DOMAIN definition : DeciderSchedules(e, s)
        BY <1>1, <2>3, NewlyScheduled
      <3>2. decider[e].current /\ ~decider'[e].current
        BY <1>3, <3>1, IdleType DEF DeciderSchedules, TokenAccepted
      <3> QED BY <1>1, <1>2, <2>1, <3>2 DEF OneHolder
    <2> QED BY <2>2, <2>3
  <1> QED BY <1>5, <1>6

\* What is scheduled after a request is scheduled by one decision.
LEMMA CancelStep ==
    ASSUME TypeOK, OneHolder, Heard, CancelStopsScheduling, [Next]_vars
    PROVE  CancelStopsScheduling'
  <1>1. /\ \A k \in DOMAIN history : history'[k] = history[k]
        /\ Len(history) \in Nat /\ DOMAIN history = 1 .. Len(history)
        /\ history' \in Seq(EventRecord) /\ DOMAIN history' = 1 .. Len(history')
    BY HistoryGrows DEF Extends
  <1>2. definition' = definition
    BY DEF Next, DeciderStep, WorkerStep, PollForDecisionTask, CompleteWorkflow,
       CheckForFailedWorkflowRequest, ScheduleNextActivities, NoNextActivity, DeciderLost,
       PollForActivityTask, DoActivity, RespondCompleted, RespondFailed, Respond,
       SignalFailWorkflow, WorkerLost, ActivityTimeout, DecisionTimeout, ExecutionTimeout,
       Quiescent, vars
  <1>3. SUFFICES ASSUME NEW i \in DOMAIN history', NEW j \in DOMAIN history', NEW k \in DOMAIN history',
                        i < j, j < k,
                        history'[i].eventType = "WorkflowExecutionCancelRequested",
                        IsScheduled(history', j), IsScheduled(history', k)
                 PROVE  SideBySide(history'[j].activity, history'[k].activity)
    BY <1>2 DEF CancelStopsScheduling, SideBySide
  <1>4. CASE k \in DOMAIN history
    <2>1. i \in DOMAIN history /\ j \in DOMAIN history
      BY <1>1, <1>3, <1>4
    <2>2. IsScheduled(history, j) /\ IsScheduled(history, k)
      BY <1>1, <1>3, <1>4, <2>1 DEF IsScheduled
    <2> QED BY <1>1, <1>3, <1>4, <2>1, <2>2 DEF CancelStopsScheduling
  <1>5. CASE k \notin DOMAIN history
    <2>1. PICK d \in Deciders, s \in DOMAIN definition :
              /\ DeciderSchedules(d, s) /\ k - Len(history) \in DOMAIN definition[s]
              /\ history'[k].activity = definition[s][k - Len(history)]
              /\ k > Len(history) /\ Len(history') = Len(history) + Len(definition[s])
      BY <1>3, <1>5, NewlyScheduled
    <2>2. /\ decider[d].current /\ execution = "OPEN" /\ decider[d].phase = "deciding"
          /\ ~CancelRequested(Seen(d))
      BY <2>1 DEF DeciderSchedules, TokenAccepted, AtSchedule, OneHolder, FailRequested
    <2>3. CASE j \in DOMAIN history
      <3>1. i \in DOMAIN history /\ IsScheduled(history, j)
        BY <1>1, <1>3, <2>3 DEF IsScheduled
      <3>2. i <= decider[d].snapshot
        BY <1>1, <1>3, <2>2, <2>3, <3>1 DEF Heard
      <3>3. /\ Extends(Seen(d), history) /\ decider[d].snapshot \in Nat
            /\ DOMAIN Seen(d) = 1 .. decider[d].snapshot
        BY SnapshotIsPrefix DEF Extends
      <3>4. i \in DOMAIN Seen(d) /\ Seen(d)[i] = history[i]
        BY <1>1, <3>1, <3>2, <3>3 DEF Extends
      <3> QED BY <1>1, <1>3, <2>2, <3>1, <3>4 DEF CancelRequested
    <2>4. CASE j \notin DOMAIN history
      <3>1. PICK e \in Deciders, t \in DOMAIN definition :
                /\ DeciderSchedules(e, t) /\ j - Len(history) \in DOMAIN definition[t]
                /\ history'[j].activity = definition[t][j - Len(history)] /\ j > Len(history)
        BY <1>3, <2>4, NewlyScheduled
      <3>2. e = d
        BY <2>2, <3>1 DEF DeciderSchedules, TokenAccepted, OneHolder
      <3>3. t = s
        <4>1. s \in Nat \ {0} /\ t \in Nat \ {0}
          BY TypeParts DEF SwfTypeOK
        <4>2. /\ IsNextStep(Seen(d), s) /\ IsNextStep(Seen(d), t)
          BY <2>1, <3>1, <3>2 DEF DeciderSchedules
        <4>3. ~(s \in 1 .. t - 1) /\ ~(t \in 1 .. s - 1)
          BY <4>2 DEF IsNextStep
        <4> QED BY <4>1, <4>3
      <3>4. j - Len(history) # k - Len(history)
        BY <1>1, <1>3
      <3> DEFINE l == j - Len(history)  m == k - Len(history)
      <3>5. /\ l \in DOMAIN definition[s] /\ m \in DOMAIN definition[s] /\ l # m
            /\ definition[s][l] = history'[j].activity
            /\ definition[s][m] = history'[k].activity
        BY <2>1, <3>1, <3>3, <3>4
      <3> HIDE DEF l, m
      <3> QED BY <3>5 DEF SideBySide
    <2> QED BY <2>3, <2>4
  <1> QED BY <1>4, <1>5

\* After a request to fail the workflow at most one more step is scheduled.
THEOREM CancelIsHeard == Spec => []CancelStopsScheduling
  <1>1. Init => CancelInv
    <2> SUFFICES ASSUME Init PROVE CancelInv
      OBVIOUS
    <2>1. DOMAIN history = {} /\ \A d \in Deciders : ~decider[d].current
      BY IdleType DEF Init
    <2> QED BY <2>1 DEF CancelInv, OneHolder, Heard, CancelStopsScheduling
  <1>2. TypeOK /\ CancelInv /\ [Next]_vars => CancelInv'
    BY HolderStep, HeardStep, CancelStep DEF CancelInv
  <1>3. CancelInv => CancelStopsScheduling
    BY DEF CancelInv
  <1> QED BY <1>1, <1>2, <1>3, TypeCorrect, PTL DEF Spec

-----------------------------------------------------------------------------
(* Refinement: an execution is a WorkflowPipeline.                            *)

Done == {a \in Activities : ActivityStatus(history, a)}

\* A step that leaves completions, requests and the status alone stutters.
LEMMA StutterStep ==
    ASSUME definition' = definition, execution' = execution,
           \A a \in Activities : ActivityStatus(history', a) <=> ActivityStatus(history, a),
           CancelRequested(history') <=> CancelRequested(history)
    PROVE  UNCHANGED Pipeline!pipeline
  <1>1. Done' = Done
    BY DEF Done
  <1>2. CancelRequested(history)' = CancelRequested(history)
    BY DEF CancelRequested
  <1> QED BY <1>1, <1>2 DEF Done, Pipeline!pipeline

\* An accepted completion is the next activity of the pipeline.
LEMMA CompletionPerforms ==
    ASSUME TypeOK, StepOrder, NEW i \in DOMAIN history, IsOpen(history, i),
           ~ActivityStatus(history, history[i].activity),
           definition' = definition, execution = "OPEN", execution' = "OPEN",
           Done' = Done \cup {history[i].activity},
           CancelRequested(history)' = CancelRequested(history)
    PROVE  Pipeline!Next
  <1>1. IsScheduled(history, i)
    BY DEF IsOpen
  <1>2. PICK s \in DOMAIN definition :
            /\ \E k \in DOMAIN definition[s] : definition[s][k] = history[i].activity
            /\ \A t \in 1 .. s - 1 : StepBegun(SubSeq(history, 1, i - 1), definition[t])
    BY <1>1 DEF StepOrder
  <1>3. PICK k \in DOMAIN definition[s] : definition[s][k] = history[i].activity
    BY <1>2
  <1>4. i - 1 \in Nat /\ i - 1 <= Len(history) /\ history \in Seq(EventRecord)
    BY TypeParts DEF SwfTypeOK
  <1>5. Extends(SubSeq(history, 1, i - 1), history)
    BY <1>4, PrefixExtends
  <1>6. ASSUME NEW t \in 1 .. s - 1 PROVE Pipeline!StepBegun(t)
    <2>1. t \in DOMAIN definition /\ definition[t] \in Seq(Activities)
      BY StepType
    <2>2. StepBegun(history, definition[t])
      BY <1>2, <1>5, BegunStays
    <2>3. definition[t] = << >> \/ \E m \in DOMAIN definition[t] : definition[t][m] \in Done
      BY <2>1, <2>2 DEF StepBegun, Done
    <2> QED BY <2>3 DEF Pipeline!StepBegun, Done
  <1>7. definition[s][k] \notin Done
    BY <1>3 DEF Done
  <1>8. Pipeline!Perform(s, k)
    BY <1>3, <1>6, <1>7 DEF Pipeline!Perform, Done
  <1> QED BY <1>8 DEF Pipeline!Next

\* All done, in the abstract and in the history.
LEMMA AllDoneIsComplete ==
    ASSUME TypeOK
    PROVE  Pipeline!AllDone <=> IsWorkflowComplete(history)
  <1>1. \A s \in DOMAIN definition : \A k \in DOMAIN definition[s] :
            definition[s][k] \in Activities
    BY StepType
  <1> QED BY <1>1 DEF Pipeline!AllDone, Pipeline!StepDone, IsWorkflowComplete

LEMMA PipelineStep ==
    ASSUME TypeOK, StepOrder, Outcome, [Next]_vars
    PROVE  [Pipeline!Next]_(Pipeline!pipeline)
  <1>0. /\ definition' = definition /\ Extends(history, history') /\ Outcome'
        /\ \A a : ActivityStatus(history, a) => ActivityStatus(history', a)
        /\ CancelRequested(history) => CancelRequested(history')
    <2>1. definition' = definition
      BY DEF Next, DeciderStep, WorkerStep, PollForDecisionTask, CompleteWorkflow,
         CheckForFailedWorkflowRequest, ScheduleNextActivities, NoNextActivity, DeciderLost,
         PollForActivityTask, DoActivity, RespondCompleted, RespondFailed, Respond,
         SignalFailWorkflow, WorkerLost, ActivityTimeout, DecisionTimeout, ExecutionTimeout,
         Quiescent, vars
    <2> QED BY <2>1, HistoryGrows, ExtendsMonotone, OutcomeStep
  <1>1. CASE history' = history /\ execution' = execution
    BY <1>0, <1>1, StutterStep
  <1>2. CASE history' = history /\ execution' # execution
    <2>1. execution = "OPEN"
      BY <1>2, ClosedIsFinal
    <2>2. execution' \in {"COMPLETED", "FAILED", "TIMED_OUT"}
      BY <1>2, <2>1, HistoryGrows DEF SwfTypeOK
    <2>3. /\ execution' = "COMPLETED" => Pipeline!AllDone
          /\ execution' = "FAILED" => CancelRequested(history) /\ ~Pipeline!AllDone
      <3>1. IsWorkflowComplete(history)' <=> IsWorkflowComplete(history)
        BY <1>0, <1>2 DEF IsWorkflowComplete
      <3> QED BY <1>0, <1>2, <3>1, AllDoneIsComplete DEF Outcome
    <2>4. Done' = Done /\ CancelRequested(history)' = CancelRequested(history)
      BY <1>2 DEF Done, CancelRequested
    <2> QED BY <1>0, <2>1, <2>2, <2>3, <2>4
      DEF Pipeline!Next, Pipeline!Complete, Pipeline!Fail, Pipeline!TimeOut, Done
  <1>3. CASE \/ \E w \in Workers, answer \in Answers : WorkerAnswers(w, answer[1], answer[2])
             \/ \E i \in DOMAIN history : ActivityTimeout(i)
    <2>1. PICK type \in EventTypes \ {"ActivityTaskScheduled", "ScheduleActivityTaskFailed"},
               i \in 0 .. Len(history) :
               /\ RecordEvent(Event(type, NoActivity, i))
               /\ type # "WorkflowExecutionCancelRequested" => IsOpen(history, i)
               /\ execution = "OPEN" /\ execution' = "OPEN"
      BY <1>3, RecordedEvent
    <2>2. i \in Nat /\ type \in EventTypes \ {"ActivityTaskScheduled"}
      BY TypeParts DEF SwfTypeOK
    <2>3. /\ CancelRequested(history') =>
                 CancelRequested(history) \/ type = "WorkflowExecutionCancelRequested"
          /\ \A a : ActivityStatus(history', a) =>
                 \/ ActivityStatus(history, a)
                 \/ /\ type = "ActivityTaskCompleted" /\ IsScheduled(history, i)
                    /\ a = history[i].activity
      BY <1>0, <2>1, <2>2, OneMoreEvent
    <2>4. CASE /\ type = "ActivityTaskCompleted" /\ history[i].activity \in Done'
               /\ history[i].activity \notin Done
      <3>1. i \in DOMAIN history
        BY <2>1, <2>4 DEF IsOpen, IsScheduled
      <3>2. Done' = Done \cup {history[i].activity}
        BY <1>0, <2>3, <2>4 DEF Done
      <3>4. ~ActivityStatus(history, history[i].activity)
        BY <1>0, <2>4 DEF Done
      <3>3. CancelRequested(history)' = CancelRequested(history)
        <4>1. CancelRequested(history') <=> CancelRequested(history)
          BY <1>0, <2>3, <2>4
        <4> QED BY <4>1 DEF CancelRequested
      <3> QED BY <1>0, <2>1, <2>4, <3>1, <3>2, <3>3, <3>4, CompletionPerforms
    <2>5. CASE type = "WorkflowExecutionCancelRequested"
               /\ CancelRequested(history') /\ ~CancelRequested(history)
      <3>1. Done' = Done
        BY <1>0, <2>3, <2>5 DEF Done
      <3>2. CancelRequested(history)' = TRUE /\ CancelRequested(history) = FALSE
        BY <2>5 DEF CancelRequested
      <3> QED BY <1>0, <2>1, <3>1, <3>2 DEF Pipeline!Next, Pipeline!RequestStop, Done
    <2>6. CASE /\ ~(/\ type = "ActivityTaskCompleted" /\ history[i].activity \in Done'
                    /\ history[i].activity \notin Done)
               /\ ~(type = "WorkflowExecutionCancelRequested"
                    /\ CancelRequested(history') /\ ~CancelRequested(history))
      <3>1. \A a \in Activities : ActivityStatus(history', a) <=> ActivityStatus(history, a)
        BY <1>0, <2>3, <2>6 DEF Done
      <3>2. CancelRequested(history') <=> CancelRequested(history)
        BY <1>0, <2>3, <2>6
      <3> QED BY <1>0, <2>1, <3>1, <3>2, StutterStep
    <2> QED BY <2>4, <2>5, <2>6
  <1>4. CASE \E d \in Deciders, s \in DOMAIN definition : DeciderSchedules(d, s)
    <2>1. PICK d \in Deciders, s \in DOMAIN definition : DeciderSchedules(d, s)
      BY <1>4
    <2>2. execution' = execution
      BY <2>1, ScheduleActivitiesType DEF DeciderSchedules
    <2>3. /\ CancelRequested(history') => CancelRequested(history)
          /\ \A a : ActivityStatus(history', a) => ActivityStatus(history, a)
      BY <2>1, ScheduleChangesNoStatus DEF DeciderSchedules
    <2> QED BY <1>0, <2>2, <2>3, StutterStep
  <1> QED BY <1>1, <1>2, <1>3, <1>4, WhoAddsEvents

\* Every execution, with its retries, stale deciders, late workers and lost calls,
\* is a pipeline that performs the steps in order and closes once.
THEOREM ExecutionIsPipeline == Spec => PipelineSpec
  <1>1. Init => Pipeline!Init
    <2> SUFFICES ASSUME Init PROVE Pipeline!Init
      OBVIOUS
    <2>1. DOMAIN history = {} /\ execution = "OPEN"
      BY DEF Init
    <2>2. Done = {} /\ CancelRequested(history) = FALSE
      BY <2>1 DEF Done, ActivityStatus, CancelRequested
    <2> QED BY <2>1, <2>2 DEF Pipeline!Init, Done
  <1>2. Init => Outcome
    BY DEF Init, Outcome
  <1>3. TypeOK /\ Outcome /\ [Next]_vars => Outcome'
    BY OutcomeStep
  <1>4. TypeOK /\ StepOrder /\ Outcome /\ [Next]_vars => [Pipeline!Next]_(Pipeline!pipeline)
    BY PipelineStep
  <1> QED
    BY <1>1, <1>2, <1>3, <1>4, TypeCorrect, StepsInOrder, PTL
    DEF Spec, PipelineSpec, Pipeline!Spec
=============================================================================
