---------------------------- MODULE CronScheduler ---------------------------
(***************************************************************************)
(* cron.py: every five minutes crontab runs a pass over the workflows that  *)
(* are due at this time of day.  For each of them the pass asks SWF when it *)
(* last ran (provider/swfmeta.py) and starts it when that is long enough    *)
(* ago.  Time is in minutes; the seconds a pass takes only show in the      *)
(* order of its steps, or, when it hangs, as passes that overlap.           *)
(***************************************************************************)
EXTENDS Naturals, Sequences, FiniteSets

CONSTANTS
    Ids,           \* the workflow_ids that are followed
    NewIds,        \* those of them that have not run in the last 90 days
    Statuses,      \* how executions may close: COMPLETED, FAILED, TIMED_OUT
    Passes,        \* processes: more than one lets a pass overlap the next
    FirstMinutes,  \* when the behaviour may begin, in minutes since midnight
    Horizon,       \* bound: minutes that are followed
    MaxFaults      \* bound: passes lost, missed or hanging, starts lost

ASSUME CronAssumption ==
    /\ NewIds \subseteq Ids /\ FirstMinutes \subseteq Nat
    /\ Horizon \in Nat /\ MaxFaults \in Nat /\ "COMPLETED" \in Statuses

Day == 1440
Interval == 5

\* default_execution_start_to_close_timeout of PublishPOA, the longest of those
\* that cron starts.
LongestRun == 35

VARIABLES
    first,       \* the minute the behaviour began
    now,         \* the current minute
    utcOffset,   \* hours that Europe/London is ahead of UTC
    launched,    \* crontab has run the pass of this minute
    pass,        \* which jobs each cron process has still to look at
    open,        \* start of the open execution of a workflow_id, if it has one
    closed,      \* executions of a workflow_id that closed in the last 90 days
    starts,      \* observer: when executions of a workflow_id were started
    overlapped,  \* observer: a pass began while another had not ended
    faults

vars == <<first, now, utcOffset, launched, pass, open, closed, starts, overlapped, faults>>

Never == {}

-----------------------------------------------------------------------------
(* conditional_starts: what may start at which minutes of which hours, in    *)
(* UTC and in local time, and how many minutes after it last started.        *)

AnyHour == 0 .. 23

Job(id, minutes, hours, localHours, apart) ==
    [id |-> id, minutes |-> minutes, hours |-> hours,
     localHours |-> localHours, apart |-> apart]

Daily(id, minutes, hour) == Job(id, minutes, {hour}, AnyHour, 31)

Schedule == <<
    Job("cron_FiveMinute", 0 .. 59, AnyHour, AnyHour, 3),
    Job("DepositCrossref", 0 .. 59, AnyHour, AnyHour, 3),
    Job("FindReingestPreprint", 0 .. 59, AnyHour, AnyHour, 3),
    Job("PublishPOA", 0 .. 14, AnyHour, {10, 12, 14, 16}, 31),
    Daily("PubRouterDeposit_CLOCKSS_Preprint", 0 .. 14, 21),
    Daily("PubRouterDeposit_CLOCKSS", 0 .. 14, 22),
    Daily("PubRouterDeposit_CNKI", 0 .. 14, 23),
    Job("DepositCrossrefPendingPublication", 15 .. 19, AnyHour, AnyHour, 31),
    Daily("PubRouterDeposit_Zendy", 15 .. 19, 21),
    Daily("PubRouterDeposit_OVID", 15 .. 19, 22),
    Daily("PubRouterDeposit_Scilit", 15 .. 19, 23),
    Daily("FindFuturePreprints", 15 .. 19, 23),
    Job("cron_NewS3POA", 20 .. 29, AnyHour, 6 .. 15, 3),
    Job("FindNewDocmaps", 25 .. 29, AnyHour, AnyHour, 31),
    Job("cron_NewS3POA", 30 .. 44, AnyHour, 6 .. 15, 31),
    Daily("PubRouterDeposit_PMC", 30 .. 44, 20),
    Daily("PubRouterDeposit_WoS", 30 .. 44, 21),
    Daily("PubRouterDeposit_OASwitchboard", 30 .. 44, 22),
    Daily("PubRouterDeposit_CNPIEC", 30 .. 44, 23),
    Daily("PubRouterDeposit_Cengage", 45 .. 59, 22),
    Job("PublicationEmail", 45 .. 59, AnyHour, {22}, 31),
    Daily("PubRouterDeposit_GoOA", 45 .. 59, 21),
    Job("PubmedArticleDeposit", 45 .. 59, AnyHour, AnyHour, 31),
    Job("AdminEmail", 45 .. 59, AnyHour, AnyHour, 226) >>

Minute(t) == t % 60
Hour(t) == (t \div 60) % 24
LocalHour(t) == (t \div 60 + utcOffset) % 24

Allows(job, t) ==
    /\ Minute(t) \in job.minutes
    /\ Hour(t) \in job.hours /\ LocalHour(t) \in job.localHours

\* The list of the jobs that are due, by their places in the schedule.
conditional_starts(t) ==
    {n \in DOMAIN Schedule : Schedule[n].id \in Ids /\ Allows(Schedule[n], t)}

-----------------------------------------------------------------------------
(* SWFMeta: cron asks by workflow_id for executions that are COMPLETED, but  *)
(* query_kwargs sends that filter only without a workflow_id, and the result *)
(* is filtered only with a workflow_name: every closed execution is found.   *)

ClosedExecutionInfos(id) == closed[id]

LastStart(id) ==
    LET found == {info.start : info \in ClosedExecutionInfos(id)}
    IN {last \in found : \A start \in found : start <= last}

\* Mutant: the start_seconds are not taken into account.
DueAtOnce(job, last) == now >= last

\* diff_seconds >= 0
Due(job, last) == now >= last + job.apart

-----------------------------------------------------------------------------
(* A pass.                                                                   *)

Idle == [todo |-> {}, go |-> FALSE]
Running(p) == pass[p].todo # {}

Place(p) == CHOOSE n \in pass[p].todo : \A k \in pass[p].todo : n <= k
Current(p) == Schedule[Place(p)]

\* Mutant: what was decided for a job is kept for the next one.
ContinueApproved(p) == pass' = [pass EXCEPT ![p].todo = @ \ {Place(p)}]

Continue(p) ==
    pass' = [pass EXCEPT ![p] = [todo |-> pass[p].todo \ {Place(p)}, go |-> FALSE]]

time == <<first, now, utcOffset, launched>>
executions == <<open, closed, starts>>

Fault == faults < MaxFaults /\ faults' = faults + 1

\* run_cron: the list is made once, for the minute the pass begins.
LaunchPass(p) ==
    /\ ~launched /\ ~Running(p)
    /\ launched' = TRUE
    /\ pass' = [pass EXCEPT ![p] = [todo |-> conditional_starts(now), go |-> FALSE]]
    /\ overlapped' = (overlapped \/ \E q \in Passes : Running(q))
    /\ UNCHANGED <<first, now, utcOffset, executions, faults>>

\* The host is down, or the pass dies before its first query.
MissPass ==
    /\ ~launched
    /\ Fault
    /\ launched' = TRUE
    /\ UNCHANGED <<first, now, utcOffset, pass, executions, overlapped>>

\* workflow_conditional_start
Approve(p) ==
    /\ Running(p) /\ ~pass[p].go
    /\ \E last \in LastStart(Current(p).id) : Due(Current(p), last)
    /\ pass' = [pass EXCEPT ![p].go = TRUE]
    /\ UNCHANGED <<time, executions, overlapped, faults>>

Skip(p) ==
    /\ Running(p) /\ ~pass[p].go
    /\ \E last \in LastStart(Current(p).id) : ~Due(Current(p), last)
    /\ Continue(p)
    /\ UNCHANGED <<time, executions, overlapped, faults>>

\* Without a last start diff_seconds is None, and comparing it with 0 raises
\* a TypeError that nobody catches: the pass ends here.
CompareWithNone(p) ==
    /\ Running(p) /\ ~pass[p].go
    /\ LastStart(Current(p).id) = Never
    /\ pass' = [pass EXCEPT ![p] = Idle]
    /\ UNCHANGED <<time, executions, overlapped, faults>>

\* Mutant: a refused start is not caught by the starter and ends the pass.
StartOrRaise(p) ==
    /\ Running(p) /\ pass[p].go
    /\ LET id == Current(p).id IN
       IF open[id] = Never
       THEN /\ open' = [open EXCEPT ![id] = {now}]
            /\ starts' = [starts EXCEPT ![id] = Append(@, now)]
            /\ Continue(p)
       ELSE UNCHANGED <<open, starts>> /\ pass' = [pass EXCEPT ![p] = Idle]
    /\ UNCHANGED <<time, closed, overlapped, faults>>

\* start_workflow.  SWF refuses a second open execution of a workflow_id, and
\* the starter logs that and any other error.
StartWorkflow(p) ==
    /\ Running(p) /\ pass[p].go
    /\ LET id == Current(p).id IN
       IF open[id] = Never
       THEN /\ open' = [open EXCEPT ![id] = {now}]
            /\ starts' = [starts EXCEPT ![id] = Append(@, now)]
       ELSE UNCHANGED <<open, starts>>
    /\ Continue(p)
    /\ UNCHANGED <<time, closed, overlapped, faults>>

\* The call to start it never reaches SWF.
StartLost(p) ==
    /\ Running(p) /\ pass[p].go
    /\ Fault
    /\ Continue(p)
    /\ UNCHANGED <<time, executions, overlapped>>

\* A query raises, or the process is killed.
PassLost(p) ==
    /\ Running(p)
    /\ Fault
    /\ pass' = [pass EXCEPT ![p] = Idle]
    /\ UNCHANGED <<time, executions, overlapped>>

-----------------------------------------------------------------------------
(* The executions that were started, and the clock.                          *)

CloseExecution(id, status) ==
    /\ open[id] # Never
    /\ closed' = [closed EXCEPT ![id] =
           @ \cup {[start |-> start, status |-> status] : start \in open[id]}]
    /\ open' = [open EXCEPT ![id] = Never]
    /\ UNCHANGED <<time, pass, starts, overlapped, faults>>

\* Executions are closed, by SWF if need be, when their time is up.  A pass
\* that is still running by then hangs.
Tick ==
    /\ launched /\ now + Interval <= first + Horizon
    /\ \A id \in Ids : \A start \in open[id] : now + Interval <= start + LongestRun
    /\ IF \E p \in Passes : Running(p) THEN Fault ELSE UNCHANGED faults
    /\ now' = now + Interval
    /\ launched' = FALSE
    /\ UNCHANGED <<first, utcOffset, pass, executions, overlapped>>

\* Bound: nothing is followed beyond the horizon.
AtHorizon ==
    /\ now + Interval > first + Horizon
    /\ UNCHANGED vars

-----------------------------------------------------------------------------
\* Every workflow_id ran a day ago, except the new ones.
Init ==
    /\ \E minute \in FirstMinutes : first = Day + minute
    /\ now = first /\ launched = FALSE
    /\ utcOffset \in {0, 1}
    /\ pass = [p \in Passes |-> Idle]
    /\ open = [id \in Ids |-> Never]
    /\ closed = [id \in Ids |->
           IF id \in NewIds THEN {}
           ELSE {[start |-> first - Day, status |-> "COMPLETED"]}]
    /\ starts = [id \in Ids |-> IF id \in NewIds THEN << >> ELSE <<first - Day>>]
    /\ overlapped = FALSE
    /\ faults = 0

PassStep(p) ==
    \/ LaunchPass(p)
    \/ Approve(p)
    \/ Skip(p)
    \/ CompareWithNone(p)
    \/ StartWorkflow(p)
    \/ StartLost(p)
    \/ PassLost(p)

Next ==
    \/ \E p \in Passes : PassStep(p)
    \/ MissPass
    \/ \E id \in Ids, status \in Statuses : CloseExecution(id, status)
    \/ Tick
    \/ AtHorizon

Spec == Init /\ [][Next]_vars

-----------------------------------------------------------------------------
(* Properties.                                                               *)

\* The types of the variables.
TypeOK ==
    /\ first \in Nat /\ now \in first .. first + Horizon /\ utcOffset \in {0, 1}
    /\ launched \in BOOLEAN /\ overlapped \in BOOLEAN /\ faults \in 0 .. MaxFaults
    /\ \A p \in Passes : /\ pass[p].go \in BOOLEAN /\ pass[p].go => Running(p)
                        /\ \A n \in pass[p].todo : Schedule[n].id \in Ids
    /\ \A id \in Ids : /\ open[id] \subseteq 0 .. now /\ Cardinality(open[id]) <= 1
                      /\ \A info \in closed[id] : info.start <= now /\ info.status \in Statuses
                      /\ \A k \in DOMAIN starts[id] : starts[id][k] <= now

\* The windows of a job that have gone by, given by their first minute.
WindowsPast(job) ==
    {begin \in first .. now :
        /\ now >= begin + Cardinality(job.minutes)
        /\ Allows(job, begin)
        /\ Minute(begin) > 0 => Minute(begin) - 1 \notin job.minutes}

\* When passes were lost, the others may all have been refused, because an
\* execution that was started before the window was still open.
RefusedFor(start, job, begin) ==
    /\ faults > 0
    /\ start + LongestRun >= begin + Cardinality(job.minutes) - Interval * (faults + 1)

StartedFor(job, begin) ==
    \E k \in DOMAIN starts[job.id] :
        \/ starts[job.id][k] + job.apart >= begin
        \/ RefusedFor(starts[job.id][k], job, begin)

\* Fewer passes were lost than a window of the job has.
NotForFaults(job) == faults < Cardinality(job.minutes) \div Interval

\* A job is never left undone: when one of its windows has gone by, its
\* workflow was started in it or less than start_seconds before it, unless
\* every pass of the window was lost, or was refused for an execution that was
\* open that long.  Failing and refused starts of the jobs listed before it
\* make no difference.
NotOverdue ==
    \A n \in DOMAIN Schedule :
        LET job == Schedule[n]
        IN job.id \in Ids \ NewIds /\ NotForFaults(job) =>
            \A begin \in WindowsPast(job) : StartedFor(job, begin)

\* A workflow that has not run before is started, like any other that last ran
\* more than start_seconds ago: "or last_startTimestamp is None".
FirstRunHappens ==
    \A n \in DOMAIN Schedule :
        LET job == Schedule[n]
        IN job.id \in NewIds /\ NotForFaults(job) =>
            \A begin \in WindowsPast(job) : StartedFor(job, begin)

\* The last start is read before the workflow is started, and only of closed
\* executions: one that closes in between is overlooked, so two starts can be
\* less than start_seconds apart, but as long as passes do not overlap no
\* third one joins them.
NoThirdStart ==
    ~overlapped =>
        \A id \in Ids : \A k \in 3 .. Len(starts[id]) :
            \E n \in DOMAIN Schedule :
                /\ Schedule[n].id = id
                /\ starts[id][k] >= starts[id][k - 2] + Schedule[n].apart

\* get_last_completed_workflow_execution_startTimestamp finds the last
\* successfully completed execution.
LastStartIsCompleted ==
    \A id \in Ids : \A last \in LastStart(id) :
        [start |-> last, status |-> "COMPLETED"] \in closed[id]
=============================================================================
