# A TLA+ model of elife-bot

elife-bot moves articles through eLife's publishing pipeline. Files arrive in S3
buckets, other services answer on SQS queues, crontab wakes a script every five
minutes; each of these starts *workflows*, which Amazon SWF (Simple Workflow)
executes by handing out *decision tasks* and *activity tasks* to the bot's own
decider and worker processes. The activities read and write S3, the article store
(Lax), Crossref, PubMed, FTP sites and mail servers.

All paths below are relative to the repository, with `src/` for its root.

## 1. Inventory

| Component | State it keeps | Operations | Hard behaviours | What makes it correct | Modelled in |
|---|---|---|---|---|---|
| decider (`decider.py`) | the decision it is working on | poll, page through the history, run `do_workflow`, answer | several processes, answers to decisions that were given to another, exceptions that leave a decision without an answer | a stale decision changes nothing that a fresh one would not | `SwfExecution` |
| workflow base class (`workflow/objects.py`) | the definition and the events of one decision | complete, fail, schedule the next step | everything is decided on a snapshot of the history; one token can be used twice | steps in order, none twice, none missing at the end | `SwfExecution`, `WorkflowPipeline` |
| workflow definitions (`workflow/workflow_*.py`) | none | listed steps | a step is recognised by its activity id alone | no step of a shipped definition is passed over | `WorkflowDefinitions`, run in `ActivityExecution` |
| activity worker (`worker.py`) | the task it is working on | poll, `do_activity`, answer or ask for cancellation | no heartbeats, so a slow attempt runs beside its retry; answers that are lost or late | what counts as completed was done | `SwfExecution` |
| cron (`cron.py`, `provider/swfmeta.py`) | none of its own: the history of executions in SWF | list what is due, look up the last start, start | passes that overlap, are missed or end in an exception half-way | every job gets its turn, none too often | `CronScheduler` |
| queue workers (`queue_worker.py`, `lax_response_adapter.py`, `era_queue_worker.py`, `accepted_submission_queue_worker.py`) | the message in hand | receive, translate, send a request, delete | SQS delivers at least once; a crash between send and delete; messages nobody can read | no message is dropped, and repeats have a cause | `WorkflowIntake` |
| queue workflow starter, starters (`queue_workflow_starter.py`, `starter/`) | the message in hand | start an execution, delete | SWF refuses a second open execution of a workflow id; errors are only logged | what arrived is ingested | `WorkflowIntake` |
| Crossref outbox (`provider/outbox_provider.py`, `provider/crossref.py`, `activity_DepositCrossref*.py`, `activity_ScheduleCrossref*.py`) | objects in S3 folders | schedule, list, download, build, post, copy, delete | files overwritten during an attempt, attempts that overlap, failure between post and clean-up | nothing leaves the outbox unsent | `Outbox` |
| activities (`activity/activity_*.py`, 113 of them in 30 workflows) | the session, expanded files in S3, outboxes; services such as Lax, Glencoe, GitHub, PubMed, FTP sites, mail | read, write, send, rename, delete, ask | an attempt dies anywhere and is made again from the start; services refuse for a while or for good; activities are shared by workflows with different inputs | what an activity reads is there, what it writes agrees, what it sends is sent once, and the workflow ends | `ActivityExecution`, `ActivityPromises` and one module of scripts per family |
| publication e-mail (`activity_PublicationEmail.py`) | an outbox, two folders, nothing about what was mailed | parse, approve, pair insights, mail, move | articles are known by DOI and files by name; one run's failures meet the next run | what is published was mailed, once | `PublicationEmail` |
| sessions (`provider/execution_context.py`) | one set of values per execution, in Redis, S3 or a file | store, read | a value nobody stored falls back to the input, or to `None` | what an activity uses an earlier step stored | `ActivityExecution` |
| activity base class (`activity/objects.py`) | expanded files and manifests | copy, rename, delete, rewrite names | object by object, and again after a failure half-way | no file is lost, and names agree with files | the scripts that use it |
| storage (`provider/storage_provider.py`) | objects | exists, read, write, copy, delete | raises for what is missing, or returns `None` | as used | `ActivityExecution`, `Outbox`, `PublicationEmail` |
| process control, PoA packaging of CSV files, PDF covers, dashboard, content providers, configuration | see `PROJECT.json` | | | | see section 7 |

How they interact: queue workers send requests to the queue of the starter; the
starter and cron call SWF, and SWF is the only path from a started workflow to the
deciders and workers. Activities of different workflows meet in S3 outboxes
(`ScheduleCrossref` writes what `DepositCrossref` reads) and in SQS (Lax's answer to
`IngestToLax` comes back through `lax_response_adapter.py`); activities of one workflow
meet in the session and in the expanded folder. There are no threads
and no callbacks: all concurrency is between processes, and all of it goes through
SWF, SQS and S3. `PROJECT.json` lists each hazard at the line where it bites, with
the properties that watch it, or the reason why none does yet.

## 2. Modules

| Module | What it is |
|---|---|
| `WorkflowPipeline` | the abstract specification of one execution: activities succeed step by step (the step after a parallel one may begin early), then it closes |
| `SwfExecution` | one execution as the code runs it: deciders, workers, SWF's history, task list and time-outs |
| `WorkflowDefinitions` | the 31 shipped definitions as data |
| `CronScheduler` | cron passes, SWFMeta's query and the executions they start |
| `WorkflowIntake` | from a queue message to a started workflow |
| `Outbox` | the Crossref outbox: scheduling and depositing, several files and overlapping attempts |
| `PublicationEmail` | the outbox of articles to be announced by mail, several articles |
| `ActivityOps` | the words in which a `do_activity` is written down: operations on the session, on things stored or sent, on answers |
| `ActivityExecution` | an execution that runs such scripts operation by operation, with attempts that die and are made again |
| `ArticleActivities`, `AcceptedSubmissionActivities`, `DigestActivities`, `PreprintActivities`, `DocmapActivities`, `SoftwareHeritageActivities`, `DownstreamActivities` | the scripts of the activities, family by family |
| `ActivityPromises` | what the scripts promise, whichever attempts die |
| `ActivityOutlines` | proof outlines: what an attempt knows at each point of its script, and what must be so there for the promises to hold |
| `SwfExecutionProofs`, `CronSchedulerProofs`, `WorkflowIntakeProofs`, `OutboxProofs`, `PublicationEmailProofs`, `ActivityExecutionProofs`, `ActivityOutlinesProofs` | the theorems, for all constants |
| `MCSwfExecution`, `MCCronScheduler`, `MCWorkflowIntake`, `MCOutbox`, `MCPublicationEmail`, `MCActivities` | the instances TLC checks |
| `MCActivityOutlines` | `MCActivities` with the outlines of the shipped scripts, computed from them |

The modules meet at SWF: `CronScheduler` and `WorkflowIntake` start executions and
see only whether one is open; `SwfExecution` is what happens inside one, as seen by
deciders and workers, and `ActivityExecution` as seen by the activities; `Outbox` and
`PublicationEmail` are what happens inside one activity and between attempts at it. The
hand-overs are what each module assumes of the next: a workflow id has at most one
open execution, one activity has at most one open attempt (proved:
`AttemptsAreAlone`), an execution closes (checked: `EventuallyCloses`; in
`CronScheduler`, SWF's time-out of 35 minutes). `ActivityExecution` runs one attempt at a
time; `Outbox` does not rely on that, since a worker SWF has given up goes on.

### SwfExecution

`history` is the list of events that `Workflow` reads, an event's position being its
event id; events the code never looks at are left out. `decisionTask` is SWF's one
decision task per execution, `taskList` the scheduled activity tasks nobody has
polled. A decider's `snapshot` is the length of the history it was given:
`Seen(d)` is what `self.decision["events"]` holds while the history grows. `current`
says whether its token is still accepted.

| Action | Code |
|---|---|
| `PollForDecisionTask` | `decider.py`, `decide` with `get_all_paged_events` |
| `CompleteWorkflow`, `CheckForFailedWorkflowRequest`, `ScheduleNextActivities`, `NoNextActivity` | the branches of `Workflow.do_workflow`, in its order |
| `PollForActivityTask`, `DoActivity`, `RespondCompleted`, `RespondFailed`, `SignalFailWorkflow` | `worker.py`, `work` and `process_activity` |
| `ActivityTimeout`, `DecisionTimeout`, `ExecutionTimeout` | SWF |
| `DeciderLost`, `WorkerLost` | a process that dies, or whose call is lost |

Two details carry most of the weight. `StepIsFresh` is the code's test for the next
step: not all of its activities are completed *and none is* (the variable is called
`none_started`, but it is cleared by completion). And
`check_for_failed_workflow_request` answers the decision and then lets `do_workflow`
carry on with the token it has just used: phase `"answered"`.

### CronScheduler

`Schedule` is the table of `conditional_starts`, as minutes of the hour, hours in
UTC, hours in London and the minutes asked for between starts. What a pass has still to
do is a set of places in that table, taken in its order: `LaunchPass` makes it once;
`Approve`, `Skip` and
`CompareWithNone` are the three outcomes of the query for one job; `StartWorkflow`
is the starter's call. `Tick` moves the clock by the five minutes of the crontab.
A pass that is still at work by then is a fault (it hangs), and its next one overlaps
it.

### WorkflowIntake

`messages[m]` is the life of one input message and of the requests that were sent for
it; `Receive`, `VisibilityTimeout` and `Delete` are SQS. The three workers run the
same loop and differ in `Verdicts`, what they make of a message: start and delete,
drop and delete, keep, or raise. `StartWorkflow` is
`queue_workflow_starter.py`: the start may be refused, and the message is deleted in
any case.

### Outbox

A file is a name and a content (1, 2, ... as it is scheduled again). `Schedule` is
`copy_article_xml_to_outbox`; an attempt goes through `ListOutbox`, `Download` (one
file at a time), `Generate`, `Post` (one deposit at a time), `CopyResource` and
`DeleteResource` (one file at a time). `Generate` is `BuildCrossref` or
`BuildPending`; the activity an outbox belongs to is fixed, since each has its own.
An article that has a version DOI gets two deposits. `Withheld` names what no deposit
can be built for: an embargo, or an XML file that cannot be parsed.

### ActivityOps, ActivityExecution and the scripts

A script says what a `do_activity` does to the outside in the order in which it does
it, with everything that decides whether the next thing is done: early returns,
`try` blocks with what their `except` leads to, tests, loops over attempts. An
operation is one of a dozen: `Get`, `Need`, `Put` and their like on the session;
`Look`, `Read`, `Write`, `Send`, `Drop` on what is stored or sent; `Fact` for a test
on the article or the settings, whose answer is the same in each attempt; `Ask`
for the answer of a service. Each branch is a flag (`When`, `Unless`, `Either`).
What several files of a kind have in common is one *thing* ("images", "versioned
files"); what an XML or a manifest names is a thing too ("figures in XML"), because
that names and files can come apart is what the properties are about.

| Action of `ActivityExecution` | Code |
|---|---|
| `Begin`, `Complete`, `Fail`, `GiveUp` | `worker.py`: `do_activity` and what its result leads to; with `Upcoming` for the decider's look-up of ids |
| `GetValue`, `StoreValue` | `execution_context.py`: `get_value` with its fall-back to the input, `store_value` |
| `Use`, `Lack` | `data[key]`, values that are used, objects that are read; and the exception when they are not there |
| `Change`, `Caught` | storage, mail, requests; and a failure of theirs inside a `try` |
| `Learn`, `SetFlag` | tests, answers, local variables |
| `Fault` | the worker dies or SWF gives the attempt up, between any two operations |

Three abstractions keep the state space of 30 workflows small, and are the ones
to argue about. `Begin` *forgets* what neither this activity nor a later one of the
workflow deals with; what a property relates to something that is still
dealt with is kept by `MCCompanions`. What a `try` catches is a failure of one operation, a write,
a send, a deletion or a stored value, of which nothing was done or all of it (`HalfDone`): it may be
only the answer that was lost, or, as at
`src/activity/activity_PMCDeposit.py:225`, the closing of the connection that failed after
the file had arrived. A failure of an operation without effect, between two others, is that of the
one before it with all done or of the one after it with nothing done.
And a workflow is about one article: what depends on several files in an outbox, or on
two attempts at once, is in `Outbox` and `PublicationEmail`.

Some scripts are worth a word. `FTPArticle` sends a zip made for it for articles and the
archive as it is for preprints. `PublishFinalPOA` moves its files in the order of a
directory listing, any order of the three. `UpdateGithub` is `update_github`: what is in the
repository already is not committed again, a conflict is retried and anything else is given up for. The three
activities that rename figures, tables and equations of a MECA may have made up a name they do not find in
the XML: the exception is caught, reported by a comment on GitHub, and XML and manifest are
uploaded nevertheless, the XML with names no file has (`unmatched`). That path
is in `ReviewFiles`; what it leaves is kept out of `NamedFiles`, since the code lets
the editors know instead of preventing it.

### PublicationEmail

One run of the activity goes through `Download`, `ProcessArticles` (parse, approve,
pair insights with their research articles), `SendEmail`, `FailToSend` or
`LeaveForLater` for each prepared article, `CleanOutbox`, which makes the list of moves
*by DOI*, `CopyResource` and `DeleteResource` for each, and `Finish`; `BreakOff` ends it anywhere.
`Schedule` may add files at any time. The map from DOI to file has one entry per
DOI, so that of two files of one DOI (versions of a preprint) one is moved and both
are mailed: `names'` may be either. `Rule` says what the e-mail rules have for an
article; for some they raise (`"refused"`), and those are neither mailed nor moved. An
insight whose research article is not in the outbox is mailed by itself when that article
can be fetched (`Buildable`: its XML names one; that it cannot be fetched today is a misfortune), and is
otherwise left where it is. The observers `told`, `failed`, `again` and `torn`
hold what no folder does.

## 3. Runs

All bounds are CONSTANTS: `MaxFaults` counts crashes, lost calls and
time-outs that strike a process at work (in `ActivityExecution` their number is not
bounded; it only remembers that there was one), and in `PublicationEmail` also mails that are
refused and people that cannot be found; `MaxFailures` failures that are retried;
`MaxEvents` the length of a history, for each definition; `Maximum` the counts of attempts
in the session, which are the code's own; `Horizon` the minutes cron is followed. A
time-out of something nobody works on is not a fault and not bounded.

| Run | What it asks | Instance, and why it is enough |
|---|---|---|
| `execution_order` | Are steps run in order, one attempt at a time, none after it completed, no more than one after a request to cancel? Is the outcome true, and the execution a `WorkflowPipeline`? | a first, a middle and a last step, and a definition with a step of two activities before one of one, so that the second may begin while the first is not done; two deciders and two workers, so that each can be overtaken; one failure and two faults: a late answer, and a second fault on top of it. In the parallel definition a failure beside an open task makes the decider fail, be timed out and asked again for as long as the task is open, each time with an event more: five events let both be scheduled, one be completed, and the last step be scheduled and done or the parallel one be asked for again |
| `execution_closes` | Does the execution close without running out of its own time? | two steps, otherwise the same, under `FairSpec` |
| `cron_schedule` | Is any job left out? Do starts keep their distance? | an evening of 80 minutes with an hourly job, a daily one with one pass in its window, mail at a local hour (both offsets of London) and a job that never ran, last in the list; two faults, two overlapping passes |
| `cron_never_run` | *Violation:* is a workflow started that never ran? | half an hour and no fault |
| `cron_failed_run` | *Violation:* is the last start that of a completed execution? | half an hour and no fault |
| `intake` | Is a message dropped, repeated without cause, or stuck behind others? | an upload, two answers of Lax (one unreadable), an ERA article, one process for each queue, one fault |
| `intake_modified_file` | *Violation:* does every file that arrives start a workflow? | one file twice, no fault |
| `outbox` | Does anything leave the outbox unsent, or get sent without cause? Does what can be sent leave? | both activities; a file scheduled twice that has a version DOI, one that is scheduled once, and one that can never be built; two attempts; one fault |
| `outbox_pending` | *Violation:* are both DOIs of each pending publication deposited? | two files with version DOIs, no fault |
| `publication_email` | Is what is published mailed, and once? Does everything leave the outbox? | two versions of a research article and an insight about it, an article for which the rules raise and an insight about that, an article of a type that is not sent; one misfortune: 418,055 states. An insight that names no article is in the model and in the proofs, not in the instance: a seventh file triples it |
| `activities` | Is what the activities read there, do names and files agree, is what they send sent once, is nothing lost, does every workflow run through all its steps and end? | the 30 shipped workflows other than `PublicationEmail`, each with the input its starter gives and what it may find (`MCGivens`: outboxes empty or not, a digest or none, an index or none); every test and answer both ways; attempts that die between any two operations, as often as they may: 95,461 states, all there are. TLC also evaluates the assumptions of `ActivityOutlines` |
| `activities_renamed` | *Violation:* does the XML of an ingest that completes name the renamed files? | the same |

Deadlock is checked but in `intake_modified_file`, in which the queues become empty, in
`publication_email`, in which the outbox does, and in `activities` and
`activities_renamed`, in which executions close; `EventuallyLeaves` and
`EventuallyCloses` say that they do not stop before that. Where another
instance may stop there is an action that says so (`Quiescent`, `AtHorizon`); TLC
would report any other stop.

Every property of a passing run is accompanied by a mutant of the code, a definition
preceded by the comment "Mutant", that breaks it in the same instance: the list is in
`PROJECT.json`. The mutants of `activities` are about the worker, the storage and the exceptions
(all but two): a mistake in a script would already show as an assumption of
`ActivityOutlines` that is false.

Properties on which a reader may want to argue:

- `CancelStopsScheduling` allows one activity after a request to cancel, scheduled by
  the decider that polled before the request; and only one because
  the second use of a token is refused by SWF.
- `NoThirdStart`: cron reads the last start only from *closed* executions, so one that
  closes between the query and the start goes unseen, and two starts can be too
  close. TLC shows that a third cannot be, as long as passes do not overlap.
- `NotOverdue` excuses a window also for refused starts (`RefusedFor`): when faults have
  taken its first passes, SWF may refuse the others, since an execution may be open for 35
  minutes after a start that lies before the window. That takes six faults, more than the run has.
- `NothingUnsent` has two exceptions, both in the code: a file that is scheduled
  again after an attempt downloaded the older one is moved by name in its place
  (`clean_outbox`), and a DOI about which doi.org gives no answer counts as existing
  (`doi_does_not_exist` returns `None`). Both are observed in `excused`, so that the
  property still says that nothing *else* is lost.
- `RepeatsAreFaults` counts. In `WorkflowIntake` n faults make at most n repeats, over
  both hops. In `Outbox` they make at most 2n: an attempt that SWF gives up while it
  goes on is one fault, and both it and its successor may then find their file gone or
  another one refused, give up the cleaning and leave the deposit to be sent
  again. In `PublicationEmail` a second mail needs a run that broke off with the file
  still in the outbox, or a DOI two files share. In `ActivityPromises` what an activity
  sends is sent twice only if an attempt died, but for six transfers and messages
  (`SentAgain`): the files of `FTPArticle`, PMC's zip, the videos for Glencoe, the
  request to Lax to publish, and the article for DOAJ. Their activities catch any exception of the transfer,
  the loss of its answer and the failure to disconnect after it included, and ask to be
  made again, so that what has arrived is sent once more although no attempt died. All
  else that is sent is not repeated by failures, be they caught or not; with any one
  of the six out of the list TLC finds the property violated.
- `PublishedWasMailed` and `EventuallyLeaves` except what `EmailRulesException` leads to
  (`src/activity/activity_PublicationEmail.py:279`): the rules are asked after the pairing, so
  that the insight about such an article is moved to published while no mail names it.
  In a batch with nothing else to mail or to move the run ends before it cleans, and both
  stay. An insight that names no article stays for good, too, unmailed (`Stays`).
- `ObjectsArePresent` excepts `GoneOnRetry`: files that are renamed, or deleted after
  a copy, under the name the next attempt looks for. An attempt that dies half-way
  leaves one that raises each time; the workflow does not end by itself.
  `EventuallyCloses` excepts the same list.
- `MovedWhenSent` leaves out `PubRouterDeposit`, which moves an article to published
  although the workflow for it could not be started (an exception is only logged).
- `ValuesArePresent` excepts the one value that is not stored when a setting is not
  made (`docmap_index_url`).

## 4. Fairness

- `SwfExecution`: `decider.py` and `worker.py` are loops that poll for ever, so
  that a pending task is polled in the end (weak fairness of polling by *some*
  process) and a process finishes what it began (weak fairness of each process's
  step). SWF times out what nobody holds. `ExecutionTimeout` is *not* fair: it would make
  `EventuallyCloses` true of anything. Faults and failures are bounded, since a worker
  that fails every time is retried until the execution times out.
- `WorkflowIntake`: each process finishes its step (WF); SQS hands a message that
  keeps becoming visible to some reader in the end (SF), since it comes and goes with
  its visibility time-out and its readers poll for ever; visibility time-outs run out
  (WF). Nothing is assumed of executions closing.
- `Outbox`: the workflow is started every five minutes by cron, hence an attempt
  begins when there is none (WF), and an attempt comes to its end except for faults
  (WF).
- `PublicationEmail`: cron starts the workflow daily and a run goes on until it ends (WF
  of `RunStep`). Misfortunes are bounded, since a server that refuses each mail
  keeps nothing in the outbox, but authors that are never found do.
- `ActivityPromises`: an open activity is offered to workers that poll (weak fairness of
  `Next`, written `[]<>closed \/ []<><<Next>>_vars` because `Next` is enabled just
  while the execution is open, which spares TLC the enabledness). The services in
  `Waited` refuse for a while only, but in the `Bounded` workflows, which end by their own counters
  whatever the services do.
- `CronScheduler` checks safety only: with a clock, "in the end" is a deadline
  (`NotOverdue`).

## 5. Theorems

Proofs are for every value of the constants; no bound takes part in an argument.

`SwfExecutionProofs` proves for every set of activities, definitions,
deciders and workers and for all bounds. The only assumption on constants is
`ConstantsAssumption` (definitions are sequences of sequences of activities,
`NoActivity` is none of them, bounds are naturals).

| Theorem | Property | Argument |
|---|---|---|
| `TypeCorrect` | `TypeOK` | inductive as it stands, since `TypeOK` includes that snapshots do not exceed the history and that answers refer to scheduled events |
| `CompletionIsSound` | `CompletedOnlyWhenDone` | a history only grows (`HistoryGrows`), what is completed in a prefix is completed in the whole (`StatusStable`), a snapshot is a prefix (`SnapshotIsPrefix`) |
| `CompletionsAreReal`, `FailureIsJustified` | `CompletedIsPerformed`, `FailedOnlyOnRequest` | the invariant `Evidence`: a worker about to answer "completed" did the work, one about to cancel gave up, and every such event in the history has its observer |
| `StepsInOrder` | `StepOrder` | step by step: what is appended belongs to the next step of the snapshot (`NewlyScheduled`), and the steps before it have begun in the snapshot, hence in the prefix before the new event |
| `CancelIsHeard` | `CancelStopsScheduling` | `CancelInv`: at most one decider's answer is accepted (`OneHolder`); once something was scheduled after a request, whoever may still be answered has seen the request (`Heard`), and schedules nothing. So all that follows a request comes from one decision, which is one step |
| `ExecutionIsPipeline` | `PipelineSpec` | refinement: each step is a step of `WorkflowPipeline` or a stutter, with `done` the activities the history calls completed |
| `AttemptsAreAlone`, `CompletedStaysDone` | `OneOpenAttempt`, `NoRepeatAfterCompletion` | `Attempts /\ Decisions`, see below; they assume `Sequential` |

`src/workflow/objects.py:227` counts a step as started when one of its activities has
*completed*. So the step after a parallel one may be scheduled while activities of the
parallel step are still missing; `StepBegun` says what is left of the order, in `StepOrder`
and in `WorkflowPipeline` alike, and for a step of one activity it says that it is done.
An activity of a parallel step, or after one (`FromParallel`), may be scheduled again
when it was completed. When an attempt fails before any activity of the step has
completed, the step counts as not started and all its activities are scheduled once more,
whatever is completed between the poll and the answer; and as several tasks
can be open from then on, decisions about one are asked for while another one runs.
`AttemptsAreAlone` and `CompletedStaysDone` are therefore proved of definitions
in which each step is one activity (`Sequential`), as in all shipped ones; of the
parallel step TLC only checks that no activity has two attempts open at once.

`OneOpenAttempt` is not inductive: a decider with an old snapshot could schedule the
same activity again. What rules that out is a relation between SWF's decision task
and the history, the invariant `Decisions`: at most one decider is current, its token being that of
the started decision task; a decision task is wanted or worked on only when no
attempt is open or a cancellation was requested; and a current decider that has not
seen such a request has seen every event but such requests (`UpToDate`). `Attempts`
adds to `OneOpenAttempt` that what is open was not completed before. So a decision
that SWF accepts is made on all there is to know (`AcceptedSchedule`), and
`NoRepeatAfterCompletion` follows.

| Module, theorem | Property | Assumes | Argument |
|---|---|---|---|
| `CronSchedulerProofs`, `TypeCorrect` | `TypeOK` | | types, with the shape of the table of jobs |
| `StartsStayApart` | `NoThirdStart` | | `StartsApart`: an id's recorded starts are the known ones and ascend; as long as passes did not overlap one pass runs, and when it has approved a job, all starts of it but the last lie far enough back. The last may be missing from what the query saw, if it closed in between; hence two starts can be close and three cannot |
| `NothingIsOverdue` | `NotOverdue` | `NewComeLast` | `OverdueInv`: for a minute from which on no start of the job forbids another, neither because it is recent enough nor because its execution may still be open, each pass since then that is over took a fault of its own to miss the job (`LossesCounted`); a pass that comes to the job starts it. When the window is over, fewer faults than it has passes cannot account for all of them |
| `WorkflowIntakeProofs`, `TypeCorrect` | `TypeOK` | | each process holds a message of the queue it reads |
| `NothingIsDropped` | `NothingDropped` | | `DropInv`: an input somebody has handled has a request after it, and a request somebody has handled an attempt to start |
| `IngestsHappen` | `IngestedAtLeastOnce` | | `IngestInv`: a handled request is lost, or something with its id was started; a start SWF refuses is refused for an open execution, which was started |
| `RepeatsNeedFaults` | `RepeatsAreFaults` | | `RepeatInv`, a budget: attempts made, processes that may still make one, and messages free to be received add up to at most 1 + faults. Receiving, answering and deleting move one unit along; only faults add one |
| `OutboxProofs`, `TypeCorrect` | `TypeOK` | | |
| `NothingLeavesUnsent`, `MovedAfterSending` | `NothingUnsent`, `MovedWhenAllSent` | `VersionedAreBuilt` | `SafetyInv`: what an attempt is to clean it has sent or has still to send before it cleans; what it downloaded is the latest content, or the difference is excused |
| `RepeatsNeedFaults` | `RepeatsAreFaults` | `VersionedAreBuilt` | `CountInv`: times posted, attempts that may post it, whether its file is loose (in the outbox, with nobody about to take it away) and whether it is at risk of becoming so add up to at most 1 + 2 · faults; at most 1 + faults attempts are busy |
| `PublicationEmailProofs`, `TypeCorrect`, `NothingIsLost` | `TypeOK`, `NothingLost` | | a file is deleted only after the copy of the same move |
| `PublishedIsMailed` | `PublishedWasMailed` | `VersionsAgree` | what is on the list of moves was seen to, or is an insight whose research article was, or is one the rules raise for; unless they do, that article is told of in the same run |
| `RepeatsNeedFaults` | `RepeatsAreFaults` | `AllAlone` | what was mailed and not torn is not in the outbox, or is about to leave it in this run |
| `ActivityExecutionProofs`, `TypeCorrect` | `TypeOK` | | for any scripts and workflows: what is left of a script is part of a script |
| `NoneIsPassedOver` | `EveryStepRuns` | `IdsAreUnique` | for any scripts: the ids not yet done are those of the steps to come |
| `ActivityOutlinesProofs`, `ValuesWerePut`, `ObjectsWereWritten` | `ValuesArePresent`, `ObjectsArePresent` | `IdsAreUnique` | `OutlineInv`, see below; an attempt lacks only what the point it is at does not know to be there |
| `NamedFilesExist`, `MovedAreSent`, `AssetsBeforeIngest` | `NamedArePresent`, `MovedWhenSent`, `DepositedBeforeIngest` | `IdsAreUnique` | `BasesInv`: what relies on one of several things is there only with one of them. It is written when one is known to be there, and the last one is not dropped |
| `NoCopyIsLost` | `NothingLost` | `IdsAreUnique` | at a point before a drop a copy is known to be there |
| `SentOnce` | `RepeatsAreFaults` | `IdsAreUnique` | a point knows what the attempts before it have sent, as long as none has died, whether they failed or not; where a `try` catches a failure two points follow, one that knows of the send and one that does not. What is sent at a point was not sent before as far as the point knows, or is in `SentAgain` (`SendsOnce`) |
| `NamesStayTogether` | `NamesAgree` | `IdsAreUnique` | `BasesInv`, and: what this attempt may have written to the XML, it writes to the manifest before it succeeds or fails |
| `IngestOfChanges` | `ChangesFound` | `IdsAreUnique` | at the points where the look for new docmaps may end there are none, or their ingest was asked for |

The assumptions are where the code needs them. `VersionedAreBuilt`: articles with a
version DOI are not among those no deposit can be built for; `DepositCrossrefPendingPublication` may
otherwise move a file none of whose own deposits was built (finding 4).
`VersionsAgree`: files of one DOI are about the same article, are insights or not together, and
the rules raise for all of them or none. `AllAlone`: no two files share a DOI. `IdsAreUnique`: no workflow uses
an activity id twice; the shipped ones do not, which the run `activities` shows by
checking `EveryStepRuns` on them. `NewComeLast`: workflows that have never run come last in
the list of jobs. One that comes earlier ends each pass that gets to it (finding 1), and the
jobs after it have no pass left.

**Outlines.** What `ActivityPromises` says of executions does not follow from the
script of one activity: what is there when it begins was left by others, by attempts of
its own that died half-way, and by what was renamed since. A simple invariant ("when an activity
begins, what it reads is there") is not inductive, and an inductive one has to say something at each
operation of each of 113 activities. `ActivityOutlines` takes that as a parameter, as a proof
outline annotates a program with assertions. `Outlines[w][n]` is a set of points for the nth activity of
the workflow w, and a point is a rest of the script with flags, and with what is *known*
there: things that are stored and things that are not, keys with a value and without,
answers that do not change, whether an attempt died, what has been sent. Two
assumptions on the constants say what must be so of them, one point at a time:

- `OutlinesAssumption`: the outlines are closed. From a point each operation leads to
  points (`Goes`); wherever an attempt dies there is a start of the activity that knows no more
  than was known (`Restarts`), likewise where it fails without dying; where it succeeds
  there is such a start of the next activity (`GoesOn`), and for what each workflow may
  find there is one of the first (`Opened`). Starts know nothing of what is
  forgotten (`Kept`).
- `PointsAssumption`: at each point the next operation is in order. What it
  reads is known to be there (`UsesValues`, `ReadsObjects`), what it sends was not sent
  (`SendsOnce`), what it drops has a copy (`CopiesFirst`), what it writes has what it
  relies on (`ReliesOn`), and so on.

The theorems are then about executions: the inductive invariant `OutlineInv` is that
of an attempt under way there is a point of its activity with the same rest and flags whose
knowledge is so, and that between attempts there is a start whose knowledge is so. It holds initially, and each of
the thirteen actions keeps it, death and forgetting included; the promises follow from
it with `PointsAssumption`, some with an invariant of their own beside it
(`BasesInv`). `MCActivityOutlines` computes outlines for the shipped scripts (a
forward analysis that tells apart at the start of an attempt only the handful of things in `Told`),
and TLC evaluates the assumptions of them at the beginning of the run `activities`, so
that they are known to hold of this code; for scripts that are changed or
added, they are what has to be checked, whatever the interleavings.

Only model-checked: liveness (`EventuallyCloses` twice, `EventuallyConsumed`,
`EventuallyMoved`, `EventuallyLeaves`), which is out of the prover's reach. Each safety
invariant and action property of a passing run is stated by a theorem. The properties of the
runs that expect a violation are false, and have none.

## 6. Where code and documentation disagree

1. `cron_never_run`: `src/cron.py:412` compares `None` with 0 when a workflow has not
   run in 90 days. The pass ends with a `TypeError`; the workflow is not started,
   and neither are those after it, at every pass of its window.
2. `cron_failed_run`: `src/provider/swfmeta.py:327` does not apply the filter on
   COMPLETED when it is asked by workflow id, so failed runs count as the last
   completed one.
3. `intake_modified_file`: a file that is uploaded again while its first version is
   being ingested starts nothing, and its message is deleted
   (`src/queue_workflow_starter.py:81`).
4. `outbox_pending`: `src/activity/activity_DepositCrossrefPendingPublication.py:155`
   builds each version DOI deposit from the variable an earlier loop left behind. With
   two files in the outbox one of them is never deposited and is moved to published.

5. `activities_renamed`: `ApplyVersionNumber` makes its map of old to new names from a listing of the
   expanded folder (`src/activity/activity_ApplyVersionNumber.py:120`). After an attempt
   that died between renaming and rewriting, the listing has the new names only; the next attempt
   succeeds and replaces nothing, and the XML that is ingested names files that are
   gone.

## 7. Not modelled, and why

- What is inside an XML, an image, a PDF or a mail: `provider/cleaner.py`, the
  generators, templates, formatting. They are functions of their input; in the scripts
  their success is a `Fact`.
- FTP, HTTP and mail transports, logging, configuration: input and output. Requests
  are operations of the scripts, their outcomes answers.
- The dashboard's messages: sent, never read here.
- Two workflows of one article version at a time, and the state of a version inside
  Lax: nothing in this code locks or compares; what Lax makes of it is Lax's.
- The expiry of sessions in Redis after two days: no execution is meant to live that
  long, and when one does `get_value` quietly falls back to the input.
- A second insight about one research article in the same batch is not named by its
  mail, and is moved as if it were (the model does so, `Abouts` keeps one of them);
  `PublishedWasMailed` counts that article's mail for it.
- `GeneratePDFCovers`, `DecisionLetterReceipt` and other activities no shipped workflow
  lists; the CSV files of PoA packaging.
- The copy `accepted_submission_queue_worker.py` makes before it sends; a message body that
  cannot be decoded; the signal handler of `provider/process.py` (a
  process that stops between messages just polls no more); a decision for a workflow type
  that cannot be imported: nothing starts one.

## 8. Plan

1. *Publication.* The life of an article version across Lax, its answers through the
   queue, `ProcessArticleZip`, `PostPerfectPublication` and the silent corrections,
   with workflows of one version beside each other; composed with `WorkflowIntake`.
2. *Outboxes.* An abstract outbox that `Outbox`, `PublicationEmail` and the activities
   of `DownstreamActivities` implement.
3. *Proofs.* One abstract specification of what all hand-overs promise (at least once, and
   twice only after a fault), implemented by `WorkflowIntake`, `Outbox` and
   `PublicationEmail`; `OneOpenAttempt` and `NoRepeatAfterCompletion` of the steps before
   the first parallel one.
