-------------------------- MODULE MCCronScheduler --------------------------
(* Small sets of workflow_ids and beginnings for CronScheduler.             *)
EXTENDS CronScheduler, TLC

CONSTANTS p1, p2

\* An evening: an hourly job, a daily one with a single pass in its window, and
\* the emails that go out at a local hour.  The last job has never run.
EveningIds == {"PubmedArticleDeposit", "PubRouterDeposit_OVID", "PublicationEmail",
               "AdminEmail"}
EveningBeginnings == {21 * 60 + 43}

\* A night on which a workflow is due that has never run, and one after it.
FirstRunIds == {"FindFuturePreprints", "PubRouterDeposit_Scilit"}
FirstRunBeginnings == {23 * 60 + 10}

AnyPass == Permutations({p1, p2})
=============================================================================
