-------------------------- MODULE MCWorkflowIntake --------------------------
(* Small sets of messages and processes for WorkflowIntake.                 *)
EXTENDS WorkflowIntake, TLC

CONSTANTS worker, adapter, era, starter

Message(queue, kind, subject, number) ==
    [queue |-> queue, kind |-> kind, subject |-> subject, number |-> number]

\* An article on its way in and through Lax, another answer of Lax that nobody
\* can read, and an ERA article, which may or may not be deposited.
SomeInputs ==
    {Message("new_file", "matched", "00353", 1),
     Message("lax_response", "ingest", "00353", 1),
     Message("lax_response", "unreadable token", "00353", 1),
     Message("era_incoming", "display", "30274", 1)}

SomeReads ==
    worker :> "new_file" @@ adapter :> "lax_response" @@
    era :> "era_incoming" @@ starter :> "workflow_starter"

\* A file that is uploaded and, some time later, uploaded again.
Uploads == {Message("new_file", "matched", "00353", n) : n \in {1, 2}}

UploadReads == worker :> "new_file" @@ starter :> "workflow_starter"
=============================================================================
