------------------------ MODULE WorkflowIntakeProofs ------------------------
(***************************************************************************)
(* Proofs about WorkflowIntake, for any messages, any processes on any      *)
(* queues, and any number of faults.                                        *)
(***************************************************************************)
EXTENDS WorkflowIntake, TLAPS, SequenceTheorems, FiniteSetTheorems

States == {"waiting", "received", "deleted"}

-----------------------------------------------------------------------------
(* The inductive invariants.                                                 *)

\* A process that is not polling has a message, and no input goes away.
TypeInv ==
    /\ TypeOK
    /\ \A p \in Processes : process[p].phase # "polling" => process[p].message \in Inputs \X Nat
    /\ \A m \in Inputs : Len(messages[m]) > 0

\* A process is through with a message, whether it lives to delete it or not.
HandledBy(p, m, k) == process[p].phase = "done" /\ process[p].message = <<m, k>>

Handled(m, k) ==
    /\ k \in DOMAIN messages[m]
    /\ messages[m][k] = "deleted" \/ \E p \in Processes : HandledBy(p, m, k)

\* An input that calls for a workflow was answered with a request, and a
\* request with an attempt to start one.
DropInv ==
    \A m \in Inputs : \A k \in Nat : Handled(m, k) =>
        IF k = 1 THEN Verdicts(m) = {"start"} => Len(messages[m]) > 1
        ELSE tried[m] > 0

\* Something with the id of this message was started.
Ingested(m) ==
    \E n \in Inputs : /\ workflow_id(n) = workflow_id(m) /\ "start" \in Verdicts(n)
                      /\ started[n] > 0

IngestInv ==
    /\ \A m \in open : started[m] > 0
    /\ \A m \in Inputs :
           m \in open \/ Len(messages[m]) > 1 => "start" \in Verdicts(m)
    /\ \A m \in Inputs : \A k \in Nat :
           Handled(m, k) /\ k # 1 => m \in lost \/ Ingested(m)

\* The processes that may still answer a message of this input, and its messages
\* that some process may still receive.
Workers(m) == {p \in Processes : process[p].phase = "received" /\ Input(p) = m}

Loose(m) ==
    {k \in DOMAIN messages[m] :
        messages[m][k] = "waiting" \/ (messages[m][k] = "received" /\ ~Held(m, k))}

\* Each of them is good for one more attempt, and only a fault makes more of them.
RepeatInv ==
    \A m \in Inputs :
        tried[m] + Cardinality(Workers(m)) + Cardinality(Loose(m)) <= 1 + faults

-----------------------------------------------------------------------------
(* Queues and verdicts.                                                      *)

\* The inputs are on queues of their own; requests are on the starter's.
LEMMA QueuesApart ==
    ASSUME NEW m \in Inputs, NEW k \in Nat
    PROVE  QueueOf(m, k) = "workflow_starter" <=> k # 1
  BY IntakeAssumption DEF QueueOf, InputType, Kinds

LEMMA KindsOfQueues ==
    ASSUME NEW m \in Inputs
    PROVE  \/ m.queue = "new_file" /\ m.kind \in {"matched", "unmatched", "not an S3Event"}
           \/ /\ m.queue = "lax_response"
              /\ m.kind \in {"ingest", "forced ingest", "publish", "unreadable token"}
           \/ m.queue = "era_incoming" /\ m.kind \in {"display", "no display"}
  <1>1. m.queue \in DOMAIN Kinds /\ m.kind \in Kinds[m.queue]
    BY IntakeAssumption DEF InputType
  <1>2. m.queue \in {"new_file", "lax_response", "era_incoming"}
    BY <1>1 DEF Kinds
  <1>3. CASE m.queue = "new_file"
    <2>1. Kinds["new_file"] = {"matched", "unmatched", "not an S3Event"}
      BY DEF Kinds
    <2> QED BY <1>1, <1>3, <2>1
  <1>4. CASE m.queue = "lax_response"
    <2>1. Kinds["lax_response"] = {"ingest", "forced ingest", "publish", "unreadable token"}
      BY DEF Kinds
    <2> QED BY <1>1, <1>4, <2>1
  <1>5. CASE m.queue = "era_incoming"
    <2>1. Kinds["era_incoming"] = {"display", "no display"}
      BY DEF Kinds
    <2> QED BY <1>1, <1>5, <2>1
  <1> QED BY <1>2, <1>3, <1>4, <1>5

LEMMA VerdictsOfKinds ==
    ASSUME NEW m \in Inputs
    PROVE  \/ /\ m.kind \in {"matched", "ingest", "forced ingest", "publish"}
              /\ Verdicts(m) = {"start"}
           \/ m.kind = "display" /\ Verdicts(m) = {"start", "drop"}
           \/ "start" \notin Verdicts(m)
  <1>1. CASE m.kind \in {"matched", "ingest", "forced ingest", "publish"}
    BY <1>1 DEF Verdicts
  <1>2. CASE m.kind = "display"
    BY <1>2 DEF Verdicts
  <1>3. CASE m.kind = "unmatched"
    BY <1>3 DEF Verdicts
  <1>4. CASE m.kind \in {"not an S3Event", "no display"}
    BY <1>4 DEF Verdicts
  <1>5. CASE m.kind = "unreadable token"
    BY <1>5 DEF Verdicts
  <1> QED BY <1>1, <1>2, <1>3, <1>4, <1>5, KindsOfQueues

\* Two messages that call for workflows of one id do so for sure, or neither.
LEMMA SameIdSameVerdict ==
    ASSUME NEW m \in Inputs, NEW n \in Inputs, workflow_id(m) = workflow_id(n),
           Verdicts(m) = {"start"}, "start" \in Verdicts(n)
    PROVE  Verdicts(n) = {"start"}
  <1>1. starter_name(m) = starter_name(n)
    BY DEF workflow_id
  <1>2. m.kind \in {"matched", "ingest", "forced ingest", "publish"}
    <2>1. "start" \in Verdicts(m) /\ "drop" \notin Verdicts(m)
      OBVIOUS
    <2> QED BY <2>1, VerdictsOfKinds
  <1>3. m.queue \in {"new_file", "lax_response"}
    BY <1>2, KindsOfQueues
  <1>4. starter_name(m) # "SoftwareHeritageDeposit"
    BY <1>2, <1>3 DEF starter_name
  <1>5. CASE n.kind = "display"
    <2>1. n.queue = "era_incoming"
      BY <1>5, KindsOfQueues
    <2> QED BY <1>1, <1>4, <1>5, <2>1 DEF starter_name
  <1> QED BY <1>5, VerdictsOfKinds

-----------------------------------------------------------------------------
(* Types.                                                                    *)

\* What a process is working on.
LEMMA InHand ==
    ASSUME TypeInv, NEW p \in Processes, process[p].phase # "polling"
    PROVE  /\ Input(p) \in Inputs /\ Copy(p) \in Nat
           /\ process[p].message = <<Input(p), Copy(p)>>
           /\ Copy(p) \in DOMAIN messages[Input(p)]
           /\ QueueOf(Input(p), Copy(p)) = Reads[p]
  BY DEF TypeInv, TypeOK, Input, Copy

LEMMA AppendType ==
    ASSUME NEW s \in Seq(States)
    PROVE  /\ Append(s, "waiting") \in Seq(States)
           /\ Len(Append(s, "waiting")) = Len(s) + 1
           /\ DOMAIN Append(s, "waiting") = 1 .. Len(s) + 1
           /\ \A k \in DOMAIN s : Append(s, "waiting")[k] = s[k]
           /\ Append(s, "waiting")[Len(s) + 1] = "waiting"
  BY DEF States

LEMMA UpdateType ==
    ASSUME NEW s \in Seq(States), NEW k \in DOMAIN s, NEW state \in States
    PROVE  /\ [s EXCEPT ![k] = state] \in Seq(States)
           /\ DOMAIN [s EXCEPT ![k] = state] = DOMAIN s
           /\ Len([s EXCEPT ![k] = state]) = Len(s)
  OBVIOUS

ProcessRecord == [phase : {"polling", "received", "done"},
                  message : {<< >>} \cup (Inputs \X Nat),
                  receipt : BOOLEAN]

LEMMA IdleType == Idle \in ProcessRecord /\ Idle.phase = "polling"
  BY DEF Idle, ProcessRecord

\* What the types of processes ask for depends on the lengths of messages only.
LEMMA ProcessesStay ==
    ASSUME TypeInv, messages' \in [Inputs -> Seq(States)],
           \A m \in Inputs : Len(messages'[m]) >= Len(messages[m]),
           process' \in [Processes -> ProcessRecord],
           \A p \in Processes : process'[p].phase # "polling" =>
               /\ process[p].phase # "polling"
               /\ process'[p].message = process[p].message,
           open' \subseteq Inputs, lost' \subseteq Inputs,
           \A a, b \in open' : workflow_id(a) = workflow_id(b) => a = b,
           started' \in [Inputs -> Nat], tried' \in [Inputs -> Nat],
           faults' \in 0 .. MaxFaults
    PROVE  TypeInv'
  <1>1. ASSUME NEW p \in Processes, process'[p].phase # "polling"
        PROVE  /\ Copy(p)' \in DOMAIN messages'[Input(p)']
               /\ QueueOf(Input(p), Copy(p))' = Reads[p]
               /\ process'[p].message \in Inputs \X Nat
    <2>1. /\ Input(p) \in Inputs /\ Copy(p) \in Nat /\ Copy(p) \in DOMAIN messages[Input(p)]
          /\ process'[p].message = <<Input(p), Copy(p)>>
          /\ QueueOf(Input(p), Copy(p)) = Reads[p]
      BY <1>1, InHand
    <2>2. Input(p)' = Input(p) /\ Copy(p)' = Copy(p)
      BY <1>1 DEF Input, Copy
    <2>3. /\ messages[Input(p)] \in Seq(States) /\ messages'[Input(p)] \in Seq(States)
          /\ Len(messages'[Input(p)]) >= Len(messages[Input(p)])
      BY <2>1 DEF TypeInv, TypeOK, States
    <2>4. Copy(p) \in DOMAIN messages'[Input(p)]
      BY <2>1, <2>3
    <2> QED BY <2>1, <2>2, <2>4 DEF QueueOf
  <1>2. \A m \in Inputs : Len(messages'[m]) > 0
    <2> SUFFICES ASSUME NEW m \in Inputs PROVE Len(messages'[m]) > 0
      OBVIOUS
    <2>1. /\ messages[m] \in Seq(States) /\ messages'[m] \in Seq(States)
          /\ Len(messages[m]) > 0 /\ Len(messages'[m]) >= Len(messages[m])
      BY DEF TypeInv, TypeOK, States
    <2> QED BY <2>1
  <1>3. TypeOK'
    BY <1>1 DEF TypeInv, TypeOK, States, ProcessRecord
  <1> QED BY <1>1, <1>2, <1>3 DEF TypeInv

LEMMA StartType ==
    ASSUME TypeInv, NEW m \in Inputs, Start(m)
    PROVE  /\ open' \subseteq Inputs
           /\ \A a, b \in open' : workflow_id(a) = workflow_id(b) => a = b
           /\ started' \in [Inputs -> Nat] /\ tried' \in [Inputs -> Nat]
           /\ \A n \in Inputs : started'[n] >= started[n] /\ tried'[n] >= tried[n]
           /\ tried'[m] > 0
  <1>1. /\ started \in [Inputs -> Nat] /\ tried \in [Inputs -> Nat] /\ open \subseteq Inputs
        /\ \A a, b \in open : workflow_id(a) = workflow_id(b) => a = b
    BY DEF TypeInv, TypeOK
  <1>2. tried' = [tried EXCEPT ![m] = tried[m] + 1] /\ tried[m] + 1 \in Nat
    BY <1>1 DEF Start
  <1>3. CASE IsOpen(m)
    BY <1>1, <1>2, <1>3 DEF Start
  <1>4. CASE ~IsOpen(m)
    <2>1. open' = open \cup {m} /\ started' = [started EXCEPT ![m] = started[m] + 1]
      BY <1>4 DEF Start
    <2>2. \A a \in open : workflow_id(a) # workflow_id(m)
      BY <1>4 DEF IsOpen
    <2> QED BY <1>1, <1>2, <2>1, <2>2
  <1> QED BY <1>3, <1>4

LEMMA Parts ==
    ASSUME TypeInv
    PROVE  /\ messages \in [Inputs -> Seq(States)]
           /\ process \in [Processes -> ProcessRecord]
           /\ open \subseteq Inputs /\ lost \subseteq Inputs
           /\ \A a, b \in open : workflow_id(a) = workflow_id(b) => a = b
           /\ started \in [Inputs -> Nat] /\ tried \in [Inputs -> Nat]
           /\ faults \in 0 .. MaxFaults /\ MaxFaults \in Nat
           /\ \A m \in Inputs : Len(messages[m]) \in Nat /\ Len(messages[m]) > 0
  <1>1. messages \in [Inputs -> Seq(States)]
    BY DEF TypeInv, TypeOK, States
  <1>2. \A m \in Inputs : Len(messages[m]) \in Nat
    BY <1>1
  <1> QED BY <1>1, <1>2, IntakeAssumption DEF TypeInv, TypeOK, ProcessRecord

LEMMA ReceiveType ==
    ASSUME TypeInv, NEW m \in Inputs, NEW k \in DOMAIN messages[m], NEW p \in Processes,
           Receive(p, m, k)
    PROVE  TypeInv'
  <1>1. /\ messages[m] \in Seq(States) /\ k \in Nat /\ "received" \in States
    BY Parts DEF States
  <1> DEFINE s == [messages[m] EXCEPT ![k] = "received"]
  <1>2. s \in Seq(States) /\ DOMAIN s = DOMAIN messages[m] /\ Len(s) = Len(messages[m])
    BY <1>1, UpdateType
  <1>3. messages' = [messages EXCEPT ![m] = s]
    BY DEF Receive
  <1> HIDE DEF s
  <1>4. /\ messages' \in [Inputs -> Seq(States)]
        /\ \A n \in Inputs : DOMAIN messages'[n] = DOMAIN messages[n]
                             /\ Len(messages'[n]) = Len(messages[n])
    BY <1>2, <1>3, Parts
  <1>5. /\ process' = [process EXCEPT ![p] =
               [phase |-> "received", message |-> <<m, k>>, receipt |-> TRUE]]
        /\ QueueOf(m, k) = Reads[p]
    BY DEF Receive
  <1>6. process' \in [Processes -> ProcessRecord]
    BY <1>1, <1>5, Parts DEF ProcessRecord
  <1>7. ASSUME NEW q \in Processes, process'[q].phase # "polling"
        PROVE  /\ Copy(q)' \in DOMAIN messages'[Input(q)'] /\ QueueOf(Input(q), Copy(q))' = Reads[q]
               /\ process'[q].message \in Inputs \X Nat
    <2>1. CASE q = p
      <3>1. process'[q].message = <<m, k>>
        BY <1>5, <2>1, Parts
      <3>2. Input(q)' = m /\ Copy(q)' = k
        BY <3>1 DEF Input, Copy
      <3> QED BY <1>1, <1>4, <1>5, <2>1, <3>1, <3>2 DEF QueueOf
    <2>2. CASE q # p
      <3>1. process'[q] = process[q]
        BY <1>5, <2>2, Parts
      <3>2. Input(q)' = Input(q) /\ Copy(q)' = Copy(q)
        BY <3>1 DEF Input, Copy
      <3>3. /\ Input(q) \in Inputs /\ Copy(q) \in DOMAIN messages[Input(q)]
            /\ QueueOf(Input(q), Copy(q)) = Reads[q] /\ Copy(q) \in Nat
            /\ process[q].message = <<Input(q), Copy(q)>>
        BY <1>7, <3>1, InHand
      <3>4. QueueOf(Input(q), Copy(q))' = QueueOf(Input(q), Copy(q))
        BY <3>2 DEF QueueOf
      <3> QED BY <1>4, <3>1, <3>2, <3>3, <3>4
    <2> QED BY <2>1, <2>2
  <1>8. UNCHANGED <<swf, faults>>
    BY DEF Receive
  <1> QED BY <1>4, <1>6, <1>7, <1>8, Parts DEF TypeInv, TypeOK, swf, States, ProcessRecord

\* Setting one state of a message.
LEMMA StateSet ==
    ASSUME TypeInv, NEW m \in Inputs, NEW k \in DOMAIN messages[m], NEW state \in States,
           messages' = [messages EXCEPT ![m][k] = state]
    PROVE  /\ messages' \in [Inputs -> Seq(States)]
           /\ \A n \in Inputs : Len(messages'[n]) = Len(messages[n])
           /\ \A n \in Inputs : DOMAIN messages'[n] = DOMAIN messages[n]
           /\ \A n \in Inputs : \A l \in DOMAIN messages[n] :
                  <<n, l>> # <<m, k>> => messages'[n][l] = messages[n][l]
           /\ messages'[m][k] = state
  <1>1. messages \in [Inputs -> Seq(States)]
    BY Parts
  <1> DEFINE s == [messages[m] EXCEPT ![k] = state]
  <1>2. s \in Seq(States) /\ DOMAIN s = DOMAIN messages[m] /\ Len(s) = Len(messages[m])
    BY <1>1, UpdateType
  <1>3. s[k] = state /\ \A l \in DOMAIN messages[m] : l # k => s[l] = messages[m][l]
    OBVIOUS
  <1>4. messages' = [messages EXCEPT ![m] = s]
    OBVIOUS
  <1> HIDE DEF s
  <1> QED BY <1>1, <1>2, <1>3, <1>4

\* Deletion: the state of the message in hand, and a process that is idle again.
LEMMA Deletion ==
    ASSUME TypeInv, NEW p \in Processes, process[p].phase # "polling", Delete(p)
    PROVE  /\ \E state \in States :
                  messages' = [messages EXCEPT ![Input(p)][Copy(p)] = state]
           /\ process' = [process EXCEPT ![p] = Idle]
           /\ UNCHANGED <<swf, faults>>
  <1>1. messages[Input(p)][Copy(p)] \in States /\ "deleted" \in States
    BY InHand, Parts DEF States
  <1>2. PICK state \in IF process[p].receipt THEN {"deleted"}
                       ELSE {"deleted", messages[Input(p)][Copy(p)]} :
            messages' = [messages EXCEPT ![Input(p)][Copy(p)] = state]
    BY DEF Delete
  <1>3. state \in States
    BY <1>1, <1>2
  <1> QED BY <1>2, <1>3 DEF Delete

LEMMA RequestSent ==
    ASSUME TypeInv, NEW p \in Processes, SendRequest(p)
    PROVE  /\ messages' \in [Inputs -> Seq(States)]
           /\ Len(messages'[Input(p)]) = Len(messages[Input(p)]) + 1
           /\ messages'[Input(p)][Len(messages[Input(p)]) + 1] = "waiting"
           /\ \A m \in Inputs : Len(messages'[m]) >= Len(messages[m])
           /\ \A m \in Inputs : \A k \in DOMAIN messages[m] : messages'[m][k] = messages[m][k]
           /\ \A m \in Inputs : m # Input(p) => messages'[m] = messages[m]
  <1>1. /\ messages \in [Inputs -> Seq(States)] /\ Input(p) \in Inputs
        /\ process[p].phase = "received"
    BY InHand, Parts DEF SendRequest, Decides
  <1> DEFINE s == Append(messages[Input(p)], "waiting")
  <1>2. /\ s \in Seq(States) /\ Len(s) = Len(messages[Input(p)]) + 1
        /\ s[Len(messages[Input(p)]) + 1] = "waiting"
        /\ \A k \in DOMAIN messages[Input(p)] : s[k] = messages[Input(p)][k]
    BY <1>1, AppendType
  <1>3. messages' = [messages EXCEPT ![Input(p)] = s]
    BY DEF SendRequest
  <1> HIDE DEF s
  <1>4. \A m \in Inputs : Len(messages[m]) \in Nat
    BY Parts
  <1> QED BY <1>1, <1>2, <1>3, <1>4

LEMMA DoneType ==
    ASSUME NEW r \in ProcessRecord
    PROVE  /\ [r EXCEPT !.phase = "done"] \in ProcessRecord
           /\ [r EXCEPT !.phase = "done"].message = r.message
           /\ [r EXCEPT !.phase = "done"].phase = "done"
  BY DEF ProcessRecord

\* A step that only ends or goes on with what processes do.
LEMMA LocalType ==
    ASSUME TypeInv, NEW p \in Processes, process[p].phase # "polling",
           NEW next \in ProcessRecord, next.phase = "polling" \/ next.message = process[p].message,
           process' = [process EXCEPT ![p] = next]
    PROVE  /\ process' \in [Processes -> ProcessRecord]
           /\ \A q \in Processes : process'[q].phase # "polling" =>
                  process[q].phase # "polling" /\ process'[q].message = process[q].message
  BY Parts

LEMMA TypeStep ==
    ASSUME TypeInv, [Next]_vars
    PROVE  TypeInv'
  <1> USE Parts
  <1>1. CASE UNCHANGED vars
    BY <1>1 DEF vars, swf, TypeInv, TypeOK, Input, Copy, QueueOf
  <1>2. ASSUME NEW m \in Inputs, CloseExecution(m) PROVE TypeInv'
    BY <1>2, ProcessesStay DEF CloseExecution
  <1>3. ASSUME NEW m \in Inputs, NEW k \in DOMAIN messages[m], VisibilityTimeout(m, k)
        PROVE  TypeInv'
    <2>1. /\ messages' = [messages EXCEPT ![m][k] = "waiting"] /\ "waiting" \in States
          /\ process' = [p \in Processes |->
                 IF Holds(p, m, k) THEN [process[p] EXCEPT !.receipt = FALSE] ELSE process[p]]
          /\ UNCHANGED swf
      BY <1>3 DEF VisibilityTimeout, States
    <2>2. faults' \in 0 .. MaxFaults
      BY <1>3 DEF VisibilityTimeout, Fault
    <2>3. /\ messages' \in [Inputs -> Seq(States)]
          /\ \A n \in Inputs : Len(messages'[n]) = Len(messages[n])
      BY <2>1, StateSet
    <2>4. /\ process' \in [Processes -> ProcessRecord]
          /\ \A p \in Processes : /\ process'[p].phase = process[p].phase
                                  /\ process'[p].message = process[p].message
      BY <2>1 DEF ProcessRecord
    <2> QED BY <2>1, <2>2, <2>3, <2>4, ProcessesStay DEF swf
  <1>4. ASSUME NEW m \in Inputs, NEW k \in DOMAIN messages[m], NEW p \in Processes,
               Receive(p, m, k)
        PROVE  TypeInv'
    BY <1>4, ReceiveType
  <1>5. ASSUME NEW p \in Processes, SendRequest(p) PROVE TypeInv'
    <2>1. /\ process[p].phase # "polling" /\ UNCHANGED <<swf, faults>>
          /\ process' = [process EXCEPT ![p] = [process[p] EXCEPT !.phase = "done"]]
      BY <1>5 DEF SendRequest, Decides
    <2>2. process[p] \in ProcessRecord
      OBVIOUS
    <2> QED BY <1>5, <2>1, <2>2, DoneType, LocalType, RequestSent, ProcessesStay DEF swf
  <1>6. ASSUME NEW p \in Processes, LeaveMessage(p) \/ Crash(p) PROVE TypeInv'
    <2>1. /\ process[p].phase # "polling" /\ UNCHANGED <<messages, swf>>
          /\ process' = [process EXCEPT ![p] = Idle]
      BY <1>6 DEF LeaveMessage, Decides, Crash
    <2>2. faults' \in 0 .. MaxFaults
      BY <1>6 DEF LeaveMessage, Crash, Fault
    <2> QED BY <2>1, <2>2, IdleType, LocalType, ProcessesStay DEF swf
  <1>7. ASSUME NEW p \in Processes, StartWorkflow(p) \/ StartLost(p) PROVE TypeInv'
    <2>1. /\ process[p].phase # "polling" /\ UNCHANGED messages
          /\ process' = [process EXCEPT ![p] = [process[p] EXCEPT !.phase = "done"]]
      BY <1>7 DEF StartWorkflow, StartLost, Starting
    <2>2. process[p] \in ProcessRecord /\ Input(p) \in Inputs
      BY <2>1, InHand
    <2>3. CASE StartWorkflow(p)
      <3>1. Start(Input(p)) /\ UNCHANGED <<lost, faults>>
        BY <2>3 DEF StartWorkflow
      <3> QED BY <2>1, <2>2, <3>1, DoneType, StartType, LocalType, ProcessesStay
    <2>4. CASE StartLost(p)
      <3>1. /\ tried' = [tried EXCEPT ![Input(p)] = tried[Input(p)] + 1]
            /\ lost' = lost \cup {Input(p)} /\ UNCHANGED <<open, started>>
            /\ faults < MaxFaults /\ faults' = faults + 1
        BY <2>4 DEF StartLost, Fault
      <3>2. tried' \in [Inputs -> Nat] /\ faults' \in 0 .. MaxFaults
        BY <2>2, <3>1
      <3> QED BY <2>1, <2>2, <3>1, <3>2, DoneType, LocalType, ProcessesStay
    <2> QED BY <1>7, <2>3, <2>4
  <1>8. ASSUME NEW p \in Processes, DeleteMessage(p) PROVE TypeInv'
    <2>1. process[p].phase # "polling" /\ Delete(p)
      BY <1>8 DEF DeleteMessage, Decides
    <2>2. PICK state \in States : messages' = [messages EXCEPT ![Input(p)][Copy(p)] = state]
      BY <2>1, Deletion
    <2>3. process' = [process EXCEPT ![p] = Idle] /\ UNCHANGED <<swf, faults>>
      BY <2>1, Deletion
    <2>4. /\ messages' \in [Inputs -> Seq(States)]
          /\ \A n \in Inputs : Len(messages'[n]) = Len(messages[n])
      BY <2>1, <2>2, InHand, StateSet
    <2> QED BY <2>1, <2>3, <2>4, IdleType, LocalType, ProcessesStay DEF swf
  <1> QED BY <1>1, <1>2, <1>3, <1>4, <1>5, <1>6, <1>7, <1>8 DEF Next, ProcessStep

LEMMA TypeInvHolds == Spec => []TypeInv
  <1>1. Init => TypeInv
    <2> SUFFICES ASSUME Init PROVE TypeInv
      OBVIOUS
    <2>1. MaxFaults \in Nat
      BY IntakeAssumption
    <2>2. <<"waiting">> \in Seq(States) /\ Len(<<"waiting">>) = 1
      BY DEF States
    <2>3. Idle \in ProcessRecord /\ Idle.phase = "polling"
      BY IdleType
    <2> QED BY <2>1, <2>2, <2>3 DEF Init, TypeInv, TypeOK, States, ProcessRecord
  <1> QED BY <1>1, TypeStep, PTL DEF Spec

\* Variables keep their types, a process works on a message of the queue it
\* reads, and SWF has one open execution of an id at most.
THEOREM TypeCorrect == Spec => []TypeOK
  <1>1. TypeInv => TypeOK
    BY DEF TypeInv
  <1> QED BY <1>1, TypeInvHolds, PTL

-----------------------------------------------------------------------------
(* Messages that were handled.                                               *)

\* Inputs collect requests, attempts, starts and losses, and lose none.
LEMMA Grows ==
    ASSUME TypeInv, [Next]_vars
    PROVE  /\ \A m \in Inputs : Len(messages'[m]) >= Len(messages[m])
           /\ \A m \in Inputs : tried'[m] >= tried[m] /\ started'[m] >= started[m]
           /\ lost \subseteq lost'
  <1> USE Parts
  <1> DEFINE Same == \A m \in Inputs : Len(messages'[m]) >= Len(messages[m])
             More == /\ \A m \in Inputs : tried'[m] >= tried[m] /\ started'[m] >= started[m]
                     /\ lost \subseteq lost'
  <1>1. CASE UNCHANGED vars
    BY <1>1 DEF vars, swf
  <1>2. ASSUME NEW m \in Inputs, NEW k \in DOMAIN messages[m],
               VisibilityTimeout(m, k) \/ \E p \in Processes : Receive(p, m, k)
        PROVE  Same /\ More
    <2>1. PICK state \in States : messages' = [messages EXCEPT ![m][k] = state]
      BY <1>2 DEF VisibilityTimeout, Receive, States
    <2>2. Same
      BY <2>1, StateSet
    <2> QED BY <1>2, <2>2 DEF VisibilityTimeout, Receive, swf
  <1>3. ASSUME NEW m \in Inputs, CloseExecution(m) PROVE Same /\ More
    BY <1>3 DEF CloseExecution
  <1>4. ASSUME NEW p \in Processes, LeaveMessage(p) \/ Crash(p) PROVE Same /\ More
    BY <1>4 DEF LeaveMessage, Crash, swf
  <1>5. ASSUME NEW p \in Processes, SendRequest(p) PROVE Same /\ More
    BY <1>5, RequestSent DEF SendRequest, swf
  <1>6. ASSUME NEW p \in Processes, StartWorkflow(p) PROVE Same /\ More
    <2>1. Input(p) \in Inputs /\ Start(Input(p)) /\ UNCHANGED <<messages, lost>>
      BY <1>6, InHand DEF StartWorkflow, Starting
    <2> QED BY <2>1, StartType
  <1>7. ASSUME NEW p \in Processes, StartLost(p) PROVE Same /\ More
    <2>1. /\ tried' = [tried EXCEPT ![Input(p)] = tried[Input(p)] + 1]
          /\ UNCHANGED <<messages, started>> /\ lost \subseteq lost' /\ Input(p) \in Inputs
      BY <1>7, InHand DEF StartLost, Starting
    <2> QED BY <2>1
  <1>8. ASSUME NEW p \in Processes, DeleteMessage(p) PROVE Same /\ More
    <2>1. process[p].phase # "polling" /\ Delete(p)
      BY <1>8 DEF DeleteMessage, Decides
    <2>2. PICK state \in States : messages' = [messages EXCEPT ![Input(p)][Copy(p)] = state]
      BY <2>1, Deletion
    <2>3. Same
      BY <2>1, <2>2, InHand, StateSet
    <2> QED BY <2>1, <2>3, Deletion DEF swf
  <1> QED BY <1>1, <1>2, <1>3, <1>4, <1>5, <1>6, <1>7, <1>8 DEF Next, ProcessStep

\* A process that a step leaves at its message is through with it or not as it
\* was before.
LEMMA OthersHandle ==
    ASSUME TypeInv, NEW p \in Processes, NEW next,
           process' = [process EXCEPT ![p] = next], NEW m, NEW k
    PROVE  \A q \in Processes : q # p => (HandledBy(q, m, k)' <=> HandledBy(q, m, k))
  BY Parts DEF HandledBy

\* How a message comes to be handled.
NowHandled(m, k) ==
    \E p \in Processes :
        /\ process[p].phase = "received" /\ m = Input(p) /\ k = Copy(p)
        /\ SendRequest(p) \/ Decides(p, "drop") \/ StartWorkflow(p) \/ StartLost(p)

LEMMA NewlyHandled ==
    ASSUME TypeInv, [Next]_vars, NEW m \in Inputs, NEW k \in Nat, Handled(m, k)'
    PROVE  Handled(m, k) \/ NowHandled(m, k)
  <1> USE Parts
  <1>1. ASSUME NEW p \in Processes, SendRequest(p) PROVE Handled(m, k) \/ NowHandled(m, k)
    <2>1. /\ process[p].phase = "received"
          /\ process' = [process EXCEPT ![p] = [process[p] EXCEPT !.phase = "done"]]
      BY <1>1 DEF SendRequest, Decides
    <2>2. process[p].message = <<Input(p), Copy(p)>> /\ process[p] \in ProcessRecord
      BY <2>1, InHand
    <2>3. process'[p].message = <<Input(p), Copy(p)>>
      BY <2>1, <2>2, DoneType
    <2>4. CASE \E q \in Processes : HandledBy(q, m, k)'
      <3>1. PICK q \in Processes : HandledBy(q, m, k)'
        BY <2>4
      <3>2. CASE q = p
        BY <1>1, <2>1, <2>3, <3>1, <3>2 DEF HandledBy, NowHandled
      <3>3. CASE q # p
        <4>1. HandledBy(q, m, k)
          BY <2>1, <3>1, <3>3, OthersHandle
        <4>2. k \in DOMAIN messages[m]
          BY <4>1, InHand DEF HandledBy
        <4> QED BY <4>1, <4>2 DEF Handled
      <3> QED BY <3>2, <3>3
    <2>5. CASE k \in DOMAIN messages'[m] /\ messages'[m][k] = "deleted"
      <3>1. k \in DOMAIN messages[m] \/ (m = Input(p) /\ k = Len(messages[m]) + 1)
        <4>1. messages[m] \in Seq(States) /\ messages'[m] \in Seq(States)
          BY <1>1, RequestSent
        <4>2. DOMAIN messages'[m] = 1 .. Len(messages'[m]) /\ DOMAIN messages[m] = 1 .. Len(messages[m])
          BY <4>1
        <4> QED BY <1>1, <2>5, <4>2, RequestSent
      <3>2. messages[m][k] = "deleted" /\ k \in DOMAIN messages[m]
        BY <1>1, <2>5, <3>1, RequestSent
      <3> QED BY <3>2 DEF Handled
    <2> QED BY <2>4, <2>5 DEF Handled
  <1>2. ASSUME NEW p \in Processes, LeaveMessage(p) \/ Crash(p) PROVE Handled(m, k)
    <2>1. process' = [process EXCEPT ![p] = Idle] /\ UNCHANGED messages
      BY <1>2 DEF LeaveMessage, Crash
    <2>2. ~HandledBy(p, m, k)'
      BY <2>1, IdleType DEF HandledBy
    <2> QED BY <2>1, <2>2, OthersHandle DEF Handled
  <1>3. ASSUME NEW p \in Processes, StartWorkflow(p) \/ StartLost(p)
        PROVE  Handled(m, k) \/ NowHandled(m, k)
    <2>1. /\ process[p].phase = "received" /\ UNCHANGED messages
          /\ process' = [process EXCEPT ![p] = [process[p] EXCEPT !.phase = "done"]]
      BY <1>3 DEF StartWorkflow, StartLost, Starting
    <2>2. process[p].message = <<Input(p), Copy(p)>> /\ process[p] \in ProcessRecord
      BY <2>1, InHand
    <2>3. process'[p].message = <<Input(p), Copy(p)>>
      BY <2>1, <2>2, DoneType
    <2>4. CASE HandledBy(p, m, k)'
      BY <1>3, <2>1, <2>3, <2>4 DEF HandledBy, NowHandled
    <2>5. CASE ~HandledBy(p, m, k)'
      BY <2>1, <2>5, OthersHandle DEF Handled
    <2> QED BY <2>4, <2>5
  <1>4. ASSUME NEW p \in Processes, DeleteMessage(p) PROVE Handled(m, k) \/ NowHandled(m, k)
    <2>1. process[p].phase # "polling" /\ Delete(p)
      BY <1>4 DEF DeleteMessage, Decides
    <2>2. PICK state \in States : messages' = [messages EXCEPT ![Input(p)][Copy(p)] = state]
      BY <2>1, Deletion
    <2>3. process' = [process EXCEPT ![p] = Idle]
      BY <2>1, Deletion
    <2>4. /\ Input(p) \in Inputs /\ Copy(p) \in DOMAIN messages[Input(p)] /\ Copy(p) \in Nat
          /\ process[p].message = <<Input(p), Copy(p)>>
      BY <2>1, InHand
    <2>5. CASE m = Input(p) /\ k = Copy(p)
      BY <1>4, <2>4, <2>5 DEF DeleteMessage, Decides, Handled, HandledBy, NowHandled
    <2>6. CASE ~(m = Input(p) /\ k = Copy(p))
      <3>1. k \in DOMAIN messages'[m] => k \in DOMAIN messages[m] /\ messages'[m][k] = messages[m][k]
        BY <2>2, <2>4, <2>6, StateSet
      <3>2. ~HandledBy(p, m, k)'
        BY <2>3, IdleType DEF HandledBy
      <3> QED BY <2>3, <3>1, <3>2, OthersHandle DEF Handled
    <2> QED BY <2>5, <2>6
  <1>5. ASSUME NEW n \in Inputs, NEW l \in Nat, l \in DOMAIN messages[n], VisibilityTimeout(n, l)
        PROVE  Handled(m, k)
    <2>1. messages' = [messages EXCEPT ![n][l] = "waiting"] /\ "waiting" \in States
      BY <1>5 DEF VisibilityTimeout, States
    <2>2. \A q \in Processes : HandledBy(q, m, k)' <=> HandledBy(q, m, k)
      BY <1>5 DEF VisibilityTimeout, HandledBy, ProcessRecord
    <2>3. k \in DOMAIN messages'[m] /\ messages'[m][k] = "deleted"
          => k \in DOMAIN messages[m] /\ messages[m][k] = "deleted"
      BY <1>5, <2>1, StateSet
    <2>4. k \in DOMAIN messages'[m] => k \in DOMAIN messages[m]
      BY <1>5, <2>1, StateSet
    <2> QED BY <2>2, <2>3, <2>4 DEF Handled
  <1>6. ASSUME NEW n \in Inputs, NEW l \in Nat, l \in DOMAIN messages[n], NEW p \in Processes,
               Receive(p, n, l)
        PROVE  Handled(m, k)
    <2>1. messages' = [messages EXCEPT ![n][l] = "received"] /\ "received" \in States
      BY <1>6 DEF Receive, States
    <2>2. \A q \in Processes : HandledBy(q, m, k)' => HandledBy(q, m, k)
      BY <1>6 DEF Receive, HandledBy
    <2>3. k \in DOMAIN messages'[m] /\ messages'[m][k] = "deleted"
          => k \in DOMAIN messages[m] /\ messages[m][k] = "deleted"
      BY <1>6, <2>1, StateSet
    <2>4. k \in DOMAIN messages'[m] => k \in DOMAIN messages[m]
      BY <1>6, <2>1, StateSet
    <2> QED BY <2>2, <2>3, <2>4 DEF Handled
  <1>7. ASSUME UNCHANGED vars \/ \E n \in Inputs : CloseExecution(n) PROVE Handled(m, k)
    BY <1>7 DEF vars, CloseExecution, Handled, HandledBy
  <1>8. \A n \in Inputs : DOMAIN messages[n] \subseteq Nat
    OBVIOUS
  <1> QED BY <1>1, <1>2, <1>3, <1>4, <1>5, <1>6, <1>7, <1>8 DEF Next, ProcessStep

\* An input is on a queue of its own, a request on the starter's.
LEMMA HandledInput ==
    ASSUME TypeInv, NEW p \in Processes, process[p].phase = "received",
           SendRequest(p) \/ Decides(p, "drop")
    PROVE  /\ Copy(p) = 1
           /\ SendRequest(p) => "start" \in Verdicts(Input(p)) /\ Len(messages'[Input(p)]) > 1
           /\ Decides(p, "drop") => Verdicts(Input(p)) # {"start"}
  <1>1. /\ Input(p) \in Inputs /\ Copy(p) \in Nat
        /\ QueueOf(Input(p), Copy(p)) = Reads[p] /\ Reads[p] # "workflow_starter"
    BY InHand DEF SendRequest, Decides
  <1>2. Copy(p) = 1
    BY <1>1, QueuesApart
  <1>3. SendRequest(p) => "start" \in Verdicts(Input(p)) /\ Len(messages'[Input(p)]) > 1
    BY <1>1, RequestSent, Parts DEF SendRequest, Decides
  <1>4. "drop" # "start"
    OBVIOUS
  <1>5. Decides(p, "drop") => Verdicts(Input(p)) # {"start"}
    BY <1>4 DEF Decides
  <1> QED BY <1>2, <1>3, <1>5

LEMMA HandledRequest ==
    ASSUME TypeInv, NEW p \in Processes, StartWorkflow(p) \/ StartLost(p)
    PROVE  Input(p) \in Inputs /\ Copy(p) \in Nat /\ Copy(p) # 1 /\ tried'[Input(p)] > 0
  <1>1. /\ Input(p) \in Inputs /\ Copy(p) \in Nat /\ Copy(p) \in DOMAIN messages[Input(p)]
        /\ QueueOf(Input(p), Copy(p)) = Reads[p] /\ Reads[p] = "workflow_starter"
    BY InHand DEF StartWorkflow, StartLost, Starting
  <1>2. Copy(p) # 1
    BY <1>1, QueuesApart
  <1>3. StartWorkflow(p) => tried'[Input(p)] > 0
    BY <1>1, StartType DEF StartWorkflow
  <1>4. StartLost(p) => tried'[Input(p)] > 0
    BY <1>1, Parts DEF StartLost
  <1> QED BY <1>1, <1>2, <1>3, <1>4

LEMMA DropStep ==
    ASSUME TypeInv, DropInv, [Next]_vars
    PROVE  DropInv'
  <1> SUFFICES ASSUME NEW m \in Inputs, NEW k \in Nat, Handled(m, k)'
               PROVE  IF k = 1 THEN Verdicts(m) = {"start"} => Len(messages'[m]) > 1
                      ELSE tried'[m] > 0
    BY DEF DropInv, Verdicts
  <1>1. CASE Handled(m, k)
    <2>1. /\ Len(messages[m]) \in Nat /\ Len(messages'[m]) \in Nat
          /\ tried[m] \in Nat /\ tried'[m] \in Nat
      BY TypeStep, Parts DEF TypeInv, TypeOK
    <2> QED BY <1>1, <2>1, Grows DEF DropInv
  <1>2. CASE NowHandled(m, k)
    BY <1>2, HandledInput, HandledRequest DEF NowHandled
  <1> QED BY <1>1, <1>2, NewlyHandled

\* No process, however it ends, takes a message that calls for a workflow off
\* the queues before somebody tried to start it.
THEOREM NothingIsDropped == Spec => []NothingDropped
  <1>1. Init => DropInv
    BY DEF Init, DropInv, Handled, HandledBy, Idle
  <1>2. TypeInv /\ DropInv /\ [Next]_vars => DropInv'
    BY DropStep
  <1>3. TypeInv /\ DropInv => NothingDropped
    <2> SUFFICES ASSUME TypeInv, DropInv, NEW m \in Inputs, Verdicts(m) = {"start"}, Consumed(m)
                 PROVE  tried[m] > 0
      BY DEF NothingDropped
    <2>1. messages[m] \in Seq(States) /\ Len(messages[m]) > 0
      BY Parts
    <2>2. Handled(m, 1)
      BY <2>1 DEF Consumed, Handled
    <2>3. Len(messages[m]) > 1
      BY <2>2 DEF DropInv
    <2>4. Handled(m, 2)
      BY <2>1, <2>3 DEF Consumed, Handled
    <2> QED BY <2>4 DEF DropInv
  <1> QED BY <1>1, <1>2, <1>3, TypeInvHolds, PTL DEF Spec

LEMMA RequestCallsForStart ==
    ASSUME TypeInv, IngestInv, NEW p \in Processes, StartWorkflow(p) \/ StartLost(p)
    PROVE  "start" \in Verdicts(Input(p))
  <1>1. /\ Input(p) \in Inputs /\ Copy(p) \in DOMAIN messages[Input(p)] /\ Copy(p) # 1
    BY InHand, HandledRequest DEF StartWorkflow, StartLost, Starting
  <1>2. messages[Input(p)] \in Seq(States)
    BY <1>1, Parts
  <1>3. Len(messages[Input(p)]) > 1
    BY <1>1, <1>2
  <1> QED BY <1>1, <1>3 DEF IngestInv

LEMMA OpenStep ==
    ASSUME TypeInv, IngestInv, [Next]_vars
    PROVE  /\ \A m \in open' : started'[m] > 0
           /\ \A m \in Inputs : m \in open' => "start" \in Verdicts(m)
  <1> USE Parts
  <1>1. CASE open' \subseteq open
    <2>1. \A m \in open : started'[m] \in Nat /\ started[m] \in Nat
      BY TypeStep DEF TypeInv, TypeOK
    <2> QED BY <1>1, <2>1, Grows DEF IngestInv
  <1>2. ASSUME NEW p \in Processes, StartWorkflow(p), ~IsOpen(Input(p))
        PROVE  /\ \A m \in open' : started'[m] > 0
               /\ \A m \in Inputs : m \in open' => "start" \in Verdicts(m)
    <2>1. /\ open' = open \cup {Input(p)} /\ Input(p) \in Inputs
          /\ started' = [started EXCEPT ![Input(p)] = started[Input(p)] + 1]
      BY <1>2, HandledRequest DEF StartWorkflow, Start
    <2>2. "start" \in Verdicts(Input(p))
      BY <1>2, RequestCallsForStart
    <2> QED BY <2>1, <2>2 DEF IngestInv
  <1>3. ASSUME NEW p \in Processes, ProcessStep(p) \/ StartLost(p) \/ Crash(p)
        PROVE  open' = open \/ (StartWorkflow(p) /\ ~IsOpen(Input(p)))
    BY <1>3 DEF ProcessStep, SendRequest, LeaveMessage, DeleteMessage, Delete, StartWorkflow,
                Start, StartLost, Crash, swf
  <1>4. ASSUME \/ UNCHANGED vars
               \/ \E m \in Inputs :
                      \/ CloseExecution(m)
                      \/ \E k \in DOMAIN messages[m] :
                             \/ VisibilityTimeout(m, k)
                             \/ \E p \in Processes : Receive(p, m, k)
        PROVE  open' \subseteq open
    BY <1>4 DEF vars, CloseExecution, VisibilityTimeout, Receive, swf
  <1> QED BY <1>1, <1>2, <1>3, <1>4 DEF Next

\* Only SendRequest makes a message longer, for an input that calls for it.
LEMMA LongerStep ==
    ASSUME TypeInv, IngestInv, [Next]_vars, NEW m \in Inputs, Len(messages'[m]) > 1
    PROVE  "start" \in Verdicts(m)
  <1> USE Parts
  <1>1. CASE Len(messages'[m]) = Len(messages[m])
    BY <1>1 DEF IngestInv
  <1>2. ASSUME NEW p \in Processes, SendRequest(p) PROVE "start" \in Verdicts(m)
    <2>1. CASE m = Input(p)
      BY <1>2, <2>1 DEF SendRequest, Decides
    <2>2. CASE m # Input(p)
      BY <1>1, <1>2, <2>2, RequestSent
    <2> QED BY <2>1, <2>2
  <1>3. ASSUME NEW p \in Processes, DeleteMessage(p) PROVE Len(messages'[m]) = Len(messages[m])
    <2>1. process[p].phase # "polling" /\ Delete(p)
      BY <1>3 DEF DeleteMessage, Decides
    <2>2. PICK state \in States : messages' = [messages EXCEPT ![Input(p)][Copy(p)] = state]
      BY <2>1, Deletion
    <2> QED BY <2>1, <2>2, InHand, StateSet
  <1>4. ASSUME NEW n \in Inputs, NEW k \in DOMAIN messages[n],
               VisibilityTimeout(n, k) \/ \E p \in Processes : Receive(p, n, k)
        PROVE  Len(messages'[m]) = Len(messages[m])
    <2>1. PICK state \in States : messages' = [messages EXCEPT ![n][k] = state]
      BY <1>4 DEF VisibilityTimeout, Receive, States
    <2> QED BY <2>1, StateSet
  <1>5. ASSUME \/ UNCHANGED vars
               \/ \E n \in Inputs : CloseExecution(n)
               \/ \E p \in Processes :
                      LeaveMessage(p) \/ StartWorkflow(p) \/ StartLost(p) \/ Crash(p)
        PROVE  messages' = messages
    BY <1>5 DEF vars, CloseExecution, LeaveMessage, StartWorkflow, StartLost, Crash
  <1> QED BY <1>1, <1>2, <1>3, <1>4, <1>5 DEF Next, ProcessStep

\* A request is answered with a start, by itself or by what was in its way.
LEMMA StartIngests ==
    ASSUME TypeInv, IngestInv, NEW p \in Processes, StartWorkflow(p), NEW m, m = Input(p)
    PROVE  Ingested(m)'
  <1>1. Input(p) \in Inputs /\ Start(Input(p)) /\ "start" \in Verdicts(Input(p))
    BY HandledRequest, RequestCallsForStart DEF StartWorkflow
  <1>2. \E n \in Inputs : /\ workflow_id(n) = workflow_id(Input(p)) /\ "start" \in Verdicts(n)
                          /\ started'[n] > 0
    <2>1. CASE IsOpen(Input(p))
      <3>1. PICK n \in open : workflow_id(n) = workflow_id(Input(p))
        BY <2>1 DEF IsOpen
      <3>2. n \in Inputs /\ started'[n] = started[n]
        BY <1>1, <2>1, Parts DEF Start
      <3> QED BY <3>1, <3>2 DEF IngestInv
    <2>2. CASE ~IsOpen(Input(p))
      <3>1. started' = [started EXCEPT ![Input(p)] = started[Input(p)] + 1]
        BY <1>1, <2>2 DEF Start
      <3>2. started'[Input(p)] > 0
        BY <1>1, <3>1, Parts
      <3> QED BY <1>1, <3>2
    <2> QED BY <2>1, <2>2
  <1>3. PICK n \in Inputs : /\ workflow_id(n) = workflow_id(Input(p)) /\ "start" \in Verdicts(n)
                            /\ started'[n] > 0
    BY <1>2
  <1> QED BY <1>3 DEF Ingested

LEMMA IngestStep ==
    ASSUME TypeInv, IngestInv, [Next]_vars
    PROVE  IngestInv'
  <1>1. ASSUME NEW m \in Inputs, NEW k \in Nat, k # 1, Handled(m, k)'
        PROVE  m \in lost' \/ Ingested(m)'
    <2>1. CASE Handled(m, k)
      <3>1. m \in lost \/ Ingested(m)
        BY <1>1, <2>1 DEF IngestInv
      <3>2. \A n \in Inputs : started[n] > 0 => started'[n] > 0
        <4>1. \A n \in Inputs : started'[n] \in Nat /\ started[n] \in Nat
          BY TypeStep DEF TypeInv, TypeOK
        <4> QED BY <4>1, Grows
      <3> QED BY <3>1, <3>2, Grows DEF Ingested
    <2>2. CASE NowHandled(m, k)
      <3>1. PICK p \in Processes :
                /\ process[p].phase = "received" /\ m = Input(p) /\ k = Copy(p)
                /\ SendRequest(p) \/ Decides(p, "drop") \/ StartWorkflow(p) \/ StartLost(p)
        BY <2>2 DEF NowHandled
      <3>2. StartWorkflow(p) \/ StartLost(p)
        BY <1>1, <3>1, HandledInput
      <3>3. StartLost(p) => m \in lost'
        BY <3>1 DEF StartLost
      <3> QED BY <3>1, <3>2, <3>3, StartIngests
    <2> QED BY <1>1, <2>1, <2>2, NewlyHandled
  <1>2. \A m \in Inputs : m \in open' \/ Len(messages'[m]) > 1 => "start" \in Verdicts(m)
    BY OpenStep, LongerStep
  <1>3. \A m \in open' : started'[m] > 0
    BY OpenStep
  <1> QED BY <1>1, <1>2, <1>3 DEF IngestInv, Verdicts

\* A file or an article whose messages were all handled was ingested once at
\* least, whatever SWF refused meanwhile, if no call to start it was lost.
THEOREM IngestsHappen == Spec => []IngestedAtLeastOnce
  <1>1. Init => IngestInv
    <2>1. \A m \in Inputs : Len(<<"waiting">>) = 1
      OBVIOUS
    <2> QED BY <2>1 DEF Init, IngestInv, Handled, HandledBy, Idle
  <1>2. TypeInv /\ IngestInv /\ [Next]_vars => IngestInv'
    BY IngestStep
  <1>3. TypeInv /\ DropInv /\ IngestInv => IngestedAtLeastOnce
    <2> SUFFICES ASSUME TypeInv, DropInv, IngestInv, NEW m \in Inputs
                 PROVE  LET same == {n \in Inputs : Verdicts(n) = {"start"}
                                                    /\ workflow_id(n) = workflow_id(m)}
                        IN m \in same /\ (\A n \in same : Consumed(n)) /\ same \cap lost = {} =>
                               \E n \in same : started[n] > 0
      BY DEF IngestedAtLeastOnce
    <2> DEFINE same == {n \in Inputs : Verdicts(n) = {"start"}
                                       /\ workflow_id(n) = workflow_id(m)}
    <2>1. ASSUME m \in same, \A n \in same : Consumed(n), same \cap lost = {}
          PROVE  \E n \in same : started[n] > 0
      <3>1. messages[m] \in Seq(States) /\ Len(messages[m]) > 0
        BY Parts
      <3>2. Handled(m, 1)
        BY <2>1, <3>1 DEF Consumed, Handled
      <3>3. Len(messages[m]) > 1
        BY <2>1, <3>2 DEF DropInv
      <3>4. Handled(m, 2) /\ m \notin lost
        BY <2>1, <3>1, <3>3 DEF Consumed, Handled
      <3>5. Ingested(m)
        BY <3>4 DEF IngestInv
      <3>6. PICK n \in Inputs : /\ workflow_id(n) = workflow_id(m) /\ "start" \in Verdicts(n)
                                /\ started[n] > 0
        BY <3>5 DEF Ingested
      <3>7. Verdicts(n) = {"start"}
        BY <2>1, <3>6, SameIdSameVerdict
      <3> QED BY <3>6, <3>7
    <2> QED BY <2>1
  <1>4. Init => DropInv
    BY DEF Init, DropInv, Handled, HandledBy, Idle
  <1>5. TypeInv /\ DropInv /\ [Next]_vars => DropInv'
    BY DropStep
  <1> QED BY <1>1, <1>2, <1>3, <1>4, <1>5, TypeInvHolds, PTL DEF Spec

-----------------------------------------------------------------------------
(* Repeats.                                                                  *)

LEMMA CountedStates ==
    ASSUME NEW s \in Seq(States), NEW S \in SUBSET DOMAIN s
    PROVE  IsFiniteSet(S) /\ Cardinality(S) \in Nat
  <1>1. Len(s) \in Nat /\ DOMAIN s = 1 .. Len(s)
    OBVIOUS
  <1>2. IsFiniteSet(1 .. Len(s))
    BY <1>1, FS_Interval
  <1>3. IsFiniteSet(S)
    BY <1>1, <1>2, FS_Subset
  <1> QED BY <1>3, FS_CardinalityType

LEMMA CountedProcesses ==
    ASSUME NEW S \in SUBSET Processes
    PROVE  IsFiniteSet(S) /\ Cardinality(S) \in Nat
  <1>1. IsFiniteSet(S)
    BY IntakeAssumption, FS_Subset
  <1> QED BY <1>1, FS_CardinalityType

LEMMA Counted ==
    ASSUME TypeInv, TypeInv', NEW m \in Inputs
    PROVE  /\ IsFiniteSet(Workers(m)) /\ Cardinality(Workers(m)) \in Nat
           /\ IsFiniteSet(Workers(m)') /\ Cardinality(Workers(m)') \in Nat
           /\ IsFiniteSet(Loose(m)) /\ Cardinality(Loose(m)) \in Nat
           /\ IsFiniteSet(Loose(m)') /\ Cardinality(Loose(m)') \in Nat
           /\ tried[m] \in Nat /\ tried'[m] \in Nat /\ faults \in Nat /\ faults' \in Nat
  <1>1. messages[m] \in Seq(States) /\ messages'[m] \in Seq(States)
    BY DEF TypeInv, TypeOK, States
  <1>2. Loose(m) \in SUBSET DOMAIN messages[m] /\ Loose(m)' \in SUBSET DOMAIN messages'[m]
    BY DEF Loose
  <1>3. Workers(m) \in SUBSET Processes /\ Workers(m)' \in SUBSET Processes
    BY DEF Workers
  <1>4. IsFiniteSet(Loose(m)) /\ Cardinality(Loose(m)) \in Nat
    BY <1>1, <1>2, CountedStates
  <1>5. IsFiniteSet(Loose(m)') /\ Cardinality(Loose(m)') \in Nat
    BY <1>1, <1>2, CountedStates
  <1>6. tried[m] \in Nat /\ tried'[m] \in Nat /\ faults \in Nat /\ faults' \in Nat
    BY IntakeAssumption DEF TypeInv, TypeOK
  <1> QED BY <1>3, <1>4, <1>5, <1>6, CountedProcesses

LEMMA NoneJoins ==
    ASSUME NEW S, NEW T, IsFiniteSet(S), IsFiniteSet(T), T \subseteq S
    PROVE  Cardinality(T) <= Cardinality(S)
  BY FS_Subset

LEMMA OneLeaves ==
    ASSUME NEW S, NEW T, NEW x \in S, IsFiniteSet(S), IsFiniteSet(T), T \subseteq S \ {x}
    PROVE  Cardinality(T) + 1 <= Cardinality(S)
  <1>1. IsFiniteSet(S \ {x}) /\ Cardinality(S \ {x}) = Cardinality(S) - 1
    BY FS_RemoveElement
  <1>2. Cardinality(T) <= Cardinality(S \ {x})
    BY <1>1, NoneJoins
  <1> QED BY <1>1, <1>2, FS_CardinalityType

LEMMA OneJoins ==
    ASSUME NEW S, NEW T, NEW x, IsFiniteSet(S), IsFiniteSet(T), T \subseteq S \cup {x}
    PROVE  Cardinality(T) <= Cardinality(S) + 1
  <1> DEFINE U == S \cup {x}
  <1>1. /\ IsFiniteSet(U) /\ Cardinality(S) \in Nat
        /\ Cardinality(U) = IF x \in S THEN Cardinality(S) ELSE Cardinality(S) + 1
    BY FS_AddElement, FS_CardinalityType
  <1>2. Cardinality(T) <= Cardinality(U) /\ Cardinality(T) \in Nat
    BY <1>1, NoneJoins, FS_CardinalityType
  <1> HIDE DEF U
  <1> QED BY <1>1, <1>2

\* A process that stops looking at a message is one that may answer it less.
LEMMA WorkersLeave ==
    ASSUME TypeInv, TypeInv', NEW m \in Inputs, NEW p \in Processes,
           \A q \in Processes : q # p => process'[q] = process[q],
           process'[p].phase # "received"
    PROVE  /\ Cardinality(Workers(m)') <= Cardinality(Workers(m))
           /\ process[p].phase = "received" /\ Input(p) = m =>
                  Cardinality(Workers(m)') + 1 <= Cardinality(Workers(m))
  <1>1. Workers(m)' \subseteq Workers(m) \ {p}
    BY DEF Workers, Input
  <1>2. IsFiniteSet(Workers(m)) /\ IsFiniteSet(Workers(m)')
    BY Counted
  <1>3. Cardinality(Workers(m)') <= Cardinality(Workers(m))
    BY <1>1, <1>2, NoneJoins
  <1>4. ASSUME process[p].phase = "received", Input(p) = m
        PROVE  Cardinality(Workers(m)') + 1 <= Cardinality(Workers(m))
    <2>1. p \in Workers(m)
      BY <1>4 DEF Workers
    <2> QED BY <1>1, <1>2, <2>1, OneLeaves
  <1> QED BY <1>3, <1>4

\* A process holds no message but the one in its hands.
LEMMA HeldByOthers ==
    ASSUME TypeInv, NEW p \in Processes, NEW m \in Inputs, NEW k \in Nat,
           \A q \in Processes : q # p => process'[q] = process[q],
           ~Holds(p, m, k), Held(m, k)
    PROVE  Held(m, k)'
  <1>1. PICK q \in Processes : Holds(q, m, k)
    BY DEF Held
  <1>2. q # p
    BY <1>1
  <1>3. Holds(q, m, k)'
    BY <1>1, <1>2 DEF Holds
  <1> QED BY <1>3 DEF Held

\* A process that lets go of its message lets others have that one only.
LEMMA LetsGo ==
    ASSUME TypeInv, TypeInv', NEW m \in Inputs, NEW p \in Processes, process[p].phase # "polling",
           \A q \in Processes : q # p => process'[q] = process[q],
           UNCHANGED messages
    PROVE  /\ Cardinality(Loose(m)') <= Cardinality(Loose(m)) + 1
           /\ m # Input(p) => Cardinality(Loose(m)') <= Cardinality(Loose(m))
  <1>1. ASSUME NEW k \in Loose(m)', k \notin Loose(m)
        PROVE  m = Input(p) /\ k = Copy(p)
    <2>1. /\ k \in Nat /\ k \in DOMAIN messages[m] /\ messages[m][k] = "received"
          /\ Held(m, k) /\ ~Held(m, k)'
      BY <1>1, Parts DEF Loose
    <2>2. Holds(p, m, k)
      BY <2>1, HeldByOthers
    <2> QED BY <2>2 DEF Holds, Input, Copy
  <1>2. IsFiniteSet(Loose(m)) /\ IsFiniteSet(Loose(m)')
    BY Counted
  <1>3. Cardinality(Loose(m)') <= Cardinality(Loose(m)) + 1
    <2>1. Loose(m)' \subseteq Loose(m) \cup {Copy(p)}
      BY <1>1
    <2> QED BY <1>2, <2>1, OneJoins
  <1>4. m # Input(p) => Cardinality(Loose(m)') <= Cardinality(Loose(m))
    <2>1. m # Input(p) => Loose(m)' \subseteq Loose(m)
      BY <1>1
    <2> QED BY <1>2, <2>1, NoneJoins
  <1> QED BY <1>3, <1>4

\* A process that keeps its message keeps it from others.
LEMMA HoldsOn ==
    ASSUME TypeInv, TypeInv', NEW m \in Inputs, NEW p \in Processes,
           process' = [process EXCEPT ![p].phase = "done"], process[p].phase # "polling"
    PROVE  /\ \A q \in Processes : q # p => process'[q] = process[q]
           /\ process'[p].phase = "done"
           /\ \A k : Held(m, k)' <=> Held(m, k)
  <1>1. process \in [Processes -> ProcessRecord] /\ process[p] \in ProcessRecord
    BY Parts
  <1>2. /\ \A q \in Processes : q # p => process'[q] = process[q]
        /\ process'[p] = [process[p] EXCEPT !.phase = "done"]
    BY <1>1
  <1>3. /\ process'[p].phase = "done" /\ process'[p].message = process[p].message
        /\ process'[p].receipt = process[p].receipt
    BY <1>1, <1>2 DEF ProcessRecord
  <1>4. \A k : \A q \in Processes : Holds(q, m, k)' <=> Holds(q, m, k)
    <2> SUFFICES ASSUME NEW k, NEW q \in Processes PROVE Holds(q, m, k)' <=> Holds(q, m, k)
      OBVIOUS
    <2>1. CASE q = p
      BY <1>3, <2>1 DEF Holds
    <2>2. CASE q # p
      BY <1>2, <2>2 DEF Holds
    <2> QED BY <2>1, <2>2
  <1> QED BY <1>2, <1>3, <1>4 DEF Held

\* What a step changes of the budget of an input.
Kept(m) ==
    tried'[m] + Cardinality(Workers(m)') + Cardinality(Loose(m)') + faults
        <= tried[m] + Cardinality(Workers(m)) + Cardinality(Loose(m)) + faults'

LEMMA ReceiveKeeps ==
    ASSUME TypeInv, TypeInv', NEW m \in Inputs, NEW n \in Inputs, NEW l \in DOMAIN messages[n],
           NEW p \in Processes, Receive(p, n, l)
    PROVE  Kept(m)
  <1>1. /\ messages' = [messages EXCEPT ![n][l] = "received"] /\ "received" \in States
        /\ messages[n][l] = "waiting" /\ process[p].phase = "polling"
        /\ process' = [process EXCEPT ![p] =
               [phase |-> "received", message |-> <<n, l>>, receipt |-> TRUE]]
        /\ UNCHANGED <<swf, faults>>
    BY DEF Receive, States
  <1>2. /\ \A q \in Processes : q # p => process'[q] = process[q]
        /\ process'[p] = [phase |-> "received", message |-> <<n, l>>, receipt |-> TRUE]
    BY <1>1, Parts
  <1>3. Input(p)' = n /\ Holds(p, n, l)'
    BY <1>2 DEF Input, Holds
  <1>4. Workers(m)' \subseteq Workers(m) \cup {p} /\ (m # n => Workers(m)' \subseteq Workers(m))
    BY <1>2, <1>3 DEF Workers, Input
  <1>5. Loose(m)' \subseteq Loose(m) /\ (m = n => Loose(m)' \subseteq Loose(m) \ {l})
    <2> SUFFICES ASSUME NEW k \in Loose(m)' PROVE k \in Loose(m) /\ <<m, k>> # <<n, l>>
      OBVIOUS
    <2>1. k \in DOMAIN messages[m] /\ k \in Nat
      BY <1>1, StateSet, Parts DEF Loose
    <2>2. <<m, k>> # <<n, l>>
      <3>1. messages'[n][l] = "received" /\ Held(n, l)'
        BY <1>1, <1>3, StateSet DEF Held
      <3> QED BY <3>1 DEF Loose
    <2>3. messages'[m][k] = messages[m][k]
      BY <1>1, <2>1, <2>2, StateSet
    <2>4. Held(m, k) => Held(m, k)'
      <3>1. ~Holds(p, m, k)
        BY <1>1 DEF Holds
      <3> QED BY <1>2, <2>1, <3>1, HeldByOthers
    <2> QED BY <2>1, <2>2, <2>3, <2>4 DEF Loose
  <1>6. m = n => l \in Loose(m)
    BY <1>1 DEF Loose
  <1>7. CASE m = n
    <2>1. Cardinality(Workers(m)') <= Cardinality(Workers(m)) + 1
      BY <1>4, Counted, OneJoins
    <2>2. Cardinality(Loose(m)') + 1 <= Cardinality(Loose(m))
      BY <1>5, <1>6, <1>7, Counted, OneLeaves
    <2> QED BY <1>1, <2>1, <2>2, Counted DEF Kept, swf
  <1>8. CASE m # n
    <2>1. Cardinality(Workers(m)') <= Cardinality(Workers(m))
      BY <1>4, <1>8, Counted, NoneJoins
    <2>2. Cardinality(Loose(m)') <= Cardinality(Loose(m))
      BY <1>5, Counted, NoneJoins
    <2> QED BY <1>1, <2>1, <2>2, Counted DEF Kept, swf
  <1> QED BY <1>7, <1>8

LEMMA TimeoutKeeps ==
    ASSUME TypeInv, TypeInv', NEW m \in Inputs, NEW n \in Inputs, NEW l \in DOMAIN messages[n],
           VisibilityTimeout(n, l)
    PROVE  Kept(m)
  <1>1. /\ messages' = [messages EXCEPT ![n][l] = "waiting"] /\ "waiting" \in States
        /\ messages[n][l] = "received"
        /\ process' = [p \in Processes |->
               IF Holds(p, n, l) THEN [process[p] EXCEPT !.receipt = FALSE] ELSE process[p]]
        /\ UNCHANGED swf
        /\ IF Held(n, l) THEN faults' = faults + 1 ELSE faults' = faults
    BY DEF VisibilityTimeout, States, Fault
  <1>2. \A q \in Processes : /\ process'[q].phase = process[q].phase
                             /\ process'[q].message = process[q].message
                             /\ ~Holds(q, n, l) => process'[q] = process[q]
    BY <1>1, Parts DEF ProcessRecord
  <1>3. Workers(m)' \subseteq Workers(m)
    BY <1>2 DEF Workers, Input
  <1>4. ASSUME NEW k \in Loose(m)', k \notin Loose(m)
        PROVE  m = n /\ k = l
    <2>1. k \in DOMAIN messages[m] /\ k \in Nat
      BY <1>1, <1>4, StateSet, Parts DEF Loose
    <2>2. CASE <<m, k>> # <<n, l>>
      <3>1. messages'[m][k] = messages[m][k]
        BY <1>1, <2>1, <2>2, StateSet
      <3>2. Held(m, k)
        BY <1>4, <2>1, <3>1 DEF Loose
      <3>3. PICK q \in Processes : Holds(q, m, k)
        BY <3>2 DEF Held
      <3>4. ~Holds(q, n, l)
        BY <2>2, <3>3 DEF Holds
      <3>5. Holds(q, m, k)'
        BY <1>2, <3>3, <3>4 DEF Holds
      <3> QED BY <1>4, <2>1, <3>1, <3>2, <3>5 DEF Loose, Held
    <2> QED BY <2>2
  <1>5. ~Held(n, l) => l \in Loose(n)
    BY <1>1 DEF Loose
  <1>6. Cardinality(Workers(m)') <= Cardinality(Workers(m))
    BY <1>3, Counted, NoneJoins
  <1>7. CASE Held(n, l)
    <2>1. Loose(m)' \subseteq Loose(m) \cup {l}
      BY <1>4
    <2>2. Cardinality(Loose(m)') <= Cardinality(Loose(m)) + 1
      BY <2>1, Counted, OneJoins
    <2> QED BY <1>1, <1>6, <1>7, <2>2, Counted DEF Kept, swf
  <1>8. CASE ~Held(n, l)
    <2>1. Loose(m)' \subseteq Loose(m)
      BY <1>4, <1>5, <1>8
    <2>2. Cardinality(Loose(m)') <= Cardinality(Loose(m))
      BY <2>1, Counted, NoneJoins
    <2> QED BY <1>1, <1>6, <1>8, <2>2, Counted DEF Kept, swf
  <1> QED BY <1>7, <1>8

LEMMA RequestKeeps ==
    ASSUME TypeInv, TypeInv', NEW m \in Inputs, NEW p \in Processes, SendRequest(p)
    PROVE  Kept(m)
  <1>1. /\ process[p].phase = "received" /\ process[p].phase # "polling"
        /\ process' = [process EXCEPT ![p].phase = "done"] /\ UNCHANGED <<swf, faults>>
    BY DEF SendRequest, Decides
  <1>2. /\ \A q \in Processes : q # p => process'[q] = process[q]
        /\ process'[p].phase # "received"
        /\ \A k : Held(m, k)' <=> Held(m, k)
    BY <1>1, HoldsOn
  <1>3. CASE m = Input(p)
    <2>1. messages[m] \in Seq(States) /\ messages'[m] \in Seq(States)
      BY Parts, RequestSent
    <2>2. Loose(m)' \subseteq Loose(m) \cup {Len(messages[m]) + 1}
      BY <1>2, <1>3, <2>1, RequestSent DEF Loose
    <2>3. Cardinality(Loose(m)') <= Cardinality(Loose(m)) + 1
      BY <2>2, Counted, OneJoins
    <2>4. Cardinality(Workers(m)') + 1 <= Cardinality(Workers(m))
      BY <1>1, <1>2, <1>3, WorkersLeave
    <2> QED BY <1>1, <2>3, <2>4, Counted DEF Kept, swf
  <1>4. CASE m # Input(p)
    <2>1. messages'[m] = messages[m]
      BY <1>4, RequestSent
    <2>2. Loose(m)' = Loose(m)
      BY <1>2, <2>1 DEF Loose
    <2>3. Cardinality(Workers(m)') <= Cardinality(Workers(m))
      BY <1>2, WorkersLeave
    <2> QED BY <1>1, <2>2, <2>3, Counted DEF Kept, swf
  <1> QED BY <1>3, <1>4

LEMMA LettingGoKeeps ==
    ASSUME TypeInv, TypeInv', NEW m \in Inputs, NEW p \in Processes, LeaveMessage(p) \/ Crash(p)
    PROVE  Kept(m)
  <1>1. /\ process[p].phase # "polling" /\ process' = [process EXCEPT ![p] = Idle]
        /\ UNCHANGED <<messages, swf>>
        /\ faults' = faults + 1 \/ (faults' = faults /\ process[p].phase = "received")
    BY DEF LeaveMessage, Crash, Decides, Fault
  <1>2. /\ \A q \in Processes : q # p => process'[q] = process[q]
        /\ process'[p].phase # "received"
    BY <1>1, IdleType, Parts
  <1>3. /\ Cardinality(Workers(m)') <= Cardinality(Workers(m))
        /\ process[p].phase = "received" /\ Input(p) = m =>
               Cardinality(Workers(m)') + 1 <= Cardinality(Workers(m))
    BY <1>2, WorkersLeave
  <1>4. /\ Cardinality(Loose(m)') <= Cardinality(Loose(m)) + 1
        /\ m # Input(p) => Cardinality(Loose(m)') <= Cardinality(Loose(m))
    BY <1>1, <1>2, LetsGo
  <1> QED BY <1>1, <1>3, <1>4, Counted DEF Kept, swf

LEMMA StartKeeps ==
    ASSUME TypeInv, TypeInv', NEW m \in Inputs, NEW p \in Processes,
           StartWorkflow(p) \/ StartLost(p)
    PROVE  Kept(m)
  <1>1. /\ process[p].phase = "received" /\ process[p].phase # "polling"
        /\ process' = [process EXCEPT ![p].phase = "done"]
        /\ tried' = [tried EXCEPT ![Input(p)] = tried[Input(p)] + 1]
        /\ messages' = messages
    BY DEF StartWorkflow, StartLost, Starting, Start
  <1>2. faults' \in Nat /\ faults' >= faults
    <2>1. faults \in Nat
      BY Parts
    <2> QED BY <2>1 DEF StartWorkflow, StartLost, Fault
  <1>3. /\ \A q \in Processes : q # p => process'[q] = process[q]
        /\ process'[p].phase # "received"
        /\ \A k : Held(m, k)' <=> Held(m, k)
    BY <1>1, HoldsOn
  <1>4. Loose(m)' = Loose(m)
    BY <1>1, <1>3 DEF Loose
  <1>5. /\ Cardinality(Workers(m)') <= Cardinality(Workers(m))
        /\ Input(p) = m => Cardinality(Workers(m)') + 1 <= Cardinality(Workers(m))
    BY <1>1, <1>3, WorkersLeave
  <1>6. /\ tried[m] \in Nat /\ m # Input(p) => tried'[m] = tried[m]
        /\ m = Input(p) => tried'[m] = tried[m] + 1
    BY <1>1, Parts
  <1>7. tried[m] \in Nat
    BY Parts
  <1> QED BY <1>2, <1>4, <1>5, <1>6, <1>7, Counted DEF Kept

LEMMA DeleteKeeps ==
    ASSUME TypeInv, TypeInv', NEW m \in Inputs, NEW p \in Processes, DeleteMessage(p)
    PROVE  Kept(m)
  <1>1. process[p].phase # "polling" /\ Delete(p)
    BY DEF DeleteMessage, Decides
  <1>2. PICK state \in IF process[p].receipt THEN {"deleted"}
                       ELSE {"deleted", messages[Input(p)][Copy(p)]} :
            messages' = [messages EXCEPT ![Input(p)][Copy(p)] = state]
    BY <1>1 DEF Delete
  <1>3. process' = [process EXCEPT ![p] = Idle] /\ UNCHANGED <<swf, faults>>
    BY <1>1, Deletion
  <1>4. /\ \A q \in Processes : q # p => process'[q] = process[q]
        /\ process'[p].phase # "received"
    BY <1>3, IdleType, Parts
  <1>5. Input(p) \in Inputs /\ Copy(p) \in DOMAIN messages[Input(p)] /\ state \in States
    BY <1>1, <1>2, InHand, Parts DEF States
  <1>6. Loose(m)' \subseteq Loose(m)
    <2> SUFFICES ASSUME NEW k \in Loose(m)' PROVE k \in Loose(m)
      OBVIOUS
    <2>1. k \in DOMAIN messages[m] /\ k \in Nat
      BY <1>2, <1>5, StateSet, Parts DEF Loose
    <2>2. messages'[m][k] # "deleted"
      BY DEF Loose
    <2>3. messages'[m][k] = messages[m][k] /\ ~Holds(p, m, k)
      <3>1. CASE <<m, k>> = <<Input(p), Copy(p)>>
        <4>1. messages'[Input(p)][Copy(p)] = state
          BY <1>2, <1>5, StateSet
        <4> QED BY <1>2, <2>2, <3>1, <4>1 DEF Holds
      <3>2. CASE <<m, k>> # <<Input(p), Copy(p)>>
        <4>1. ~Holds(p, m, k)
          BY <1>1, <3>2, InHand DEF Holds
        <4> QED BY <1>2, <1>5, <2>1, <3>2, <4>1, StateSet
      <3> QED BY <3>1, <3>2
    <2>4. Held(m, k) => Held(m, k)'
      BY <1>4, <2>1, <2>3, HeldByOthers
    <2> QED BY <2>1, <2>3, <2>4 DEF Loose
  <1>7. Cardinality(Loose(m)') <= Cardinality(Loose(m))
    BY <1>6, Counted, NoneJoins
  <1>8. Cardinality(Workers(m)') <= Cardinality(Workers(m))
    BY <1>4, WorkersLeave
  <1> QED BY <1>3, <1>7, <1>8, Counted DEF Kept, swf

LEMMA RepeatStep ==
    ASSUME TypeInv, RepeatInv, [Next]_vars
    PROVE  RepeatInv'
  <1>1. TypeInv'
    BY TypeStep
  <1>2. ASSUME NEW m \in Inputs PROVE Kept(m)
    <2>1. ASSUME UNCHANGED vars \/ \E n \in Inputs : CloseExecution(n) PROVE Kept(m)
      <3>1. UNCHANGED <<messages, process, tried, faults>>
        BY <2>1 DEF vars, swf, CloseExecution
      <3>2. Workers(m)' = Workers(m) /\ Loose(m)' = Loose(m)
        BY <3>1 DEF Workers, Loose, Input, Held, Holds
      <3> QED BY <1>1, <3>1, <3>2, Counted DEF Kept
    <2> QED BY <1>1, <2>1, ReceiveKeeps, TimeoutKeeps, RequestKeeps, LettingGoKeeps, StartKeeps,
               DeleteKeeps DEF Next, ProcessStep
  <1>3. ASSUME NEW m \in Inputs
        PROVE  tried'[m] + Cardinality(Workers(m)') + Cardinality(Loose(m)') <= 1 + faults'
    <2>1. tried'[m] \in Nat /\ faults' \in Nat
      BY <1>1 DEF TypeInv, TypeOK
    <2>2. tried[m] + Cardinality(Workers(m)) + Cardinality(Loose(m)) <= 1 + faults
      BY DEF RepeatInv
    <2> QED BY <1>1, <1>2, <2>1, <2>2, Counted DEF Kept
  <1> QED BY <1>3 DEF RepeatInv

\* Nobody tries to start the workflow of a message once more than there were
\* faults, with both hops and any number of processes on each queue.
THEOREM RepeatsNeedFaults == Spec => []RepeatsAreFaults
  <1>1. Init => RepeatInv
    <2> SUFFICES ASSUME Init, NEW m \in Inputs
                 PROVE  tried[m] + Cardinality(Workers(m)) + Cardinality(Loose(m)) <= 1 + faults
      BY DEF RepeatInv
    <2>1. Workers(m) = {}
      BY DEF Init, Workers, Idle
    <2>2. Loose(m) = {1}
      BY DEF Init, Loose
    <2>3. Cardinality(Workers(m)) = 0 /\ Cardinality(Loose(m)) = 1
      BY <2>1, <2>2, FS_EmptySet, FS_Singleton
    <2> QED BY <2>3 DEF Init
  <1>2. TypeInv /\ RepeatInv /\ [Next]_vars => RepeatInv'
    BY RepeatStep
  <1>3. TypeInv /\ TypeInv' /\ RepeatInv => RepeatsAreFaults
    BY Counted, Parts DEF RepeatInv, RepeatsAreFaults
  <1> QED BY <1>1, <1>2, <1>3, TypeInvHolds, PTL DEF Spec
=============================================================================
