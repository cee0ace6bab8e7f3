------------------------- MODULE CronSchedulerProofs -------------------------
(***************************************************************************)
(* Proofs about CronScheduler, for any workflow_ids of the schedule, passes *)
(* and number of faults.                                                    *)
(***************************************************************************)
EXTENDS CronScheduler, TLAPS, FiniteSetTheorems, WellFoundedInduction

-----------------------------------------------------------------------------
(* The schedule.                                                             *)

Jobs == DOMAIN Schedule

LEMMA ScheduleFacts ==
    Jobs \subseteq Nat /\ \A n \in Jobs : Schedule[n].apart \in Nat
  BY DEF Jobs, Schedule, Daily, Job

Before == {pair \in Nat \X Nat : pair[1] < pair[2]}

LEMMA BeforeIsWellFounded == IsWellFoundedOn(Before, Nat)
  BY NatLessThanWellFounded, Zenon DEF OpToRel, Before

\* The jobs are looked at in the order of the schedule.
LEMMA FirstPlace ==
    ASSUME NEW p, pass[p].todo # {}, pass[p].todo \subseteq Jobs
    PROVE  Place(p) \in pass[p].todo /\ \A k \in pass[p].todo : Place(p) <= k
  <1>1. PICK n \in pass[p].todo : \A k \in pass[p].todo : <<k, n>> \notin Before
    BY ScheduleFacts, BeforeIsWellFounded, WFMin, Zenon
  <1>2. \A k \in pass[p].todo : k \in Nat /\ n \in Nat
    BY ScheduleFacts
  <1>3. \A k \in pass[p].todo : n <= k
    <2> TAKE k \in pass[p].todo
    <2>1. <<k, n>> \in Nat \X Nat /\ ~ (<<k, n>>[1] < <<k, n>>[2])
      BY <1>1, <1>2 DEF Before
    <2> QED BY <1>2, <2>1
  <1> QED BY <1>3 DEF Place

-----------------------------------------------------------------------------
(* Types.                                                                    *)

PassType(p) ==
    /\ DOMAIN pass[p] = {"todo", "go"} /\ pass[p].go \in BOOLEAN
    /\ pass[p].todo \subseteq {n \in Jobs : Schedule[n].id \in Ids}
    /\ pass[p].go => Running(p)

ExecutionsType(id) ==
    /\ open[id] = Never \/ \E start \in 0 .. now : open[id] = {start}
    /\ \A info \in closed[id] : info.start \in 0 .. now /\ info.status \in Statuses
    /\ starts[id] \in Seq(0 .. now)

\* Every execution that was started is known, and all but the last are closed.
StartsKnown(id) ==
    LET ended == {info.start : info \in closed[id]} IN
    /\ \A k \in 1 .. Len(starts[id]) : starts[id][k] \in ended \cup open[id]
    /\ \A k \in 1 .. Len(starts[id]) - 1 : starts[id][k] \in ended

ClockType ==
    /\ first \in Nat /\ now \in first .. first + Horizon /\ utcOffset \in {0, 1}
    /\ launched \in BOOLEAN /\ overlapped \in BOOLEAN /\ faults \in 0 .. MaxFaults

TypeInv ==
    /\ ClockType
    /\ DOMAIN pass = Passes /\ \A p \in Passes : PassType(p)
    /\ open \in [Ids -> SUBSET Nat] /\ DOMAIN closed = Ids /\ DOMAIN starts = Ids
    /\ \A id \in Ids : ExecutionsType(id)

\* As long as passes do not overlap, the one that is at work has found that all
\* starts but the last are long enough ago.
Apart(id, earlier, later) ==
    \E n \in Jobs : Schedule[n].id = id /\ later >= earlier + Schedule[n].apart

StartsApart ==
    /\ \A id \in Ids : StartsKnown(id)
    /\ ~overlapped =>
           /\ \A p, q \in Passes : Running(p) /\ Running(q) => p = q
           /\ \A p \in Passes : pass[p].go =>
                  LET id == Current(p).id IN
                  \A k \in 1 .. Len(starts[id]) - 1 : Apart(id, starts[id][k], now)
           /\ \A id \in Ids : \A k \in 3 .. Len(starts[id]) :
                  Apart(id, starts[id][k - 2], starts[id][k])

-----------------------------------------------------------------------------
(* How the steps change the state.                                           *)

LEMMA ElementOf ==
    ASSUME NEW S, NEW s \in Seq(S), NEW k \in 1 .. Len(s)
    PROVE  s[k] \in S
  OBVIOUS

LEMMA TypeInvIsType ==
    ASSUME TypeInv
    PROVE  TypeOK
  <1>1. \A id \in Ids : open[id] \subseteq 0 .. now /\ Cardinality(open[id]) <= 1
    <2> TAKE id \in Ids
    <2>1. CASE open[id] = Never
      BY <2>1, FS_EmptySet DEF Never
    <2>2. ASSUME NEW start \in 0 .. now, open[id] = {start}
          PROVE  open[id] \subseteq 0 .. now /\ Cardinality(open[id]) <= 1
      BY <2>2, FS_Singleton
    <2> QED BY <2>1, <2>2 DEF TypeInv, ExecutionsType
  <1>2. \A id \in Ids : /\ \A info \in closed[id] : info.start <= now /\ info.status \in Statuses
                        /\ \A k \in DOMAIN starts[id] : starts[id][k] <= now
    BY DEF TypeInv, ClockType, ExecutionsType
  <1> QED BY <1>1, <1>2 DEF TypeInv, ClockType, PassType, TypeOK

LEMMA CurrentFacts ==
    ASSUME TypeInv, NEW p \in Passes, Running(p)
    PROVE  /\ Place(p) \in pass[p].todo /\ Place(p) \in Jobs
           /\ Current(p) = Schedule[Place(p)]
           /\ Current(p).id \in Ids /\ Current(p).apart \in Nat
  <1>1. Place(p) \in pass[p].todo
    BY FirstPlace DEF Running, TypeInv, PassType
  <1> QED BY <1>1, ScheduleFacts DEF TypeInv, PassType, Current

\* What every step of a pass but the first does to it.
Advances(p) ==
    /\ DOMAIN pass' = Passes /\ \A q \in Passes \ {p} : pass'[q] = pass[q]
    /\ DOMAIN pass'[p] = {"todo", "go"} /\ pass'[p].go \in BOOLEAN
    /\ pass'[p].todo \subseteq pass[p].todo
    /\ pass'[p].go => Running(p)'

LEMMA ContinueAdvances ==
    ASSUME TypeInv, NEW p \in Passes, Continue(p)
    PROVE  Advances(p) /\ ~pass'[p].go
  BY DEF TypeInv, PassType, Continue, Advances

LEMMA EndAdvances ==
    ASSUME TypeInv, NEW p \in Passes, pass' = [pass EXCEPT ![p] = Idle]
    PROVE  Advances(p) /\ ~pass'[p].go
  BY DEF TypeInv, PassType, Idle, Advances

LEMMA ApproveAdvances ==
    ASSUME TypeInv, NEW p \in Passes, Approve(p)
    PROVE  Advances(p) /\ pass'[p].todo = pass[p].todo
  BY DEF TypeInv, PassType, Approve, Advances, Running

\* All steps of a pass but those that launch it and that start a workflow.
LEMMA QuietPassStep ==
    ASSUME TypeInv, NEW p \in Passes,
           Skip(p) \/ CompareWithNone(p) \/ StartLost(p) \/ PassLost(p)
    PROVE  /\ Advances(p) /\ ~pass'[p].go /\ faults' \in 0 .. MaxFaults
           /\ UNCHANGED <<time, executions, overlapped>>
  <1>1. faults' \in 0 .. MaxFaults /\ UNCHANGED <<time, executions, overlapped>>
    BY CronAssumption
    DEF TypeInv, ClockType, Skip, CompareWithNone, StartLost, PassLost, Fault
  <1>2. Continue(p) \/ pass' = [pass EXCEPT ![p] = Idle]
    BY DEF Skip, CompareWithNone, StartLost, PassLost
  <1> QED BY <1>1, <1>2, ContinueAdvances, EndAdvances

LEMMA AdvancesType ==
    ASSUME TypeInv, NEW p \in Passes, Advances(p)
    PROVE  DOMAIN pass' = Passes /\ \A q \in Passes : PassType(q)'
  <1>1. PassType(p)'
    BY DEF TypeInv, PassType, Advances
  <1>2. \A q \in Passes \ {p} : PassType(q)'
    BY DEF TypeInv, PassType, Advances, Running
  <1> QED BY <1>1, <1>2 DEF Advances

LEMMA AdvancesApart ==
    ASSUME TypeInv, StartsApart, NEW p \in Passes, Advances(p), ~pass'[p].go,
           UNCHANGED <<time, executions, overlapped>>
    PROVE  StartsApart'
  <1>1. UNCHANGED <<now, open, closed, starts, overlapped>>
    BY DEF time, executions
  <1>2. \A id \in Ids : StartsKnown(id)'
    BY <1>1 DEF StartsApart, StartsKnown
  <1>3. \A q \in Passes : Running(q)' => Running(q)
    BY DEF Advances, Running
  <1>4. \A q \in Passes \ {p} : pass'[q] = pass[q] /\ Current(q)' = Current(q)
    BY DEF Advances, Current, Place
  <1>5. ASSUME ~overlapped
        PROVE  /\ \A q, r \in Passes : Running(q)' /\ Running(r)' => q = r
               /\ \A q \in Passes : pass'[q].go =>
                      LET id == Current(q)'.id IN
                      \A k \in 1 .. Len(starts[id]) - 1 : Apart(id, starts[id][k], now)
               /\ \A id \in Ids : \A k \in 3 .. Len(starts[id]) :
                      Apart(id, starts[id][k - 2], starts[id][k])
    BY <1>3, <1>4, <1>5 DEF StartsApart
  <1> QED BY <1>1, <1>2, <1>5 DEF StartsApart, Apart

-----------------------------------------------------------------------------
(* Each step keeps both.                                                     *)

Both == TypeInv /\ StartsApart

LEMMA QuietKeeps ==
    ASSUME Both, NEW p \in Passes,
           Skip(p) \/ CompareWithNone(p) \/ StartLost(p) \/ PassLost(p)
    PROVE  Both'
  <1>1. /\ Advances(p) /\ ~pass'[p].go /\ faults' \in 0 .. MaxFaults
        /\ UNCHANGED <<time, executions, overlapped>>
    BY QuietPassStep DEF Both
  <1>2. DOMAIN pass' = Passes /\ \A q \in Passes : PassType(q)'
    BY <1>1, AdvancesType DEF Both
  <1>3. ClockType' /\ \A id \in Ids : ExecutionsType(id)'
    BY <1>1 DEF Both, TypeInv, ClockType, ExecutionsType, time, executions
  <1>4. TypeInv'
    BY <1>1, <1>2, <1>3 DEF Both, TypeInv, executions
  <1>5. StartsApart'
    BY <1>1, AdvancesApart DEF Both
  <1> QED BY <1>4, <1>5 DEF Both

LEMMA LaunchKeeps ==
    ASSUME Both, NEW p \in Passes, LaunchPass(p)
    PROVE  Both'
  <1>1. /\ pass' = [pass EXCEPT ![p] = [todo |-> conditional_starts(now), go |-> FALSE]]
        /\ launched' = TRUE
        /\ overlapped' = (overlapped \/ \E q \in Passes : Running(q))
        /\ UNCHANGED <<first, now, utcOffset, open, closed, starts, faults>>
    BY DEF LaunchPass, executions
  <1>2. /\ DOMAIN pass' = Passes
        /\ pass'[p] = [todo |-> conditional_starts(now), go |-> FALSE]
        /\ \A q \in Passes \ {p} : pass'[q] = pass[q]
    BY <1>1 DEF Both, TypeInv
  <1>3. \A q \in Passes : PassType(q)'
    <2>1. PassType(p)'
      BY <1>2 DEF PassType, conditional_starts, Jobs, Running
    <2>2. \A q \in Passes \ {p} : PassType(q)'
      BY <1>2 DEF Both, TypeInv, PassType, Running
    <2> QED BY <2>1, <2>2
  <1>4. TypeInv'
    BY <1>1, <1>2, <1>3 DEF Both, TypeInv, ClockType, ExecutionsType
  <1>5. \A id \in Ids : StartsKnown(id)'
    BY <1>1 DEF Both, StartsApart, StartsKnown
  <1>6. ASSUME ~overlapped'
        PROVE  /\ \A q \in Passes : Running(q)' => q = p
               /\ \A q \in Passes : ~pass'[q].go
               /\ ~overlapped
    <2>1. ~overlapped /\ \A q \in Passes : ~Running(q)
      BY <1>1, <1>6
    <2> QED BY <1>2, <2>1 DEF Running, Both, TypeInv, PassType
  <1>7. StartsApart'
    BY <1>1, <1>5, <1>6 DEF Both, StartsApart, Apart
  <1> QED BY <1>4, <1>7 DEF Both

\* What was found is the last start of those that ended: all but the last one.
LEMMA ApproveKeeps ==
    ASSUME Both, NEW p \in Passes, Approve(p)
    PROVE  Both'
  <1>1. /\ Advances(p) /\ pass'[p].todo = pass[p].todo /\ Running(p)
        /\ UNCHANGED <<time, executions, overlapped, faults>>
    BY ApproveAdvances DEF Both, Approve
  <1>2. UNCHANGED <<first, now, utcOffset, launched, open, closed, starts, overlapped, faults>>
    BY <1>1 DEF time, executions
  <1>3. DOMAIN pass' = Passes /\ \A q \in Passes : PassType(q)'
    BY <1>1, AdvancesType DEF Both
  <1>4. TypeInv'
    BY <1>2, <1>3 DEF Both, TypeInv, ClockType, ExecutionsType
  <1>5. \A id \in Ids : StartsKnown(id)'
    BY <1>2 DEF Both, StartsApart, StartsKnown
  <1>6. /\ \A q \in Passes : Running(q)' <=> Running(q)
        /\ \A q \in Passes : Current(q)' = Current(q)
        /\ \A q \in Passes \ {p} : pass'[q] = pass[q]
    BY <1>1 DEF Advances, Running, Current, Place
  <1> DEFINE id == Current(p).id
  <1>7. \A k \in 1 .. Len(starts[id]) - 1 : Apart(id, starts[id][k], now)
    <2>1. PICK last \in LastStart(id) : Due(Current(p), last)
      BY DEF Approve
    <2>2. /\ \A start \in {info.start : info \in closed[id]} : start <= last
          /\ last \in {info.start : info \in closed[id]}
      BY <2>1 DEF LastStart, ClosedExecutionInfos
    <2>3. /\ id \in Ids /\ Place(p) \in Jobs /\ Schedule[Place(p)].id = id
          /\ Schedule[Place(p)].apart \in Nat /\ Current(p) = Schedule[Place(p)]
      BY <1>1, CurrentFacts DEF Both
    <2>4. last \in Nat /\ now \in Nat
      BY <2>2, <2>3 DEF Both, TypeInv, ClockType, ExecutionsType
    <2>5. ASSUME NEW k \in 1 .. Len(starts[id]) - 1
          PROVE  starts[id][k] <= last /\ starts[id][k] \in Nat
      <3>1. starts[id][k] \in {info.start : info \in closed[id]}
        BY <2>3, <2>5 DEF Both, StartsApart, StartsKnown
      <3>2. starts[id][k] <= last
        BY <2>2, <3>1
      <3>3. \A info \in closed[id] : info.start \in Nat
        BY <2>3 DEF Both, TypeInv, ClockType, ExecutionsType
      <3> QED BY <3>1, <3>2, <3>3
    <2>6. now >= last + Schedule[Place(p)].apart
      BY <2>1, <2>3 DEF Due
    <2> HIDE DEF id
    <2>7. ASSUME NEW k \in 1 .. Len(starts[id]) - 1
          PROVE  now >= starts[id][k] + Schedule[Place(p)].apart
      BY <2>3, <2>4, <2>5, <2>6
    <2> QED BY <2>3, <2>7 DEF Apart
  <1>8. ASSUME ~overlapped
        PROVE  \A q \in Passes : pass'[q].go =>
                   LET i == Current(q).id IN
                   \A k \in 1 .. Len(starts[i]) - 1 : Apart(i, starts[i][k], now)
    BY <1>6, <1>7, <1>8 DEF Both, StartsApart
  <1>9. StartsApart'
    BY <1>2, <1>5, <1>6, <1>8 DEF Both, StartsApart, Apart
  <1> QED BY <1>4, <1>9 DEF Both

\* A start is at least as far from the last but one as the schedule asks.
LEMMA StartKeeps ==
    ASSUME Both, NEW p \in Passes, StartWorkflow(p)
    PROVE  Both'
  <1>0. PICK id : id = Current(p).id
    OBVIOUS
  <1>1. /\ Running(p) /\ pass[p].go /\ Continue(p)
        /\ UNCHANGED <<first, now, utcOffset, launched, closed, overlapped, faults>>
        /\ IF open[id] = Never
           THEN /\ open' = [open EXCEPT ![id] = {now}]
                /\ starts' = [starts EXCEPT ![id] = Append(@, now)]
           ELSE UNCHANGED <<open, starts>>
    BY <1>0 DEF StartWorkflow, time
  <1>2. Advances(p) /\ ~pass'[p].go
    BY <1>1, ContinueAdvances DEF Both
  <1>3. DOMAIN pass' = Passes /\ \A q \in Passes : PassType(q)'
    BY <1>2, AdvancesType DEF Both
  <1>4. CASE open[id] # Never
    <2>1. UNCHANGED <<time, executions, overlapped, faults>>
      BY <1>1, <1>4 DEF time, executions
    <2>2. StartsApart'
      BY <1>2, <2>1, AdvancesApart DEF Both
    <2>3. TypeInv'
      BY <1>1, <1>3, <1>4 DEF Both, TypeInv, ClockType, ExecutionsType
    <2> QED BY <2>2, <2>3 DEF Both
  <1>5. CASE open[id] = Never
    <2>1. id \in Ids
      BY <1>0, <1>1, CurrentFacts DEF Both
    <2>0. PICK s : s = starts[id]
      OBVIOUS
    <2>2. /\ s \in Seq(0 .. now) /\ Len(s) \in Nat /\ now \in Nat /\ 0 <= now
          /\ \A k \in 1 .. Len(s) : s[k] \in {info.start : info \in closed[id]}
      <3>1. now \in Nat /\ s \in Seq(0 .. now)
        BY CronAssumption, <2>0, <2>1 DEF Both, TypeInv, ClockType, ExecutionsType
      <3>2. \A k \in 1 .. Len(s) : s[k] \in {info.start : info \in closed[id]} \cup open[id]
        BY <2>0, <2>1 DEF Both, StartsApart, StartsKnown
      <3> QED BY <1>5, <3>1, <3>2 DEF Never
    <2>3. /\ DOMAIN open' = Ids /\ DOMAIN starts' = Ids
          /\ open'[id] = {now} /\ starts'[id] = Append(s, now)
          /\ \A i \in Ids \ {id} : open'[i] = open[i] /\ starts'[i] = starts[i]
      BY <1>1, <1>5, <2>0, <2>1 DEF Both, TypeInv
    <2>4. \A i \in Ids : ExecutionsType(i)'
      <3>1. ExecutionsType(id)'
        <4>1. Append(s, now) \in Seq(0 .. now)
          BY <2>2
        <4>2. \A info \in closed[id] : info.start \in 0 .. now /\ info.status \in Statuses
          BY <2>1 DEF Both, TypeInv, ExecutionsType
        <4>3. now' = now /\ closed' = closed /\ now \in 0 .. now
          BY <1>1, <2>2
        <4> QED BY <2>3, <4>1, <4>2, <4>3 DEF ExecutionsType
      <3>2. \A i \in Ids \ {id} : ExecutionsType(i)'
        BY <1>1, <2>3 DEF Both, TypeInv, ExecutionsType
      <3> QED BY <3>1, <3>2
    <2>5. TypeInv'
      <3>1. open' \in [Ids -> SUBSET Nat]
        BY <1>1, <1>5, <2>2 DEF Both, TypeInv
      <3> QED BY <1>1, <1>3, <2>3, <2>4, <3>1 DEF Both, TypeInv, ClockType
    <2>6. /\ Len(Append(s, now)) = Len(s) + 1 /\ Append(s, now)[Len(s) + 1] = now
          /\ \A k \in 1 .. Len(s) : Append(s, now)[k] = s[k]
      BY <2>2
    <2>7. \A i \in Ids : StartsKnown(i)'
      <3>1. StartsKnown(id)'
        <4>1. ASSUME NEW k \in 1 .. Len(s) + 1
              PROVE  Append(s, now)[k] \in {info.start : info \in closed[id]} \cup {now}
          BY <2>2, <2>6, <4>1
        <4>2. ASSUME NEW k \in 1 .. Len(s)
              PROVE  Append(s, now)[k] \in {info.start : info \in closed[id]}
          BY <2>2, <2>6, <4>2
        <4>3. Len(Append(s, now)) - 1 = Len(s)
          BY <2>2, <2>6
        <4> QED BY <1>1, <2>3, <2>6, <4>1, <4>2, <4>3 DEF StartsKnown
      <3>2. \A i \in Ids \ {id} : StartsKnown(i)'
        BY <1>1, <2>3 DEF Both, StartsApart, StartsKnown
      <3> QED BY <3>1, <3>2
    <2>8. ASSUME ~overlapped
          PROVE  /\ \A q, r \in Passes : Running(q)' /\ Running(r)' => q = r
                 /\ \A q \in Passes : ~pass'[q].go
      <3>1. \A q \in Passes : Running(q)' => Running(q)
        BY <1>2 DEF Advances, Running
      <3>2. \A q \in Passes : pass'[q].go => Running(q)'
        BY <1>3 DEF PassType
      <3> QED BY <1>1, <1>2, <2>8, <3>1, <3>2 DEF Both, StartsApart
    <2>9. ASSUME ~overlapped, NEW k \in 3 .. Len(s) + 1
          PROVE  Apart(id, Append(s, now)[k - 2], Append(s, now)[k])
      <3>1. CASE k = Len(s) + 1
        <4>1. \A m \in 1 .. Len(s) - 1 : Apart(id, s[m], now)
          BY <1>0, <1>1, <2>0, <2>9 DEF Both, StartsApart
        <4>2. k - 2 \in 1 .. Len(s) - 1 /\ Append(s, now)[k - 2] = s[k - 2]
          BY <2>2, <2>6, <2>9, <3>1
        <4> QED BY <2>6, <3>1, <4>1, <4>2
      <3>2. CASE k # Len(s) + 1
        <4>1. \A m \in 3 .. Len(s) : Apart(id, s[m - 2], s[m])
          BY <2>0, <2>1, <2>9 DEF Both, StartsApart
        <4>2. /\ k \in 3 .. Len(s) /\ Append(s, now)[k] = s[k]
              /\ Append(s, now)[k - 2] = s[k - 2]
          BY <2>2, <2>6, <2>9, <3>2
        <4> QED BY <4>1, <4>2
      <3> QED BY <3>1, <3>2
    <2>10. ASSUME ~overlapped, NEW i \in Ids, NEW k \in 3 .. Len(starts'[i])
           PROVE  Apart(i, starts'[i][k - 2], starts'[i][k])
      <3>1. CASE i = id
        BY <2>3, <2>6, <2>9, <2>10, <3>1
      <3>2. CASE i # id
        BY <2>3, <2>10, <3>2 DEF Both, StartsApart
      <3> QED BY <3>1, <3>2
    <2>11. StartsApart'
      BY <1>1, <2>7, <2>8, <2>10 DEF StartsApart, Apart
    <2> QED BY <2>5, <2>11 DEF Both
  <1> QED BY <1>4, <1>5

LEMMA CloseKeeps ==
    ASSUME Both, NEW id \in Ids, NEW status \in Statuses, CloseExecution(id, status)
    PROVE  Both'
  <1>1. /\ open[id] # Never
        /\ closed' = [closed EXCEPT ![id] =
               @ \cup {[start |-> start, status |-> status] : start \in open[id]}]
        /\ open' = [open EXCEPT ![id] = Never]
        /\ UNCHANGED <<first, now, utcOffset, launched, pass, starts, overlapped, faults>>
    BY DEF CloseExecution, time
  <1>2. PICK start \in 0 .. now : open[id] = {start}
    BY <1>1 DEF Both, TypeInv, ExecutionsType
  <1>3. /\ DOMAIN closed' = Ids
        /\ closed'[id] = closed[id] \cup {[start |-> start, status |-> status]}
        /\ \A i \in Ids \ {id} : closed'[i] = closed[i] /\ open'[i] = open[i]
        /\ open' \in [Ids -> SUBSET Nat] /\ open'[id] = Never
    BY <1>1, <1>2 DEF Both, TypeInv, Never
  <1>4. TypeInv'
    <2>1. ExecutionsType(id)'
      BY <1>1, <1>3 DEF Both, TypeInv, ExecutionsType
    <2>2. \A i \in Ids \ {id} : ExecutionsType(i)'
      BY <1>1, <1>3 DEF Both, TypeInv, ExecutionsType
    <2>3. \A p \in Passes : PassType(p)'
      BY <1>1 DEF Both, TypeInv, PassType, Running
    <2> QED BY <1>1, <1>3, <2>1, <2>2, <2>3 DEF Both, TypeInv, ClockType
  <1>5. \A i \in Ids : StartsKnown(i)'
    <2>1. StartsKnown(id)'
      <3>1. {info.start : info \in closed'[id]} = {info.start : info \in closed[id]} \cup {start}
        <4> DEFINE info == [start |-> start, status |-> status]
        <4>1. closed'[id] = closed[id] \cup {info} /\ info.start = start
          BY <1>3
        <4> HIDE DEF info
        <4> QED BY <4>1
      <3>2. \A k \in 1 .. Len(starts[id]) :
                starts[id][k] \in {info.start : info \in closed[id]} \cup {start}
        BY <1>2 DEF Both, StartsApart, StartsKnown
      <3>3. starts[id] \in Seq(0 .. now)
        BY DEF Both, TypeInv, ExecutionsType
      <3>4. \A k \in 1 .. Len(starts[id]) - 1 : k \in 1 .. Len(starts[id])
        BY <3>3
      <3> QED BY <1>1, <3>1, <3>2, <3>4 DEF StartsKnown
    <2>2. \A i \in Ids \ {id} : StartsKnown(i)'
      BY <1>1, <1>3 DEF Both, StartsApart, StartsKnown
    <2> QED BY <2>1, <2>2
  <1>6. StartsApart'
    BY <1>1, <1>5 DEF Both, StartsApart, Running, Current, Place, Apart
  <1> QED BY <1>4, <1>6 DEF Both

\* Time passes: what was long enough ago still is.
LEMMA TickKeeps ==
    ASSUME Both, Tick \/ MissPass
    PROVE  Both'
  <1>1. /\ UNCHANGED <<first, utcOffset, pass, open, closed, starts, overlapped>>
        /\ now' \in first .. first + Horizon /\ now <= now' /\ launched' \in BOOLEAN
        /\ faults' \in 0 .. MaxFaults
    <2>1. /\ first \in Nat /\ now \in first .. first + Horizon /\ Horizon \in Nat
          /\ faults \in 0 .. MaxFaults /\ MaxFaults \in Nat
      BY CronAssumption DEF Both, TypeInv, ClockType
    <2>2. CASE MissPass
      BY <2>1, <2>2 DEF MissPass, executions, Fault
    <2>3. CASE Tick
      <3>1. /\ now' = now + 5 /\ now + 5 <= first + Horizon /\ launched' = FALSE
            /\ UNCHANGED <<first, utcOffset, pass, open, closed, starts, overlapped>>
        BY <2>3 DEF Tick, executions, Interval
      <3>2. faults' \in 0 .. MaxFaults
        BY <2>1, <2>3 DEF Tick, Fault
      <3>3. now' \in first .. first + Horizon /\ now <= now'
        <4>1. /\ now \in Nat /\ first \in Nat /\ Horizon \in Nat /\ first <= now
              /\ now' = now + 5 /\ now + 5 <= first + Horizon
          BY <2>1, <3>1
        <4> QED BY <4>1
      <3> QED BY <3>1, <3>2, <3>3
    <2> QED BY <2>2, <2>3
  <1>2. now \in Nat /\ now' \in Nat /\ 0 .. now \subseteq 0 .. now'
    BY <1>1, CronAssumption DEF Both, TypeInv, ClockType
  <1>3. \A id \in Ids : ExecutionsType(id)'
    <2> SUFFICES ASSUME NEW id \in Ids
                 PROVE  ExecutionsType(id)'
      OBVIOUS
    <2>1. starts[id] \in Seq(0 .. now')
      <3>1. starts[id] \in Seq(0 .. now)
        BY DEF Both, TypeInv, ExecutionsType
      <3> QED BY <1>2, <3>1
    <2> QED BY <1>1, <1>2, <2>1 DEF Both, TypeInv, ExecutionsType
  <1>4. TypeInv'
    BY <1>1, <1>3 DEF Both, TypeInv, ClockType, PassType, Running
  <1>5. /\ \A id \in Ids : StartsKnown(id)'
        /\ \A p \in Passes : (Running(p)' <=> Running(p)) /\ Current(p)' = Current(p)
    BY <1>1 DEF Both, StartsApart, StartsKnown, Running, Current, Place
  <1>6. ASSUME NEW p \in Passes, pass[p].go, ~overlapped
        PROVE  LET id == Current(p).id IN
               \A k \in 1 .. Len(starts[id]) - 1 : Apart(id, starts[id][k], now)'
    <2>1. PICK id : id = Current(p).id
      OBVIOUS
    <2>2. id \in Ids
      BY <1>6, <2>1, CurrentFacts DEF Both, TypeInv, PassType
    <2>3. starts[id] \in Seq(0 .. now)
      BY <2>2 DEF Both, TypeInv, ExecutionsType
    <2>4. ASSUME NEW k \in 1 .. Len(starts[id]) - 1
          PROVE  Apart(id, starts[id][k], now')
      <3>1. PICK earlier : earlier = starts[id][k]
        OBVIOUS
      <3>2. Apart(id, earlier, now)
        BY <1>6, <2>1, <3>1 DEF Both, StartsApart
      <3>3. earlier \in Nat
        <4>1. k \in 1 .. Len(starts[id])
          BY <2>3, <2>4
        <4>2. starts[id][k] \in 0 .. now
          BY <2>3, <4>1, ElementOf
        <4> QED BY <1>2, <3>1, <4>2
      <3>4. PICK n \in Jobs : Schedule[n].id = id /\ now >= earlier + Schedule[n].apart
        BY <3>2 DEF Apart
      <3>5. now' >= earlier + Schedule[n].apart
        BY <1>1, <1>2, <3>3, <3>4, ScheduleFacts
      <3> QED BY <3>1, <3>4, <3>5 DEF Apart
    <2> QED BY <1>1, <1>5, <2>1, <2>4 DEF Apart
  <1>7. StartsApart'
    BY <1>1, <1>5, <1>6 DEF Both, StartsApart, Apart
  <1> QED BY <1>4, <1>7 DEF Both

LEMMA BothInit ==
    ASSUME Init
    PROVE  Both
  <1>1. ClockType /\ now = first /\ first \in Nat /\ first >= 1440
    <2>1. PICK minute \in FirstMinutes : first = Day + minute
      BY DEF Init
    <2>2. first \in Nat /\ first >= 1440
      BY <2>1, CronAssumption DEF Day
    <2>3. now = first /\ now \in first .. first + Horizon
      BY <2>2, CronAssumption DEF Init
    <2>4. launched \in BOOLEAN /\ overlapped \in BOOLEAN /\ utcOffset \in {0, 1}
      BY DEF Init
    <2>5. faults \in 0 .. MaxFaults
      BY CronAssumption DEF Init
    <2> QED BY <2>2, <2>3, <2>4, <2>5 DEF ClockType
  <1>2. /\ DOMAIN pass = Passes /\ \A p \in Passes : PassType(p) /\ ~Running(p) /\ ~pass[p].go
    BY DEF Init, PassType, Idle, Running
  <1>3. ASSUME NEW id \in Ids
        PROVE  ExecutionsType(id) /\ StartsKnown(id) /\ Len(starts[id]) <= 1
    <2>1. first - Day \in 0 .. now
      BY <1>1 DEF Day
    <2>2. CASE id \in NewIds
      <3>1. open[id] = {} /\ closed[id] = {} /\ starts[id] = << >>
        BY <2>2 DEF Init, Never
      <3> QED BY <3>1 DEF ExecutionsType, StartsKnown, Never
    <2>3. CASE id \notin NewIds
      <3>1. /\ open[id] = {} /\ starts[id] = <<first - Day>>
            /\ closed[id] = {[start |-> first - Day, status |-> "COMPLETED"]}
        BY <2>3 DEF Init, Never
      <3>2. Len(starts[id]) = 1 /\ starts[id][1] = first - Day
        BY <3>1
      <3>3. ExecutionsType(id)
        BY CronAssumption, <2>1, <3>1 DEF ExecutionsType, Never
      <3>4. first - Day \in {info.start : info \in closed[id]}
        BY <3>1
      <3> QED BY <3>2, <3>3, <3>4 DEF StartsKnown
    <2> QED BY <2>2, <2>3
  <1>4. TypeInv
    BY <1>1, <1>2, <1>3 DEF Init, TypeInv, Never
  <1>5. ASSUME NEW id \in Ids
        PROVE  3 .. Len(starts[id]) = {}
    <2>1. starts[id] \in Seq(0 .. now) /\ Len(starts[id]) <= 1
      BY <1>3 DEF ExecutionsType
    <2> QED BY <2>1
  <1>6. StartsApart
    BY <1>2, <1>3, <1>5 DEF StartsApart
  <1> QED BY <1>4, <1>6 DEF Both

LEMMA BothStep ==
    ASSUME Both, [Next]_vars
    PROVE  Both'
  <1>1. ASSUME NEW p \in Passes, LaunchPass(p) PROVE Both'
    BY <1>1, LaunchKeeps
  <1>2. ASSUME NEW p \in Passes, Approve(p) PROVE Both'
    BY <1>2, ApproveKeeps
  <1>3. ASSUME NEW p \in Passes, StartWorkflow(p) PROVE Both'
    BY <1>3, StartKeeps
  <1>4. ASSUME NEW p \in Passes,
               Skip(p) \/ CompareWithNone(p) \/ StartLost(p) \/ PassLost(p)
        PROVE  Both'
    BY <1>4, QuietKeeps
  <1>5. ASSUME NEW id \in Ids, NEW status \in Statuses, CloseExecution(id, status)
        PROVE  Both'
    BY <1>5, CloseKeeps
  <1>6. CASE Tick \/ MissPass
    BY <1>6, TickKeeps
  <1>7. CASE UNCHANGED vars
    <2>1. UNCHANGED <<first, now, utcOffset, launched, pass, open, closed, starts,
                      overlapped, faults>>
      BY <1>7 DEF vars
    <2>2. TypeInv'
      BY <2>1 DEF Both, TypeInv, ClockType, PassType, ExecutionsType, Running
    <2>3. /\ \A id \in Ids : StartsKnown(id)'
          /\ \A p \in Passes : (Running(p)' <=> Running(p)) /\ Current(p)' = Current(p)
      BY <2>1 DEF Both, StartsApart, StartsKnown, Running, Current, Place
    <2>4. StartsApart'
      BY <2>1, <2>3 DEF Both, StartsApart, Apart
    <2> QED BY <2>2, <2>4 DEF Both
  <1>8. AtHorizon => UNCHANGED vars
    BY DEF AtHorizon
  <1> QED BY <1>1, <1>2, <1>3, <1>4, <1>5, <1>6, <1>7, <1>8 DEF Next, PassStep

LEMMA BothHold == Spec => []Both
  <1>1. Init => Both
    BY BothInit
  <1>2. Both /\ [Next]_vars => Both'
    BY BothStep
  <1> QED BY <1>1, <1>2, PTL DEF Spec

LEMMA BothIsEnough ==
    ASSUME Both
    PROVE  TypeOK /\ NoThirdStart
  BY TypeInvIsType DEF Both, StartsApart, NoThirdStart, Apart, Jobs

\* The variables keep their types.
THEOREM TypeCorrect == Spec => []TypeOK
  BY BothHold, BothIsEnough, PTL

\* As long as passes do not overlap, no three starts of a workflow_id are
\* closer than the schedule asks of two.
THEOREM StartsStayApart == Spec => []NoThirdStart
  BY BothHold, BothIsEnough, PTL

-----------------------------------------------------------------------------
(* Windows.                                                                  *)

Width(job) == Cardinality(job.minutes)

BeginsWindow(job, begin) ==
    Allows(job, begin) /\ (Minute(begin) > 0 => Minute(begin) - 1 \notin job.minutes)

Window(job, low, width) ==
    /\ job.minutes = low .. low + width - 1 /\ Width(job) = width
    /\ width >= 5 /\ low + width <= 60 /\ 5 * (width \div 5) = width

LEMMA WindowOf ==
    ASSUME NEW job, NEW low \in Nat, NEW high \in Nat,
           job.minutes = low .. high, low + 4 <= high, high < 60,
           5 * ((high - low + 1) \div 5) = high - low + 1
    PROVE  \E width \in Nat : Window(job, low, width)
  <1>1. PICK width : width = high - low + 1
    OBVIOUS
  <1>2. width \in Nat /\ width >= 5 /\ low + width <= 60 /\ high = low + width - 1
    BY <1>1
  <1>3. Cardinality(low .. high) = width
    BY <1>1, <1>2, FS_Interval
  <1> QED BY <1>1, <1>2, <1>3 DEF Window, Width

LEMMA MinutesOfJobs ==
    ASSUME NEW n \in Jobs
    PROVE  \/ n \in 1 .. 3 /\ Schedule[n].minutes = 0 .. 59
           \/ n \in 4 .. 7 /\ Schedule[n].minutes = 0 .. 14
           \/ n \in 8 .. 12 /\ Schedule[n].minutes = 15 .. 19
           \/ n = 13 /\ Schedule[n].minutes = 20 .. 29
           \/ n = 14 /\ Schedule[n].minutes = 25 .. 29
           \/ n \in 15 .. 19 /\ Schedule[n].minutes = 30 .. 44
           \/ n \in 20 .. 24 /\ Schedule[n].minutes = 45 .. 59
  <1>1. n \in 1 .. 24
    BY DEF Jobs, Schedule
  <1>2. n \in 1 .. 3 => Schedule[n].minutes = 0 .. 59
    BY DEF Schedule, Daily, Job
  <1>3. n \in 4 .. 7 => Schedule[n].minutes = 0 .. 14
    BY DEF Schedule, Daily, Job
  <1>4. n \in 8 .. 12 => Schedule[n].minutes = 15 .. 19
    BY DEF Schedule, Daily, Job
  <1>5. n = 13 => Schedule[n].minutes = 20 .. 29
    BY DEF Schedule, Daily, Job
  <1>6. n = 14 => Schedule[n].minutes = 25 .. 29
    BY DEF Schedule, Daily, Job
  <1>7. n \in 15 .. 19 => Schedule[n].minutes = 30 .. 44
    BY DEF Schedule, Daily, Job
  <1>8. n \in 20 .. 24 => Schedule[n].minutes = 45 .. 59
    BY DEF Schedule, Daily, Job
  <1> QED BY <1>1, <1>2, <1>3, <1>4, <1>5, <1>6, <1>7, <1>8

\* The minutes of a job follow each other, and as many passes as fit in.
LEMMA WindowFacts ==
    ASSUME NEW n \in Jobs
    PROVE  \E low \in Nat, width \in Nat : Window(Schedule[n], low, width)
  <1> DEFINE Fits(low, high) ==
          low + 4 <= high /\ high < 60 /\ 5 * ((high - low + 1) \div 5) = high - low + 1
  <1>1. \E low, high \in Nat : Schedule[n].minutes = low .. high /\ Fits(low, high)
    <2>1. /\ Fits(0, 59) /\ Fits(0, 14) /\ Fits(15, 19) /\ Fits(20, 29)
          /\ Fits(25, 29) /\ Fits(30, 44) /\ Fits(45, 59)
      OBVIOUS
    <2>2. {0, 14, 15, 19, 20, 25, 29, 30, 44, 45, 59} \subseteq Nat
      OBVIOUS
    <2> HIDE DEF Fits
    <2> QED BY <2>1, <2>2, MinutesOfJobs, Zenon
  <1> QED BY <1>1, WindowOf

\* A job that may start in the first minute of a window may in all of them.
LEMMA AllowedInWindow ==
    ASSUME NEW n \in Jobs, utcOffset \in {0, 1}, NEW begin \in Nat, NEW t \in Nat,
           BeginsWindow(Schedule[n], begin),
           begin <= t, t < begin + Width(Schedule[n])
    PROVE  Allows(Schedule[n], t)
  <1>1. PICK low \in Nat, width \in Nat :
            /\ Schedule[n].minutes = low .. low + width - 1
            /\ width >= 5 /\ low + width <= 60 /\ Width(Schedule[n]) = width
    BY WindowFacts DEF Window
  <1>2. PICK m : m = begin % 60
    OBVIOUS
  <1>3. PICK h : h = begin \div 60
    OBVIOUS
  <1>4. m \in 0 .. 59 /\ h \in Nat /\ begin = 60 * h + m
    BY <1>2, <1>3
  <1>5. m = low
    <2>1. m \in low .. low + width - 1 /\ (m > 0 => m - 1 \notin low .. low + width - 1)
      BY <1>1, <1>2 DEF BeginsWindow, Allows, Minute
    <2> QED BY <1>1, <1>4, <2>1
  <1>6. t \div 60 = h /\ t % 60 \in low .. low + width - 1
    BY <1>1, <1>4, <1>5
  <1> QED BY <1>1, <1>3, <1>6 DEF BeginsWindow, Allows, Minute, Hour, LocalHour

-----------------------------------------------------------------------------
(* Nothing is overdue.                                                       *)

\* A workflow that has never run ends the pass that comes to it.
NewComeLast ==
    \A m, n \in Jobs :
        Schedule[m].id \in NewIds /\ Schedule[n].id \in Ids \ NewIds => m > n

\* What SWF knows of was started, and what is open was started lately.
Remembered ==
    \A id \in Ids :
        /\ \A info \in closed[id] : \E k \in DOMAIN starts[id] : starts[id][k] = info.start
        /\ \A start \in open[id] :
               /\ now <= start + LongestRun
               /\ \E k \in DOMAIN starts[id] : starts[id][k] = start
        /\ id \notin NewIds => closed[id] # {}

\* Without faults, passes keep to the minutes of the schedule.
OnTime ==
    faults = 0 =>
        /\ \A p \in Passes : \A n \in pass[p].todo : Allows(Schedule[n], now)
        /\ \A id \in Ids : \A k \in DOMAIN starts[id] :
               \/ starts[id][k] + Day <= first
               \/ \E m \in Jobs :
                      Schedule[m].id = id /\ Allows(Schedule[m], starts[id][k])

\* No start of the job is so late that one in the window is not called for, or
\* that its execution may be open at the minute free.
Quiet(job, begin, free) ==
    \A k \in DOMAIN starts[job.id] :
        /\ starts[job.id][k] + job.apart < begin
        /\ starts[job.id][k] + LongestRun < free

\* The pass of this minute has come past the job, or there was none.
Passed(n) == launched /\ \A p \in Passes : n \notin pass[p].todo

Concerned(n, begin, free) ==
    /\ Schedule[n].id \in Ids \ NewIds
    /\ BeginsWindow(Schedule[n], begin) /\ begin <= free
    /\ Quiet(Schedule[n], begin, free)

\* Each pass since the minute free that is over was lost, for a fault of its own.
PassesLost(n, begin, free) ==
    LET end == begin + Width(Schedule[n]) IN
    /\ free + 5 * faults + 4 >= now \/ free + 5 * faults + 4 >= end
    /\ free <= now /\ now < end /\ Passed(n) => free + 5 * faults >= now + 1

LossesCounted ==
    \A n \in Jobs, begin \in first .. now, free \in Nat :
        Concerned(n, begin, free) => PassesLost(n, begin, free)

OverdueInv == Remembered /\ OnTime /\ LossesCounted

LEMMA Numbers ==
    ASSUME TypeInv
    PROVE  /\ first \in Nat /\ now \in Nat /\ first <= now
           /\ faults \in Nat /\ Horizon \in Nat /\ utcOffset \in {0, 1}
           /\ \A n \in Jobs : Width(Schedule[n]) \in Nat /\ Schedule[n].apart \in Nat
           /\ \A id \in Ids : starts[id] \in Seq(0 .. now)
           /\ \A id \in Ids : \A k \in DOMAIN starts[id] : starts[id][k] \in 0 .. now
  <1>1. \A n \in Jobs : Width(Schedule[n]) \in Nat
    BY WindowFacts DEF Window
  <1>2. \A id \in Ids : starts[id] \in Seq(0 .. now)
    BY DEF TypeInv, ExecutionsType
  <1>3. ASSUME NEW id \in Ids, NEW k \in DOMAIN starts[id]
        PROVE  starts[id][k] \in 0 .. now
    <2>1. PICK s : s = starts[id]
      OBVIOUS
    <2>2. s \in Seq(0 .. now) /\ k \in 1 .. Len(s)
      BY <1>2, <1>3, <2>1
    <2> QED BY <2>1, <2>2, ElementOf
  <1>4. first \in Nat /\ now \in first .. first + Horizon /\ utcOffset \in {0, 1}
    BY DEF TypeInv, ClockType
  <1>5. faults \in Nat
    BY CronAssumption DEF TypeInv, ClockType
  <1> QED BY <1>1, <1>2, <1>3, <1>4, <1>5, ScheduleFacts, CronAssumption

\* Of executions that have closed, there is one that was started last.
LEMMA LastStartExists ==
    ASSUME TypeInv, NEW id \in Ids, closed[id] # {}
    PROVE  LastStart(id) # {}
  <1> DEFINE found == {info.start : info \in closed[id]}
             ago == {now - start : start \in found}
  <1>1. now \in Nat /\ \A start \in found : start \in 0 .. now
    BY Numbers DEF TypeInv, ExecutionsType
  <1>2. ago # {} /\ ago \subseteq Nat
    BY <1>1
  <1> HIDE DEF ago
  <1>3. PICK least \in ago : \A other \in ago : <<other, least>> \notin Before
    BY <1>2, BeforeIsWellFounded, WFMin, Zenon
  <1>4. \A other \in ago : other \in Nat /\ least \in Nat /\ least <= other
    <2> TAKE other \in ago
    <2>1. other \in Nat /\ least \in Nat /\ <<other, least>> \in Nat \X Nat
      BY <1>2
    <2>2. ~ (<<other, least>>[1] < <<other, least>>[2])
      BY <1>3, <2>1 DEF Before
    <2> QED BY <2>1, <2>2
  <1>5. PICK last \in found : least = now - last
    BY <1>3 DEF ago
  <1>6. ASSUME NEW start \in found
        PROVE  start <= last
    <2>1. now - start \in ago
      BY DEF ago
    <2>2. least <= now - start
      BY <1>4, <2>1
    <2>3. start \in Nat /\ last \in Nat
      BY <1>1
    <2> HIDE DEF found
    <2> QED BY <1>1, <1>5, <2>2, <2>3
  <1> QED BY <1>5, <1>6 DEF LastStart, ClosedExecutionInfos

\* A pass that ends at a workflow that has never run has done the others.
LEMMA NothingAfterNew ==
    ASSUME TypeInv, Remembered, NewComeLast, NEW p \in Passes, CompareWithNone(p),
           NEW n \in pass[p].todo
    PROVE  Schedule[n].id \in NewIds
  <1>1. Running(p) /\ LastStart(Current(p).id) = {}
    BY DEF CompareWithNone, Never
  <1>2. /\ Place(p) \in Jobs /\ Current(p).id \in Ids /\ Current(p) = Schedule[Place(p)]
    BY <1>1, CurrentFacts
  <1>3. Schedule[Place(p)].id \in NewIds
    BY <1>1, <1>2, LastStartExists DEF Remembered
  <1>4. n \in Jobs /\ Schedule[n].id \in Ids /\ n \in Nat /\ Place(p) \in Nat
    BY <1>2, ScheduleFacts DEF TypeInv, PassType
  <1>5. Place(p) <= n
    BY <1>1, FirstPlace DEF TypeInv, PassType, Running
  <1> QED BY <1>2, <1>3, <1>4, <1>5 DEF NewComeLast

LEMMA MoreFaults ==
    ASSUME NEW f \in Nat, NEW g \in Nat, f <= g, NEW free \in Nat, NEW t \in Nat,
           free + 5 * f >= t
    PROVE  free + 5 * g >= t
  OBVIOUS

LEMMA MoreFaultsPass ==
    ASSUME NEW f \in Nat, NEW g \in Nat, f <= g, NEW free \in Nat, NEW t \in Nat,
           free + 5 * f + 4 >= t
    PROVE  free + 5 * g + 4 >= t
  OBVIOUS

\* Whoever passes the job without need does so for a fault.
LEMMA RemovalKeepsLosses ==
    ASSUME Both, LossesCounted, NEW p \in Passes, Advances(p),
           UNCHANGED <<time, starts>>, faults' \in Nat, faults <= faults',
           \A n \in pass[p].todo \ pass'[p].todo, begin \in first .. now, free \in Nat :
               Concerned(n, begin, free) /\ free <= now => faults' = faults + 1
    PROVE  LossesCounted'
  <1>1. UNCHANGED <<first, now, utcOffset, launched, starts>>
    BY DEF time
  <1>2. SUFFICES ASSUME NEW n \in Jobs, NEW begin \in first .. now, NEW free \in Nat,
                        Concerned(n, begin, free)
                 PROVE  PassesLost(n, begin, free)'
    BY <1>1 DEF LossesCounted, Concerned, BeginsWindow, Allows, LocalHour, Quiet
  <1>3. PICK end : end = begin + Width(Schedule[n])
    OBVIOUS
  <1>4. /\ begin \in Nat /\ now \in Nat /\ end \in Nat /\ faults \in Nat /\ free \in Nat
    BY <1>2, <1>3, Numbers DEF Both
  <1>5. /\ free + 5 * faults + 4 >= now \/ free + 5 * faults + 4 >= end
        /\ free <= now /\ now < end /\ Passed(n) => free + 5 * faults >= now + 1
    BY <1>2, <1>3 DEF LossesCounted, PassesLost
  <1>6. ASSUME free <= now, now < end, Passed(n)'
        PROVE  free + 5 * faults' >= now + 1
    <2>1. CASE n \in pass[p].todo
      <3>1. n \notin pass'[p].todo
        BY <1>6 DEF Passed
      <3>2. faults' = faults + 1
        BY <1>2, <1>6, <2>1, <3>1
      <3> QED BY <1>4, <1>5, <1>6, <3>2
    <2>2. CASE n \notin pass[p].todo
      <3>1. Passed(n)
        BY <1>1, <1>6, <2>2 DEF Passed, Advances
      <3>2. free + 5 * faults >= now + 1
        BY <1>5, <1>6, <3>1
      <3>3. now + 1 \in Nat
        BY <1>4
      <3> QED BY <1>4, <3>2, <3>3, MoreFaults, Zenon
    <2> QED BY <2>1, <2>2
  <1>7. free + 5 * faults' + 4 >= now \/ free + 5 * faults' + 4 >= end
    <2>1. ASSUME NEW k \in Nat, free + 5 * faults + 4 >= k
          PROVE  free + 5 * faults' + 4 >= k
      BY <1>4, <2>1, MoreFaultsPass, Zenon
    <2> QED BY <1>4, <1>5, <2>1
  <1> QED BY <1>1, <1>3, <1>6, <1>7 DEF PassesLost

\* Nothing is forgotten and nothing new is to be done.
LEMMA RestIsKept ==
    ASSUME Both, Remembered, OnTime, NEW p \in Passes, Advances(p),
           UNCHANGED <<time, executions>>, faults' \in Nat, faults <= faults'
    PROVE  Remembered' /\ OnTime'
  <1>1. UNCHANGED <<first, now, utcOffset, launched, open, closed, starts>>
    BY DEF time, executions
  <1>2. Remembered'
    BY <1>1 DEF Remembered
  <1>3. faults' = 0 => faults = 0
    BY Numbers DEF Both
  <1>4. \A q \in Passes : pass'[q].todo \subseteq pass[q].todo
    BY DEF Advances
  <1>5. OnTime'
    BY <1>1, <1>3, <1>4 DEF OnTime, Allows, LocalHour
  <1> QED BY <1>2, <1>5

\* The last start that a pass finds in time makes the job quiet no longer.
LEMMA SkipIsCalledFor ==
    ASSUME Both, Remembered, NEW p \in Passes, Skip(p),
           NEW begin \in first .. now, NEW free \in Nat
    PROVE  ~Concerned(Place(p), begin, free)
  <1>1. Running(p) /\ \E last \in LastStart(Current(p).id) : ~Due(Current(p), last)
    BY DEF Skip
  <1>2. /\ Place(p) \in Jobs /\ Current(p).id \in Ids /\ Current(p) = Schedule[Place(p)]
        /\ Current(p).apart \in Nat
    BY <1>1, CurrentFacts DEF Both
  <1>3. PICK last \in LastStart(Current(p).id) : ~ (now >= last + Current(p).apart)
    BY <1>1 DEF Due
  <1>4. PICK k \in DOMAIN starts[Current(p).id] : starts[Current(p).id][k] = last
    BY <1>2, <1>3 DEF LastStart, ClosedExecutionInfos, Remembered
  <1>5. last \in Nat /\ now \in Nat /\ begin \in Nat /\ begin <= now
    BY <1>2, <1>4, Numbers DEF Both
  <1>6. ~ (last + Current(p).apart < begin)
    BY <1>2, <1>3, <1>5
  <1> QED BY <1>2, <1>4, <1>6 DEF Concerned, Quiet

LEMMA QuietKeepsOverdue ==
    ASSUME Both, OverdueInv, NewComeLast, NEW p \in Passes,
           Skip(p) \/ CompareWithNone(p) \/ StartLost(p) \/ PassLost(p)
    PROVE  OverdueInv'
  <1>1. Advances(p) /\ UNCHANGED <<time, executions, overlapped>>
    BY QuietPassStep DEF Both
  <1>2. faults \in Nat
    BY Numbers DEF Both
  <1>3. faults' \in Nat /\ faults <= faults'
    BY <1>2 DEF Skip, CompareWithNone, StartLost, PassLost, Fault
  <1>4. Remembered' /\ OnTime'
    BY <1>1, <1>3, RestIsKept DEF OverdueInv
  <1>5. ASSUME NEW n \in pass[p].todo \ pass'[p].todo,
               NEW begin \in first .. now, NEW free \in Nat,
               Concerned(n, begin, free), free <= now
        PROVE  faults' = faults + 1
    <2>1. CASE Skip(p)
      <3>1. n = Place(p)
        BY <2>1 DEF Skip, Continue, Both, TypeInv
      <3> QED BY <1>5, <2>1, <3>1, SkipIsCalledFor DEF OverdueInv
    <2>2. CASE CompareWithNone(p)
      BY <1>5, <2>2, NothingAfterNew DEF Both, OverdueInv, Concerned
    <2>3. CASE StartLost(p) \/ PassLost(p)
      BY <2>3 DEF StartLost, PassLost, Fault
    <2> QED BY <2>1, <2>2, <2>3
  <1>6. LossesCounted'
    <2>1. UNCHANGED <<time, starts>>
      BY <1>1 DEF executions
    <2> QED BY <1>1, <1>3, <1>5, <2>1, RemovalKeepsLosses DEF OverdueInv
  <1> QED BY <1>4, <1>6 DEF OverdueInv

LEMMA ApproveKeepsOverdue ==
    ASSUME Both, OverdueInv, NEW p \in Passes, Approve(p)
    PROVE  OverdueInv'
  <1>1. Advances(p) /\ pass'[p].todo = pass[p].todo
    BY ApproveAdvances DEF Both
  <1>2. UNCHANGED <<time, executions, faults>> /\ UNCHANGED <<time, starts>>
    BY DEF Approve, executions
  <1>3. faults' \in Nat /\ faults <= faults'
    BY <1>2, Numbers DEF Both
  <1>4. Remembered' /\ OnTime'
    BY <1>1, <1>2, <1>3, RestIsKept DEF OverdueInv
  <1>5. LossesCounted'
    BY <1>1, <1>2, <1>3, RemovalKeepsLosses DEF OverdueInv
  <1> QED BY <1>4, <1>5 DEF OverdueInv

LEMMA LaunchKeepsOverdue ==
    ASSUME Both, OverdueInv, NEW p \in Passes, LaunchPass(p)
    PROVE  OverdueInv'
  <1>1. /\ pass' = [pass EXCEPT ![p] = [todo |-> conditional_starts(now), go |-> FALSE]]
        /\ UNCHANGED <<first, now, utcOffset, open, closed, starts, faults>>
    BY DEF LaunchPass, executions
  <1>2. /\ pass'[p].todo = conditional_starts(now)
        /\ \A q \in Passes \ {p} : pass'[q] = pass[q]
    BY <1>1 DEF Both, TypeInv
  <1>3. Remembered'
    BY <1>1 DEF OverdueInv, Remembered
  <1>4. \A n \in conditional_starts(now) : Allows(Schedule[n], now)
    BY DEF conditional_starts
  <1>5. OnTime'
    BY <1>1, <1>2, <1>4 DEF OverdueInv, OnTime, Allows, LocalHour
  <1>6. ASSUME NEW n \in Jobs, NEW begin \in first .. now, NEW free \in Nat,
               Concerned(n, begin, free)
        PROVE  PassesLost(n, begin, free)'
    <2>1. PassesLost(n, begin, free)
      BY <1>6 DEF OverdueInv, LossesCounted
    <2>2. ASSUME free <= now, now < begin + Width(Schedule[n])
          PROVE  n \in pass'[p].todo
      <3>1. begin \in Nat /\ now \in Nat /\ begin <= now /\ utcOffset \in {0, 1}
        BY <1>6, <2>2, Numbers DEF Both
      <3>2. Allows(Schedule[n], now)
        BY <1>6, <2>2, <3>1, AllowedInWindow DEF Concerned
      <3> QED BY <1>2, <1>6, <3>2 DEF Concerned, conditional_starts, Jobs
    <2> QED BY <1>1, <2>1, <2>2 DEF PassesLost, Passed
  <1>7. LossesCounted'
    BY <1>1, <1>6 DEF LossesCounted, Concerned, BeginsWindow, Allows, LocalHour, Quiet
  <1> QED BY <1>3, <1>5, <1>7 DEF OverdueInv

LEMMA AppendFacts ==
    ASSUME NEW s, NEW S, s \in Seq(S), NEW e \in S
    PROVE  LET longer == Append(s, e) IN
           /\ Len(s) + 1 \in DOMAIN longer /\ longer[Len(s) + 1] = e
           /\ DOMAIN longer = DOMAIN s \cup {Len(s) + 1}
           /\ \A k \in DOMAIN s : k \in DOMAIN longer /\ longer[k] = s[k]
  OBVIOUS

\* What is started is remembered, and calls for no other start of the workflow.
LEMMA StartKeepsOverdue ==
    ASSUME Both, OverdueInv, NEW p \in Passes, StartWorkflow(p)
    PROVE  OverdueInv'
  <1>1. PICK n : n = Place(p)
    OBVIOUS
  <1>2. PICK id : id = Schedule[n].id
    OBVIOUS
  <1>3. /\ n \in pass[p].todo /\ n \in Jobs /\ id \in Ids
        /\ Current(p) = Schedule[n] /\ Current(p).id = id
    BY <1>1, <1>2, CurrentFacts DEF Both, StartWorkflow
  <1>4. /\ Continue(p)
        /\ UNCHANGED <<first, now, utcOffset, launched, closed, faults>> /\ UNCHANGED time
        /\ IF open[id] = Never
           THEN /\ open' = [open EXCEPT ![id] = {now}]
                /\ starts' = [starts EXCEPT ![id] = Append(@, now)]
           ELSE UNCHANGED <<open, starts>>
    BY <1>3 DEF StartWorkflow, time
  <1>5. Advances(p) /\ pass'[p].todo = pass[p].todo \ {n}
    BY <1>1, <1>4, ContinueAdvances DEF Both, TypeInv, Continue
  <1>6. /\ faults' \in Nat /\ faults <= faults' /\ now \in Nat
        /\ starts[id] \in Seq(0 .. now) /\ now \in 0 .. now
        /\ \A i \in Ids : \A k \in DOMAIN starts[i] : starts[i][k] \in Nat
    BY <1>3, <1>4, Numbers DEF Both
  <1>7. CASE open[id] # Never
    <2>1. UNCHANGED <<time, executions>> /\ UNCHANGED <<time, starts>>
      BY <1>4, <1>7 DEF executions
    <2>2. Remembered' /\ OnTime'
      BY <1>5, <1>6, <2>1, RestIsKept DEF OverdueInv
    <2>3. ASSUME NEW begin \in first .. now, NEW free \in Nat,
                 Concerned(n, begin, free), free <= now
          PROVE  FALSE
      <3>1. PICK start \in open[id] : now <= start + LongestRun
        BY <1>3, <1>7 DEF OverdueInv, Remembered, Never
      <3>2. PICK k \in DOMAIN starts[id] : starts[id][k] = start
        BY <1>3 DEF OverdueInv, Remembered
      <3>3. start + LongestRun < free
        BY <1>2, <2>3, <3>2 DEF Concerned, Quiet
      <3>4. start \in Nat
        BY <1>3, <1>6, <3>2
      <3> QED BY <1>6, <2>3, <3>1, <3>3, <3>4 DEF LongestRun
    <2>4. \A m \in pass[p].todo \ pass'[p].todo, begin \in first .. now, free \in Nat :
              Concerned(m, begin, free) /\ free <= now => faults' = faults + 1
      BY <1>5, <2>3
    <2>5. LossesCounted'
      BY <1>5, <1>6, <2>1, <2>4, RemovalKeepsLosses DEF OverdueInv
    <2> QED BY <2>2, <2>5 DEF OverdueInv
  <1>8. CASE open[id] = Never
    <2>1. /\ open'[id] = {now} /\ starts'[id] = Append(starts[id], now)
          /\ \A i \in Ids \ {id} : open'[i] = open[i] /\ starts'[i] = starts[i]
      BY <1>3, <1>4, <1>8 DEF Both, TypeInv
    <2>2. /\ Len(starts[id]) + 1 \in DOMAIN starts'[id]
          /\ starts'[id][Len(starts[id]) + 1] = now
          /\ DOMAIN starts'[id] = DOMAIN starts[id] \cup {Len(starts[id]) + 1}
          /\ \A k \in DOMAIN starts[id] :
                 k \in DOMAIN starts'[id] /\ starts'[id][k] = starts[id][k]
      BY <1>6, <2>1, AppendFacts
    <2>3. now <= now + LongestRun
      BY <1>6 DEF LongestRun
    <2>4. Remembered'
      <3>1. ASSUME NEW i \in Ids
            PROVE  \A k \in DOMAIN starts[i] :
                       k \in DOMAIN starts'[i] /\ starts'[i][k] = starts[i][k]
        BY <2>1, <2>2
      <3>2. ASSUME NEW i \in Ids, NEW start \in open'[i]
            PROVE  /\ now <= start + LongestRun
                   /\ \E k \in DOMAIN starts'[i] : starts'[i][k] = start
        <4>1. CASE i = id
          BY <2>1, <2>2, <2>3, <4>1
        <4>2. CASE i # id
          BY <2>1, <3>1, <3>2, <4>2 DEF OverdueInv, Remembered
        <4> QED BY <4>1, <4>2
      <3>3. ASSUME NEW i \in Ids, NEW info \in closed[i]
            PROVE  \E k \in DOMAIN starts'[i] : starts'[i][k] = info.start
        BY <3>1 DEF OverdueInv, Remembered
      <3> QED BY <1>4, <3>2, <3>3 DEF OverdueInv, Remembered
    <2>5. OnTime'
      <3> SUFFICES ASSUME faults = 0
                   PROVE  OnTime'
        BY <1>4 DEF OnTime
      <3>1. \A q \in Passes : \A m \in pass'[q].todo : Allows(Schedule[m], now)
        BY <1>5 DEF OverdueInv, OnTime, Advances
      <3>2. Allows(Schedule[n], now)
        BY <1>3 DEF OverdueInv, OnTime
      <3>3. ASSUME NEW i \in Ids, NEW k \in DOMAIN starts'[i]
            PROVE  \/ starts'[i][k] + Day <= first
                   \/ \E m \in Jobs : Schedule[m].id = i /\ Allows(Schedule[m], starts'[i][k])
        <4>1. CASE i = id /\ k = Len(starts[id]) + 1
          BY <1>2, <1>3, <2>2, <3>2, <4>1
        <4>2. CASE ~ (i = id /\ k = Len(starts[id]) + 1)
          <5>1. k \in DOMAIN starts[i] /\ starts'[i][k] = starts[i][k]
            BY <2>1, <2>2, <4>2, <3>3
          <5> QED BY <5>1 DEF OverdueInv, OnTime
        <4> QED BY <4>1, <4>2
      <3> QED BY <1>4, <3>1, <3>3 DEF OnTime, Allows, LocalHour
    <2>6. ASSUME NEW m \in Jobs, NEW begin \in first .. now, NEW free \in Nat,
                 Schedule[m].id \in Ids \ NewIds, BeginsWindow(Schedule[m], begin),
                 begin <= free, Quiet(Schedule[m], begin, free)'
          PROVE  PassesLost(m, begin, free)'
      <3>1. begin \in Nat /\ begin <= now /\ Schedule[m].apart \in Nat
        BY <2>6, Numbers DEF Both
      <3>2. Schedule[m].id # id
        <4>1. ~ (now + Schedule[m].apart < begin)
          BY <1>6, <3>1
        <4> QED BY <2>2, <2>6, <4>1 DEF Quiet
      <3>3. Concerned(m, begin, free)
        BY <2>1, <2>6, <3>2 DEF Concerned, Quiet
      <3>4. Passed(m)' => Passed(m)
        BY <1>2, <1>4, <1>5, <3>2 DEF Passed, Advances
      <3>5. PassesLost(m, begin, free)
        BY <2>6, <3>3 DEF OverdueInv, LossesCounted
      <3> QED BY <1>4, <3>4, <3>5 DEF PassesLost
    <2>7. LossesCounted'
      BY <1>4, <2>6 DEF LossesCounted, Concerned, BeginsWindow, Allows, LocalHour
    <2> QED BY <2>4, <2>5, <2>7 DEF OverdueInv
  <1> QED BY <1>7, <1>8

LEMMA CloseKeepsOverdue ==
    ASSUME Both, OverdueInv, NEW id \in Ids, NEW status \in Statuses,
           CloseExecution(id, status)
    PROVE  OverdueInv'
  <1>1. /\ UNCHANGED <<first, now, utcOffset, launched, pass, starts, faults>>
        /\ open[id] # {}
        /\ closed'[id] = closed[id] \cup {[start |-> start, status |-> status] : start \in open[id]}
        /\ open'[id] = {}
        /\ \A i \in Ids \ {id} : open'[i] = open[i] /\ closed'[i] = closed[i]
    BY DEF CloseExecution, time, Never, Both, TypeInv
  <1>2. OnTime'
    BY <1>1 DEF OverdueInv, OnTime, Allows, LocalHour
  <1>3. LossesCounted'
    BY <1>1 DEF OverdueInv, LossesCounted, Concerned, BeginsWindow, Allows, LocalHour, Quiet,
                PassesLost, Passed
  <1>4. Remembered'
    <2>1. ASSUME NEW info \in closed'[id]
          PROVE  \E k \in DOMAIN starts[id] : starts[id][k] = info.start
      <3>1. CASE info \in closed[id]
        BY <3>1 DEF OverdueInv, Remembered
      <3>2. CASE \E start \in open[id] : info = [start |-> start, status |-> status]
        BY <3>2 DEF OverdueInv, Remembered
      <3> QED BY <1>1, <2>1, <3>1, <3>2
    <2>2. closed'[id] # {}
      BY <1>1
    <2>3. ASSUME NEW i \in Ids \ {id}
          PROVE  /\ \A info \in closed'[i] : \E k \in DOMAIN starts[i] : starts[i][k] = info.start
                 /\ \A start \in open'[i] :
                        /\ now <= start + LongestRun
                        /\ \E k \in DOMAIN starts[i] : starts[i][k] = start
                 /\ i \notin NewIds => closed'[i] # {}
      BY <1>1 DEF OverdueInv, Remembered
    <2> QED BY <1>1, <2>1, <2>2, <2>3 DEF Remembered
  <1> QED BY <1>2, <1>3, <1>4 DEF OverdueInv

\* A minute in which the pass was neither launched nor missed is still to come.
LEMMA OneMoreInterval ==
    ASSUME NEW f \in Nat, NEW g \in Nat, NEW t \in Nat, NEW end \in Nat, NEW free \in Nat,
           f <= g, free + 5 * f + 4 >= t \/ free + 5 * f + 4 >= end,
           free <= t /\ t < end => free + 5 * f >= t + 1 \/ g = f + 1
    PROVE  free + 5 * g + 4 >= t + 5 \/ free + 5 * g + 4 >= end
  <1>1. CASE free <= t /\ t < end
    BY <1>1
  <1>2. CASE ~ (free <= t)
    BY <1>2
  <1>3. CASE ~ (t < end)
    BY <1>3
  <1> QED BY <1>1, <1>2, <1>3

LEMMA TickKeepsOverdue ==
    ASSUME Both, OverdueInv, Tick
    PROVE  OverdueInv'
  <1>1. /\ launched /\ launched' = FALSE /\ now' = now + 5
        /\ UNCHANGED <<first, utcOffset, pass, open, closed, starts>>
        /\ \A id \in Ids : \A start \in open[id] : now' <= start + LongestRun
    BY DEF Tick, Interval, executions
  <1>2. now \in Nat /\ faults \in Nat /\ first \in Nat /\ now' \in Nat
    BY <1>1, Numbers DEF Both
  <1>3. /\ faults' \in Nat /\ faults <= faults'
        /\ (\E p \in Passes : Running(p)) => faults' = faults + 1
    BY <1>2 DEF Tick, Fault
  <1>4. Remembered'
    BY <1>1 DEF OverdueInv, Remembered
  <1>5. OnTime'
    <2> SUFFICES ASSUME faults' = 0
                 PROVE  OnTime'
      BY DEF OnTime
    <2>1. faults = 0 /\ \A p \in Passes : pass[p].todo = {}
      BY <1>2, <1>3 DEF Running
    <2>2. \A id \in Ids : \A k \in DOMAIN starts[id] :
              \/ starts[id][k] + Day <= first
              \/ \E m \in Jobs : Schedule[m].id = id /\ Allows(Schedule[m], starts[id][k])
      BY <2>1 DEF OverdueInv, OnTime
    <2> QED BY <1>1, <2>1, <2>2 DEF OnTime, Allows, LocalHour
  <1>6. ASSUME NEW n \in Jobs, NEW begin \in first .. now', NEW free \in Nat,
               Concerned(n, begin, free)
        PROVE  PassesLost(n, begin, free)'
    <2>1. PICK end : end = begin + Width(Schedule[n])
      OBVIOUS
    <2>2. begin \in Nat /\ end \in Nat /\ begin <= free
      BY <1>2, <1>6, <2>1, Numbers DEF Both, Concerned
    <2>3. ASSUME free <= now
          PROVE  /\ free + 5 * faults + 4 >= now \/ free + 5 * faults + 4 >= end
                 /\ now < end /\ Passed(n) => free + 5 * faults >= now + 1
      <3>1. begin \in first .. now
        BY <1>2, <1>6, <2>2, <2>3
      <3>2. PassesLost(n, begin, free)
        BY <1>6, <3>1 DEF OverdueInv, LossesCounted
      <3> QED BY <2>1, <2>3, <3>2 DEF PassesLost
    <2>4. free + 5 * faults' + 4 >= now + 5 \/ free + 5 * faults' + 4 >= end
      <3>1. CASE free <= now
        <4>1. ~Passed(n) => faults' = faults + 1
          BY <1>1, <1>3 DEF Passed, Running
        <4>2. free <= now /\ now < end => free + 5 * faults >= now + 1 \/ faults' = faults + 1
          BY <2>3, <4>1
        <4>3. free + 5 * faults + 4 >= now \/ free + 5 * faults + 4 >= end
          BY <2>3, <3>1
        <4> QED BY <1>2, <1>3, <1>6, <2>2, <4>2, <4>3, OneMoreInterval, Zenon
      <3>2. CASE ~ (free <= now)
        <4>1. /\ free <= now /\ now < end => free + 5 * faults >= now + 1 \/ faults' = faults + 1
              /\ free + 5 * faults + 4 >= now
          BY <1>2, <1>6, <3>2
        <4> QED BY <1>2, <1>3, <1>6, <2>2, <4>1, OneMoreInterval, Zenon
      <3> QED BY <3>1, <3>2
    <2>5. ~Passed(n)'
      BY <1>1 DEF Passed
    <2> QED BY <1>1, <2>1, <2>4, <2>5 DEF PassesLost
  <1>7. LossesCounted'
    BY <1>1, <1>6 DEF LossesCounted, Concerned, BeginsWindow, Allows, LocalHour, Quiet
  <1> QED BY <1>4, <1>5, <1>7 DEF OverdueInv

LEMMA MissKeepsOverdue ==
    ASSUME Both, OverdueInv, MissPass
    PROVE  OverdueInv'
  <1>1. /\ faults' = faults + 1
        /\ UNCHANGED <<first, now, utcOffset, pass, open, closed, starts>>
    BY DEF MissPass, Fault, executions
  <1>2. now \in Nat /\ faults \in Nat /\ first \in Nat
    BY Numbers DEF Both
  <1>3. Remembered' /\ OnTime'
    BY <1>1, <1>2 DEF OverdueInv, Remembered, OnTime
  <1>4. ASSUME NEW n \in Jobs, NEW begin \in first .. now, NEW free \in Nat,
               PassesLost(n, begin, free)
        PROVE  PassesLost(n, begin, free)'
    <2>1. PICK end : end = begin + Width(Schedule[n])
      OBVIOUS
    <2>2. end \in Nat
      BY <1>2, <2>1, Numbers DEF Both
    <2>3. free + 5 * faults + 4 >= now \/ free + 5 * faults + 4 >= end
      BY <1>4, <2>1 DEF PassesLost
    <2>4. /\ free + 5 * faults' + 4 >= now \/ free + 5 * faults' + 4 >= end
          /\ now < end => free + 5 * faults' >= now + 1
      BY <1>1, <1>2, <2>2, <2>3
    <2> QED BY <1>1, <2>1, <2>4 DEF PassesLost
  <1>5. LossesCounted'
    BY <1>1, <1>4
    DEF OverdueInv, LossesCounted, Concerned, BeginsWindow, Allows, LocalHour, Quiet
  <1> QED BY <1>3, <1>5 DEF OverdueInv

LEMMA OverdueInit ==
    ASSUME Init
    PROVE  OverdueInv
  <1>1. Both
    BY BothInit
  <1>2. /\ now = first /\ launched = FALSE /\ faults = 0
        /\ now \in Nat /\ \A n \in Jobs : Width(Schedule[n]) \in Nat
    BY <1>1, Numbers DEF Init, Both
  <1>3. first - Day \in Nat /\ (first - Day) + Day <= first
    <2>1. PICK minute \in FirstMinutes : first = Day + minute
      BY DEF Init
    <2> QED BY <2>1, CronAssumption DEF Day
  <1>4. ASSUME NEW id \in Ids \ NewIds
        PROVE  /\ open[id] = {} /\ starts[id] = <<first - Day>>
               /\ closed[id] = {[start |-> first - Day, status |-> "COMPLETED"]}
               /\ DOMAIN starts[id] = {1} /\ starts[id][1] = first - Day
    BY DEF Init, Never
  <1>5. ASSUME NEW id \in NewIds
        PROVE  open[id] = {} /\ starts[id] = << >> /\ closed[id] = {} /\ DOMAIN starts[id] = {}
    BY CronAssumption DEF Init, Never
  <1>6. Remembered
    <2>1. ASSUME NEW id \in Ids
          PROVE  /\ \A info \in closed[id] :
                        \E k \in DOMAIN starts[id] : starts[id][k] = info.start
                 /\ open[id] = {}
                 /\ id \notin NewIds => closed[id] # {}
      <3>1. CASE id \in NewIds
        BY <1>5, <3>1
      <3>2. CASE id \notin NewIds
        <4>1. /\ open[id] = {} /\ 1 \in DOMAIN starts[id] /\ starts[id][1] = first - Day
              /\ \A info \in closed[id] : info.start = first - Day
          BY <1>4, <3>2
        <4>2. closed[id] # {}
          BY <1>4, <3>2
        <4> QED BY <4>1, <4>2
      <3> QED BY <3>1, <3>2
    <2> QED BY <2>1 DEF Remembered
  <1>7. OnTime
    <2>1. \A p \in Passes : pass[p].todo = {}
      BY DEF Init, Idle
    <2>2. \A id \in Ids : \A k \in DOMAIN starts[id] : starts[id][k] + Day <= first
      BY <1>3, <1>4, <1>5
    <2> QED BY <2>1, <2>2 DEF OnTime
  <1>8. ASSUME NEW n \in Jobs, NEW begin \in first .. now, NEW free \in Nat, begin <= free
        PROVE  PassesLost(n, begin, free)
    <2>1. free + 5 * faults + 4 >= now
      BY <1>2, <1>8
    <2> QED BY <1>2, <2>1 DEF PassesLost, Passed
  <1>9. LossesCounted
    BY <1>8 DEF LossesCounted, Concerned
  <1> QED BY <1>6, <1>7, <1>9 DEF OverdueInv

LEMMA OverdueStep ==
    ASSUME NewComeLast, Both, OverdueInv, [Next]_vars
    PROVE  OverdueInv'
  <1>1. ASSUME NEW p \in Passes, PassStep(p) PROVE OverdueInv'
    BY <1>1, LaunchKeepsOverdue, ApproveKeepsOverdue, StartKeepsOverdue, QuietKeepsOverdue
    DEF PassStep
  <1>2. CASE MissPass
    BY <1>2, MissKeepsOverdue
  <1>3. ASSUME NEW id \in Ids, NEW status \in Statuses, CloseExecution(id, status)
        PROVE  OverdueInv'
    BY <1>3, CloseKeepsOverdue
  <1>4. CASE Tick
    BY <1>4, TickKeepsOverdue
  <1>5. CASE UNCHANGED vars
    <2>1. UNCHANGED <<first, now, utcOffset, launched, pass, open, closed, starts, faults>>
      BY <1>5 DEF vars
    <2>2. Remembered' /\ OnTime'
      BY <2>1 DEF OverdueInv, Remembered, OnTime, Allows, LocalHour
    <2>3. LossesCounted'
      BY <2>1 DEF OverdueInv, LossesCounted, Concerned, BeginsWindow, Allows, LocalHour, Quiet,
                  PassesLost, Passed
    <2> QED BY <2>2, <2>3 DEF OverdueInv
  <1>6. AtHorizon => UNCHANGED vars
    BY DEF AtHorizon
  <1> QED BY <1>1, <1>2, <1>3, <1>4, <1>5, <1>6 DEF Next

LEMMA WidthOfInterval ==
    ASSUME NEW low \in Nat, NEW high \in Nat, NEW width, low <= high, width = high - low + 1
    PROVE  Cardinality(low .. high) = width
  BY FS_Interval

LEMMA WidthOfJobs ==
    ASSUME NEW n \in Jobs
    PROVE  /\ n \in 1 .. 3 => Width(Schedule[n]) = 60
           /\ n \in (4 .. 7) \cup (15 .. 24) => Width(Schedule[n]) = 15
           /\ n \in (8 .. 12) \cup {14} => Width(Schedule[n]) = 5
           /\ n = 13 => Width(Schedule[n]) = 10
  <1>1. {0, 14, 15, 19, 20, 25, 29, 30, 44, 45, 59} \subseteq Nat
    OBVIOUS
  <1>2. Cardinality(0 .. 59) = 60
    <2>1. 0 <= 59 /\ 60 = 59 - 0 + 1
      OBVIOUS
    <2> QED BY <1>1, <2>1, WidthOfInterval, Zenon
  <1>3. Cardinality(0 .. 14) = 15
    <2>1. 0 <= 14 /\ 15 = 14 - 0 + 1
      OBVIOUS
    <2> QED BY <1>1, <2>1, WidthOfInterval, Zenon
  <1>4. Cardinality(15 .. 19) = 5
    <2>1. 15 <= 19 /\ 5 = 19 - 15 + 1
      OBVIOUS
    <2> QED BY <1>1, <2>1, WidthOfInterval, Zenon
  <1>5. Cardinality(20 .. 29) = 10
    <2>1. 20 <= 29 /\ 10 = 29 - 20 + 1
      OBVIOUS
    <2> QED BY <1>1, <2>1, WidthOfInterval, Zenon
  <1>6. Cardinality(25 .. 29) = 5
    <2>1. 25 <= 29 /\ 5 = 29 - 25 + 1
      OBVIOUS
    <2> QED BY <1>1, <2>1, WidthOfInterval, Zenon
  <1>7. Cardinality(30 .. 44) = 15
    <2>1. 30 <= 44 /\ 15 = 44 - 30 + 1
      OBVIOUS
    <2> QED BY <1>1, <2>1, WidthOfInterval, Zenon
  <1>8. Cardinality(45 .. 59) = 15
    <2>1. 45 <= 59 /\ 15 = 59 - 45 + 1
      OBVIOUS
    <2> QED BY <1>1, <2>1, WidthOfInterval, Zenon
  <1>9. n \in 1 .. 3 => Width(Schedule[n]) = 60
    <2>1. n \in 1 .. 3 => Schedule[n].minutes = 0 .. 59
      BY MinutesOfJobs
    <2> QED BY <1>2, <2>1 DEF Width
  <1>10. n \in 4 .. 7 => Width(Schedule[n]) = 15
    BY <1>3, MinutesOfJobs DEF Width
  <1>11. n \in 8 .. 12 => Width(Schedule[n]) = 5
    BY <1>4, MinutesOfJobs DEF Width
  <1>12. n = 13 => Width(Schedule[n]) = 10
    BY <1>5, MinutesOfJobs DEF Width
  <1>13. n = 14 => Width(Schedule[n]) = 5
    BY <1>6, MinutesOfJobs DEF Width
  <1>14. n \in 15 .. 19 => Width(Schedule[n]) = 15
    BY <1>7, MinutesOfJobs DEF Width
  <1>15. n \in 20 .. 24 => Width(Schedule[n]) = 15
    BY <1>8, MinutesOfJobs DEF Width
  <1> QED BY <1>9, <1>10, <1>11, <1>12, <1>13, <1>14, <1>15

LEMMA ApartOfJobs ==
    ASSUME NEW n \in Jobs
    PROVE  /\ n \in 4 .. 24 /\ n # 13 => Schedule[n].apart >= 31
           /\ n = 13 => Schedule[n].apart = 3
  <1>1. n \in 4 .. 7 => Schedule[n].apart >= 31
    BY DEF Schedule, Daily, Job
  <1>2. n \in 8 .. 12 => Schedule[n].apart >= 31
    BY DEF Schedule, Daily, Job
  <1>3. n \in 14 .. 19 => Schedule[n].apart >= 31
    BY DEF Schedule, Daily, Job
  <1>4. n \in 20 .. 24 => Schedule[n].apart >= 31
    BY DEF Schedule, Daily, Job
  <1>5. n = 13 => Schedule[n].apart = 3
    BY DEF Schedule, Daily, Job
  <1> QED BY <1>1, <1>2, <1>3, <1>4, <1>5, ScheduleFacts DEF Jobs, Schedule

\* Those that have short windows have no other, except cron_NewS3POA.
LEMMA IdsOfJobs ==
    ASSUME NEW n \in Jobs, NEW m \in Jobs, Schedule[m].id = Schedule[n].id
    PROVE  /\ n \in (8 .. 12) \cup {14} => m = n
           /\ n = 13 => m \in {13, 15}
  <1>1. n \in 1 .. 24 /\ m \in 1 .. 24
    BY DEF Jobs, Schedule
  <1>2. n \in 8 .. 10 => m = n
    BY <1>1 DEF Schedule, Daily, Job
  <1>3. n \in {11, 12, 14} => m = n
    BY <1>1 DEF Schedule, Daily, Job
  <1>4. n = 13 => m \in {13, 15}
    BY <1>1 DEF Schedule, Daily, Job
  <1> QED BY <1>1, <1>2, <1>3, <1>4

LEMMA MinutesBetween ==
    ASSUME NEW start \in Nat, NEW begin \in Nat, NEW low \in Nat, NEW high \in Nat,
           begin % 60 = low, start % 60 \in low .. high, high < 60, start < begin
    PROVE  begin - start >= 60 - (high - low)
  <1>1. PICK h : h = begin \div 60
    OBVIOUS
  <1>2. PICK i : i = start \div 60
    OBVIOUS
  <1>3. PICK m : m = start % 60
    OBVIOUS
  <1>4. /\ h \in Nat /\ i \in Nat /\ m \in low .. high
        /\ begin = 60 * h + low /\ start = 60 * i + m
    BY <1>1, <1>2, <1>3
  <1>5. CASE i >= h
    <2>1. begin - start <= low - m
      BY <1>4, <1>5
    <2> QED BY <1>4, <2>1
  <1>6. CASE i < h
    BY <1>4, <1>6
  <1> QED BY <1>4, <1>5, <1>6

\* As long as no pass is lost, an execution of the job itself that may be open
\* at the last pass of a window was started less than start_seconds before it.
LEMMA ClosedInTime ==
    ASSUME NEW n \in Jobs, NEW m \in Jobs, Schedule[m].id = Schedule[n].id,
           NEW start \in Nat, NEW begin \in Nat, NEW width, width = Width(Schedule[n]),
           Allows(Schedule[m], start), BeginsWindow(Schedule[n], begin),
           start + Schedule[n].apart < begin
    PROVE  start + LongestRun + 5 < begin + width
  <1>1. n \in 1 .. 24 /\ Schedule[n].apart \in Nat
    BY ScheduleFacts DEF Jobs, Schedule
  <1>2. CASE n \in 1 .. 3
    <2>1. width = 60
      BY <1>2, WidthOfJobs
    <2> QED BY <1>1, <2>1 DEF LongestRun
  <1>3. CASE n \in (4 .. 7) \cup (15 .. 24)
    <2>1. width = 15 /\ Schedule[n].apart >= 31
      BY <1>3, WidthOfJobs, ApartOfJobs
    <2> QED BY <1>1, <2>1 DEF LongestRun
  <1>4. CASE n \in (8 .. 12) \cup {14}
    <2>1. width = 5 /\ Schedule[n].apart >= 31 /\ m = n
      BY <1>4, WidthOfJobs, ApartOfJobs, IdsOfJobs
    <2>2. PICK low \in {15, 25} : Schedule[n].minutes = low .. low + 4
      <3>1. Schedule[n].minutes = 15 .. 19 \/ Schedule[n].minutes = 25 .. 29
        BY <1>4, MinutesOfJobs
      <3> QED BY <3>1
    <2>3. begin % 60 = low
      <3>1. begin % 60 \in low .. low + 4
        BY <2>2 DEF BeginsWindow, Allows, Minute
      <3>2. begin % 60 > 0 => (begin % 60) - 1 \notin low .. low + 4
        BY <2>2 DEF BeginsWindow, Minute
      <3> QED BY <3>1, <3>2
    <2>4. start % 60 \in low .. low + 4 /\ low + 4 < 60 /\ low \in Nat /\ low + 4 \in Nat
      BY <2>1, <2>2 DEF Allows, Minute
    <2>5. start < begin
      BY <1>1
    <2>6. begin - start >= 60 - ((low + 4) - low)
      BY <2>3, <2>4, <2>5, MinutesBetween
    <2> QED BY <2>1, <2>2, <2>6 DEF LongestRun
  <1>5. CASE n = 13
    <2>1. width = 10 /\ m \in {13, 15}
      BY <1>5, WidthOfJobs, IdsOfJobs
    <2>2. begin % 60 = 20
      <3>1. Schedule[n].minutes = 20 .. 29
        BY <1>5, MinutesOfJobs
      <3>2. begin % 60 \in 20 .. 29 /\ (begin % 60 > 0 => (begin % 60) - 1 \notin 20 .. 29)
        BY <3>1 DEF BeginsWindow, Allows, Minute
      <3> QED BY <3>2
    <2>3. start % 60 \in 20 .. 44
      <3>1. Schedule[m].minutes = 20 .. 29 \/ Schedule[m].minutes = 30 .. 44
        BY <2>1, MinutesOfJobs
      <3>2. start % 60 \in 20 .. 29 \/ start % 60 \in 30 .. 44
        BY <3>1 DEF Allows, Minute
      <3> QED BY <3>2
    <2>4. start < begin
      BY <1>1
    <2>5. begin - start >= 60 - (44 - 20)
      BY <2>2, <2>3, <2>4, MinutesBetween
    <2> QED BY <2>1, <2>5 DEF LongestRun
  <1> QED BY <1>1, <1>2, <1>3, <1>4, <1>5

\* A window of which no start is told would have lost each of its passes.
LEMMA OverdueInvIsEnough ==
    ASSUME Both, OverdueInv
    PROVE  NotOverdue
  <1> SUFFICES ASSUME NEW n \in Jobs, Schedule[n].id \in Ids \ NewIds,
                      NotForFaults(Schedule[n]), NEW begin \in WindowsPast(Schedule[n]),
                      ~StartedFor(Schedule[n], begin)
               PROVE  FALSE
    BY DEF NotOverdue, Jobs
  <1> DEFINE job == Schedule[n]
  <1>1. PICK width : width = Width(job)
    OBVIOUS
  <1>2. /\ width \in Nat /\ now \in Nat /\ faults \in Nat /\ first \in Nat
        /\ job.apart \in Nat
        /\ \A k \in DOMAIN starts[job.id] : starts[job.id][k] \in Nat
    BY <1>1, Numbers DEF Both
  <1>3. /\ begin \in first .. now /\ now >= begin + width /\ BeginsWindow(job, begin)
        /\ begin \in Nat /\ first <= begin
    <2>1. begin \in first .. now /\ now >= begin + width /\ BeginsWindow(job, begin)
      BY <1>1 DEF WindowsPast, BeginsWindow, Width
    <2> QED BY <1>2, <2>1
  <1>4. 5 * faults + 5 <= width
    <2>1. 5 * (width \div 5) = width /\ faults < width \div 5 /\ width \div 5 \in Nat
      BY <1>1, <1>2, WindowFacts DEF Window, NotForFaults, Interval, Width
    <2> QED BY <1>2, <2>1
  <1>5. PICK free \in Nat : free + 5 * faults + 5 = begin + width
    <2>1. PICK free : free = (begin + width) - (5 * faults + 5)
      OBVIOUS
    <2>2. free \in Nat /\ free + 5 * faults + 5 = begin + width
      BY <1>2, <1>3, <1>4, <2>1
    <2> QED BY <2>2
  <1>6. begin <= free
    BY <1>2, <1>3, <1>4, <1>5
  <1>7. ASSUME NEW k \in DOMAIN starts[job.id]
        PROVE  /\ starts[job.id][k] + job.apart < begin
               /\ starts[job.id][k] + LongestRun < free
    <2>1. PICK start \in Nat : start = starts[job.id][k]
      BY <1>2
    <2>2. ~ (start + job.apart >= begin) /\ ~RefusedFor(start, job, begin)
      BY <2>1 DEF StartedFor
    <2>3. start + job.apart < begin
      BY <1>2, <1>3, <2>2
    <2>4. start + LongestRun < free
      <3>1. CASE faults > 0
        <4>1. ~ (start + LongestRun >= begin + width - 5 * (faults + 1))
          BY <1>1, <2>2, <3>1 DEF RefusedFor, Width, Interval
        <4> QED BY <1>2, <1>3, <1>5, <4>1 DEF LongestRun
      <3>2. CASE faults = 0
        <4>1. CASE start + Day <= first
          BY <1>2, <1>3, <1>6, <4>1 DEF Day, LongestRun
        <4>2. CASE \E m \in Jobs : Schedule[m].id = job.id /\ Allows(Schedule[m], start)
          <5>1. start + LongestRun + 5 < begin + width
            BY <1>1, <1>3, <2>3, <4>2, ClosedInTime
          <5> QED BY <1>2, <1>3, <1>5, <3>2, <5>1 DEF LongestRun
        <4> QED BY <2>1, <3>2, <4>1, <4>2 DEF OverdueInv, OnTime
      <3> QED BY <1>2, <3>1, <3>2
    <2> QED BY <2>1, <2>3, <2>4
  <1>8. PassesLost(n, begin, free)
    BY <1>3, <1>6, <1>7 DEF OverdueInv, LossesCounted, Concerned, Quiet
  <1>9. free + 5 * faults + 4 >= now \/ free + 5 * faults + 4 >= begin + width
    BY <1>1, <1>8 DEF PassesLost
  <1> QED BY <1>2, <1>3, <1>5, <1>9

\* When a window of a job has gone by, its workflow was started in it or shortly
\* before, however the pass, the executions and the faults are interleaved:
\* fewer faults than the window has passes are not enough to leave it undone.
\* Only a workflow that is listed after one that has never run is not sure of it.
THEOREM NothingIsOverdue ==
    ASSUME NewComeLast
    PROVE  Spec => []NotOverdue
  <1>1. Init => Both /\ OverdueInv
    BY BothInit, OverdueInit
  <1>2. Both /\ OverdueInv /\ [Next]_vars => (Both /\ OverdueInv)'
    BY NewComeLast, BothStep, OverdueStep
  <1>3. Both /\ OverdueInv => NotOverdue
    BY OverdueInvIsEnough
  <1> QED BY <1>1, <1>2, <1>3, PTL DEF Spec

=============================================================================
