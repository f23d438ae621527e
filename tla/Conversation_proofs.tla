------------------------ MODULE Conversation_proofs ------------------------
(***************************************************************************)
(* Proofs about Conversation, for any sets of conversations, runs and      *)
(* calls.  What needs serial clients says so in its hypotheses.            *)
(***************************************************************************)
EXTENDS Conversation, TLAPS

\* What a save does to the registry: the row it names takes the three values if
\* it exists, every other row stays.
LEMMA SaveEffect ==
  ASSUME TypeOK, NEW c, NEW st \in Statuses,
         NEW run \in Runs \cup {NoRun}, NEW req \in Runs \cup {NoRun},
         Save(c, st, run, req)
  PROVE  /\ status' \in [Conversations -> Statuses]
         /\ activeRun' \in [Conversations -> Runs \cup {NoRun}]
         /\ request' \in [Conversations -> Runs \cup {NoRun}]
         /\ \A d \in Conversations :
              IF d = c /\ status[d] \notin {"fresh", "deleted"}
              THEN status'[d] = st /\ activeRun'[d] = run /\ request'[d] = req
              ELSE /\ status'[d] = status[d] /\ activeRun'[d] = activeRun[d]
                   /\ request'[d] = request[d]
<1>1. CASE status[c] \in {"fresh", "deleted"}
  BY <1>1 DEF Save, TypeOK, rowVars
<1>2. CASE status[c] \notin {"fresh", "deleted"}
  BY <1>2 DEF Save, TypeOK
<1>3. QED
  BY <1>1, <1>2

\* What the last checkpoint of a graph changes: only the thread of its own
\* conversation, and only for an outcome that is stored.
LEMMA LastCheckpointEffect ==
  ASSUME TypeOK, NEW r \in Runs, NEW outcome, LastCheckpoint(r, outcome)
  PROVE  /\ thread' \in [Conversations -> BOOLEAN]
         /\ pending' \in [Conversations -> Runs \cup {NoRun}]
         /\ \A d \in Conversations :
              d # convOf[r] => thread'[d] = thread[d] /\ pending'[d] = pending[d]
         /\ convOf[r] \in Conversations /\ outcome = "interrupted"
              => thread'[convOf[r]] = TRUE /\ pending'[convOf[r]] = r
<1>1. CASE outcome \in {"interrupted", "completed"}
  BY <1>1 DEF LastCheckpoint, TypeOK
<1>2. CASE outcome \notin {"interrupted", "completed"}
  BY <1>2 DEF LastCheckpoint, TypeOK
<1>3. QED
  BY <1>1, <1>2

\* Every step of the service keeps the types.
LEMMA TypeStep == TypeOK /\ [Next]_vars => TypeOK'
<1> SUFFICES ASSUME TypeOK, [Next]_vars PROVE TypeOK'
  OBVIOUS
<1> USE DEF TypeOK, Statuses, Outcomes
<1>1. ASSUME NEW c \in Conversations, Create(c) PROVE TypeOK'
  BY <1>1 DEF Create, runVars, callVars
<1>2. ASSUME NEW c \in Conversations, NEW r \in Runs, SendMessage(c, r) PROVE TypeOK'
  BY <1>2 DEF SendMessage, CheckIdle, Save, rowVars, callVars
<1>3. ASSUME NEW c \in Conversations, NEW r \in Runs, ResumePermission(c, r) PROVE TypeOK'
  BY <1>3 DEF ResumePermission, Save, rowVars, callVars
<1>4. ASSUME NEW r \in Runs, GraphCheckpoint(r) PROVE TypeOK'
  BY <1>4 DEF GraphCheckpoint, rowVars, runVars, callVars
<1>5. ASSUME NEW r \in Runs, GraphTaskEnds(r) PROVE TypeOK'
  <2>1. PICK outcome \in Outcomes : /\ graph' = [graph EXCEPT ![r] = outcome]
                                    /\ LastCheckpoint(r, outcome)
    BY <1>5 DEF GraphTaskEnds
  <2>2. /\ thread' \in [Conversations -> BOOLEAN]
        /\ pending' \in [Conversations -> Runs \cup {NoRun}]
    BY <2>1, LastCheckpointEffect
  <2>3. graph' \in [Runs -> Outcomes \cup {"none", "running", "lost"}]
    BY <2>1
  <2>4. QED
    BY <1>5, <2>2, <2>3 DEF GraphTaskEnds, rowVars, callVars
<1>6. ASSUME NEW r \in Runs, SendReturns(r) PROVE TypeOK'
  BY <1>6 DEF SendReturns, CompleteOrWait, SaveFinished, Save, rowVars, callVars
<1>7. ASSUME NEW r \in Runs, ResumeReturns(r) PROVE TypeOK'
  <2>1. PICK outcome \in Outcomes \ {"cancelled"} :
          /\ graph' = [graph EXCEPT ![r] = outcome]
          /\ LastCheckpoint(r, outcome)
          /\ CompleteOrWait(convOf[r], r, outcome)
    BY <1>7 DEF ResumeReturns
  <2>2. /\ thread' \in [Conversations -> BOOLEAN]
        /\ pending' \in [Conversations -> Runs \cup {NoRun}]
    BY <2>1, LastCheckpointEffect
  <2>3. graph' \in [Runs -> Outcomes \cup {"none", "running", "lost"}]
    BY <2>1
  <2>4. /\ status' \in [Conversations -> Statuses]
        /\ activeRun' \in [Conversations -> Runs \cup {NoRun}]
        /\ request' \in [Conversations -> Runs \cup {NoRun}]
    BY <2>1, SaveEffect DEF CompleteOrWait, SaveFinished
  <2>5. QED
    BY <1>7, <2>2, <2>3, <2>4 DEF ResumeReturns, callVars
<1>8. ASSUME NEW r \in Runs, NEW k \in Calls, CancelRun(k, r) PROVE TypeOK'
  BY <1>8 DEF CancelRun, diskVars, rowVars
<1>e. ASSUME NEW r \in Runs, CancelEndedRun(r) PROVE TypeOK'
  BY <1>e DEF CancelEndedRun, SaveFinished, Save, rowVars, runVars, callVars
<1>9. ASSUME NEW k \in Calls, CancelReturns(k) PROVE TypeOK'
  BY <1>9 DEF CancelReturns, TaskGathered, SaveFinished, Save, rowVars, runVars
<1>10. ASSUME NEW k \in Calls, NEW c \in Conversations, Delete(k, c) PROVE TypeOK'
  BY <1>10 DEF Delete, CheckIdle, diskVars, rowVars, runVars
<1>11. ASSUME NEW k \in Calls, DeleteThread(k) PROVE TypeOK'
  BY <1>11 DEF DeleteThread, rowVars, runVars
<1>12. ASSUME NEW k \in Calls, DeleteFails(k) PROVE TypeOK'
  BY <1>12 DEF DeleteFails, diskVars, rowVars, runVars
<1>13. ASSUME NEW k \in Calls, DeleteReturns(k) PROVE TypeOK'
  BY <1>13 DEF DeleteReturns, runVars
<1>14. CASE Crash
  BY <1>14 DEF Crash, diskVars, rowVars
<1>15. CASE Restart
  BY <1>15 DEF Restart, NeedsRecovery, runVars, callVars
<1>16. CASE UNCHANGED vars
  BY <1>16 DEF vars, diskVars, rowVars, runVars, callVars
<1>17. QED
  BY <1>1, <1>2, <1>3, <1>4, <1>5, <1>6, <1>7, <1>8, <1>9, <1>10, <1>11, <1>12,
     <1>13, <1>14, <1>15, <1>16, <1>e DEF Next, RunStep, CallStep

\* The type invariant holds for every client behaviour.
THEOREM TypeCorrect == Spec => []TypeOK
<1>1. Init => TypeOK
  BY DEF Init, TypeOK, Statuses
<1>2. QED
  BY <1>1, TypeStep, PTL DEF Spec

\* With serial clients SerialInv is an invariant: no interleaving of sends,
\* resumes, cancels, deletes, graph steps, crashes and restarts leaves it.
THEOREM SerialInvariant == ASSUME SerialClients PROVE Spec => []SerialInv
<1>1. Init => SerialInv
  BY NoRunAssumption, NoConversationAssumption
     DEF Init, SerialInv, TypeOK, Statuses, RunLifecycle, LiveRunOwnsRow, WaitingIsResumable,
         CancelExcludesOthers, DeleteExcludesRuns, InterruptStored, LiveRuns, ActiveTasks,
         Executing, FreeCall
<1>2. SerialInv /\ TypeOK' /\ [Next]_vars => SerialInv'
  <2> SUFFICES ASSUME SerialInv, TypeOK', [Next]_vars PROVE SerialInv'
    OBVIOUS
  <2> USE NoRunAssumption, NoConversationAssumption
  <2> USE DEF SerialInv, LiveRuns, ActiveTasks, Executing, RunsOf
  <2>1. ASSUME NEW c \in Conversations, Create(c) PROVE SerialInv'
    <3>1. RunLifecycle'
      BY <2>1 DEF Create, runVars, callVars, TypeOK, RunLifecycle, FreeCall
    <3>2. LiveRunOwnsRow'
      BY <2>1 DEF Create, runVars, callVars, TypeOK, RunLifecycle, LiveRunOwnsRow
    <3>3. WaitingIsResumable'
      BY <2>1 DEF Create, runVars, callVars, TypeOK, RunLifecycle, LiveRunOwnsRow, WaitingIsResumable
    <3>4. CancelExcludesOthers'
      BY <2>1 DEF Create, runVars, callVars, TypeOK, RunLifecycle, LiveRunOwnsRow, CancelExcludesOthers
    <3>5. DeleteExcludesRuns'
      BY <2>1 DEF Create, runVars, callVars, TypeOK, RunLifecycle, LiveRunOwnsRow, DeleteExcludesRuns
    <3>6. InterruptStored'
      BY <2>1 DEF Create, runVars, callVars, TypeOK, RunLifecycle, LiveRunOwnsRow, InterruptStored
    <3>7. QED
      BY <3>1, <3>2, <3>3, <3>4, <3>5, <3>6
  <2>2. ASSUME NEW c \in Conversations, NEW r \in Runs, SendMessage(c, r) PROVE SerialInv'
    <3>0. \A d \in Conversations :
            IF d = c /\ status[d] \notin {"fresh", "deleted"}
            THEN status'[d] = "running" /\ activeRun'[d] = r /\ request'[d] = NoRun
            ELSE status'[d] = status[d] /\ activeRun'[d] = activeRun[d] /\ request'[d] = request[d]
      BY <2>2, SaveEffect DEF SendMessage, CheckIdle, Statuses
    <3>n. \A q \in LiveRuns : convOf[q] # c
      BY <2>2 DEF SendMessage, CheckIdle, MayStartWork, Settling, LiveRunOwnsRow
    <3>1. RunLifecycle'
      BY <2>2, <3>0 DEF SendMessage, CheckIdle, callVars, TypeOK, RunLifecycle, FreeCall
    <3>2. LiveRunOwnsRow'
      BY <2>2, <3>0, <3>n DEF SendMessage, CheckIdle, callVars, TypeOK, RunLifecycle, LiveRunOwnsRow
    <3>3. WaitingIsResumable'
      BY <2>2, <3>0 DEF SendMessage, CheckIdle, callVars, TypeOK, RunLifecycle, LiveRunOwnsRow, WaitingIsResumable
    <3>4. CancelExcludesOthers'
      BY <2>2, <3>0 DEF SendMessage, CheckIdle, callVars, TypeOK, MayStartWork, CallOutstanding,
         RunLifecycle, LiveRunOwnsRow, CancelExcludesOthers
    <3>5. DeleteExcludesRuns'
      BY <2>2, <3>0 DEF SendMessage, CheckIdle, callVars, TypeOK, MayStartWork, CallOutstanding,
         RunLifecycle, LiveRunOwnsRow, DeleteExcludesRuns
    <3>6. InterruptStored'
      BY <2>2, <3>0, <3>n DEF SendMessage, CheckIdle, callVars, TypeOK, RunLifecycle, LiveRunOwnsRow, InterruptStored
    <3>7. QED
      BY <3>1, <3>2, <3>3, <3>4, <3>5, <3>6
  <2>3. ASSUME NEW c \in Conversations, NEW r \in Runs, ResumePermission(c, r) PROVE SerialInv'
    <3>0. \A d \in Conversations :
            IF d = c /\ status[d] \notin {"fresh", "deleted"}
            THEN status'[d] = "running" /\ activeRun'[d] = r /\ request'[d] = NoRun
            ELSE status'[d] = status[d] /\ activeRun'[d] = activeRun[d] /\ request'[d] = request[d]
      <4>1. Save(c, "running", r, NoRun) /\ "running" \in Statuses
        BY <2>3 DEF ResumePermission, Statuses
      <4>2. QED
        BY <4>1, SaveEffect
    <3>n. \A q \in LiveRuns : convOf[q] # c
      BY <2>3 DEF ResumePermission, LiveRunOwnsRow
    <3>1. RunLifecycle'
      BY <2>3, <3>0, <3>n DEF ResumePermission, callVars, TypeOK, WaitingIsResumable,
         LiveRunOwnsRow, RunLifecycle, FreeCall
    <3>2. LiveRunOwnsRow'
      BY <2>3, <3>0, <3>n DEF ResumePermission, callVars, TypeOK, WaitingIsResumable, MayStartWork, CallOutstanding,
         RunLifecycle, LiveRunOwnsRow
    <3>3. WaitingIsResumable'
      BY <2>3, <3>0, <3>n DEF ResumePermission, callVars, TypeOK, RunLifecycle, LiveRunOwnsRow, WaitingIsResumable
    <3>4. CancelExcludesOthers'
      BY <2>3, <3>0, <3>n DEF ResumePermission, callVars, TypeOK, WaitingIsResumable, MayStartWork, CallOutstanding,
         RunLifecycle, LiveRunOwnsRow, CancelExcludesOthers
    <3>5. DeleteExcludesRuns'
      <4>1. \A k \in Calls : deleting[k] # c
        BY <2>3 DEF ResumePermission, DeleteExcludesRuns
      <4>2. LiveRuns' = LiveRuns \cup {r} /\ RunsOf(c)' = RunsOf(c) /\ convOf' = convOf
        BY <2>3 DEF ResumePermission
      <4>3. convOf[r] = c
        BY <2>3 DEF ResumePermission, WaitingIsResumable
      <4>4. UNCHANGED <<thread, deleting, erased>>
        BY <2>3 DEF ResumePermission, callVars
      <4>5. QED
        BY <3>0, <4>1, <4>2, <4>3, <4>4 DEF DeleteExcludesRuns
    <3>6. InterruptStored'
      BY <2>3, <3>0, <3>n DEF ResumePermission, callVars, TypeOK, RunLifecycle, LiveRunOwnsRow, InterruptStored
    <3>7. QED
      BY <3>1, <3>2, <3>3, <3>4, <3>5, <3>6
  <2>4. ASSUME NEW r \in Runs, GraphCheckpoint(r) PROVE SerialInv'
    <3>1. RunLifecycle'
      BY <2>4 DEF GraphCheckpoint, rowVars, runVars, callVars, TypeOK, RunLifecycle, FreeCall
    <3>2. LiveRunOwnsRow'
      BY <2>4 DEF GraphCheckpoint, rowVars, runVars, callVars, TypeOK, RunLifecycle, LiveRunOwnsRow
    <3>3. WaitingIsResumable'
      BY <2>4 DEF GraphCheckpoint, rowVars, runVars, callVars, TypeOK, RunLifecycle, LiveRunOwnsRow, WaitingIsResumable
    <3>4. CancelExcludesOthers'
      BY <2>4 DEF GraphCheckpoint, rowVars, runVars, callVars, TypeOK, RunLifecycle, LiveRunOwnsRow, CancelExcludesOthers
    <3>5. DeleteExcludesRuns'
      BY <2>4 DEF GraphCheckpoint, rowVars, runVars, callVars, TypeOK, RunLifecycle, LiveRunOwnsRow, DeleteExcludesRuns
    <3>6. InterruptStored'
      BY <2>4 DEF GraphCheckpoint, rowVars, runVars, callVars, TypeOK, RunLifecycle, LiveRunOwnsRow, InterruptStored
    <3>7. QED
      BY <3>1, <3>2, <3>3, <3>4, <3>5, <3>6
  <2>5. ASSUME NEW r \in Runs, GraphTaskEnds(r) PROVE SerialInv'
    <3>o. /\ r \in LiveRuns /\ convOf[r] \in Conversations
          /\ status[convOf[r]] = "running" /\ activeRun[convOf[r]] = r
      BY <2>5 DEF GraphTaskEnds, LiveRunOwnsRow, Outcomes
    <3>0. PICK outcome \in Outcomes : /\ graph' = [graph EXCEPT ![r] = outcome]
                                      /\ LastCheckpoint(r, outcome)
      BY <2>5 DEF GraphTaskEnds
    <3>a. /\ \A d \in Conversations :
                d # convOf[r] => thread'[d] = thread[d] /\ pending'[d] = pending[d]
          /\ convOf[r] \in Conversations
          /\ outcome = "interrupted" => thread'[convOf[r]] = TRUE /\ pending'[convOf[r]] = r
      BY <3>0, <3>o, LastCheckpointEffect
    <3>1. RunLifecycle'
      BY <2>5, <3>o, <3>0, <3>a DEF Outcomes, GraphTaskEnds, rowVars, callVars, TypeOK, RunLifecycle, FreeCall
    <3>2. LiveRunOwnsRow'
      BY <2>5, <3>o, <3>0, <3>a DEF Outcomes, GraphTaskEnds, rowVars, callVars, TypeOK, RunLifecycle, LiveRunOwnsRow
    <3>3. WaitingIsResumable'
      BY <2>5, <3>o, <3>0, <3>a DEF Outcomes, GraphTaskEnds, rowVars, callVars, TypeOK, RunLifecycle, LiveRunOwnsRow, WaitingIsResumable
    <3>4. CancelExcludesOthers'
      BY <2>5, <3>o, <3>0, <3>a DEF Outcomes, GraphTaskEnds, rowVars, callVars, TypeOK, RunLifecycle, LiveRunOwnsRow, CancelExcludesOthers
    <3>5. DeleteExcludesRuns'
      BY <2>5, <3>o, <3>0, <3>a DEF Outcomes, GraphTaskEnds, rowVars, callVars, TypeOK, RunLifecycle, LiveRunOwnsRow, DeleteExcludesRuns
    <3>6. InterruptStored'
      BY <2>5, <3>o, <3>0, <3>a DEF Outcomes, GraphTaskEnds, rowVars, callVars, TypeOK, RunLifecycle, LiveRunOwnsRow, InterruptStored
    <3>7. QED
      BY <3>1, <3>2, <3>3, <3>4, <3>5, <3>6
  <2>6. ASSUME NEW r \in Runs, SendReturns(r) PROVE SerialInv'
    <3>o. /\ r \in LiveRuns /\ convOf[r] \in Conversations
          /\ status[convOf[r]] \in {"running", "idle"}
          /\ \A q \in LiveRuns : convOf[q] = convOf[r] => q = r
      BY <2>6 DEF SendReturns, LiveRunOwnsRow
    <3>0. /\ \A d \in Conversations : d # convOf[r] =>
               status'[d] = status[d] /\ activeRun'[d] = activeRun[d] /\ request'[d] = request[d]
          /\ IF graph[r] = "interrupted"
             THEN /\ status'[convOf[r]] = "waiting"
                  /\ activeRun'[convOf[r]] = r /\ request'[convOf[r]] = r
             ELSE status'[convOf[r]] = "idle"
      <4>1. CompleteOrWait(convOf[r], r, graph[r])
        BY <2>6 DEF SendReturns
      <4>2. {"idle", "waiting"} \subseteq Statuses
        BY DEF Statuses
      <4>3. CASE graph[r] = "interrupted"
        <5>1. Save(convOf[r], "waiting", r, r)
          BY <4>1, <4>2, <4>3 DEF CompleteOrWait
        <5>2. QED
          BY <3>o, <4>3, <5>1 DEF Save, TypeOK
      <4>4. CASE graph[r] # "interrupted"
        <5>1. Save(convOf[r], "idle", NoRun, NoRun)
          BY <4>1, <4>2, <4>4 DEF CompleteOrWait, SaveFinished
        <5>2. QED
          BY <3>o, <4>4, <5>1, <4>1, <4>2, SaveEffect
      <4>5. QED
        BY <4>3, <4>4
    <3>1. RunLifecycle'
      BY <2>6, <3>o, <3>0 DEF SendReturns, callVars, Outcomes, TypeOK, RunLifecycle, FreeCall
    <3>2. LiveRunOwnsRow'
      BY <2>6, <3>o, <3>0 DEF SendReturns, callVars, Outcomes, TypeOK, RunLifecycle, LiveRunOwnsRow
    <3>3. WaitingIsResumable'
      BY <2>6, <3>o, <3>0 DEF SendReturns, callVars, Outcomes, TypeOK, RunLifecycle, LiveRunOwnsRow, WaitingIsResumable, InterruptStored
    <3>4. CancelExcludesOthers'
      BY <2>6, <3>o, <3>0 DEF SendReturns, callVars, Outcomes, TypeOK, RunLifecycle, LiveRunOwnsRow, CancelExcludesOthers
    <3>5. DeleteExcludesRuns'
      BY <2>6, <3>o, <3>0 DEF SendReturns, callVars, Outcomes, TypeOK, RunLifecycle, LiveRunOwnsRow, DeleteExcludesRuns
    <3>6. InterruptStored'
      BY <2>6, <3>o, <3>0 DEF SendReturns, callVars, Outcomes, TypeOK, RunLifecycle, LiveRunOwnsRow, InterruptStored
    <3>7. QED
      BY <3>1, <3>2, <3>3, <3>4, <3>5, <3>6
  <2>7. ASSUME NEW r \in Runs, ResumeReturns(r) PROVE SerialInv'
    <3>o. /\ r \in LiveRuns /\ convOf[r] \in Conversations
          /\ status[convOf[r]] = "running" /\ activeRun[convOf[r]] = r
      BY <2>7 DEF ResumeReturns, LiveRunOwnsRow, RunLifecycle
    <3>0. PICK outcome \in Outcomes \ {"cancelled"} :
            /\ graph' = [graph EXCEPT ![r] = outcome]
            /\ LastCheckpoint(r, outcome)
            /\ CompleteOrWait(convOf[r], r, outcome)
      BY <2>7 DEF ResumeReturns
    <3>a. /\ \A d \in Conversations :
                d # convOf[r] => thread'[d] = thread[d] /\ pending'[d] = pending[d]
          /\ convOf[r] \in Conversations
          /\ outcome = "interrupted" => thread'[convOf[r]] = TRUE /\ pending'[convOf[r]] = r
      BY <3>0, <3>o, LastCheckpointEffect
    <3>b. /\ \A d \in Conversations : d # convOf[r] =>
               status'[d] = status[d] /\ activeRun'[d] = activeRun[d] /\ request'[d] = request[d]
          /\ IF outcome = "interrupted"
             THEN /\ status'[convOf[r]] = "waiting"
                  /\ activeRun'[convOf[r]] = r /\ request'[convOf[r]] = r
             ELSE status'[convOf[r]] = "idle"
      <4>1. {"idle", "waiting"} \subseteq Statuses
        BY DEF Statuses
      <4>2. CASE outcome = "interrupted"
        <5>1. Save(convOf[r], "waiting", r, r)
          BY <3>0, <4>1, <4>2 DEF CompleteOrWait
        <5>2. \A d \in Conversations :
                IF d = convOf[r] /\ status[d] \notin {"fresh", "deleted"}
                THEN status'[d] = "waiting" /\ activeRun'[d] = r /\ request'[d] = r
                ELSE /\ status'[d] = status[d] /\ activeRun'[d] = activeRun[d]
                     /\ request'[d] = request[d]
          BY <3>o, <5>1 DEF Save, TypeOK
        <5>3. QED
          BY <3>o, <4>2, <5>2
      <4>3. CASE outcome # "interrupted"
        <5>1. Save(convOf[r], "idle", NoRun, NoRun)
          BY <3>0, <4>1, <4>3 DEF CompleteOrWait, SaveFinished
        <5>2. QED
          BY <3>o, <4>3, <5>1, <3>0, <4>1, SaveEffect
      <4>4. QED
        BY <4>2, <4>3
    <3>1. RunLifecycle'
      BY <2>7, <3>o, <3>0, <3>a, <3>b DEF ResumeReturns, callVars, Outcomes, TypeOK, RunLifecycle, FreeCall
    <3>2. LiveRunOwnsRow'
      BY <2>7, <3>o, <3>0, <3>a, <3>b DEF ResumeReturns, callVars, Outcomes, TypeOK, RunLifecycle, LiveRunOwnsRow
    <3>3. WaitingIsResumable'
      BY <2>7, <3>o, <3>0, <3>a, <3>b DEF ResumeReturns, callVars, Outcomes, TypeOK, RunLifecycle, LiveRunOwnsRow, WaitingIsResumable
    <3>4. CancelExcludesOthers'
      BY <2>7, <3>o, <3>0, <3>a, <3>b DEF ResumeReturns, callVars, Outcomes, TypeOK, RunLifecycle, LiveRunOwnsRow, CancelExcludesOthers
    <3>5. DeleteExcludesRuns'
      BY <2>7, <3>o, <3>0, <3>a, <3>b DEF ResumeReturns, callVars, Outcomes, TypeOK, RunLifecycle, LiveRunOwnsRow, DeleteExcludesRuns
    <3>6. InterruptStored'
      BY <2>7, <3>o, <3>0, <3>a, <3>b DEF ResumeReturns, callVars, Outcomes, TypeOK, RunLifecycle, LiveRunOwnsRow, InterruptStored
    <3>7. QED
      BY <3>1, <3>2, <3>3, <3>4, <3>5, <3>6
  <2>8. ASSUME NEW r \in Runs, NEW k \in Calls, CancelRun(k, r) PROVE SerialInv'
    <3>1. RunLifecycle'
      BY <2>8 DEF CancelRun, Cancellable, diskVars, rowVars, TypeOK, RunLifecycle, FreeCall
    <3>2. LiveRunOwnsRow'
      BY <2>8 DEF CancelRun, Cancellable, diskVars, rowVars, TypeOK, RunLifecycle, LiveRunOwnsRow
    <3>3. WaitingIsResumable'
      BY <2>8 DEF CancelRun, Cancellable, diskVars, rowVars, TypeOK, RunLifecycle, LiveRunOwnsRow, WaitingIsResumable
    <3>4. CancelExcludesOthers'
      BY <2>8 DEF CancelRun, Cancellable, diskVars, rowVars, TypeOK, RunLifecycle, LiveRunOwnsRow, CancelExcludesOthers
    <3>5. DeleteExcludesRuns'
      BY <2>8 DEF CancelRun, Cancellable, diskVars, rowVars, TypeOK, RunLifecycle, LiveRunOwnsRow, DeleteExcludesRuns
    <3>6. InterruptStored'
      BY <2>8 DEF CancelRun, Cancellable, diskVars, rowVars, TypeOK, RunLifecycle, LiveRunOwnsRow, InterruptStored
    <3>7. QED
      BY <3>1, <3>2, <3>3, <3>4, <3>5, <3>6
  <2>e. ASSUME NEW r \in Runs, CancelEndedRun(r) PROVE SerialInv'
    <3>o. /\ r \in LiveRuns /\ r \in ActiveTasks /\ convOf[r] \in Conversations
          /\ status[convOf[r]] = "running" /\ graph[r] \in Outcomes
          /\ \A q \in LiveRuns : convOf[q] = convOf[r] => q = r
          /\ UNCHANGED <<up, thread, pending, runVars, callVars>>
      BY <2>e DEF CancelEndedRun, Cancellable, LiveRunOwnsRow
    <3>0. \A d \in Conversations :
            IF d = convOf[r]
            THEN status'[d] = "idle" /\ activeRun'[d] = NoRun /\ request'[d] = NoRun
            ELSE status'[d] = status[d] /\ activeRun'[d] = activeRun[d] /\ request'[d] = request[d]
      <4>1. Save(convOf[r], "idle", NoRun, NoRun)
        BY <2>e DEF CancelEndedRun, SaveFinished
      <4>2. QED
        BY <3>o, <4>1 DEF Save, TypeOK
    <3>1. RunLifecycle'
      BY <3>o DEF runVars, callVars, RunLifecycle, FreeCall
    <3>2. LiveRunOwnsRow'
      BY <3>o, <3>0 DEF runVars, LiveRunOwnsRow
    <3>3. WaitingIsResumable'
      BY <3>o, <3>0 DEF runVars, WaitingIsResumable
    <3>4. CancelExcludesOthers'
      BY <3>o DEF runVars, callVars, CancelExcludesOthers
    <3>5. DeleteExcludesRuns'
      BY <3>o, <3>0 DEF runVars, callVars, DeleteExcludesRuns
    <3>6. InterruptStored'
      BY <3>o DEF runVars, InterruptStored
    <3>7. QED
      BY <3>1, <3>2, <3>3, <3>4, <3>5, <3>6
  <2>9. ASSUME NEW k \in Calls, CancelReturns(k) PROVE SerialInv'
    <3>0. /\ \A d \in Conversations : d # convOf[cancelling[k]] =>
               status'[d] = status[d] /\ activeRun'[d] = activeRun[d] /\ request'[d] = request[d]
          /\ \A d \in Conversations : d = convOf[cancelling[k]] =>
               \/ status'[d] = "idle"
               \/ status[d] \in {"fresh", "deleted"} /\ status'[d] = status[d]
      BY <2>9, SaveEffect DEF CancelReturns, TaskGathered, SaveFinished, Statuses
    <3>1. RunLifecycle'
      BY <2>9, <3>0 DEF CancelReturns, TaskGathered, runVars, CancelExcludesOthers, TypeOK, RunLifecycle, FreeCall
    <3>2. LiveRunOwnsRow'
      BY <2>9, <3>0 DEF CancelReturns, TaskGathered, runVars, CancelExcludesOthers, TypeOK, RunLifecycle, LiveRunOwnsRow
    <3>3. WaitingIsResumable'
      BY <2>9, <3>0 DEF CancelReturns, TaskGathered, runVars, CancelExcludesOthers, TypeOK, RunLifecycle, LiveRunOwnsRow, WaitingIsResumable
    <3>4. CancelExcludesOthers'
      BY <2>9, <3>0 DEF CancelReturns, TaskGathered, runVars, CancelExcludesOthers, TypeOK, RunLifecycle, LiveRunOwnsRow
    <3>5. DeleteExcludesRuns'
      BY <2>9, <3>0 DEF CancelReturns, TaskGathered, runVars, CancelExcludesOthers, TypeOK, RunLifecycle, LiveRunOwnsRow, DeleteExcludesRuns
    <3>6. InterruptStored'
      BY <2>9, <3>0 DEF CancelReturns, TaskGathered, runVars, CancelExcludesOthers, TypeOK, RunLifecycle, LiveRunOwnsRow, InterruptStored
    <3>7. QED
      BY <3>1, <3>2, <3>3, <3>4, <3>5, <3>6
  <2>10. ASSUME NEW k \in Calls, NEW c \in Conversations, Delete(k, c) PROVE SerialInv'
    <3>n. LiveRuns \cap RunsOf(c) = {}
      BY <2>10 DEF Delete, CheckIdle, Settling, LiveRunOwnsRow
    <3>1. RunLifecycle'
      BY <2>10 DEF Delete, CheckIdle, diskVars, rowVars, runVars, TypeOK, RunLifecycle, FreeCall
    <3>2. LiveRunOwnsRow'
      BY <2>10 DEF Delete, CheckIdle, diskVars, rowVars, runVars, TypeOK, RunLifecycle, LiveRunOwnsRow
    <3>3. WaitingIsResumable'
      BY <2>10 DEF Delete, CheckIdle, diskVars, rowVars, runVars, TypeOK, RunLifecycle, LiveRunOwnsRow, WaitingIsResumable
    <3>4. CancelExcludesOthers'
      BY <2>10 DEF Delete, CheckIdle, diskVars, rowVars, runVars, TypeOK, RunLifecycle, LiveRunOwnsRow, CancelExcludesOthers
    <3>5. DeleteExcludesRuns'
      BY <2>10, <3>n DEF Delete, CheckIdle, diskVars, rowVars, runVars, TypeOK, FreeCall, DeleteExcludesRuns
    <3>6. InterruptStored'
      BY <2>10 DEF Delete, CheckIdle, diskVars, rowVars, runVars, TypeOK, RunLifecycle, LiveRunOwnsRow, InterruptStored
    <3>7. QED
      BY <3>1, <3>2, <3>3, <3>4, <3>5, <3>6
  <2>11. ASSUME NEW k \in Calls, DeleteThread(k) PROVE SerialInv'
    <3>1. RunLifecycle'
      BY <2>11 DEF DeleteThread, rowVars, runVars, TypeOK, RunLifecycle, FreeCall
    <3>2. LiveRunOwnsRow'
      BY <2>11 DEF DeleteThread, rowVars, runVars, TypeOK, RunLifecycle, LiveRunOwnsRow
    <3>3. WaitingIsResumable'
      BY <2>11 DEF DeleteThread, rowVars, runVars, TypeOK, RunLifecycle, LiveRunOwnsRow, DeleteExcludesRuns, WaitingIsResumable
    <3>4. CancelExcludesOthers'
      BY <2>11 DEF DeleteThread, rowVars, runVars, TypeOK, RunLifecycle, LiveRunOwnsRow, CancelExcludesOthers
    <3>5. DeleteExcludesRuns'
      BY <2>11 DEF DeleteThread, rowVars, runVars, TypeOK, RunLifecycle, LiveRunOwnsRow, DeleteExcludesRuns
    <3>6. InterruptStored'
      BY <2>11 DEF DeleteThread, rowVars, runVars, TypeOK, RunLifecycle, LiveRunOwnsRow, DeleteExcludesRuns, InterruptStored
    <3>7. QED
      BY <3>1, <3>2, <3>3, <3>4, <3>5, <3>6
  <2>12. ASSUME NEW k \in Calls, DeleteFails(k) PROVE SerialInv'
    <3>1. RunLifecycle'
      BY <2>12 DEF DeleteFails, diskVars, rowVars, runVars, TypeOK, RunLifecycle, FreeCall
    <3>2. LiveRunOwnsRow'
      BY <2>12 DEF DeleteFails, diskVars, rowVars, runVars, TypeOK, RunLifecycle, LiveRunOwnsRow
    <3>3. WaitingIsResumable'
      BY <2>12 DEF DeleteFails, diskVars, rowVars, runVars, TypeOK, RunLifecycle, LiveRunOwnsRow, WaitingIsResumable
    <3>4. CancelExcludesOthers'
      BY <2>12 DEF DeleteFails, diskVars, rowVars, runVars, TypeOK, RunLifecycle, LiveRunOwnsRow, CancelExcludesOthers
    <3>5. DeleteExcludesRuns'
      BY <2>12 DEF DeleteFails, diskVars, rowVars, runVars, TypeOK, RunLifecycle, LiveRunOwnsRow, DeleteExcludesRuns
    <3>6. InterruptStored'
      BY <2>12 DEF DeleteFails, diskVars, rowVars, runVars, TypeOK, RunLifecycle, LiveRunOwnsRow, InterruptStored
    <3>7. QED
      BY <3>1, <3>2, <3>3, <3>4, <3>5, <3>6
  <2>13. ASSUME NEW k \in Calls, DeleteReturns(k) PROVE SerialInv'
    <3>1. RunLifecycle'
      BY <2>13 DEF DeleteReturns, runVars, TypeOK, RunLifecycle, FreeCall
    <3>2. LiveRunOwnsRow'
      BY <2>13 DEF DeleteReturns, runVars, TypeOK, RunLifecycle, LiveRunOwnsRow, DeleteExcludesRuns
    <3>3. WaitingIsResumable'
      BY <2>13 DEF DeleteReturns, runVars, TypeOK, RunLifecycle, LiveRunOwnsRow, WaitingIsResumable
    <3>4. CancelExcludesOthers'
      BY <2>13 DEF DeleteReturns, runVars, TypeOK, RunLifecycle, LiveRunOwnsRow, CancelExcludesOthers
    <3>5. DeleteExcludesRuns'
      BY <2>13 DEF DeleteReturns, runVars, TypeOK, RunLifecycle, LiveRunOwnsRow, DeleteExcludesRuns
    <3>6. InterruptStored'
      BY <2>13 DEF DeleteReturns, runVars, TypeOK, RunLifecycle, LiveRunOwnsRow, InterruptStored
    <3>7. QED
      BY <3>1, <3>2, <3>3, <3>4, <3>5, <3>6
  <2>14. CASE Crash
    <3>1. RunLifecycle'
      BY <2>14 DEF Crash, diskVars, rowVars, TypeOK, RunLifecycle, FreeCall
    <3>2. LiveRunOwnsRow'
      BY <2>14 DEF Crash, diskVars, rowVars, TypeOK, RunLifecycle, LiveRunOwnsRow
    <3>3. WaitingIsResumable'
      BY <2>14 DEF Crash, diskVars, rowVars, TypeOK, RunLifecycle, LiveRunOwnsRow, WaitingIsResumable
    <3>4. CancelExcludesOthers'
      BY <2>14 DEF Crash, diskVars, rowVars, TypeOK, RunLifecycle, LiveRunOwnsRow, CancelExcludesOthers
    <3>5. DeleteExcludesRuns'
      BY <2>14 DEF Crash, diskVars, rowVars, TypeOK, RunLifecycle, LiveRunOwnsRow, DeleteExcludesRuns
    <3>6. InterruptStored'
      BY <2>14 DEF Crash, diskVars, rowVars, TypeOK, RunLifecycle, LiveRunOwnsRow, InterruptStored
    <3>7. QED
      BY <3>1, <3>2, <3>3, <3>4, <3>5, <3>6
  <2>15. CASE Restart
    <3>1. RunLifecycle'
      BY <2>15 DEF Restart, NeedsRecovery, runVars, callVars, TypeOK, RunLifecycle, FreeCall
    <3>2. LiveRunOwnsRow'
      BY <2>15 DEF Restart, NeedsRecovery, runVars, callVars, TypeOK, RunLifecycle, LiveRunOwnsRow
    <3>3. WaitingIsResumable'
      BY <2>15 DEF Restart, NeedsRecovery, runVars, callVars, TypeOK, RunLifecycle, LiveRunOwnsRow, WaitingIsResumable
    <3>4. CancelExcludesOthers'
      BY <2>15 DEF Restart, NeedsRecovery, runVars, callVars, TypeOK, RunLifecycle, LiveRunOwnsRow, CancelExcludesOthers
    <3>5. DeleteExcludesRuns'
      BY <2>15 DEF Restart, NeedsRecovery, runVars, callVars, TypeOK, RunLifecycle, LiveRunOwnsRow, DeleteExcludesRuns
    <3>6. InterruptStored'
      BY <2>15 DEF Restart, NeedsRecovery, runVars, callVars, TypeOK, RunLifecycle, LiveRunOwnsRow, InterruptStored
    <3>7. QED
      BY <3>1, <3>2, <3>3, <3>4, <3>5, <3>6
  <2>16. CASE UNCHANGED vars
    <3>1. RunLifecycle'
      BY <2>16 DEF vars, diskVars, rowVars, runVars, callVars, TypeOK, RunLifecycle, FreeCall
    <3>2. LiveRunOwnsRow'
      BY <2>16 DEF vars, diskVars, rowVars, runVars, callVars, TypeOK, RunLifecycle, LiveRunOwnsRow
    <3>3. WaitingIsResumable'
      BY <2>16 DEF vars, diskVars, rowVars, runVars, callVars, TypeOK, RunLifecycle, LiveRunOwnsRow, WaitingIsResumable
    <3>4. CancelExcludesOthers'
      BY <2>16 DEF vars, diskVars, rowVars, runVars, callVars, TypeOK, RunLifecycle, LiveRunOwnsRow, CancelExcludesOthers
    <3>5. DeleteExcludesRuns'
      BY <2>16 DEF vars, diskVars, rowVars, runVars, callVars, TypeOK, RunLifecycle, LiveRunOwnsRow, DeleteExcludesRuns
    <3>6. InterruptStored'
      BY <2>16 DEF vars, diskVars, rowVars, runVars, callVars, TypeOK, RunLifecycle, LiveRunOwnsRow, InterruptStored
    <3>7. QED
      BY <3>1, <3>2, <3>3, <3>4, <3>5, <3>6
  <2>17. QED
    BY <2>1, <2>2, <2>3, <2>4, <2>5, <2>6, <2>7, <2>8, <2>9, <2>10, <2>11, <2>12, <2>13, <2>14, <2>15, <2>16, <2>e
       DEF Next, RunStep, CallStep
<1>3. QED
  BY <1>1, <1>2, TypeCorrect, PTL DEF Spec, SerialInv

\* With serial clients a conversation never has two graphs at work.
THEOREM OneRun == ASSUME SerialClients PROVE Spec => []OneRunPerConversation
<1>1. SerialInv => OneRunPerConversation
  BY DEF SerialInv, RunLifecycle, LiveRunOwnsRow, OneRunPerConversation, Executing
<1>2. QED
  BY <1>1, SerialInvariant, PTL

\* With serial clients every permission request on offer can be answered.
THEOREM WaitingResumable == ASSUME SerialClients PROVE Spec => []WaitingIsResumable
<1>1. SerialInv => WaitingIsResumable
  BY DEF SerialInv
<1>2. QED
  BY <1>1, SerialInvariant, PTL

\* With serial clients a deleted conversation leaves no graph and no checkpoint.
THEOREM NothingLeft == ASSUME SerialClients PROVE Spec => []NothingAfterDelete
<1>1. SerialInv => NothingAfterDelete
  BY DEF SerialInv, RunLifecycle, LiveRunOwnsRow, DeleteExcludesRuns, NothingAfterDelete,
         Executing, RunsOf
<1>2. QED
  BY <1>1, SerialInvariant, PTL

LEMMA HandlerInit == Init => HandlerInv
  BY NoRunAssumption, NoConversationAssumption
     DEF Init, HandlerInv, TypeOK, Statuses, RowsNameTheirRuns, RunningHasHandler

\* Every step of the service keeps HandlerInv.
LEMMA HandlerStep == HandlerInv /\ TypeOK' /\ [Next]_vars => HandlerInv'
<1> SUFFICES ASSUME HandlerInv, TypeOK', [Next]_vars PROVE HandlerInv'
  OBVIOUS
<1> USE NoRunAssumption, NoConversationAssumption
<1> USE DEF HandlerInv, RowsNameTheirRuns, RunningHasHandler, LiveRuns, ActiveTasks, RunsOf
<1>1. ASSUME NEW c \in Conversations, Create(c) PROVE HandlerInv'
  BY <1>1 DEF Create, runVars, callVars, TypeOK
<1>2. ASSUME NEW c \in Conversations, NEW r \in Runs, SendMessage(c, r) PROVE HandlerInv'
  <2>1. \A d \in Conversations :
          IF d = c /\ status[d] \notin {"fresh", "deleted"}
          THEN status'[d] = "running" /\ activeRun'[d] = r /\ request'[d] = NoRun
          ELSE status'[d] = status[d] /\ activeRun'[d] = activeRun[d] /\ request'[d] = request[d]
    <3>1. Save(c, "running", r, NoRun) /\ "running" \in Statuses
      BY <1>2 DEF SendMessage, Statuses
    <3>2. QED
      BY <3>1, SaveEffect
  <2>2. RowsNameTheirRuns'
    BY <1>2, <2>1 DEF SendMessage, CheckIdle, TypeOK
  <2>3. RunningHasHandler'
    BY <1>2, <2>1 DEF SendMessage, CheckIdle, TypeOK
  <2>4. QED
    BY <2>2, <2>3
<1>3. ASSUME NEW c \in Conversations, NEW r \in Runs, ResumePermission(c, r) PROVE HandlerInv'
  <2>1. \A d \in Conversations :
          IF d = c /\ status[d] \notin {"fresh", "deleted"}
          THEN status'[d] = "running" /\ activeRun'[d] = r /\ request'[d] = NoRun
          ELSE status'[d] = status[d] /\ activeRun'[d] = activeRun[d] /\ request'[d] = request[d]
    <3>1. Save(c, "running", r, NoRun) /\ "running" \in Statuses
      BY <1>3 DEF ResumePermission, Statuses
    <3>2. QED
      BY <3>1, SaveEffect
  <2>2. QED
    BY <1>3, <2>1 DEF ResumePermission, TypeOK
<1>4. ASSUME NEW r \in Runs, GraphCheckpoint(r) \/ GraphTaskEnds(r) PROVE HandlerInv'
  BY <1>4 DEF GraphCheckpoint, GraphTaskEnds, rowVars, runVars, callVars
<1>5. ASSUME NEW r \in Runs, NEW outcome \in Outcomes, CompleteOrWait(convOf[r], r, outcome)
      PROVE  /\ \A d \in Conversations : d # convOf[r] =>
                   status'[d] = status[d] /\ activeRun'[d] = activeRun[d]
             /\ convOf[r] \in Conversations =>
                  /\ status'[convOf[r]] # "running"
                  /\ status'[convOf[r]] = "waiting" => activeRun'[convOf[r]] = r
                  /\ status'[convOf[r]] # "waiting" => activeRun'[convOf[r]] = NoRun
  <2>0. {"idle", "waiting"} \subseteq Statuses
    BY DEF Statuses
  <2>1. CASE outcome = "interrupted"
    <3>1. Save(convOf[r], "waiting", r, r)
      BY <1>5, <2>1 DEF CompleteOrWait
    <3>2. \A d \in Conversations :
            IF d = convOf[r] /\ status[d] \notin {"fresh", "deleted"}
            THEN status'[d] = "waiting" /\ activeRun'[d] = r /\ request'[d] = r
            ELSE status'[d] = status[d] /\ activeRun'[d] = activeRun[d] /\ request'[d] = request[d]
      BY <3>1 DEF Save, TypeOK, rowVars
    <3>3. QED
      BY <3>2
  <2>2. CASE outcome # "interrupted"
    <3>1. Save(convOf[r], "idle", NoRun, NoRun)
      BY <1>5, <2>2 DEF CompleteOrWait, SaveFinished
    <3>2. \A d \in Conversations :
            IF d = convOf[r] /\ status[d] \notin {"fresh", "deleted"}
            THEN status'[d] = "idle" /\ activeRun'[d] = NoRun /\ request'[d] = NoRun
            ELSE status'[d] = status[d] /\ activeRun'[d] = activeRun[d] /\ request'[d] = request[d]
      BY <2>0, <3>1, SaveEffect
    <3>3. QED
      BY <3>2
  <2>3. QED
    BY <2>1, <2>2
<1>6. ASSUME NEW r \in Runs, SendReturns(r) PROVE HandlerInv'
  BY <1>5, <1>6 DEF SendReturns, TypeOK
<1>7. ASSUME NEW r \in Runs, ResumeReturns(r) PROVE HandlerInv'
  <2>1. PICK outcome \in Outcomes : CompleteOrWait(convOf[r], r, outcome)
    BY <1>7 DEF ResumeReturns
  <2>2. QED
    BY <1>5, <1>7, <2>1 DEF ResumeReturns, TypeOK
<1>8. ASSUME NEW r \in Runs, NEW k \in Calls, CancelRun(k, r) PROVE HandlerInv'
  BY <1>8 DEF CancelRun, diskVars, rowVars
<1>e. ASSUME NEW r \in Runs, CancelEndedRun(r) PROVE HandlerInv'
  <2>1. Save(convOf[r], "idle", NoRun, NoRun) /\ "idle" \in Statuses
    BY <1>e DEF CancelEndedRun, SaveFinished, Statuses
  <2>2. \A d \in Conversations :
            IF d = convOf[r] /\ status[d] \notin {"fresh", "deleted"}
            THEN status'[d] = "idle" /\ activeRun'[d] = NoRun /\ request'[d] = NoRun
            ELSE status'[d] = status[d] /\ activeRun'[d] = activeRun[d] /\ request'[d] = request[d]
    BY <2>1, SaveEffect
  <2>3. QED
    BY <1>e, <2>2 DEF CancelEndedRun, runVars
<1>9. ASSUME NEW k \in Calls, CancelReturns(k) PROVE HandlerInv'
  <2>1. Save(convOf[cancelling[k]], "idle", NoRun, NoRun) /\ "idle" \in Statuses
    BY <1>9 DEF CancelReturns, SaveFinished, Statuses
  <2>2. \A d \in Conversations :
            IF d = convOf[cancelling[k]] /\ status[d] \notin {"fresh", "deleted"}
            THEN status'[d] = "idle" /\ activeRun'[d] = NoRun /\ request'[d] = NoRun
            ELSE status'[d] = status[d] /\ activeRun'[d] = activeRun[d] /\ request'[d] = request[d]
    BY <2>1, SaveEffect
  <2>3. QED
    BY <1>9, <2>2 DEF CancelReturns, runVars
<1>10. ASSUME NEW k \in Calls, \/ \E c \in Conversations : Delete(k, c)
                               \/ DeleteThread(k) \/ DeleteFails(k)
       PROVE  HandlerInv'
  BY <1>10 DEF Delete, DeleteThread, DeleteFails, diskVars, rowVars, runVars
<1>11. ASSUME NEW k \in Calls, DeleteReturns(k) PROVE HandlerInv'
  BY <1>11 DEF DeleteReturns, runVars, TypeOK
<1>12. CASE Crash
  BY <1>12 DEF Crash, diskVars, rowVars, TypeOK
<1>13. CASE Restart
  BY <1>13 DEF Restart, NeedsRecovery, runVars, TypeOK
<1>14. CASE UNCHANGED vars
  BY <1>14 DEF vars, diskVars, rowVars, runVars
<1>15. QED
  BY <1>1, <1>2, <1>3, <1>4, <1>6, <1>7, <1>8, <1>9, <1>10, <1>11, <1>12, <1>13, <1>14, <1>e
     DEF Next, RunStep, CallStep

\* HandlerInv is an invariant for any clients.
THEOREM HandlerInvariant == Spec => []HandlerInv
BY HandlerInit, HandlerStep, TypeCorrect, PTL DEF Spec, HandlerInv

\* For any clients: while the server is up, a row that says running names a run
\* whose handler will still save it, so no conversation stays locked.
THEOREM NoLeakedLock == Spec => []RunningHasHandler
BY HandlerInvariant, PTL DEF HandlerInv

-----------------------------------------------------------------------------
(* Steps *)

\* A save brings no deleted row back, and makes none fresh.
LEMMA SaveKeepsDeleted ==
  ASSUME TypeOK, NEW c, NEW st \in Statuses \ {"fresh"},
         NEW run \in Runs \cup {NoRun}, NEW req \in Runs \cup {NoRun}, Save(c, st, run, req),
         NEW d \in Conversations
  PROVE  /\ status[d] = "deleted" => status'[d] = "deleted"
         /\ status'[d] = "fresh" => status[d] = "fresh"
BY SaveEffect DEF Statuses

\* What the end of a run's handler saves.
LEMMA HandlerSaves ==
  ASSUME TypeOK, NEW r \in Runs, NEW outcome, CompleteOrWait(convOf[r], r, outcome)
  PROVE  \E st \in {"waiting", "idle"}, run \in {r, NoRun} :
           /\ Save(convOf[r], st, run, run)
           /\ st = "waiting" => run = r
BY DEF CompleteOrWait, SaveFinished

\* No step brings a deleted row back or makes a row fresh again.
LEMMA RowsGrowOld ==
  ASSUME TypeOK, [Next]_vars, NEW d \in Conversations
  PROVE  /\ status[d] = "deleted" => status'[d] = "deleted"
         /\ status'[d] = "fresh" => status[d] = "fresh"
<1> DEFINE Goal == /\ status[d] = "deleted" => status'[d] = "deleted"
                   /\ status'[d] = "fresh" => status[d] = "fresh"
<1>0. {"waiting", "idle", "running"} \subseteq Statuses \ {"fresh"} /\ NoRun \in Runs \cup {NoRun}
  BY DEF Statuses
<1>1. ASSUME NEW c \in Conversations, Create(c) PROVE Goal
  BY <1>1 DEF Create, TypeOK
<1>2. ASSUME NEW c \in Conversations, NEW r \in Runs, SendMessage(c, r) \/ ResumePermission(c, r)
      PROVE  Goal
  <2>1. Save(c, "running", r, NoRun)
    BY <1>2 DEF SendMessage, ResumePermission
  <2> QED BY <1>0, <2>1, SaveKeepsDeleted
<1>3. ASSUME NEW r \in Runs, NEW outcome, CompleteOrWait(convOf[r], r, outcome)
      PROVE  Goal
  <2>1. PICK st \in {"waiting", "idle"}, run \in {r, NoRun} : Save(convOf[r], st, run, run)
    BY <1>3, HandlerSaves
  <2>2. st \in Statuses \ {"fresh"} /\ run \in Runs \cup {NoRun}
    BY <1>0
  <2> QED BY <2>1, <2>2, SaveKeepsDeleted
<1>4. ASSUME NEW r \in Runs, SendReturns(r) \/ ResumeReturns(r)
      PROVE  Goal
  <2>1. \E outcome : CompleteOrWait(convOf[r], r, outcome)
    BY <1>4 DEF SendReturns, ResumeReturns
  <2> QED BY <2>1, <1>3
<1>5. ASSUME NEW k \in Calls, CancelReturns(k) PROVE Goal
  <2>1. Save(convOf[cancelling[k]], "idle", NoRun, NoRun)
    BY <1>5 DEF CancelReturns, SaveFinished
  <2> QED BY <1>0, <2>1, SaveKeepsDeleted
<1>e. ASSUME NEW r \in Runs, CancelEndedRun(r) PROVE Goal
  <2>1. Save(convOf[r], "idle", NoRun, NoRun)
    BY <1>e DEF CancelEndedRun, SaveFinished
  <2> QED BY <1>0, <2>1, SaveKeepsDeleted
<1>6. ASSUME NEW k \in Calls, DeleteReturns(k) PROVE Goal
  BY <1>6 DEF DeleteReturns, TypeOK
<1>7. CASE Restart
  BY <1>7 DEF Restart, NeedsRecovery, TypeOK
<1>8. CASE UNCHANGED status
  BY <1>8
<1>9. ASSUME NEW r \in Runs, GraphCheckpoint(r) \/ GraphTaskEnds(r) PROVE UNCHANGED status
  BY <1>9 DEF GraphCheckpoint, GraphTaskEnds, rowVars
<1>10. ASSUME NEW r \in Runs, NEW k \in Calls, CancelRun(k, r) PROVE UNCHANGED status
  BY <1>10 DEF CancelRun, diskVars
<1>11. ASSUME NEW k \in Calls, (\E c \in Conversations : Delete(k, c)) \/ DeleteThread(k) \/ DeleteFails(k)
       PROVE  UNCHANGED status
  BY <1>11 DEF Delete, DeleteThread, DeleteFails, diskVars, rowVars
<1>12. Crash \/ UNCHANGED vars => UNCHANGED status
  BY DEF Crash, vars, diskVars
<1>13. ASSUME NEW r \in Runs, RunStep(r) PROVE Goal
  BY <1>2, <1>4, <1>8, <1>9, <1>10, <1>13, <1>e DEF RunStep
<1>14. ASSUME NEW k \in Calls, CallStep(k) PROVE Goal
  BY <1>5, <1>6, <1>8, <1>11, <1>14 DEF CallStep
<1>15. Goal
  BY <1>1, <1>7, <1>8, <1>12, <1>13, <1>14 DEF Next
<1> QED BY <1>15

\* For any clients: a save that arrives after the delete does not bring the row back.
THEOREM DeletedStays == Spec => DeletedIsFinal
<1>1. TypeOK /\ [Next]_vars =>
        [\A c \in Conversations : status[c] = "deleted" => status'[c] = "deleted"]_vars
  BY RowsGrowOld
<1> QED BY <1>1, TypeCorrect, PTL DEF Spec, DeletedIsFinal

\* With serial clients a handler that returns finds the row of its conversation
\* running, or idle after a cancel that met the ended graph task.
LEMMA EndingRunsRow ==
  ASSUME SerialInv, NEW r \in Runs, SendReturns(r) \/ ResumeReturns(r)
  PROVE  /\ r \in LiveRuns /\ convOf[r] \in Conversations
         /\ status[convOf[r]] \in {"running", "idle"}
         /\ \E outcome : CompleteOrWait(convOf[r], r, outcome)
<1>1. r \in LiveRuns /\ \E outcome : CompleteOrWait(convOf[r], r, outcome)
  BY DEF SendReturns, ResumeReturns, LiveRuns
<1> QED BY <1>1 DEF SerialInv, LiveRunOwnsRow

\* A step that opens no cancel call and shows no question on the row of a cancelled
\* run, and keeps what is known of its graph.
Kept(k) ==
  \/ cancelling'[k] = NoRun
  \/ /\ cancelling'[k] = cancelling[k]
     /\ graph'[cancelling[k]] \in {"running", "cancelled"}
     /\ graph'[cancelling[k]] = "running" => cancelling[k] \in cancelRequested'
     /\ convOf'[cancelling[k]] = convOf[cancelling[k]]
     /\ \A c \in Conversations :
          convOf[cancelling[k]] = c /\ status'[c] = "waiting" => status[c] = "waiting"

LEMMA KeptCancels ==
  ASSUME CancelInv, NEW k \in Calls, Kept(k)
  PROVE  /\ cancelling'[k] # NoRun =>
              /\ graph'[cancelling'[k]] \in {"running", "cancelled"}
              /\ graph'[cancelling'[k]] = "running" => cancelling'[k] \in cancelRequested'
         /\ \A c \in Conversations :
              cancelling'[k] \in {r \in Runs : convOf'[r] = c} => status'[c] # "waiting"
<1> USE NoRunAssumption
<1>1. CASE cancelling'[k] = NoRun
  BY <1>1
<1>2. CASE cancelling'[k] # NoRun
  BY <1>2 DEF Kept, CancelInv, RunsOf
<1> QED BY <1>1, <1>2

\* CancelInv is kept: the graph of a cancelled run can only end cancelled, so its
\* handler, the only one alive there, saves no question.
LEMMA CancelStep ==
  ASSUME SerialInv, TypeOK', CancelInv, [Next]_vars
  PROVE  CancelInv'
<1> USE NoRunAssumption, NoConversationAssumption
<1>0. TypeOK
  BY DEF SerialInv
<1>1. ASSUME NEW r \in Runs, NEW c \in Conversations, convOf'[r] = c
      PROVE  status'[c] # "fresh"
  <2>1. CASE convOf[r] = c
    BY <1>0, <2>1, RowsGrowOld DEF CancelInv
  <2>2. CASE convOf[r] # c
    <3>1. PICK d \in Conversations, q \in Runs : SendMessage(d, q)
      BY <1>1, <2>2 DEF Next, RunStep, CallStep, Create, ResumePermission, GraphCheckpoint, GraphTaskEnds,
           SendReturns, ResumeReturns, CancelRun, CancelEndedRun, CancelReturns, Delete, DeleteThread,
           DeleteFails, DeleteReturns, Crash, Restart, runVars, vars
    <3>2. d = c
      BY <1>0, <1>1, <2>2, <3>1 DEF SendMessage, TypeOK
    <3>3. status[c] # "fresh"
      BY <3>1, <3>2 DEF SendMessage, CheckIdle
    <3> QED BY <1>0, <3>3, RowsGrowOld
  <2> QED BY <2>1, <2>2
<1> DEFINE Good(k) ==
             /\ cancelling'[k] # NoRun =>
                  /\ graph'[cancelling'[k]] \in {"running", "cancelled"}
                  /\ graph'[cancelling'[k]] = "running" => cancelling'[k] \in cancelRequested'
             /\ \A c \in Conversations :
                  cancelling'[k] \in {r \in Runs : convOf'[r] = c} => status'[c] # "waiting"
<1>2. ASSUME NEW k \in Calls, Kept(k) PROVE Good(k)
  BY <1>2, KeptCancels
<1>3. ASSUME NEW k \in Calls, UNCHANGED <<cancelling, graph, cancelRequested, convOf>>,
             \A c \in Conversations : status'[c] = "waiting" => status[c] = "waiting"
      PROVE  Kept(k)
  BY <1>3 DEF Kept, CancelInv
<1>4. ASSUME NEW k \in Calls PROVE Good(k)
  <2> HIDE DEF Good
  <2>1. ASSUME NEW d \in Conversations, Create(d) PROVE Good(k)
    <3>1. \A c \in Conversations : status'[c] = "waiting" => status[c] = "waiting"
      BY <1>0, <2>1 DEF Create, TypeOK
    <3> QED BY <1>2, <1>3, <2>1, <3>1 DEF Create, runVars, callVars
  <2>2. ASSUME NEW d \in Conversations, NEW q \in Runs, SendMessage(d, q) PROVE Good(k)
    <3>1. cancelling[k] # NoRun => cancelling[k] # q
      BY <2>2 DEF SendMessage, SerialInv, CancelExcludesOthers
    <3>2. cancelling' = cancelling /\ cancelRequested' = cancelRequested
      BY <2>2 DEF SendMessage, callVars
    <3>3. cancelling[k] # NoRun =>
            /\ convOf'[cancelling[k]] = convOf[cancelling[k]]
            /\ graph'[cancelling[k]] = graph[cancelling[k]]
      BY <1>0, <2>2, <3>1 DEF SendMessage, TypeOK
    <3>4. \A c \in Conversations : status'[c] = "waiting" => status[c] = "waiting"
      BY <1>0, <2>2 DEF SendMessage, CheckIdle, Save, TypeOK
    <3>5. Kept(k)
      BY <3>2, <3>3, <3>4 DEF Kept, CancelInv
    <3> QED BY <1>2, <3>5
  <2>3. ASSUME NEW d \in Conversations, NEW q \in Runs, ResumePermission(d, q) PROVE Good(k)
    <3>1. cancelling' = cancelling /\ cancelRequested' = cancelRequested /\ convOf' = convOf
      BY <2>3 DEF ResumePermission, callVars
    <3>2. convOf[q] = d /\ q \in Runs /\ status[d] = "waiting"
      BY <2>3 DEF ResumePermission, SerialInv, WaitingIsResumable, RunsOf
    <3>3. cancelling[k] # NoRun => cancelling[k] # q
      BY <3>2 DEF CancelInv, RunsOf
    <3>4. cancelling[k] # NoRun => graph'[cancelling[k]] = graph[cancelling[k]]
      BY <1>0, <2>3, <3>3 DEF ResumePermission, TypeOK
    <3>5. \A c \in Conversations : status'[c] = "waiting" => status[c] = "waiting"
      BY <1>0, <2>3 DEF ResumePermission, Save, TypeOK
    <3>6. Kept(k)
      BY <3>1, <3>4, <3>5 DEF Kept, CancelInv
    <3> QED BY <1>2, <3>6
  <2>4. ASSUME NEW q \in Runs, SendReturns(q) PROVE Good(k)
    <3>1. /\ q \in LiveRuns /\ convOf[q] \in Conversations
          /\ status[convOf[q]] \in {"running", "idle"}
      BY <2>4, EndingRunsRow
    <3>2. /\ cancelling' = cancelling /\ graph' = graph /\ convOf' = convOf
          /\ cancelRequested' = cancelRequested \ {q}
          /\ graph[q] \in Outcomes /\ CompleteOrWait(convOf[q], q, graph[q])
      BY <2>4 DEF SendReturns, callVars
    <3>3. CASE cancelling[k] = NoRun
      BY <1>2, <3>2, <3>3 DEF Kept
    <3>4. CASE cancelling[k] # NoRun
      <4>1. graph[cancelling[k]] = "running" => cancelling[k] \in cancelRequested'
        BY <3>2, <3>4 DEF CancelInv, Outcomes
      <4>2. ASSUME NEW c \in Conversations, convOf[cancelling[k]] = c, status'[c] = "waiting"
            PROVE  status[c] = "waiting"
        <5>1. CASE c # convOf[q]
          BY <1>0, <3>1, <3>2, <4>2, <5>1 DEF CompleteOrWait, SaveFinished, Save, rowVars, TypeOK
        <5>2. CASE c = convOf[q]
          <6>1. q = cancelling[k]
            BY <3>1, <3>4, <4>2, <5>2 DEF SerialInv, CancelExcludesOthers
          <6>2. graph[q] # "interrupted"
            BY <3>4, <6>1 DEF CancelInv
          <6> QED BY <1>0, <3>1, <3>2, <4>2, <5>2, <6>2 DEF CompleteOrWait, SaveFinished, Save, TypeOK
        <5> QED BY <5>1, <5>2
      <4>3. Kept(k)
        BY <3>2, <3>4, <4>1, <4>2 DEF Kept, CancelInv
      <4> QED BY <1>2, <4>3
    <3> QED BY <3>3, <3>4
  <2>5. ASSUME NEW q \in Runs, ResumeReturns(q) PROVE Good(k)
    <3>1. q \in LiveRuns /\ convOf[q] \in Conversations /\ q \notin ActiveTasks
      BY <2>5, EndingRunsRow DEF ResumeReturns, SerialInv, RunLifecycle, ActiveTasks
    <3>2. PICK outcome \in Outcomes :
            /\ graph' = [graph EXCEPT ![q] = outcome] /\ CompleteOrWait(convOf[q], q, outcome)
      BY <2>5 DEF ResumeReturns
    <3>3. cancelling' = cancelling /\ convOf' = convOf /\ cancelRequested' = cancelRequested
      BY <2>5 DEF ResumeReturns, callVars
    <3>4. CASE cancelling[k] = NoRun
      BY <1>2, <3>3, <3>4 DEF Kept
    <3>5. CASE cancelling[k] # NoRun
      <4>1. convOf[cancelling[k]] # convOf[q]
        BY <3>1, <3>5 DEF SerialInv, CancelExcludesOthers
      <4>2. graph'[cancelling[k]] = graph[cancelling[k]]
        BY <1>0, <3>2, <3>5, <4>1 DEF TypeOK
      <4>3. \A c \in Conversations : c # convOf[q] => status'[c] = status[c]
        BY <1>0, <3>1, <3>2 DEF CompleteOrWait, SaveFinished, Save, rowVars, TypeOK
      <4>4. Kept(k)
        BY <3>3, <3>5, <4>1, <4>2, <4>3 DEF Kept, CancelInv
      <4> QED BY <1>2, <4>4
    <3> QED BY <3>4, <3>5
  <2>6. ASSUME NEW q \in Runs, NEW j \in Calls, CancelRun(j, q) PROVE Good(k)
    <3>1. /\ UNCHANGED <<status, convOf, graph>> /\ cancelling' = [cancelling EXCEPT ![j] = q]
          /\ cancelRequested' = cancelRequested \cup {q} /\ graph[q] = "running"
      BY <2>6 DEF CancelRun, diskVars
    <3>2. CASE k = j
      <4>1. PICK d \in Conversations : convOf[q] = d /\ status[d] = "running"
        BY <2>6 DEF CancelRun, Cancellable
      <4>2. cancelling'[k] = q
        BY <1>0, <3>1, <3>2 DEF TypeOK
      <4> QED BY <3>1, <4>1, <4>2 DEF Good
    <3>3. CASE k # j
      <4>1. Kept(k)
        BY <1>0, <3>1, <3>3 DEF Kept, CancelInv, TypeOK
      <4> QED BY <1>2, <4>1
    <3> QED BY <3>2, <3>3
  <2>7. ASSUME NEW q \in Runs, GraphCheckpoint(q) PROVE Good(k)
    BY <1>2, <1>3, <2>7 DEF GraphCheckpoint, rowVars, runVars, callVars
  <2>8. ASSUME NEW q \in Runs, GraphTaskEnds(q) PROVE Good(k)
    <3>1. PICK outcome \in Outcomes :
            /\ (outcome = "cancelled") <=> (q \in cancelRequested)
            /\ graph' = [graph EXCEPT ![q] = outcome]
      BY <2>8 DEF GraphTaskEnds
    <3>2. /\ UNCHANGED <<cancelling, cancelRequested, convOf, status>> /\ graph[q] = "running"
      BY <2>8 DEF GraphTaskEnds, callVars, rowVars
    <3>3. Kept(k)
      BY <1>0, <3>1, <3>2 DEF Kept, CancelInv, Outcomes, TypeOK
    <3> QED BY <1>2, <3>3
  <2>9. ASSUME NEW q \in Runs, CancelEndedRun(q) PROVE Good(k)
    <3>1. \A c \in Conversations : status'[c] = "waiting" => status[c] = "waiting"
      BY <1>0, <2>9 DEF CancelEndedRun, SaveFinished, Save, rowVars, TypeOK
    <3> QED BY <1>2, <1>3, <2>9, <3>1 DEF CancelEndedRun, runVars, callVars
  <2>10. ASSUME NEW j \in Calls, CancelReturns(j) PROVE Good(k)
    <3>1. /\ UNCHANGED <<convOf, graph, cancelRequested>>
          /\ cancelling' = [cancelling EXCEPT ![j] = NoRun]
      BY <2>10 DEF CancelReturns, runVars
    <3>2. \A c \in Conversations : status'[c] = "waiting" => status[c] = "waiting"
      BY <1>0, <2>10 DEF CancelReturns, SaveFinished, Save, rowVars, TypeOK
    <3>3. cancelling'[k] = cancelling[k] \/ cancelling'[k] = NoRun
      BY <1>0, <3>1 DEF TypeOK
    <3>4. Kept(k)
      BY <3>1, <3>2, <3>3 DEF Kept, CancelInv
    <3> QED BY <1>2, <3>4
  <2>11. ASSUME NEW j \in Calls, \/ \E d \in Conversations : Delete(j, d)
                                 \/ DeleteThread(j) \/ DeleteFails(j)
         PROVE  Good(k)
    BY <1>2, <1>3, <2>11 DEF Delete, DeleteThread, DeleteFails, diskVars, rowVars, runVars
  <2>12. ASSUME NEW j \in Calls, DeleteReturns(j) PROVE Good(k)
    <3>1. \A c \in Conversations : status'[c] = "waiting" => status[c] = "waiting"
      BY <1>0, <2>12 DEF DeleteReturns, TypeOK
    <3> QED BY <1>2, <1>3, <2>12, <3>1 DEF DeleteReturns, runVars
  <2>13. CASE Crash
    <3>1. Kept(k)
      BY <2>13 DEF Crash, Kept
    <3> QED BY <1>2, <3>1
  <2>14. CASE Restart
    <3>1. \A c \in Conversations : status'[c] = "waiting" => status[c] = "waiting"
      BY <2>14 DEF Restart, NeedsRecovery
    <3> QED BY <1>2, <1>3, <2>14, <3>1 DEF Restart, runVars, callVars
  <2>15. CASE UNCHANGED vars
    BY <1>2, <1>3, <2>15 DEF vars, diskVars, runVars, callVars
  <2>16. ASSUME NEW q \in Runs, RunStep(q) PROVE Good(k)
    BY <2>2, <2>3, <2>4, <2>5, <2>6, <2>7, <2>8, <2>9, <2>16 DEF RunStep
  <2>17. ASSUME NEW j \in Calls, CallStep(j) PROVE Good(k)
    BY <2>10, <2>11, <2>12, <2>17 DEF CallStep
  <2> QED BY <2>1, <2>13, <2>14, <2>15, <2>16, <2>17 DEF Next
<1> QED BY <1>1, <1>4 DEF CancelInv, RunsOf

\* With serial clients a run somebody waits to see cancelled ends cancelled, and its
\* row never shows a question.
THEOREM CancelInvariant == ASSUME SerialClients PROVE Spec => []CancelInv
<1>1. Init => CancelInv
  BY NoRunAssumption, NoConversationAssumption DEF Init, CancelInv, RunsOf
<1>2. SerialInv /\ TypeOK' /\ CancelInv /\ [Next]_vars => CancelInv'
  BY CancelStep
<1> QED BY <1>1, <1>2, SerialInvariant, TypeCorrect, PTL DEF Spec

\* When a cancel_run that had to wait answers, no handler is left on the conversation,
\* and its stale save leaves the row idle.
LEMMA CancelAnswers ==
  ASSUME SerialInv, CancelInv, NEW k \in Calls, NEW c \in Conversations, CancelReturns(k),
         cancelling[k] \in RunsOf(c)
  PROVE  LiveRuns' \cap RunsOf(c) = {} /\ status'[c] \in {"idle", "deleted"}
<1> USE NoRunAssumption
<1>1. /\ convOf[cancelling[k]] = c /\ cancelling[k] \in Runs /\ cancelling[k] \notin ActiveTasks
      /\ UNCHANGED <<sender, resuming>> /\ Save(c, "idle", NoRun, NoRun)
  BY DEF CancelReturns, RunsOf, TaskGathered, SaveFinished, runVars
<1>2. ASSUME NEW r \in LiveRuns, r \in RunsOf(c) PROVE FALSE
  <2>1. r = cancelling[k] /\ r \in ActiveTasks
    BY <1>1, <1>2 DEF SerialInv, CancelExcludesOthers, RunsOf
  <2> QED BY <1>1, <2>1
<1>3. LiveRuns' = LiveRuns
  BY <1>1 DEF LiveRuns, ActiveTasks
<1>4. status[c] # "fresh"
  BY <1>1 DEF CancelInv
<1>5. status'[c] \in {"idle", "deleted"}
  BY <1>1, <1>4 DEF Save, rowVars, SerialInv, TypeOK
<1> QED BY <1>2, <1>3, <1>5

\* With serial clients the answer of a cancel_run that had to wait is true: no handler
\* is at work on the conversation any more, and the row says so.
THEOREM CancelTellsTruth == ASSUME SerialClients PROVE Spec => CancelAnswerIsTrue
<1>1. ASSUME SerialInv, CancelInv, [Next]_vars, NEW k \in Calls, NEW c \in Conversations,
             cancelling[k] \in RunsOf(c), cancelling'[k] = NoRun, up'
      PROVE  LiveRuns' \cap RunsOf(c) = {} /\ status'[c] \in {"idle", "deleted"}
  <2>1. cancelling[k] \in Runs /\ cancelling[k] # NoRun /\ TypeOK
    BY <1>1, NoRunAssumption DEF RunsOf, SerialInv
  <2>2. CancelReturns(k)
    <3>1. ~ UNCHANGED cancelling
      BY <1>1, <2>1
    <3>2. PICK j \in Calls : CancelReturns(j) \/ \E r \in Runs : CancelRun(j, r)
      BY <1>1, <3>1 DEF Next, RunStep, CallStep, Create, SendMessage, ResumePermission, GraphCheckpoint,
           GraphTaskEnds, SendReturns, ResumeReturns, CancelEndedRun, Delete, DeleteThread,
           DeleteFails, DeleteReturns, Crash, Restart, callVars, vars
    <3>3. CASE CancelReturns(j)
      BY <1>1, <2>1, <3>3 DEF CancelReturns, TypeOK
    <3>4. ASSUME NEW r \in Runs, CancelRun(j, r) PROVE FALSE
      BY <1>1, <2>1, <3>4, NoRunAssumption DEF CancelRun, TypeOK
    <3> QED BY <3>2, <3>3, <3>4
  <2> QED BY <1>1, <2>2, CancelAnswers
<1>2. SerialInv /\ CancelInv /\ [Next]_vars =>
        [\A k \in Calls, c \in Conversations :
           cancelling[k] \in RunsOf(c) /\ cancelling'[k] = NoRun /\ up'
             => /\ LiveRuns' \cap RunsOf(c) = {}
                /\ status'[c] \in {"idle", "deleted"}]_vars
  BY <1>1
<1> QED BY <1>2, SerialInvariant, CancelInvariant, PTL DEF Spec, CancelAnswerIsTrue

\* What a step does to a row that waits for the answer of a user.
LEMMA WaitingRowStep ==
  ASSUME SerialInv, CancelInv, [Next]_vars, NEW c \in Conversations, NEW r \in Runs,
         status[c] = "waiting", activeRun[c] = r
  PROVE  \/ status'[c] = status[c] /\ activeRun'[c] = activeRun[c]
         \/ status'[c] = "running" /\ activeRun'[c] = r /\ r \in resuming'
<1> DEFINE Same == status'[c] = status[c] /\ activeRun'[c] = activeRun[c]
           Left == status'[c] = "running" /\ activeRun'[c] = r /\ r \in resuming'
<1>0. TypeOK
  BY DEF SerialInv
<1>1. ASSUME NEW d \in Conversations, Create(d) PROVE Same
  BY <1>0, <1>1 DEF Create, TypeOK
<1>2. ASSUME NEW d \in Conversations, NEW q \in Runs, SendMessage(d, q) PROVE Same
  BY <1>0, <1>2 DEF SendMessage, CheckIdle, Save, TypeOK
<1>3. ASSUME NEW d \in Conversations, NEW q \in Runs, ResumePermission(d, q) PROVE Same \/ Left
  BY <1>0, <1>3 DEF ResumePermission, Save, TypeOK
<1>4. ASSUME NEW q \in Runs, SendReturns(q) \/ ResumeReturns(q) PROVE Same
  <2>1. /\ convOf[q] \in Conversations /\ status[convOf[q]] \in {"running", "idle"}
        /\ \E outcome : CompleteOrWait(convOf[q], q, outcome)
    BY <1>4, EndingRunsRow
  <2>2. PICK st \in {"waiting", "idle"}, run \in {q, NoRun} : Save(convOf[q], st, run, run)
    BY <1>0, <2>1, HandlerSaves
  <2> QED BY <1>0, <2>1, <2>2 DEF Save, TypeOK
<1>5. ASSUME NEW k \in Calls, CancelReturns(k) PROVE Same
  <2>1. Save(convOf[cancelling[k]], "idle", NoRun, NoRun) /\ cancelling[k] \in Runs
    BY <1>0, <1>5 DEF CancelReturns, SaveFinished, TypeOK
  <2>2. convOf[cancelling[k]] # c
    BY <2>1 DEF CancelInv, RunsOf
  <2> QED BY <1>0, <2>1, <2>2 DEF Save, rowVars, TypeOK
<1>e. ASSUME NEW q \in Runs, CancelEndedRun(q) PROVE Same
  BY <1>0, <1>e DEF CancelEndedRun, Cancellable, SaveFinished, Save, TypeOK
<1>6. ASSUME NEW k \in Calls, DeleteReturns(k) PROVE Same
  BY <1>0, <1>6 DEF DeleteReturns, SerialInv, DeleteExcludesRuns, TypeOK
<1>7. CASE Restart
  BY <1>7 DEF Restart, NeedsRecovery
<1>8. ASSUME NEW q \in Runs, GraphCheckpoint(q) \/ GraphTaskEnds(q) PROVE Same
  BY <1>8 DEF GraphCheckpoint, GraphTaskEnds, rowVars
<1>9. ASSUME NEW q \in Runs, NEW k \in Calls, CancelRun(k, q) PROVE Same
  BY <1>9 DEF CancelRun, diskVars
<1>10. ASSUME NEW k \in Calls, (\E d \in Conversations : Delete(k, d)) \/ DeleteThread(k) \/ DeleteFails(k)
       PROVE  Same
  BY <1>10 DEF Delete, DeleteThread, DeleteFails, diskVars, rowVars
<1>11. Crash \/ UNCHANGED vars => Same
  BY DEF Crash, vars, diskVars
<1>12. ASSUME NEW q \in Runs, RunStep(q) PROVE Same \/ Left
  BY <1>2, <1>3, <1>4, <1>8, <1>9, <1>12, <1>e DEF RunStep
<1>13. ASSUME NEW k \in Calls, CallStep(k) PROVE Same \/ Left
  BY <1>5, <1>6, <1>10, <1>13 DEF CallStep
<1> QED BY <1>1, <1>7, <1>11, <1>12, <1>13 DEF Next

\* With serial clients a permission request is left only by the answer to it: no stale
\* save takes it away.
THEOREM WaitingIsKept == ASSUME SerialClients PROVE Spec => WaitingLeftByItsRun
<1>1. SerialInv /\ CancelInv /\ [Next]_vars =>
        [\A c \in Conversations, r \in Runs :
           status[c] = "waiting" /\ activeRun[c] = r
             /\ <<status[c], activeRun[c]>> # <<status'[c], activeRun'[c]>>
             => status'[c] = "running" /\ activeRun'[c] = r /\ r \in resuming']_vars
  BY WaitingRowStep
<1> QED BY <1>1, SerialInvariant, CancelInvariant, PTL DEF Spec, WaitingLeftByItsRun

-----------------------------------------------------------------------------
(* The refinement *)

\* The runs of a conversation that RunLock calls ending.
Ends(c) == (ActiveTasks \ Executing) \cap RunsOf(c)
Ending == [c \in Conversations |-> Ends(c)]

\* A handler that keeps the row of its run saves it when it returns: it parks or
\* releases the lock.
LEMMA HolderReturns ==
  ASSUME SerialInv, NEW r \in Runs, NEW outcome,
         convOf[r] \in Conversations, status[convOf[r]] = "running", activeRun[convOf[r]] = r,
         CompleteOrWait(convOf[r], r, outcome), Executing' = Executing \ {r},
         Ending' = [Ending EXCEPT ![convOf[r]] = @ \ {r}],
         UNCHANGED {q \in Runs : sender[q] # "unused"}
  PROVE  Lock!Park(convOf[r]) \/ Lock!Release(convOf[r])
<1>0. TypeOK
  BY DEF SerialInv
<1>1. CASE outcome = "interrupted"
  <2>1. /\ status' = [status EXCEPT ![convOf[r]] = "waiting"]
        /\ activeRun' = [activeRun EXCEPT ![convOf[r]] = r]
    BY <1>1 DEF CompleteOrWait, Save
  <2>2. activeRun' = activeRun
    BY <1>0, <2>1 DEF TypeOK
  <2> QED BY <2>1, <2>2 DEF Lock!Park, Lock!Move, Lock!Returns, Ending, Ends
<1>2. CASE outcome # "interrupted"
  <2>1. /\ status' = [status EXCEPT ![convOf[r]] = "idle"]
        /\ activeRun' = [activeRun EXCEPT ![convOf[r]] = NoRun]
    BY <1>2 DEF CompleteOrWait, SaveFinished, Save
  <2> QED BY <2>1 DEF Lock!Release, Lock!Move, Lock!Returns, Ending, Ends
<1> QED BY <1>1, <1>2

\* A handler whose row a cancel has saved before it settles, or reclaims the lock.
LEMMA FormerHolderReturns ==
  ASSUME SerialInv, RowsNameTheirRuns, NEW r \in Runs, NEW outcome,
         convOf[r] \in Conversations, status[convOf[r]] = "idle", r \in Ending[convOf[r]],
         CompleteOrWait(convOf[r], r, outcome), Executing' = Executing,
         Ending' = [Ending EXCEPT ![convOf[r]] = @ \ {r}],
         UNCHANGED {q \in Runs : sender[q] # "unused"}
  PROVE  Lock!Reclaim(convOf[r]) \/ Lock!Settle(convOf[r])
<1>0. TypeOK
  BY DEF SerialInv
<1>1. CASE outcome = "interrupted"
  <2>1. /\ status' = [status EXCEPT ![convOf[r]] = "waiting"]
        /\ activeRun' = [activeRun EXCEPT ![convOf[r]] = r]
    BY <1>1 DEF CompleteOrWait, Save
  <2> QED BY <2>1 DEF Lock!Reclaim, Lock!Move, Lock!Returns, Ending, Ends
<1>2. CASE outcome # "interrupted"
  <2>1. /\ status' = [status EXCEPT ![convOf[r]] = "idle"]
        /\ activeRun' = [activeRun EXCEPT ![convOf[r]] = NoRun]
    BY <1>2 DEF CompleteOrWait, SaveFinished, Save
  <2>2. activeRun[convOf[r]] = NoRun
    BY DEF RowsNameTheirRuns
  <2>3. status' = status /\ activeRun' = activeRun
    BY <1>0, <2>1, <2>2 DEF TypeOK
  <2> QED BY <2>3 DEF Lock!Settle, Lock!Returns, Ending, Ends
<1> QED BY <1>1, <1>2

LEMMA LockStep ==
  ASSUME SerialClients, SerialInv, HandlerInv, CancelInv, [Next]_vars
  PROVE  [Lock!Next]_(Lock!vars)
<1> USE NoRunAssumption, NoConversationAssumption
<1> DEFINE Spent == {r \in Runs : sender[r] # "unused"}
<1>0. /\ TypeOK /\ RunLifecycle /\ LiveRunOwnsRow /\ CancelExcludesOthers
      /\ DeleteExcludesRuns /\ RowsNameTheirRuns /\ RunningHasHandler
  BY DEF SerialInv, HandlerInv
<1>1. ASSUME NEW c \in Conversations, Create(c) PROVE Lock!Open(c)
  <2>1. Executing' = Executing /\ Spent' = Spent /\ Ending' = Ending
    BY <1>1 DEF Create, runVars, Executing, ActiveTasks, RunsOf, Ending, Ends
  <2> QED BY <1>1, <2>1 DEF Create, Lock!Open, Lock!Move, Ending, Ends
<1>2. ASSUME NEW c \in Conversations, NEW r \in Runs, SendMessage(c, r)
      PROVE Lock!Acquire(c, r)
  <2>1. /\ Executing' = Executing \cup {r} /\ ActiveTasks' = ActiveTasks \cup {r}
        /\ Spent' = Spent \cup {r}
        /\ r \notin Spent /\ r \notin ActiveTasks
        /\ \A q \in Runs \ {r} : convOf'[q] = convOf[q]
    BY <1>0, <1>2 DEF SendMessage, Executing, ActiveTasks, TypeOK
  <2>2. /\ status[c] = "idle"
        /\ status' = [status EXCEPT ![c] = "running"]
        /\ activeRun' = [activeRun EXCEPT ![c] = r]
    BY <1>2 DEF SendMessage, CheckIdle, Save
  <2>3. \A q \in ActiveTasks : convOf[q] # c
    BY <1>0, <1>2, <2>2 DEF SendMessage, MayStartWork, Settling, LiveRunOwnsRow, LiveRuns, RunsOf,
         ActiveTasks
  <2>4. Ending[c] = {}
    BY <2>3 DEF Ending, Ends, RunsOf
  <2>5. Ending' = Ending
    <3>1. ASSUME NEW d \in Conversations PROVE Ends(d)' = Ends(d)
      BY <2>1 DEF Ends, RunsOf, ActiveTasks
    <3> QED BY <3>1 DEF Ending
  <2> QED BY <2>1, <2>2, <2>4, <2>5 DEF Lock!Acquire, Lock!Move, Ending, Ends
<1>3. ASSUME NEW c \in Conversations, NEW r \in Runs, ResumePermission(c, r)
      PROVE Lock!Continue(c)
  <2>1. /\ Executing' = Executing \cup {r} /\ Spent' = Spent /\ ActiveTasks' = ActiveTasks
        /\ convOf' = convOf
    BY <1>0, <1>3 DEF ResumePermission, Executing, ActiveTasks, TypeOK
  <2>2. /\ status[c] = "waiting" /\ activeRun[c] = r /\ convOf[r] = c
        /\ status' = [status EXCEPT ![c] = "running"]
        /\ activeRun' = [activeRun EXCEPT ![c] = r]
    BY <1>0, <1>3 DEF ResumePermission, Save, RowsNameTheirRuns, RunsOf
  <2>3. activeRun' = activeRun
    BY <1>0, <2>2 DEF TypeOK
  <2>4. \A q \in ActiveTasks : convOf[q] # c
    BY <1>0, <2>2 DEF LiveRunOwnsRow, LiveRuns
  <2>5. Ending[c] = {}
    BY <2>4 DEF Ending, Ends, RunsOf
  <2>6. Ending' = Ending
    <3>1. ASSUME NEW d \in Conversations PROVE Ends(d)' = Ends(d)
      BY <2>1, <2>2, <2>4 DEF Ends, RunsOf
    <3> QED BY <3>1 DEF Ending
  <2> QED BY <2>1, <2>2, <2>3, <2>5, <2>6 DEF Lock!Continue, Lock!Move, Ending, Ends
<1>4. ASSUME NEW r \in Runs, GraphCheckpoint(r) PROVE UNCHANGED Lock!vars
  BY <1>4 DEF GraphCheckpoint, rowVars, runVars, Lock!vars, Executing, ActiveTasks, RunsOf
<1>5. ASSUME NEW r \in Runs, GraphTaskEnds(r) PROVE Lock!Stop(convOf[r])
  <2>1. PICK outcome \in Outcomes : graph' = [graph EXCEPT ![r] = outcome]
    BY <1>5 DEF GraphTaskEnds
  <2>2. /\ Executing' = Executing \ {r} /\ r \in Executing /\ r \in ActiveTasks
        /\ ActiveTasks' = ActiveTasks /\ convOf' = convOf /\ Spent' = Spent
    BY <1>0, <1>5, <2>1 DEF GraphTaskEnds, Executing, ActiveTasks, Outcomes, TypeOK
  <2>3. convOf[r] \in Conversations /\ status[convOf[r]] = "running" /\ activeRun[convOf[r]] = r
    BY <1>0, <1>5 DEF GraphTaskEnds, LiveRunOwnsRow, LiveRuns, Outcomes
  <2>4. Ending' = [Ending EXCEPT ![convOf[r]] = @ \cup {r}]
    <3>1. ASSUME NEW d \in Conversations
          PROVE  Ends(d)' = IF d = convOf[r] THEN Ends(d) \cup {r} ELSE Ends(d)
      BY <2>2 DEF Ends, RunsOf, ActiveTasks
    <3> QED BY <2>3, <3>1 DEF Ending
  <2> QED BY <1>5, <2>2, <2>3, <2>4 DEF GraphTaskEnds, rowVars, Lock!Stop, Ending, Ends
<1>6. ASSUME NEW r \in Runs, SendReturns(r) PROVE Lock!Next
  <2>1. /\ r \in ActiveTasks /\ graph[r] \in Outcomes /\ convOf' = convOf /\ graph' = graph
        /\ ActiveTasks' = ActiveTasks \ {r} /\ Spent' = Spent
        /\ CompleteOrWait(convOf[r], r, graph[r])
    BY <1>0, <1>6 DEF SendReturns, ActiveTasks, TypeOK
  <2>2. Executing' = Executing /\ Executing = Executing \ {r}
    BY <2>1 DEF Executing, Outcomes
  <2>3. /\ convOf[r] \in Conversations
        /\ \/ status[convOf[r]] = "running" /\ activeRun[convOf[r]] = r
           \/ status[convOf[r]] = "idle"
    BY <1>0, <2>1 DEF LiveRunOwnsRow, LiveRuns
  <2>4. Ending' = [Ending EXCEPT ![convOf[r]] = @ \ {r}] /\ r \in Ending[convOf[r]]
    <3>1. ASSUME NEW d \in Conversations
          PROVE  Ends(d)' = IF d = convOf[r] THEN Ends(d) \ {r} ELSE Ends(d)
      BY <2>1, <2>2 DEF Ends, RunsOf
    <3>2. r \in Ends(convOf[r])
      BY <1>6, <2>1, <2>2 DEF Ends, RunsOf
    <3> QED BY <2>3, <3>1, <3>2 DEF Ending
  <2>5. CASE status[convOf[r]] = "running" /\ activeRun[convOf[r]] = r
    <3>1. Lock!Park(convOf[r]) \/ Lock!Release(convOf[r])
      BY <2>1, <2>2, <2>3, <2>4, <2>5, HolderReturns
    <3> QED BY <2>3, <3>1 DEF Lock!Next
  <2>6. CASE status[convOf[r]] = "idle"
    <3>1. Lock!Reclaim(convOf[r]) \/ Lock!Settle(convOf[r])
      BY <1>0, <2>1, <2>2, <2>3, <2>4, <2>6, FormerHolderReturns
    <3> QED BY <2>3, <3>1 DEF Lock!Next
  <2> QED BY <2>3, <2>5, <2>6
<1>7. ASSUME NEW r \in Runs, ResumeReturns(r) PROVE Lock!Next
  <2>1. PICK outcome \in Outcomes \ {"cancelled"} :
          /\ graph' = [graph EXCEPT ![r] = outcome]
          /\ CompleteOrWait(convOf[r], r, outcome)
    BY <1>7 DEF ResumeReturns
  <2>2. /\ Executing' = Executing \ {r} /\ Spent' = Spent /\ ActiveTasks' = ActiveTasks
        /\ convOf' = convOf /\ r \notin ActiveTasks
    BY <1>0, <1>7, <2>1 DEF ResumeReturns, RunLifecycle, ActiveTasks, Executing, Outcomes, TypeOK
  <2>3. convOf[r] \in Conversations /\ status[convOf[r]] = "running" /\ activeRun[convOf[r]] = r
    BY <1>0, <1>7, <2>2 DEF ResumeReturns, LiveRunOwnsRow, LiveRuns
  <2>4. Ending' = [Ending EXCEPT ![convOf[r]] = @ \ {r}]
    <3>1. ASSUME NEW d \in Conversations PROVE Ends(d)' = Ends(d) /\ r \notin Ends(d)
      BY <2>2 DEF Ends, RunsOf
    <3> QED BY <2>3, <3>1 DEF Ending
  <2>5. Lock!Park(convOf[r]) \/ Lock!Release(convOf[r])
    BY <2>1, <2>2, <2>3, <2>4, HolderReturns
  <2> QED BY <2>3, <2>5 DEF Lock!Next
<1>8. ASSUME NEW r \in Runs, NEW k \in Calls, CancelRun(k, r) PROVE UNCHANGED Lock!vars
  BY <1>8 DEF CancelRun, diskVars, rowVars, Lock!vars, Executing, ActiveTasks, RunsOf
<1>9. ASSUME NEW r \in Runs, CancelEndedRun(r) PROVE Lock!Break(convOf[r])
  <2>1. /\ convOf[r] \in Conversations /\ r \in ActiveTasks /\ graph[r] \in Outcomes
        /\ status[convOf[r]] = "running" /\ activeRun[convOf[r]] = r
        /\ UNCHANGED runVars
    BY <1>9 DEF CancelEndedRun, Cancellable
  <2>2. /\ status' = [status EXCEPT ![convOf[r]] = "idle"]
        /\ activeRun' = [activeRun EXCEPT ![convOf[r]] = NoRun]
    BY <1>9, <2>1 DEF CancelEndedRun, SaveFinished, Save
  <2>3. Executing' = Executing /\ Spent' = Spent /\ Ending' = Ending
    BY <2>1 DEF runVars, Executing, ActiveTasks, RunsOf, Ending, Ends
  <2>4. r \in Ending[convOf[r]]
    BY <2>1 DEF Ending, Ends, Executing, RunsOf, Outcomes
  <2> QED BY <2>1, <2>2, <2>3, <2>4 DEF Lock!Break, Lock!Move, Ending, Ends
<1>10. ASSUME NEW k \in Calls, CancelReturns(k) PROVE UNCHANGED Lock!vars
  <2> DEFINE c == convOf[cancelling[k]]
  <2>1. Executing' = Executing /\ Spent' = Spent /\ Ending' = Ending
    BY <1>10 DEF CancelReturns, runVars, Executing, ActiveTasks, RunsOf, Ending, Ends
  <2>2. c \in Conversations /\ cancelling[k] \in RunsOf(c)
    BY <1>0, <1>10 DEF CancelReturns, CancelExcludesOthers, RunLifecycle, RunsOf, TypeOK
  <2>3. status[c] # "running"
    <3>1. SUFFICES ASSUME status[c] = "running" PROVE FALSE
      OBVIOUS
    <3>2. activeRun[c] \in LiveRuns /\ convOf[activeRun[c]] = c
      BY <1>0, <1>10, <2>2, <3>1 DEF CancelReturns, RunningHasHandler, RunsOf
    <3>3. activeRun[c] = cancelling[k] /\ activeRun[c] \in ActiveTasks
      BY <1>0, <1>10, <3>2 DEF CancelReturns, CancelExcludesOthers
    <3> QED BY <1>10, <3>3 DEF CancelReturns, TaskGathered
  <2>4. status[c] # "waiting"
    BY <2>2 DEF CancelInv
  <2>5. activeRun[c] = NoRun /\ status[c] \in {"fresh", "idle", "deleted"}
    BY <1>0, <2>2, <2>3, <2>4 DEF RowsNameTheirRuns, TypeOK, Statuses
  <2>6. UNCHANGED <<status, activeRun>>
    BY <1>0, <1>10, <2>2, <2>5 DEF CancelReturns, SaveFinished, Save, rowVars, TypeOK
  <2> QED BY <2>1, <2>6 DEF Lock!vars, Ending, Ends
<1>11. ASSUME NEW k \in Calls, \/ \E c \in Conversations : Delete(k, c)
                               \/ DeleteThread(k) \/ DeleteFails(k)
       PROVE  UNCHANGED Lock!vars
  BY <1>11 DEF Delete, DeleteThread, DeleteFails, diskVars, rowVars, runVars, Lock!vars,
               Executing, ActiveTasks, RunsOf
<1>12. ASSUME NEW k \in Calls, DeleteReturns(k) PROVE [Lock!Next]_(Lock!vars)
  <2> DEFINE c == deleting[k]
  <2>1. Executing' = Executing /\ Spent' = Spent /\ Ending' = Ending
    BY <1>12 DEF DeleteReturns, runVars, Executing, ActiveTasks, RunsOf, Ending, Ends
  <2>2. c \in Conversations /\ status[c] \in {"idle", "deleted"} /\ activeRun[c] = NoRun
    BY <1>0, <1>12 DEF DeleteReturns, DeleteExcludesRuns, RowsNameTheirRuns, TypeOK
  <2>3. status' = [status EXCEPT ![c] = "deleted"] /\ activeRun' = activeRun
    BY <1>0, <1>12, <2>2 DEF DeleteReturns, TypeOK
  <2>4. Ending[c] = {}
    BY <1>0, <2>2 DEF DeleteExcludesRuns, LiveRuns, Ending, Ends
  <2>5. CASE status[c] = "idle"
    <3>1. Lock!Remove(c)
      BY <2>1, <2>3, <2>4, <2>5 DEF Lock!Remove, Lock!Move, Ending, Ends
    <3> QED BY <2>2, <3>1 DEF Lock!Next
  <2>6. CASE status[c] = "deleted"
    <3>1. status' = status
      BY <1>0, <2>2, <2>3, <2>6 DEF TypeOK
    <3> QED BY <2>1, <2>3, <3>1 DEF Lock!vars, Ending, Ends
  <2> QED BY <2>2, <2>5, <2>6
<1>13. CASE Crash
  <2>1. Executing' = {} /\ ActiveTasks' = {} /\ Spent' = Spent
    BY <1>13 DEF Crash, Executing, ActiveTasks
  <2>2. Ending' = [c \in Conversations |-> {}]
    BY <2>1 DEF Ending, Ends
  <2>3. Lock!Halt
    BY <1>13, <2>1, <2>2 DEF Crash, diskVars, Lock!Halt, Lock!AtRest, Ending, Ends
  <2> QED BY <2>3 DEF Lock!Next
<1>14. CASE Restart
  <2>1. Executing = {} /\ ActiveTasks = {} /\ Executing' = Executing /\ Spent' = Spent
    BY <1>0, <1>14 DEF Restart, RunLifecycle, LiveRuns, runVars, Executing
  <2>2. Ending = [c \in Conversations |-> {}]
    BY <2>1 DEF Ending, Ends
  <2>3. Ending' = Ending
    BY <1>14 DEF Restart, runVars, Executing, ActiveTasks, RunsOf, Ending, Ends
  <2>4. Lock!Recover
    BY <1>14, <2>1, <2>2, <2>3 DEF Restart, NeedsRecovery, Lock!Recover, Lock!AtRest, Ending, Ends
  <2> QED BY <2>4 DEF Lock!Next
<1>15. CASE UNCHANGED vars
  BY <1>15 DEF vars, diskVars, rowVars, runVars, Lock!vars, Executing, ActiveTasks, RunsOf
<1>16. ASSUME NEW r \in Runs, RunStep(r) PROVE [Lock!Next]_(Lock!vars)
  <2>1. ASSUME GraphTaskEnds(r) PROVE Lock!Next
    <3>1. convOf[r] \in Conversations
      BY <1>0, <2>1 DEF GraphTaskEnds, LiveRunOwnsRow, LiveRuns
    <3> QED BY <1>5, <2>1, <3>1 DEF Lock!Next
  <2>2. ASSUME CancelEndedRun(r) PROVE Lock!Next
    <3>1. convOf[r] \in Conversations
      BY <2>2 DEF CancelEndedRun, Cancellable
    <3> QED BY <1>9, <2>2, <3>1 DEF Lock!Next
  <2>3. ASSUME NEW c \in Conversations, SendMessage(c, r) \/ ResumePermission(c, r) PROVE Lock!Next
    BY <1>2, <1>3, <2>3 DEF Lock!Next
  <2> QED BY <1>4, <1>6, <1>7, <1>8, <1>16, <2>1, <2>2, <2>3 DEF RunStep
<1>17. ASSUME NEW k \in Calls, CallStep(k) PROVE [Lock!Next]_(Lock!vars)
  BY <1>10, <1>11, <1>12, <1>17 DEF CallStep
<1>18. ASSUME NEW c \in Conversations, Create(c) PROVE Lock!Next
  BY <1>1, <1>18 DEF Lock!Next
<1> QED BY <1>13, <1>14, <1>15, <1>16, <1>17, <1>18 DEF Next

\* With serial clients the service implements RunLock: the row is a lock that one run
\* holds, a run works only under its lock, and a lock that a cancel took from a run
\* that has stopped goes to no other run before that one has returned.
THEOREM Refinement == ASSUME SerialClients PROVE Spec => ImplementsRunLock
<1>1. Init => Lock!Init
  <2> SUFFICES ASSUME Init PROVE Lock!Init
    OBVIOUS
  <2>1. /\ Executing = {} /\ {r \in Runs : sender[r] # "unused"} = {} /\ ActiveTasks = {}
    BY DEF Init, Executing, ActiveTasks
  <2>2. [c \in Conversations |-> (ActiveTasks \ Executing) \cap RunsOf(c)]
          = [c \in Conversations |-> {}]
    BY <2>1
  <2> QED BY <2>1, <2>2 DEF Init, Lock!Init
<1>2. SerialInv /\ HandlerInv /\ CancelInv /\ [Next]_vars => [Lock!Next]_(Lock!vars)
  BY LockStep
<1> QED
  BY <1>1, <1>2, SerialInvariant, HandlerInvariant, CancelInvariant, PTL
     DEF Spec, Lock!Spec, ImplementsRunLock
=============================================================================
