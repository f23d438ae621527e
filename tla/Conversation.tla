---------------------------- MODULE Conversation ----------------------------
(***************************************************************************)
(* ConversationService (src/harness/conversation.py) over the SQLite       *)
(* conversation registry (src/services/stores.py) and the per-thread       *)
(* checkpoints (src/services/checkpoint.py).                               *)
(*                                                                         *)
(* The service runs on one asyncio event loop: a handler is atomic between *)
(* two awaits.  send_message awaits the graph task it created, cancel_run  *)
(* awaits the same task, delete awaits a worker thread, resume_permission  *)
(* runs the graph inside the handler.  Every handler works on its own copy *)
(* of the record (SQLiteConversationStore.get builds a new object) and     *)
(* saves it blindly, so what it writes after its await ignores what the    *)
(* other handlers saved meanwhile.                                         *)
(***************************************************************************)
CONSTANTS
  Conversations,   \* conversation ids
  Runs,            \* run ids, each drawn once (uuid4)
  Calls,           \* concurrent cancel_run and delete requests
  NoRun, NoConversation,
  SerialClients    \* TRUE: nobody starts work on a conversation while a cancel or
                   \* delete call on it has not been answered, or before the event
                   \* loop has run the handler the answered call left ready

ASSUME NoRunAssumption == NoRun \notin Runs
ASSUME NoConversationAssumption == NoConversation \notin Conversations
ASSUME SerialClientsAssumption == SerialClients \in BOOLEAN

VARIABLES
  up,          \* the server process is alive
  \* the registry row of a conversation, on disk
  status, activeRun, request,
  \* the checkpoint of a thread, on disk
  thread,      \* checkpoint rows exist for the conversation
  pending,     \* the run whose interrupt the newest checkpoint holds
  \* the runs: ConversationService._active_tasks, the graph, the handlers
  convOf, sender, resuming, graph, cancelRequested,
  \* the cancel_run and delete handlers
  cancelling,  \* the run a cancel_run handler waits for
  deleting,    \* the conversation a delete handler removes
  erased       \* delete's worker thread has removed the checkpoints

diskVars   == <<status, activeRun, request, thread, pending>>
runVars    == <<convOf, sender, resuming, graph, cancelRequested>>
callVars   == <<cancelling, deleting, erased>>
rowVars    == <<status, activeRun, request>>
vars       == <<up, diskVars, runVars, callVars>>

Outcomes == {"interrupted", "completed", "failed", "cancelled"}

\* "fresh": never created.  "deleted": no row any more, the id never returns.
Statuses == {"fresh", "idle", "running", "waiting", "deleted"}

TypeOK ==
  /\ up \in BOOLEAN
  /\ status \in [Conversations -> Statuses]
  /\ activeRun \in [Conversations -> Runs \cup {NoRun}]
  /\ request \in [Conversations -> Runs \cup {NoRun}]
  /\ thread \in [Conversations -> BOOLEAN]
  /\ pending \in [Conversations -> Runs \cup {NoRun}]
  /\ convOf \in [Runs -> Conversations \cup {NoConversation}]
  /\ sender \in [Runs -> {"unused", "awaiting", "done"}]
  /\ resuming \subseteq Runs
  /\ graph \in [Runs -> Outcomes \cup {"none", "running", "lost"}]
  /\ cancelRequested \subseteq Runs
  /\ cancelling \in [Calls -> Runs \cup {NoRun}]
  /\ deleting \in [Calls -> Conversations \cup {NoConversation}]
  /\ erased \in [Calls -> BOOLEAN]

Init ==
  /\ up = TRUE
  /\ status = [c \in Conversations |-> "fresh"]
  /\ activeRun = [c \in Conversations |-> NoRun]
  /\ request = [c \in Conversations |-> NoRun]
  /\ thread = [c \in Conversations |-> FALSE]
  /\ pending = [c \in Conversations |-> NoRun]
  /\ convOf = [r \in Runs |-> NoConversation]
  /\ sender = [r \in Runs |-> "unused"]
  /\ resuming = {}
  /\ graph = [r \in Runs |-> "none"]
  /\ cancelRequested = {}
  /\ cancelling = [k \in Calls |-> NoRun]
  /\ deleting = [k \in Calls |-> NoConversation]
  /\ erased = [k \in Calls |-> FALSE]

-----------------------------------------------------------------------------
\* _active_tasks: send_message enters its key in the step that creates the
\* graph task and pops it in the step that observes the task's end.
ActiveTasks == {r \in Runs : sender[r] = "awaiting"}

\* The runs whose send_message or resume_permission handler has not returned.
LiveRuns == ActiveTasks \cup resuming

\* The runs whose graph executes nodes.
Executing == {r \in Runs : graph[r] = "running"}

RunsOf(c) == {r \in Runs : convOf[r] = c}

\* Mutant: save inserts the row when it is missing.
SaveUpserts(c, st, run, req) ==
  /\ status' = [status EXCEPT ![c] = st]
  /\ activeRun' = [activeRun EXCEPT ![c] = run]
  /\ request' = [request EXCEPT ![c] = req]

\* SQLiteConversationStore.save is an UPDATE: without a row it does nothing.
Save(c, st, run, req) ==
  IF status[c] \in {"fresh", "deleted"}
  THEN UNCHANGED rowVars
  ELSE /\ status' = [status EXCEPT ![c] = st]
       /\ activeRun' = [activeRun EXCEPT ![c] = run]
       /\ request' = [request EXCEPT ![c] = req]

\* _finish.
SaveFinished(c) == Save(c, "idle", NoRun, NoRun)

\* Mutant: the except branch does not save.
CompleteOrWaitUnlessFailed(c, r, outcome) ==
  CASE outcome = "interrupted" -> Save(c, "waiting", r, r)
    [] outcome = "failed" -> UNCHANGED rowVars
    [] OTHER -> SaveFinished(c)

\* _complete_or_wait, and the two except branches, which save a finished record.
CompleteOrWait(c, r, outcome) ==
  IF outcome = "interrupted" THEN Save(c, "waiting", r, r) ELSE SaveFinished(c)

\* Mutants: the busy check looks for a run that executes, or only for the row.
CheckNotRunning(c) == status[c] \in {"idle", "waiting"}
CheckExists(c) == status[c] \notin {"fresh", "deleted"}

\* The busy check of send_message and of delete.
CheckIdle(c) == status[c] = "idle"

FreeCall(k) == cancelling[k] = NoRun /\ deleting[k] = NoConversation

\* A cancel or delete call on c has not been answered.
CallOutstanding(c) ==
  \E k \in Calls : \/ deleting[k] = c
                   \/ cancelling[k] \in RunsOf(c)

\* A graph task of c has ended and its send_message, woken by it, is in the ready
\* queue of the event loop: it runs before any request that arrives from now on.
Settling(c) == \E r \in ActiveTasks \cap RunsOf(c) : graph[r] \in Outcomes

MayStartWork(c) == SerialClients => ~CallOutstanding(c) /\ ~Settling(c)

-----------------------------------------------------------------------------
Create(c) ==
  /\ up /\ status[c] = "fresh"
  /\ status' = [status EXCEPT ![c] = "idle"]
  /\ UNCHANGED <<up, activeRun, request, thread, pending, runVars, callVars>>

\* send_message up to its await: refused unless the row says idle.
SendMessage(c, r) ==
  /\ up /\ sender[r] = "unused" /\ MayStartWork(c)
  /\ CheckIdle(c)
  /\ Save(c, "running", r, NoRun)
  /\ convOf' = [convOf EXCEPT ![r] = c]
  /\ sender' = [sender EXCEPT ![r] = "awaiting"]
  /\ graph' = [graph EXCEPT ![r] = "running"]
  /\ UNCHANGED <<up, thread, pending, resuming, cancelRequested, callVars>>

\* The graph stores a checkpoint after a super-step; the pending interrupt of
\* an earlier checkpoint is superseded.
GraphCheckpoint(r) ==
  /\ up /\ graph[r] = "running"
  /\ thread' = [thread EXCEPT ![convOf[r]] = TRUE]
  /\ pending' = [pending EXCEPT ![convOf[r]] = NoRun]
  /\ UNCHANGED <<up, rowVars, runVars, callVars>>

\* What the checkpoint holds when the graph stops with this outcome: an
\* interrupt and a completion are stored, an error and a cancellation are not.
LastCheckpoint(r, outcome) ==
  IF outcome \in {"interrupted", "completed"}
  THEN /\ thread' = [thread EXCEPT ![convOf[r]] = TRUE]
       /\ pending' = [pending EXCEPT ![convOf[r]] =
                        IF outcome = "interrupted" THEN r ELSE NoRun]
  ELSE UNCHANGED <<thread, pending>>

\* The graph task of send_message ends.  After Task.cancel() it can only end
\* with CancelledError.
GraphTaskEnds(r) ==
  /\ up /\ r \in ActiveTasks /\ graph[r] = "running"
  /\ \E outcome \in Outcomes :
       /\ (outcome = "cancelled") <=> (r \in cancelRequested)
       /\ graph' = [graph EXCEPT ![r] = outcome]
       /\ LastCheckpoint(r, outcome)
  /\ UNCHANGED <<up, rowVars, convOf, sender, resuming, cancelRequested, callVars>>

\* send_message resumes after its await: finally pops the task, the row is saved.
SendReturns(r) ==
  /\ up /\ r \in ActiveTasks /\ graph[r] \in Outcomes
  /\ sender' = [sender EXCEPT ![r] = "done"]
  /\ cancelRequested' = cancelRequested \ {r}
  /\ CompleteOrWait(convOf[r], r, graph[r])
  /\ UNCHANGED <<up, thread, pending, convOf, resuming, graph, callVars>>

\* cancel_run's checks: the row says this run is running and its task is known.
Cancellable(r) ==
  /\ r \in ActiveTasks
  /\ \E c \in Conversations :
       convOf[r] = c /\ status[c] = "running" /\ activeRun[c] = r

\* cancel_run up to its await, for a graph task at work.
CancelRun(k, r) ==
  /\ up /\ FreeCall(k) /\ Cancellable(r)
  /\ graph[r] = "running"
  /\ cancelling' = [cancelling EXCEPT ![k] = r]
  /\ cancelRequested' = cancelRequested \cup {r}
  /\ UNCHANGED <<up, diskVars, convOf, sender, resuming, graph, deleting, erased>>

\* cancel_run for a graph task that has ended, its send_message not resumed yet:
\* Task.cancel() does nothing, gather of a done task is itself done (Python 3.12)
\* and its await does not yield, so the handler saves and answers in one step.
CancelEndedRun(r) ==
  /\ up /\ Cancellable(r)
  /\ graph[r] \in Outcomes
  /\ SaveFinished(convOf[r])
  /\ UNCHANGED <<up, thread, pending, runVars, callVars>>

\* Mutants: cancel_run does not await the task, or polls the row instead.
TaskNotAwaited(k) == TRUE
RowPolled(k) == status[convOf[cancelling[k]]] = "idle"

\* gather over a task at work: it has ended and its sender has resumed.  The sender
\* awaited the task first, so the task wakes it first, and gather's own callback
\* takes one more turn of the event loop to wake cancel_run.
TaskGathered(k) == cancelling[k] \notin ActiveTasks

\* cancel_run resumes after its await and saves the copy of the record it read
\* before it.
CancelReturns(k) ==
  /\ up /\ cancelling[k] # NoRun
  /\ TaskGathered(k)
  /\ SaveFinished(convOf[cancelling[k]])
  /\ cancelling' = [cancelling EXCEPT ![k] = NoRun]
  /\ UNCHANGED <<up, thread, pending, runVars, deleting, erased>>

\* resume_permission up to its await.  The graph runs in the handler itself:
\* no entry of _active_tasks.
ResumePermission(c, r) ==
  /\ up /\ MayStartWork(c)
  /\ status[c] = "waiting" /\ activeRun[c] = r
  /\ Save(c, "running", r, NoRun)
  /\ resuming' = resuming \cup {r}
  /\ graph' = [graph EXCEPT ![r] = "running"]
  /\ UNCHANGED <<up, thread, pending, convOf, sender, cancelRequested, callVars>>

\* The resumed graph stops and the handler saves the row in the same turn.
ResumeReturns(r) ==
  /\ up /\ r \in resuming
  /\ resuming' = resuming \ {r}
  /\ \E outcome \in Outcomes \ {"cancelled"} :
       /\ graph' = [graph EXCEPT ![r] = outcome]
       /\ LastCheckpoint(r, outcome)
       /\ CompleteOrWait(convOf[r], r, outcome)
  /\ UNCHANGED <<up, convOf, sender, cancelRequested, callVars>>

\* delete up to its await: refused unless the row says idle.
Delete(k, c) ==
  /\ up /\ FreeCall(k) /\ (SerialClients => ~Settling(c))
  /\ CheckIdle(c)
  /\ deleting' = [deleting EXCEPT ![k] = c]
  /\ UNCHANGED <<up, diskVars, runVars, cancelling, erased>>

\* The worker thread of adelete_thread.
DeleteThread(k) ==
  /\ up /\ deleting[k] # NoConversation /\ ~erased[k]
  /\ thread' = [thread EXCEPT ![deleting[k]] = FALSE]
  /\ pending' = [pending EXCEPT ![deleting[k]] = NoRun]
  /\ erased' = [erased EXCEPT ![k] = TRUE]
  /\ UNCHANGED <<up, rowVars, runVars, cancelling, deleting>>

\* adelete_thread raises: the row and the checkpoints stay.
DeleteFails(k) ==
  /\ up /\ deleting[k] # NoConversation /\ ~erased[k]
  /\ deleting' = [deleting EXCEPT ![k] = NoConversation]
  /\ UNCHANGED <<up, diskVars, runVars, cancelling, erased>>

\* delete resumes after its await and removes the row, whatever it says now.
DeleteReturns(k) ==
  /\ up /\ deleting[k] # NoConversation /\ erased[k]
  /\ status' = [status EXCEPT ![deleting[k]] = "deleted"]
  /\ activeRun' = [activeRun EXCEPT ![deleting[k]] = NoRun]
  /\ request' = [request EXCEPT ![deleting[k]] = NoRun]
  /\ deleting' = [deleting EXCEPT ![k] = NoConversation]
  /\ erased' = [erased EXCEPT ![k] = FALSE]
  /\ UNCHANGED <<up, thread, pending, runVars, cancelling>>

\* The process dies: handlers and graph tasks are gone, the two databases stay.
Crash ==
  /\ up
  /\ up' = FALSE
  /\ sender' = [r \in Runs |-> IF sender[r] = "unused" THEN "unused" ELSE "done"]
  /\ graph' = [r \in Runs |-> IF graph[r] = "running" THEN "lost" ELSE graph[r]]
  /\ resuming' = {}
  /\ cancelRequested' = {}
  /\ cancelling' = [k \in Calls |-> NoRun]
  /\ deleting' = [k \in Calls |-> NoConversation]
  /\ erased' = [k \in Calls |-> FALSE]
  /\ UNCHANGED <<diskVars, convOf>>

\* Mutants: recovery is skipped, or takes every conversation with a run.
RecoverNone(c) == FALSE
RecoverAllBusy(c) == status[c] \in {"running", "waiting"}

\* The rows recover_running updates.
NeedsRecovery(c) == status[c] = "running"

\* ConversationService.__init__ on restart: recover_running.
Restart ==
  /\ ~up
  /\ up' = TRUE
  /\ LET Recovered(f, x) == [c \in Conversations |->
                               IF NeedsRecovery(c) THEN x ELSE f[c]]
     IN /\ status' = Recovered(status, "idle")
        /\ activeRun' = Recovered(activeRun, NoRun)
        /\ request' = Recovered(request, NoRun)
  /\ UNCHANGED <<thread, pending, runVars, callVars>>

-----------------------------------------------------------------------------
RunStep(r) ==
  \/ \E c \in Conversations : SendMessage(c, r) \/ ResumePermission(c, r)
  \/ GraphCheckpoint(r)
  \/ GraphTaskEnds(r)
  \/ SendReturns(r)
  \/ ResumeReturns(r)
  \/ CancelEndedRun(r)
  \/ \E k \in Calls : CancelRun(k, r)

CallStep(k) ==
  \/ CancelReturns(k)
  \/ \E c \in Conversations : Delete(k, c)
  \/ DeleteThread(k)
  \/ DeleteFails(k)
  \/ DeleteReturns(k)

Next ==
  \/ \E c \in Conversations : Create(c)
  \/ \E r \in Runs : RunStep(r)
  \/ \E k \in Calls : CallStep(k)
  \/ Crash
  \/ Restart

Spec == Init /\ [][Next]_vars

\* The graph stops (AgentLoop: bounded iterations, timeouts on models and
\* tools), the event loop runs every ready handler, worker threads finish and
\* an operator restarts the server.  Clients and crashes are not fair.
Fairness ==
  /\ \A r \in Runs : /\ WF_vars(GraphTaskEnds(r))
                     /\ WF_vars(SendReturns(r))
                     /\ WF_vars(ResumeReturns(r))
  /\ \A k \in Calls : /\ WF_vars(CancelReturns(k))
                      /\ WF_vars(DeleteThread(k))
                      /\ WF_vars(DeleteReturns(k))
  /\ WF_vars(Restart)

FairSpec == Spec /\ Fairness
-----------------------------------------------------------------------------
\* One conversation never has two graphs at work: what send_message's busy
\* check and cancel_run's and delete's blind saves must preserve together.
OneRunPerConversation ==
  \A r1, r2 \in Executing : convOf[r1] = convOf[r2] => r1 = r2

\* A conversation has one handler at work, and its row shows the handler's run as
\* running: whoever reads the row is refused.  Only a cancel that met an ended graph
\* task shows the row idle before the handler has saved.
LiveRunOwnsRow ==
  /\ \A r1, r2 \in LiveRuns : convOf[r1] = convOf[r2] => r1 = r2
  /\ \A r \in LiveRuns :
       \E c \in Conversations :
         /\ c = convOf[r]
         /\ \/ status[c] = "running" /\ activeRun[c] = r
            \/ status[c] = "idle" /\ r \in ActiveTasks /\ graph[r] \in Outcomes

\* A permission request offered to the user can be answered: the row names the
\* run that asked and the newest checkpoint of the thread holds its interrupt,
\* also after a crash in between.
WaitingIsResumable ==
  \A c \in Conversations :
    status[c] = "waiting" =>
      /\ activeRun[c] \in RunsOf(c)
      /\ request[c] = activeRun[c]
      /\ thread[c] /\ pending[c] = activeRun[c]

\* A deleted conversation leaves nothing behind: no graph at work on it and no
\* checkpoint in the database.
NothingAfterDelete ==
  \A c \in Conversations :
    status[c] = "deleted" => ~thread[c] /\ Executing \cap RunsOf(c) = {}

\* No lock is leaked: while the server is up, a row that says running names a
\* run whose handler is still going to save it.
RunningHasHandler ==
  \A c \in Conversations :
    up /\ status[c] = "running" => activeRun[c] \in LiveRuns \cap RunsOf(c)

\* A waiting row is left only by resuming the run that asked: no late save of
\* another handler takes the question away.
WaitingLeftByItsRun ==
  [][\A c \in Conversations, r \in Runs :
       status[c] = "waiting" /\ activeRun[c] = r
         /\ <<status[c], activeRun[c]>> # <<status'[c], activeRun'[c]>>
         => status'[c] = "running" /\ activeRun'[c] = r /\ r \in resuming']_vars

\* When a cancel_run that had to wait answers, no handler is left that could work on
\* the conversation or save its row, and the row says so.
CancelAnswerIsTrue ==
  [][\A k \in Calls, c \in Conversations :
       cancelling[k] \in RunsOf(c) /\ cancelling'[k] = NoRun /\ up'
         => /\ LiveRuns' \cap RunsOf(c) = {}
            /\ status'[c] \in {"idle", "deleted"}]_vars

\* A conversation that cancel_run has made idle stays free for the next message.  Not
\* so when the cancel meets a graph task that ended in a permission request.
CancelledStaysIdle ==
  [][\A c \in Conversations : status[c] = "idle" => status'[c] # "waiting"]_vars

\* A save that arrives after the delete does not bring the row back.
DeletedIsFinal ==
  [][\A c \in Conversations : status[c] = "deleted" => status'[c] = "deleted"]_vars

\* No conversation stays busy: a running row is left, by its handler or by
\* recover_running.
RowSettles ==
  \A c \in Conversations : status[c] = "running" ~> status[c] # "running"

\* Every cancel and every delete call is answered, whatever the other handlers do.
CallsAnswered == \A k \in Calls : ~FreeCall(k) ~> FreeCall(k)

-----------------------------------------------------------------------------
(* The strengthening that makes the safety invariants above inductive when  *)
(* clients are serial.                                                      *)

\* Where a run is in its life: which of its handlers can be live, and that a
\* graph executes only under a live handler.
RunLifecycle ==
  /\ \A r \in Runs : sender[r] = "unused" <=> convOf[r] = NoConversation
  /\ \A r \in resuming : sender[r] = "done" /\ graph[r] = "running"
  /\ Executing \subseteq LiveRuns
  /\ ~up => LiveRuns = {} /\ \A k \in Calls : FreeCall(k)

\* While a cancel call is outstanding the cancelled run is the only one that can
\* be live on its conversation, and it is not a resumed run.
CancelExcludesOthers ==
  \A k \in Calls :
    cancelling[k] # NoRun =>
      /\ sender[cancelling[k]] # "unused"
      /\ \A r \in LiveRuns :
           convOf[r] = convOf[cancelling[k]] => r = cancelling[k] /\ r \in ActiveTasks

\* While a delete call is outstanding no handler works on the conversation, the row
\* does not become busy, and what the worker thread erased stays erased.
DeleteExcludesRuns ==
  /\ \A k \in Calls, c \in Conversations :
       deleting[k] = c => /\ status[c] \in {"idle", "deleted"}
                          /\ LiveRuns \cap RunsOf(c) = {}
                          /\ erased[k] => ~thread[c]
  /\ \A k \in Calls : erased[k] => deleting[k] # NoConversation
  /\ \A c \in Conversations : status[c] = "deleted" => ~thread[c]

\* A graph task that ended in an interrupt left that interrupt in the newest
\* checkpoint, until its handler has saved the row.
InterruptStored ==
  \A r \in ActiveTasks :
    graph[r] = "interrupted" => thread[convOf[r]] /\ pending[convOf[r]] = r

\* The inductive invariant: everything reachable with serial clients satisfies
\* it, and it implies the four safety invariants above.
SerialInv ==
  /\ TypeOK
  /\ RunLifecycle
  /\ LiveRunOwnsRow
  /\ WaitingIsResumable
  /\ CancelExcludesOthers
  /\ DeleteExcludesRuns
  /\ InterruptStored

\* What the answers of cancel_run rest on beside SerialInv: a run belongs to a
\* conversation that was created, and a run somebody waits to see cancelled can only
\* end cancelled, so its row never shows a question.
CancelInv ==
  /\ \A r \in Runs, c \in Conversations : convOf[r] = c => status[c] # "fresh"
  /\ \A k \in Calls :
       cancelling[k] # NoRun =>
         /\ graph[cancelling[k]] \in {"running", "cancelled"}
         /\ graph[cancelling[k]] = "running" => cancelling[k] \in cancelRequested
  /\ \A k \in Calls, c \in Conversations :
       cancelling[k] \in RunsOf(c) => status[c] # "waiting"

-----------------------------------------------------------------------------
(* The strengthening that makes RunningHasHandler inductive for any clients. *)

\* A busy row names a run of its own conversation, any other row none.
RowsNameTheirRuns ==
  /\ \A r \in Runs : sender[r] = "unused" <=> convOf[r] = NoConversation
  /\ \A c \in Conversations :
       IF status[c] \in {"running", "waiting"}
       THEN activeRun[c] \in RunsOf(c) ELSE activeRun[c] = NoRun

HandlerInv ==
  /\ TypeOK
  /\ RowsNameTheirRuns
  /\ RunningHasHandler

-----------------------------------------------------------------------------
\* The service implements the lock of RunLock.
Lock == INSTANCE RunLock WITH
          phase   <- status,
          holder  <- activeRun,
          working <- Executing,
          ending  <- [c \in Conversations |-> (ActiveTasks \ Executing) \cap RunsOf(c)],
          spent   <- {r \in Runs : sender[r] # "unused"}

ImplementsRunLock == Lock!Spec
=============================================================================
