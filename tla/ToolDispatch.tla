---------------------------- MODULE ToolDispatch ----------------------------
(***************************************************************************)
(* ToolRegistry.adispatch_many (src/harness/tool_use.py): one batch of     *)
(* tool calls.  Calls of one concurrency group run one after the other in  *)
(* input order, everything else runs concurrently, each call is bounded by *)
(* asyncio.wait_for, and the results come back in input order.             *)
(*                                                                         *)
(* Tools of a group in ThreadedGroups do their work in asyncio.to_thread   *)
(* (file_reader, report_writer, memory_write, memory_search): a timeout or *)
(* a cancellation gives up waiting for the worker thread and cannot stop   *)
(* it.                                                                     *)
(***************************************************************************)
EXTENDS Naturals, Sequences, FiniteSets, SequencesExt, FiniteSetsExt

CONSTANTS
  N,               \* bound: tool calls of the batch
  Groups,          \* concurrency_group values
  NoGroup,         \* concurrency_group = None
  ThreadedGroups   \* the groups whose tools work in a thread

ASSUME DispatchAssumption ==
  /\ N \in Nat /\ NoGroup \notin Groups /\ ThreadedGroups \subseteq Groups \cup {NoGroup}

Calls == 1..N

VARIABLES
  group,     \* the group of each call's tool: the input
  stage,     \* "queued", "running", "done" or "cancelled"
  result,    \* ordered_results: "none", "ok" or "error"
  working,   \* the calls whose tool is at work, on the loop or in a thread
  effects,   \* the calls whose tool has finished its work, in that order
  batch      \* "running", "returned" or "cancelled"

vars == <<group, stage, result, working, effects, batch>>

TypeOK ==
  /\ group \in [Calls -> Groups \cup {NoGroup}]
  /\ stage \in [Calls -> {"queued", "running", "done", "cancelled"}]
  /\ result \in [Calls -> {"none", "ok", "error"}]
  /\ working \subseteq Calls
  /\ effects \in Seq(Calls) /\ IsInjective(effects)
  /\ batch \in {"running", "returned", "cancelled"}

Init ==
  /\ group \in [Calls -> Groups \cup {NoGroup}]
  /\ stage = [i \in Calls |-> "queued"]
  /\ result = [i \in Calls |-> "none"]
  /\ working = {}
  /\ effects = <<>>
  /\ batch = "running"

-----------------------------------------------------------------------------
SameGroup(i, j) == group[i] = group[j] /\ group[i] # NoGroup

\* Mutant: the calls of a group run concurrently.
Ungrouped(i) == TRUE

\* Mutant: the group is left after its first error.
NoErrorBefore(i) == \A j \in 1..(i - 1) : SameGroup(i, j) => result[j] = "ok"

\* execute_group awaits the calls of the group before this one.
ItsTurn(i) == \A j \in 1..(i - 1) : SameGroup(i, j) => stage[j] = "done"

Answer(i, res) ==
  /\ stage' = [stage EXCEPT ![i] = "done"]
  /\ result' = [result EXCEPT ![i] = res]

\* dispatch answers an unknown tool or an invalid input itself.
Reject(i) ==
  /\ batch = "running" /\ stage[i] = "queued" /\ ItsTurn(i)
  /\ Answer(i, "error")
  /\ UNCHANGED <<group, working, effects, batch>>

Invoke(i) ==
  /\ batch = "running" /\ stage[i] = "queued" /\ ItsTurn(i)
  /\ stage' = [stage EXCEPT ![i] = "running"]
  /\ working' = working \cup {i}
  /\ UNCHANGED <<group, result, effects, batch>>

\* The tool returns a result or raises: an exception, or a result with another
\* id, becomes an error result.
ToolReturns(i) ==
  /\ batch = "running" /\ stage[i] = "running"
  /\ working' = working \ {i}
  /\ \/ Answer(i, "ok") /\ effects' = Append(effects, i)
     \/ Answer(i, "error") /\ UNCHANGED effects
  /\ UNCHANGED <<group, batch>>

\* What goes on after nobody waits any more: worker threads.
Unstoppable(calls) == {i \in calls : group[i] \in ThreadedGroups}

ToolTimesOut(i) ==
  /\ batch = "running" /\ stage[i] = "running"
  /\ Answer(i, "error")
  /\ working' = working \ ({i} \ Unstoppable({i}))
  /\ UNCHANGED <<group, effects, batch>>

\* A worker thread nobody waits for finishes, with its effect or with an error.
ThreadEnds(i) ==
  /\ i \in working /\ stage[i] \in {"done", "cancelled"}
  /\ working' = working \ {i}
  /\ effects' \in {effects, Append(effects, i)}
  /\ UNCHANGED <<group, stage, result, batch>>

\* gather has every group.
Return ==
  /\ batch = "running"
  /\ \A i \in Calls : stage[i] = "done"
  /\ batch' = "returned"
  /\ UNCHANGED <<group, stage, result, working, effects>>

\* The run is cancelled while the batch is at work.
Cancel ==
  /\ batch = "running"
  /\ batch' = "cancelled"
  /\ stage' = [i \in Calls |-> IF stage[i] = "done" THEN "done" ELSE "cancelled"]
  /\ working' = Unstoppable(working)
  /\ UNCHANGED <<group, result, effects>>

-----------------------------------------------------------------------------
CallStep(i) ==
  Reject(i) \/ Invoke(i) \/ ToolReturns(i) \/ ToolTimesOut(i)

Next ==
  \/ \E i \in Calls : CallStep(i) \/ ThreadEnds(i)
  \/ Return
  \/ Cancel

Spec == Init /\ [][Next]_vars

\* The loop starts a call whose turn it is, wait_for bounds every running one.
Fairness == (\A i \in Calls : WF_vars(CallStep(i))) /\ WF_vars(Return)
FairSpec == Spec /\ Fairness

-----------------------------------------------------------------------------
\* Mutant: the first patch of a namespace is kept.
FirstPatch(calls) == IF calls = {} THEN 0 ELSE Min(calls)

\* The patch that is left when a later one of the namespace overwrites it.
KeptPatch(calls) == IF calls = {} THEN 0 ELSE Max(calls)

\* state_updates: the call whose patch the state ends up with, when all tools of
\* group g update one namespace; 0 when no call of the group succeeded.
StateUpdateOf(g) == KeptPatch({i \in Calls : group[i] = g /\ result[i] = "ok"})

-----------------------------------------------------------------------------
\* No two tools of one group are ever at work at the same time.
GroupsAreExclusive ==
  \A i, j \in working : SameGroup(i, j) => i = j

\* The tools that stop when they are told to: of one group at most one is at work,
\* whatever failed or timed out before it.
LoopGroupsAreExclusive ==
  \A i, j \in working : SameGroup(i, j) /\ group[i] \notin ThreadedGroups => i = j

\* Calls of a group that succeeded took effect in the order in which the model
\* wrote them, also when timeouts and threads ended in between.
SuccessInInputOrder ==
  \A m, n \in DOMAIN effects :
    LET i == effects[m]
        j == effects[n]
    IN SameGroup(i, j) /\ result[i] = "ok" /\ result[j] = "ok" /\ i < j => m < n

\* What the dispatcher knows of a call agrees with its tool: a call it awaits is at
\* work, a tool it does not await is a thread, whose call has not succeeded, and a
\* success took effect.
StagesMatchWork ==
  \A i \in Calls :
    /\ stage[i] = "running" => i \in working
    /\ i \in working => \/ stage[i] = "running"
                        \/ stage[i] \in {"done", "cancelled"} /\ group[i] \in ThreadedGroups
    /\ stage[i] # "done" => result[i] = "none"
    /\ i \in working => result[i] # "ok"
    /\ result[i] = "ok" => \E n \in DOMAIN effects : effects[n] = i
    /\ (\E n \in DOMAIN effects : effects[n] = i) =>
         i \notin working /\ stage[i] \in {"done", "cancelled"}

\* A call that has begun has everything before it in its group behind it.
GroupsInOrder ==
  \A i, j \in Calls :
    SameGroup(i, j) /\ j < i /\ stage[i] \in {"running", "done"} => stage[j] = "done"

\* Whatever fails, hangs or is cancelled, a call has at most one answer and one
\* effect, the tools of one group that can be stopped take turns, and the reported
\* successes of a group took effect in the order of the request.
DispatchInv ==
  /\ TypeOK
  /\ StagesMatchWork
  /\ GroupsInOrder
  /\ LoopGroupsAreExclusive
  /\ SuccessInInputOrder

\* The state the graph stores after the batch is that of the call that really
\* was the last of its group to succeed.
LastSuccessWins ==
  batch = "returned" =>
    \A g \in Groups :
      LET done == {n \in DOMAIN effects : group[effects[n]] = g /\ result[effects[n]] = "ok"}
      IN done # {} => StateUpdateOf(g) = effects[Max(done)]

\* Every batch returns or is cancelled, and then every call has its answer,
\* whichever calls fail, hang or are refused.
BatchReturns == batch = "running" ~> batch # "running"
=============================================================================
