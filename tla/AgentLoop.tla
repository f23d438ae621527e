----------------------------- MODULE AgentLoop -----------------------------
(***************************************************************************)
(* The agent graph of one thread (src/harness/graph.py): nodes prepare,    *)
(* compact, model, permission, tool and final, as LangGraph runs them with *)
(* a checkpoint after every node.  A turn starts when the conversation     *)
(* service passes a user message, waits at the permission interrupt until  *)
(* it is resumed, and can stop anywhere without a trace in the state when  *)
(* a node raises, the task is cancelled or the process dies.  Between its  *)
(* turns, and while it waits, the service may be started again with        *)
(* another max_iterations.                                                 *)
(***************************************************************************)
EXTENDS ContextCompact, FiniteSets

CONSTANTS
  Budgets,         \* the values max_iterations is configured with, at least 1
  MaxTurns,        \* bound: user messages of the thread
  MaxToolUses,     \* bound: tool uses the model proposes in all
  MaxBatch,        \* bound: tool uses of one response
  Texts            \* what users say

ASSUME AgentLoopAssumption ==
  /\ Budgets \subseteq Nat \ {0}
  /\ MaxTurns \in Nat /\ MaxToolUses \in Nat /\ MaxBatch \in Nat
  /\ NoText \notin Texts

ToolUseIds == 1..MaxToolUses

VARIABLES
  \* AgentState, checkpointed after every node
  messages, iterationCount, stopReason, pendingToolUses, pendingToolResults,
  \* where the graph is: a node, "idle" between turns, "waiting" at the interrupt
  node,
  ran,          \* the tools the running tool node has finished
  maxIterations,  \* max_iterations of the graph in this process
  \* facts about the tool uses
  proposed,     \* how many ids the model has used
  verdict,      \* the last decision of the permission pipeline
  granted,      \* approved by the user
  refused,      \* refused by the user
  hookBlocked,  \* blocked by a PreToolUse hook
  executions,   \* how often the tool has been run
  turns, goal

stateVars == <<messages, iterationCount, stopReason, pendingToolUses, pendingToolResults>>
factVars  == <<proposed, verdict, granted, refused, hookBlocked, executions>>
turnVars  == <<turns, goal>>
vars      == <<stateVars, node, ran, maxIterations, factVars, turnVars>>

Nodes == {"prepare", "compact", "model", "permission", "tool", "final"}
StopReasons == {"none", "completed", "hook_blocked", "max_iterations"}

Message == [kind : {"user", "summary", "assistant", "tool"}, text : Texts \cup {NoText},
            uses : SUBSET ToolUseIds, denied : SUBSET ToolUseIds]

TypeOK ==
  /\ messages \in Seq(Message)
  /\ \A i \in DOMAIN messages : messages[i].denied \subseteq messages[i].uses
  /\ iterationCount \in Nat
  /\ maxIterations \in Budgets
  /\ stopReason \in StopReasons
  /\ pendingToolUses \subseteq ToolUseIds
  /\ pendingToolResults \subseteq ToolUseIds
  /\ node \in Nodes \cup {"idle", "waiting"}
  /\ ran \subseteq pendingToolUses
  /\ proposed \in 0..MaxToolUses
  /\ verdict \in [ToolUseIds -> {"none", "allow", "ask", "deny"}]
  /\ granted \subseteq ToolUseIds
  /\ refused \subseteq ToolUseIds
  /\ hookBlocked \subseteq ToolUseIds
  /\ executions \in [ToolUseIds -> Nat]
  /\ turns \in 0..MaxTurns
  /\ goal \in Texts \cup {NoText}

Init ==
  /\ messages = <<>>
  /\ iterationCount = 0
  /\ stopReason = "none"
  /\ pendingToolUses = {}
  /\ pendingToolResults = {}
  /\ node = "idle"
  /\ ran = {}
  /\ maxIterations \in Budgets
  /\ proposed = 0
  /\ verdict = [u \in ToolUseIds |-> "none"]
  /\ granted = {}
  /\ refused = {}
  /\ hookBlocked = {}
  /\ executions = [u \in ToolUseIds |-> 0]
  /\ turns = 0
  /\ goal = NoText

-----------------------------------------------------------------------------
\* The tool uses of _latest_assistant_message, once the model node has run.
LatestUses == Last(messages).uses

GoTo(from, to) == node = from /\ node' = to

\* Mutant: the graph takes up the tools an aborted turn left in the checkpoint.
EntryNodeResumes == IF pendingToolUses # {} THEN "tool" ELSE "prepare"

\* The edge from START.
EntryNode == "prepare"

\* ainvoke with a new user message: the reducer appends it to the checkpointed
\* history and the graph starts at START whatever the last turn left behind.
StartTurn ==
  /\ GoTo("idle", EntryNode)
  /\ turns < MaxTurns
  /\ \E text \in Texts : /\ messages' = Append(messages, UserMessage(text))
                         /\ goal' = text
  /\ turns' = turns + 1
  /\ UNCHANGED <<iterationCount, stopReason, pendingToolUses, pendingToolResults, ran,
                 maxIterations, factVars>>

\* prepare_turn: the UserPromptSubmit hooks may block the turn.
Prepare ==
  /\ node = "prepare"
  /\ iterationCount' = 0
  /\ \/ stopReason' = "none" /\ node' = "compact"
     \/ stopReason' = "hook_blocked" /\ node' = "final"
  /\ UNCHANGED <<messages, pendingToolUses, pendingToolResults, ran, maxIterations, factVars,
                 turnVars>>

\* compact_context, before every model call.
Compact ==
  /\ GoTo("compact", "model")
  /\ messages' \in Compactions(messages, FALSE)
  /\ UNCHANGED <<iterationCount, stopReason, pendingToolUses, pendingToolResults, ran,
                 maxIterations, factVars, turnVars>>

\* Mutant: the model is asked once more when the budget is spent.
RouteToLastWord(uses, count) ==
  IF uses = {} THEN "final" ELSE IF count >= maxIterations THEN "compact" ELSE "permission"

\* route_after_model: out of iterations the turn ends with its tool uses open.
RouteAfterModel(uses, count) ==
  IF uses = {} \/ count >= maxIterations THEN "final" ELSE "permission"

\* Mutant: the path through the reactive compaction does not count.
CountedUnlessReactive(reactive) == iterationCount + (IF reactive THEN 0 ELSE 1)

\* Both paths of invoke_model count the response.
Counted(reactive) == iterationCount + 1

\* A response to this history, with fresh tool-use ids.
Responds(history, count) ==
  \E k \in 0..MaxBatch :
    /\ proposed + k <= MaxToolUses
    /\ LET uses == (proposed + 1)..(proposed + k)
       IN /\ messages' = Append(history, AssistantMessage(uses))
          /\ proposed' = proposed + k
          /\ node' = RouteAfterModel(uses, count)
    /\ iterationCount' = count

\* invoke_model within the budget: one response, perhaps after a reactive
\* compaction when the provider refused the prompt as too long.
Model ==
  /\ node = "model"
  /\ iterationCount < maxIterations
  /\ \/ Responds(messages, Counted(FALSE))
     \/ \E history \in Compactions(messages, TRUE) : Responds(history, Counted(TRUE))
  /\ UNCHANGED <<stopReason, pendingToolUses, pendingToolResults, ran, maxIterations, verdict,
                 granted, refused, hookBlocked, executions, turnVars>>

\* invoke_model with the budget spent: a turn that waited for its permission while
\* the service was started again with a smaller one.
BudgetSpent ==
  /\ GoTo("model", "final")
  /\ iterationCount >= maxIterations
  /\ stopReason' = "max_iterations"
  /\ UNCHANGED <<messages, iterationCount, pendingToolUses, pendingToolResults, ran,
                 maxIterations, factVars, turnVars>>

\* Mutant: what nobody denied is authorised.
NotDenied(decision, grants) == {u \in LatestUses : decision[u] # "deny"}

\* The uses a rule allows or the user approved.
Authorised(decision, grants) ==
  {u \in LatestUses : \/ decision[u] = "allow"
                      \/ decision[u] = "ask" /\ u \in grants}

\* The uses answered with a denied result instead of being run.
Denied(authorised, blocked) == LatestUses \ (authorised \ blocked)

\* create_permission_update: PreToolUse hooks run for every use, then the plan.
Plan(decision, grants, refusals) ==
  \E blocked \in SUBSET LatestUses :
    LET authorised == Authorised(decision, grants)
    IN /\ pendingToolUses' = authorised \ blocked
       /\ pendingToolResults' = Denied(authorised, blocked)
       /\ hookBlocked' = hookBlocked \cup blocked
       /\ granted' = granted \cup grants
       /\ refused' = refused \cup refusals
       /\ node' = "tool"

Decisions == {"allow", "ask", "deny"}

\* The pipeline's answers for the latest uses, the others as they were.
Evaluations ==
  {[u \in ToolUseIds |-> IF u \in LatestUses THEN d[u] ELSE verdict[u]] :
     d \in [LatestUses -> Decisions]}

Asked(decision) == {u \in LatestUses : decision[u] = "ask"}

\* check_permissions: evaluate every use; if one asks, interrupt before any hook.
Permission ==
  /\ node = "permission"
  /\ \E decision \in Evaluations :
       /\ verdict' = decision
       /\ \/ /\ Asked(decision) # {}
             /\ node' = "waiting"
             /\ UNCHANGED <<pendingToolUses, pendingToolResults, granted, refused, hookBlocked>>
          \/ /\ Asked(decision) = {}
             /\ Plan(decision, {}, {})
  /\ UNCHANGED <<messages, iterationCount, stopReason, ran, maxIterations, proposed,
                 executions, turnVars>>

\* aresume: the permission node runs again from its start with the user's answer,
\* and evaluates the rules again, perhaps with another result than the user saw;
\* a use it asks about and the answer leaves out makes is_approved raise.
Resume ==
  /\ node = "waiting"
  /\ \E decision \in Evaluations :
       /\ verdict' = decision
       /\ \E grants, refusals \in SUBSET Asked(decision) :
            /\ grants \cap refusals = {}
            /\ \/ /\ grants \cup refusals = Asked(decision)
                  /\ Plan(decision, grants, refusals)
               \/ /\ grants \cup refusals # Asked(decision)
                  /\ node' = "idle"
                  /\ UNCHANGED <<pendingToolUses, pendingToolResults, granted, refused,
                                 hookBlocked>>
  /\ UNCHANGED <<messages, iterationCount, stopReason, ran, maxIterations, proposed,
                 executions, turnVars>>

\* _pending_tool_uses: the uses the tool node runs.
Runnable == pendingToolUses

\* execute_tools runs the allowed uses; ToolDispatch says in which order.
RunTool(u) ==
  /\ node = "tool" /\ u \in Runnable \ ran
  /\ executions' = [executions EXCEPT ![u] = @ + 1]
  /\ ran' = ran \cup {u}
  /\ UNCHANGED <<stateVars, node, maxIterations, proposed, verdict, granted, refused,
                 hookBlocked, turnVars>>

\* Mutant: the node does not wait for every tool.
AnyRan == pendingToolUses = {} \/ ran # {}

\* adispatch_many has gathered every result.
AllRan == ran = pendingToolUses

\* create_tool_update: denied and executed results in one TOOL message.
ToolsDone ==
  /\ GoTo("tool", "compact")
  /\ AllRan
  /\ LatestUses \subseteq pendingToolUses \cup pendingToolResults
  /\ messages' = Append(messages, ToolMessage(LatestUses, LatestUses \cap pendingToolResults))
  /\ pendingToolUses' = {}
  /\ pendingToolResults' = {}
  /\ ran' = {}
  /\ UNCHANGED <<iterationCount, stopReason, maxIterations, factVars, turnVars>>

\* The stop reason finalize stores.
FinishReason ==
  IF stopReason # "none" THEN stopReason
  ELSE IF LatestUses # {} /\ iterationCount >= maxIterations
       THEN "max_iterations" ELSE "completed"

\* finalize.
Final ==
  /\ GoTo("final", "idle")
  /\ stopReason' = FinishReason
  /\ UNCHANGED <<messages, iterationCount, pendingToolUses, pendingToolResults, ran,
                 maxIterations, factVars, turnVars>>

\* A node raises, the task is cancelled or the process dies: the state stays as
\* the last checkpoint left it.  A waiting thread keeps waiting through a crash
\* but is given up by a cancellation that arrives late.
Abort ==
  /\ node \in Nodes \cup {"waiting"}
  /\ node' = "idle"
  /\ ran' = {}
  /\ UNCHANGED <<stateVars, maxIterations, factVars, turnVars>>

\* The service is started again with another max_iterations; what waits keeps
\* waiting.
Reconfigure ==
  /\ node \in {"idle", "waiting"}
  /\ maxIterations' \in Budgets
  /\ UNCHANGED <<stateVars, node, ran, factVars, turnVars>>

-----------------------------------------------------------------------------
NodeStep ==
  \/ Prepare \/ Compact \/ Model \/ BudgetSpent \/ Permission
  \/ \E u \in ToolUseIds : RunTool(u)
  \/ ToolsDone \/ Final

Next == StartTurn \/ NodeStep \/ Resume \/ Abort \/ Reconfigure

Spec == Init /\ [][Next]_vars

-----------------------------------------------------------------------------
\* No tool runs that a rule did not allow or the user did not approve, nor one
\* that the user refused or a hook blocked: also after an aborted turn left pending uses behind.
OnlyAuthorisedToolsRun ==
  \A u \in ToolUseIds :
    executions[u] > 0 => /\ verdict[u] \in {"allow", "ask"}
                         /\ verdict[u] = "ask" => u \in granted
                         /\ u \notin refused
                         /\ u \notin hookBlocked

\* A proposed tool use runs at most once, whatever is aborted, resumed or left
\* pending in the checkpoint.
ToolRunsAtMostOnce == \A u \in ToolUseIds : executions[u] <= 1

\* In the tool node the plan covers the uses of the latest response, no more and
\* no less: none is dropped, doubled or taken over from an earlier turn.
PlanMatchesRequest ==
  node = "tool" =>
    /\ Last(messages).kind = "assistant"
    /\ pendingToolUses \cup pendingToolResults = LatestUses
    /\ pendingToolUses \cap pendingToolResults = {}

\* What the history tells the model about a tool use is what happened to it.
HistoryTellsTheTruth ==
  \A i \in DOMAIN messages :
    messages[i].kind = "tool" =>
      \A u \in messages[i].uses : (u \in messages[i].denied) <=> (executions[u] = 0)

\* Answers stay paired with their uses through every compaction.
PairsSurviveCompaction == AnswersPaired(messages)

\* Open tool uses are never followed by another model call of the same turn:
\* what comes after them is a new user message, or nothing.
OpenUsesEndTheirTurn ==
  \A i \in Unanswered(messages) :
    IF i < Len(messages)
    THEN messages[i + 1].kind = "user"
    ELSE node \in {"permission", "waiting", "tool", "final", "idle"}

\* A turn that reports completed ends with a text answer and nothing open.
CompletedIsAnswered ==
  node = "idle" /\ stopReason = "completed" /\ Last(messages).kind # "user"
    => Last(messages).kind = "assistant" /\ Last(messages).uses = {}

\* Between any two nodes, also after aborts, refusals and the iteration limit, the
\* state is sound: the plan of the tool node is that of the latest response, uses
\* left open are the last of their turn, and "completed" means an answer.
LoopInv ==
  /\ TypeOK
  /\ PlanMatchesRequest
  /\ CompletedIsAnswered
  /\ OpenUsesEndTheirTurn

\* The history handed to the model still names the goal of the turn.  Not so after a
\* second compaction in one turn.
GoalSurvives ==
  node = "model" => \E i \in DOMAIN messages : messages[i].text = goal

-----------------------------------------------------------------------------
\* How many steps a turn can still take, at most: what the rest of this iteration
\* takes, and as much again for each iteration the budget leaves.
IterationsLeft == IF iterationCount < maxIterations THEN maxIterations - iterationCount ELSE 0

StepsPerIteration == MaxToolUses + 6

StepsToModel ==
  CASE node = "permission" -> MaxToolUses + 5
    [] node = "waiting"    -> MaxToolUses + 4
    [] node = "tool"       -> Cardinality(pendingToolUses \ ran) + 3
    [] node = "compact"    -> 2
    [] OTHER               -> 1

StepsLeft ==
  CASE node = "prepare" -> StepsPerIteration * (maxIterations + 1)
    [] node = "final"   -> 0
    [] OTHER            -> StepsPerIteration * IterationsLeft + StepsToModel

\* Whatever the model asks for and however its prompt has to be compacted, every step
\* of a turn brings it nearer to its end: only the budget itself can be changed.
TurnAdvances ==
  [][node # "idle" /\ node' # "idle" /\ maxIterations' = maxIterations
       => StepsLeft' < StepsLeft]_vars
=============================================================================
