# Verification of Business-Agent-Harness

TLA+ specifications of the harness, TLC runs that check them on small instances,
and TLAPS proofs of the properties that matter most. The reference is the code
(`src/src/harness`, `src/src/services`, `src/src/business`, `src/src/entrypoints`);
paths below leave out the leading `src/src/`.

`PROJECT.json` is the index: components, runs, mutants (one plausible bug per
property, each violating it), the lines each definition translates, findings,
hazards and theorems.

## 1. Inventory

| Component | State it keeps | Operations | What is hard about it |
|---|---|---|---|
| `ConversationService` (`harness/conversation.py`) | one registry row per conversation (status, active run, permission request), the active graph tasks | create, send_message, cancel_run, resume_permission, delete, recovery at start | handlers interleave at their awaits and save copies of the row they read before; crashes |
| Conversation registry (`services/stores.py`) | SQLite table | create, get, list, save, delete, recover_running | save is a blind UPDATE |
| Checkpoints (`services/checkpoint.py`) | SQLite rows per thread | put, put_writes, delete_thread, in worker threads | deletion races with a running graph |
| Agent graph (`harness/graph.py`, `harness/agent_loop.py`) | `AgentState`: messages, iteration count, stop reason, pending tool uses and results | prepare, compact, model, permission, tool, final | interrupt and re-execution of the permission node, aborted turns, the iteration budget |
| `ContextCompactor` | none (a function of the history) | compact | cuts a history that must stay paired |
| Permissions (`harness/permissions.py`) | none | evaluate, approve | rules may answer differently after the interrupt |
| `ToolRegistry` (`harness/tool_use.py`) | the results of one batch | dispatch, adispatch_many, state_updates | concurrency groups, timeouts, worker threads |
| `ModelGateway` (`services/model_gateway.py`) | position in the routes, retry counter, lease | invoke, ainvoke | retries, fallbacks, shared slots, cancellation |
| `_ConcurrencyPool` | lock files, in-process markers | try_acquire, release | several processes and threads, process death |
| Task store (`services/stores.py`, `harness/capabilities/task_system.py`) | SQLite table of tasks | create, claim, complete, fail | concurrent transactions, dependencies, failures inside a transaction |
| Memory store (`services/stores.py`, `harness/capabilities/memory.py`) | entry files, audit history, index file | upsert, list_index, search, rebuild at start | three file writes per upsert in a worker thread, failure or crash between them, a prompt that reads under two locks |
| Agent teams and subagents (`harness/capabilities/agent_teams`, `subagent.py`, `business/.../agent_teams`) | task and review counters, protocol state, child threads | delegate_research, delegate_analysis, request_review, the coordinator's attempts | interleaved delegations, retries on one child thread, deadlines, cancellation, late messages |
| Document index (`services/rag/ingestion.py`, `vector_store.py`) | chunks and manifest in PostgreSQL | index_directory, replace_document, search | separate transactions, failure or crash between them, two indexers, changing files |
| Permission rules, hooks (`permission_rules.py`, `profile.py`, `harness/hooks.py`, `mcp_tools.py`) | none | evaluate, dispatch | rules of a subagent are a selection of the Lead's; order; a hook that fails |
| Report writer (`tools/report_writer.py`, `services/artifacts.py`) | report files | write_text | a thread that outlives its call, two writers of a path |
| Terminal and API (`entrypoints/cli.py`, `api.py`), usage (`services/usage.py`) | the screen of each terminal; the token ledger | commands, routes, record | several terminals on one conversation, what a terminal shows is old, HTTP errors, server death |
| Output-limit recovery, RAG pipeline, skills, todo list | none | | bounds, ranking, files read once |
| Logging, providers, MCP transport, bootstrap | caches | | I/O and wiring |

How they interact: the API calls `ConversationService`; it runs the agent graph of
the user's runtime as an asyncio task and stores the outcome in the registry. The
graph stores a checkpoint after every node, asks the permission pipeline, runs
tools through `ToolRegistry` and models through `ModelGateway`, which takes a slot
from the concurrency pool of the route's quota scope. Task tools call the task store,
delegation tools the coordinator, which runs a child agent graph per attempt. Terminals
reach the server over the API only; `agent index` is a process of its own that shares
the PostgreSQL tables with the searches of the server.

What makes each correct: *conversations*: one run at a time, a row that always has
somebody who will settle it, deletion that leaves nothing. *Graph*: no tool without
authority, none twice, a history that tells the truth, a turn that ends. *Dispatch*:
groups are exclusive, results in order. *Gateway*: bounded retries, honoured choices,
no slot kept. *Pool*: never more leases than slots, slots come back. *Tasks*: one
owner, dependencies first, all or nothing. *Teams*: budgets hold, the protocol state
agrees with what the Lead is told, a subagent never gets more than the Lead has.
*Memories*: the audit history and the index keep up with the files. *Documents*: what
was indexed stays findable, chunks and manifest agree. *Terminals*: nobody waits in
vain, a question is answered once, every model call is billed.

## 2. Modules

| Module | What it is | Code |
|---|---|---|
| `Conversation` | handlers, registry rows, checkpoints, crash and restart | `conversation.py`, `stores.py` 616-787, `checkpoint.py` |
| `RunLock` | abstract: a conversation is a lock that one run holds | what the registry row is for |
| `ContextCompact` | the history and its compactions (operators) | `context_compact.py` |
| `AgentLoop` | the graph of one thread, over `ContextCompact` | `graph.py`, `agent_loop.py`, `permissions.py` |
| `ToolDispatch` | one batch of tool calls | `tool_use.py` |
| `ConcurrencyPool` | slots over processes, step by step | `model_gateway.py` 110-187 |
| `Quota` | abstract: a bounded number of leases | what the pool promises |
| `ModelGateway` | model calls over routes, taking slots as `Quota` grants them | `model_gateway.py` 202-430 |
| `TaskStore` | SQLite transactions of the task store | `stores.py` 305-612 |
| `TaskBoard` | abstract: the atomic operations | `InMemoryTaskStore` in `task_system.py` |
| `ChatClient` | terminals over `Conversation` (it EXTENDS it and adds their side of each request) | `cli.py` 150-815, `api.py` 274-428, `usage.py` |
| `ToolGate` | permission rules, pipeline and PreToolUse hooks (operators) | `permission_rules.py`, `profile.py`, `bootstrap.py` 328-387, `permissions.py`, `hooks.py`, `mcp_tools.py` |
| `TeamProtocol` | the team messages and what they do to a task (operators) | `team_protocols.py` |
| `AgentTeam` | delegations of a Lead, over `ToolGate` and `TeamProtocol` | `lead.py`, `team.py`, `subagent.py` |
| `MemoryFiles` | the memory files of a user | `stores.py` 54-303, `memory.py` |
| `DocumentIndex` | indexers over the chunks and the manifest | `ingestion.py`, `vector_store.py`, `indexer.py` |
| `ReportFiles` | report_writer calls of a user on shared paths | `report_writer.py`, `artifacts.py` |
| `Conversation_proofs`, `AgentLoop_proofs`, `ToolDispatch_proofs`, `ModelGateway_proofs`, `ConcurrencyPool_proofs`, `TaskStore_proofs`, `AgentTeam_proofs` | theorems about the module of that name, and about the operators it is built from | |
| `ChatAndFiles_proofs` | theorems about `ChatClient`, `MemoryFiles`, `DocumentIndex` and `ReportFiles` as `MCChatAndFiles` puts them together; it EXTENDS `Conversation_proofs` | |
| `MC*` | instances for TLC: sets, symmetry, functions for the constants; `MCChatAndFiles` puts the four parts of a user's work side by side | |

How the modules correspond to the code:

* A handler of `ConversationService` is cut at its awaits, because one event loop
  runs everything: `SendMessage` is `send_message` up to `await graph_task`,
  `SendReturns` the rest. `cancel_run` and `delete` have such pairs, identified by
  a call `k`. The row is what is on disk; a handler's copy of the record is what it
  saves after its await, without a look at the row (`Save`, an UPDATE that does
  nothing once the row is gone). `resume_permission` runs the graph in the handler,
  so its graph's end and its save are one step, and the run is in no task table.
  The order of the two handlers of a cancelled run depends on its graph task. A task at
  work (`CancelRun`, `CancelReturns`) wakes `send_message`, its direct waiter, before
  `gather` wakes `cancel_run`, which needs one more turn of the loop (`TaskGathered`);
  other handlers may run between the two. For a task that has ended while
  `send_message` is not resumed yet, `gather` is done when it is made (Python 3.12, which
  `pyproject.toml` requires) and its await does not yield: `cancel_run` saves and answers
  in one step (`CancelEndedRun`), before `send_message` saves its outcome over it.
* `AgentLoop` has one action per node; `node` is the next node, `"waiting"` the
  interrupt, `"idle"` no turn. `Resume` is the re-execution of the permission node
  with the answer. `Abort` is an exception, a cancellation or a crash: the
  checkpointed state stays. Contents are a text of a small set; the character
  budget is a free choice, the message budget is computed. Tool uses are numbered.
  `maxIterations` is the budget of the graph in this process: the service may be started
  again with another one (`Reconfigure`) between turns and while a turn waits for its
  permission, the one way in which the model node meets a spent budget (`BudgetSpent`).
* `ToolDispatch` distinguishes what the dispatcher thinks of a call (`stage`) from
  whether its tool is at work (`working`), since a worker thread cannot be stopped.
* `ConcurrencyPool` looks at one slot per step, in order, inside the mutex of the
  process; `release` is two steps, the file lock first.
* `TaskStore` runs BEGIN IMMEDIATE, the checks, the write and COMMIT as steps;
  `draft` is what the transaction has written and nobody else sees.
* `ChatClient` changes no handler of `Conversation`: a terminal's command is the
  handler's first step together with what the terminal does, its reply the handler's
  last step together with the new screen. A terminal is sequential and remembers what
  the last reply told it (`question` is the request it shows); other terminals go on.
  The ledger counts model calls: `captured` those of open requests, `billed` the rest.
* `AgentTeam` cuts a delegation where it awaits a lock, its child or the retry delay.
  The messages a coordinator emits without an await between them are one step;
  `task` is what `TeamProtocol` makes of them, with the refused kinds. The child is an
  agent loop of its own (`AgentLoop`): here it proposes any tool of `ChildUses`, which
  the registry, the hooks and the rules of `ToolGate` let through or not (`ran`), and
  its turn ends in one of the ways the runner tells apart. `spoke` keeps which attempt
  wrote the last text of the shared child thread.
* `MemoryFiles` has one step per file write, inside the lock; a write may raise, the
  process may die between two. A prompt is two steps, as its two locked reads.
* `DocumentIndex` has one step per transaction of `replace_document`; `torn` names
  documents of which a replacement ever broke off after its first write.
* `ReportFiles` writes a file in a head and a tail; `told` is what the agent was told,
  which a timeout decides while the thread (`at`) goes on.

## 3. Runs

| Run | Question | Bounds |
|---|---|---|
| `ConversationSerial` | One run per conversation, rows that belong to their run, nothing after delete, waiting rows resumable, truthful cancel answers, the row implements `RunLock`, through crashes, when clients wait for the answer of cancel and delete, and a cancel meets a graph at work or one that has just ended | 2 conversations, 3 runs, 2 calls; ids are symmetric (no liveness here) |
| `ConversationAnyClient` | For any clients: no leaked RUNNING row, deleted rows stay deleted, every row settles, every call is answered | 1 conversation, 2 runs, 2 calls; `FairSpec` |
| `AgentLoop` | Authorisation, at most one run of a tool, truthful and paired history, and turns that come nearer to their end with every step | 2 turns, 3 tool uses, 2 per response, 1 or 3 iterations, changed at restarts, one text, 8 messages before a compaction, 4 kept (the least the configuration allows) |
| `ToolDispatch` | Loop groups are exclusive and report in input order, last patch wins, the batch returns | 4 calls, 2 groups and none, all assignments; one group works in threads; `FairSpec` |
| `ConcurrencyPool` | Markers agree with locks, quota, slots come back | a server with limit 2 and 3 callers, a CLI with limit 1; `FairSpec` |
| `ModelGateway` | Retries, routes, slots and outcomes of two concurrent calls | 2 routes in scopes with one slot each, 2 retries, 1 for 429; `FairSpec` |
| `TaskStore` | Ownership, dependencies, refinement of `TaskBoard`, the lock comes back | 3 tasks, 2 owners, 2 connections; `FairSpec` |
| `AgentTeam` | Budgets, protocol state against report, tools of subagents, delegations return | 2 delegations of one run (any of the three tools), one task per team, one retry, one review round, with a deadline, three search modes, RAG on with a read-only web tool and RAG off with an unmarked one; `FairSpec` |
| `ChatAndFiles` | Terminals are served and billed; memories, documents and reports keep their promises | 2 terminals, 2 conversations, 2 runs, 2 permission requests per run, 2 model calls; 3 memory names of which 2 may exist, 2 writers, 2 revisions; 2 documents (one with two versions), 2 indexers with different embedding models, one at work at a time; 3 reports on one path |

Several invariants are conjunctions that contain the type invariant of their module
and named parts, which are checked there and not listed again. `SerialInv`:
`LiveRunOwnsRow` (a conversation has one open handler and its row says running, or idle
when a cancel has met the ended graph), `WaitingIsResumable` and the life cycle. `LoopInv`: the plan of the tool node is that of the latest response, open
uses end their turn, "completed" means an answer. `DispatchInv`: stages match work,
groups in order and exclusive, successes in input order. `GatewayInv`: `RoutesWalked` (a
call has given up exactly the routes behind it, and its attempts are its retries),
bounded attempts, slots only while a provider answers, the chosen model first.
`StoreInv`: one writer, dependencies, drafts. `BudgetsHold` and `ReportMatchesProtocol`:
a delegation's attempts and protocol status at each stage. `TerminalsAreServed`: what a
terminal in each screen waits for (`Served`), and that a question on a screen was asked.
`RevisionsAreAudited`, `IndexMatchesManifest` and `ReportsStay`: where a write that is
under way stands.

`ChatAndFiles` checks four systems of one user that share no state. Their product
would only repeat each part's states for every state of the others, so a behaviour
picks one part and moves it; the sum is complete for properties of one part.

Why the bounds are enough to show something: three runs and two calls suffice for a
stale save to hit the successor of a run and the successor's successor; three
callers of a process and one of another meet a slot between its unlock and its
unmarking; three tool uses of which two come in one response, and two turns, let an
aborted turn leave something behind for the next; two calls with a chosen model each
walk the routes in opposite orders and meet in both scopes; three tasks make a chain
of dependencies. A budget of three that a restart lowers to one is spent at the model node,
a budget of one in the first response. Two delegations with a budget of one task contend for it, and one
retry makes a second attempt on a thread that already has text; the shipped default
is no retry and no deadline, the run checks the wider configuration. Three names with
room for two memories reach the limit while two writers compete; two versions and
two models let an unfinished replacement be followed by one of another version or an
incompatible indexer; two permission requests let a terminal answer the wrong one;
two creators and one overwriter meet on a path. `MaxRevision`, `MaxQuestions` and
`MaxCalls` cap counters that nothing else depends on. Each property has a mutant in
`PROJECT.json` that breaks it within the same bounds. Deadlock is not checked: every
component really stops when its bounded ids are used or nobody asks anything.

### Disagreements found

Each is a run that expects a violation of one property.

| Run | What the code does | What is said |
|---|---|---|
| `ConversationOverlap` | a handler of an ended run saves its old copy over the row of the next run: two runs can be at work | `plan/implementation-plan.md:280` |
| `ToolDispatchExclusion` | a timed-out thread overlaps the next call of its group | comment in `harness/tool_use.py:380` |
| `ChatSecondAnswer` | a second terminal's answer to a question already answered decides the run's next request | `plan/phase-1-implementation-plan.md:839` |

The first happens in two ways. A `cancel_run` that had to wait saves after the message
that came between the resumption of `send_message` and its own; or a `cancel_run` that
met the ended graph frees the row, and the save of the ended `send_message` comes after
the message that this let in. TLC shows the second, which is a step shorter. Both need a
client that acts on the conversation while another request on it is still being served.
`SerialClients` is the assumption that none does: no message, answer or delete while a
cancel or delete call on the conversation is open, nor in the moment in which the
`send_message` of an ended graph is in the ready queue (`Settling`; a request that arrives
then is read after it). The run `ConversationSerial` and the theorems show that it is all
that is missing. A cancel is free to come at any time, in that moment too.

### Observations

The modules also state properties that the code does not keep and that no run of its
own checks; adding one to the named configuration shows the behaviour.

| Property | Where | Behaviour |
|---|---|---|
| `NothingAfterDelete` | `ConversationAnyClient` with two runs | a message sent while `delete` awaits its worker thread starts a run that survives the deletion (`plan/implementation-plan.md:350`) |
| `CancelledStaysIdle` | `ConversationSerial` | a cancel that meets a graph which has just stopped at a permission request answers idle, and `send_message` then saves waiting over it: the conversation the user was told is free refuses the next message (`plan/phase-1-implementation-plan.md:871`) |
| `GoalSurvives` | `AgentLoop` with 4 iterations, 1 turn, 1 use per response | the second compaction of one turn protects an empty goal: the first has replaced the user message by a summary (`plan/phase-1-implementation-plan.md:889`) |
| `FallbackNamesGivenUpModel` | `ModelGateway` | with a chosen model the fallback event can name the model it falls back to as the one given up (`tests/unit/test_model_gateway.py:287` asserts the other) |
| `MemoriesReadable` | `MemoryFiles` | content of white space only, or tags that make the file too long, is stored and can no longer be read: listings, prompts and the next start raise (`plan/phase-1-implementation-plan.md:801`) |
| `HistoryIsComplete` | `MemoryFiles` | a failure or crash after the entry is written leaves a revision without its history line, for good (`plan/phase-1-implementation-plan.md:796`) |
| `SkippedIsSearchable` | `DocumentIndex`, one document with three versions | chunks left by broken-off replacements: going back to the version of the manifest is skipped as unchanged although its chunks are gone |
| `IndexedStaysVisible`, `IndexMatchesManifest` | `DocumentIndex` with `OneAtATime = FALSE` | two indexers that replace one document from the same manifest row |
| `RunBudgetHolds` | `AgentTeam` | every research delegation is a team of its own, so `max_tasks` does not limit a run (`plan/phase-3-implementation-plan.md:58`) |
| `ReportsAreWhole` | `ReportFiles` | an approved overwrite that fails half way, or meets a thread still writing the path, leaves a mixture |

Visible in the models, without a property: `cancel_run` refuses a run that continues
after an approval, because `resume_permission` enters nothing into the active tasks
(`README.md:207` says /cancel cancels a running run). A turn that ran out of
iterations, or was aborted in the tool node, leaves tool uses without results, and the
next turn sends them to the model; `LoopInv` states the weaker rule that holds. One
retry counter serves two limits (`LimitReached`): a 429 after the retry of another
error is not retried (`plan/phase-1-implementation-plan.md:394`). A cancelled delegation
leaves its task running in the protocol state (`plan/phase-3-implementation-plan.md:371`
plans a SHUTDOWN). A subagent's permission request fails its attempt and never reaches
the Lead's user (`plan/phase-3-implementation-plan.md:38`). Any HTTP error leaves the chat
loop (`cli.py:617`, while its docstring at `cli.py:399` names only /exit and /quit). Seen
by reading only: deletion removes the checkpoints of the conversation's thread and not
those of its subagents' threads.

### Fairness

Weak fairness of: the end of a graph task (bounded iterations, timeouts of models
and tools), the resumption of a ready handler, worker threads and the restart by an
operator (`Conversation`); the start, end or timeout of
a call (`ToolDispatch`); the loop of a model call, providers having timeouts
(`ModelGateway`); the next statement of a transaction (`TaskStore`); the start, the end
of the child's turn and the end of the retry delay (`AgentTeam`: the child is an agent
loop). That a graph at work ends is more than a choice: by `TurnAdvances` every step of a
turn lowers a bound on the steps left, and models and tools have timeouts; `AgentLoop`
itself is checked for safety only. In `ConcurrencyPool` a release competes for
a `threading.Lock` with scanning callers, so `Discard` has strong fairness: a lock that
is free again and again is obtained in the end. Clients, users, errors, cancellations
and crashes are never fair. `ChatAndFiles` checks safety only.

## 4. Proofs

Every safety invariant and every action property of the passing runs has a theorem, and
so have the three refinements. They hold for every value of the constants under the
named assumptions of the modules, and under two switches that are hypotheses of the
theorems that need them:

| Assumption | What it says | Why the code justifies it |
|---|---|---|
| `NoRunAssumption`, `NoConversationAssumption`, `TaskStoreAssumption`, `FilesAssumption` (partly) | placeholders are no ids; names are finite and one at least, limits are numbers | ids are UUIDs and slugs; the limits are configured integers |
| `AgentLoopAssumption`, `CompactAssumption` | numbers; at least one iteration, four kept messages, eight before a compaction | the validators of the configuration |
| `DispatchAssumption`, `PoolAssumption`, `GatewayAssumption`, `TeamAssumption`, `MaxQuestionsAssumption` | batches, processes and calls are finite, routes are distinct, limits are numbers, a scope has at least one slot | configuration |
| `SerialClients` | no client acts on a conversation while its cancel or delete call is open, or in the moment between the end of its graph and the resumption of `send_message` | a hypothesis, not a fact: `ConversationOverlap` shows what happens without it |
| `OneAtATime` | one indexer at a time | a hypothesis: nothing in the code enforces it (see Observations) |

The argument of each module:

* **Conversation.** `OneRunPerConversation` is not inductive: a step that starts a
  run is safe only because an idle row has no live run behind it, no cancel handler
  about to save and no deletion under way. `SerialInv` says so: `RunLifecycle` ties
  each run's stage to its row, `CancelExcludesOthers` and `DeleteExcludesRuns` say
  who may be there while a call is open, `InterruptStored` ties a waiting row to the
  checkpoint. `SerialInvariant` proves it inductive under `SerialClients`, with one
  step per action; `OneRun`, `WaitingResumable` and `NothingLeft` follow, and
  `Refinement` maps every step to a step of `RunLock` or a stutter. A
  cancel that meets the ended graph is a `Break` of the lock; the ended run then leaves
  the lock (`Settle`) or takes it back to park (`Reclaim`), and `RunLock` gives it to no
  other run before that. What cancel calls answer needs more: `CancelInv` says that a run
  somebody waits to see cancelled ends cancelled and that no row of its conversation waits
  meanwhile; with it `CancelTellsTruth` and `WaitingIsKept` hold. Both are about cancels
  that had to wait: what the other kind answers is true of the row only until the ended run
  has saved (`CancelledStaysIdle`). `HandlerInvariant`, `NoLeakedLock`
  and `DeletedStays` need no assumption on clients: a RUNNING row of a live server
  always has a handler, a deleted row stays deleted.
* **AgentLoop.** `AgentInv` is the type invariant, `Sound(messages)`, `NodeInv` and
  `UsesInv`. `Sound` is local: each message is truthful about what ran (`Truthful`) and
  fits its neighbour (`Adjacent`), so that a message appended, a history cut at a group
  and a duplicate taken out are questions about two messages. `UsesInv` says that uses
  not yet proposed have no past, that the latest response has not run unless the tool
  node ran it, and that the plan is allowed and approved; an aborted turn keeps it, and
  so the next turn starts from it. Authorisation, at most one run, the truth of the
  answers and the pairing follow. `CompactionKeepsPairs` is the theorem about
  `ContextCompactor` alone: for any well-paired history and any reason to compact it, the
  result is well paired and ends as before. Its chain is `KeepAbridges` (one step of
  `Deduplicate`), `DeduplicateAbridges` (the fold), `GroupsStart` (a cut is before a
  request) and `CompactionsCompact`. The fold is a recursive function over the positions
  of a history; that it exists is `FoldExists`, and the induction is a least
  counterexample (`LeastNumber`, from the well-foundedness of the natural numbers).
  `TurnsAdvance` proves that a turn cannot go on for ever: `StepsLeft` counts what is left
  of this iteration and as much again for each iteration the budget leaves. Every step
  lowers it, whichever tools the model asks for, because both ways through the model node
  count the response; only a changed budget can raise it.
* **ToolDispatch.** `DispatchInv` is inductive as it stands. The order of the effects of
  a group follows from `ItsTurn` and from the fact that a call reported as a success has
  ended its work; `LastPatchKept` picks the last success and shows that the state update
  of the batch is its.
* **ModelGateway.** `Walked` ties the position of a call in its routes to the set of
  routes given up and to the attempts on each; it is what makes the bounds on attempts and
  `AllRoutesGivenUp` inductive. Slots are counted: a scope's holders are the calls with a
  provider at work there.
* **ConcurrencyPool.** `PoolInv` adds mutual exclusion of the scan and the
  distinctness of the slots in use in a process (`MutexHeldByScanner`,
  `SlotsDiffer`). `Refinement` counts: the slot of a lease identifies it, so with the
  new lease there are at most as many leases as slots, hence there were fewer before.
* **TaskStore.** `StoreInv` adds to `DependenciesFirst` that one transaction is open
  at a time and that what it has written still follows from the committed table
  (`OneWriter`, `DraftIsNext`). `CommitGuard` is the lemma everything uses: what the
  transaction found is still so when it commits. `Refinement` shows that a commit is one
  atomic operation of `TaskBoard` and everything else a stutter;
  `OwnersKeepTheirTasks` (`TasksKeepTheirOwner`, a property no run lists) that no commit
  steals, reopens or rewires a task.
* **AgentTeam.** `TeamInv` is `InStep` for each delegation and `Counted` for each run.
  The messages a coordinator emits in a row are a chain of `Accept`s; lemmas
  (`OpeningMessages`, `SuccessMessages`, `FailureMessages` and so on) give the status and
  the refused kinds at its end, so the steps argue about statuses only. `Counted` says
  that the tasks charged to a team are the delegations it has started: a step starts at
  most one, after a look at the budget. `SubagentsGetNoMore` is about the rules alone: a
  subagent's rules are the Lead's on its own tools, in the same order, so the first rule
  that answers is the same one.
* **MemoryFiles, DocumentIndex, ReportFiles.** Their invariants say where a write that is
  under way stands, in lock step with the file or row it writes. `IndexIsUpToDate` and
  `PromptsAreConsistent` follow for memories. For documents one indexer at a time is
  needed: its document may be between versions (`Replacing`), every other one is either
  clean or `torn`, and an old version is deleted only when the new one is there. For
  reports, `NewReportsIntact`: creation is exclusive, so a new report has one writer until
  an approved overwrite opens the path.
* **ChatClient.** `ChatInv` is `HandlerInv` of `Conversation`, the ledger, and `Served`
  for each terminal. Most steps of the service end no request and ask no question
  (`Quiet`), and leave every terminal that does not move served; the end of a request, the
  end of a graph and the death of the server are argued one by one.
  `TerminalsUseTheService` shows that terminals are clients of `Conversation`, step by
  step, so that theorems for any clients hold of them: `TerminalsLeaveNoLock`.

Only model-checked is liveness (`RowSettles`, `CallsAnswered`, `BatchReturns`, `SlotsComeBack`, `CallsEnd`, `LockComesBack`, `DelegationsReturn`): the
provers do not reason about fairness or ENABLED. `AgentTeam` lets a child propose any tool
and takes the end of its turn from `AgentLoop` by words, not by a proof.

## 5. Not modelled, and the plan

Left out for good: text and layout (prompts, summaries, logs, the contents of
reports), keyword and vector ranking (the RAG pipeline computes on what `Searchable`
offers), provider adapters and the MCP transport, configuration and object wiring,
skills and the todo list (files read at start, one replaced value), and output-limit
recovery (a bounded loop inside one model node: each round is a call of `ModelGateway`).
The message bus has no subscriber in the program; what its validation does to a
message is `TeamProtocol`.

In `MemoryFiles`: a history line of which only a part is appended. In `Conversation`: a
`save` that raises, a handler cancelled from outside, several
users (ownership is one comparison) and the in-memory registry (whose handlers share
the record object). In `ChatClient`: commands that only show something. In `TaskStore`:
a COMMIT that raises and leaves the transaction open. Child threads of subagents are
not composed with `Conversation`'s checkpoints.

Planned next, all proofs:

1. `ModelGateway` over the pool: that a call's slots are leases of `Quota`. A failed
   attempt gives its slot back and asks for the next in one step of the model; the
   refinement needs these apart, or a `Quota` whose step does both.
2. `AgentTeam` over `AgentLoop`: a child's turn as an instance of the agent loop, so that
   `OnlyAuthorised` carries over to subagents.
3. Action properties of single parts: a report to the Lead is given once; a revision of a
   memory file never goes back; a manifest row changes only in `Mark`.
4. The safety part of liveness: at every stage of a delegation and of a model call a
   measure (attempts, routes left) that each step lowers, as `TurnAdvances` is for a turn.
