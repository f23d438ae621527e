----------------------------- MODULE AgentTeam -----------------------------
(***************************************************************************)
(* Delegation: the three tools of the Lead (agent_teams/lead.py), the      *)
(* TeamCoordinator they share (agent_teams/team.py) and the child agent    *)
(* loop that SubagentRunner runs (harness/capabilities/subagent.py).       *)
(*                                                                         *)
(* A delegation is one call of a delegation tool in a run of the Lead.     *)
(* Other delegations move while one awaits its child, its retry or a lock. *)
(* The child is an agent loop of its own (AgentLoop): here it proposes     *)
(* tools, and its turn ends.  All attempts of a delegation use one child   *)
(* thread, so the text of an earlier attempt stays in its history.         *)
(* Nothing subscribes to the message bus, so only what the protocol state  *)
(* makes of the messages is kept.                                          *)
(***************************************************************************)
EXTENDS ToolGate, TeamProtocol

CONSTANTS
  Delegations,      \* calls of a delegation tool
  Runs, runOf,      \* runs of the Lead, and the run of each call
  Configs,          \* configurations of the runtime
  Modes,            \* search modes of the runs
  MaxTasks,         \* DelegationBudget.max_tasks
  MaxRetries,       \* DelegationBudget.max_retries
  MaxReviewRounds,  \* reserve_review_round's max_rounds
  HasDeadline       \* max_duration_seconds is set

ASSUME TeamAssumption ==
  /\ runOf \in [Delegations -> Runs]
  /\ Configs \subseteq [rag : BOOLEAN, web : Annotations] /\ Modes \subseteq SearchModes
  /\ MaxTasks \in Nat /\ MaxRetries \in Nat /\ MaxReviewRounds \in Nat

Researchers == {"catalog", "rag", "web"}
Roles == Researchers \cup {"analyst", "reviewer"}

\* What a child may propose: any name it has read about.
ChildUses == {"calculator", "document_search", "document_catalog", "web_search", "memory_write"}

VARIABLES
  config, mode,
  role,          \* the definition a delegation runs, "none" before
  stage,         \* "new", "admitted", "running", "backoff", "answered", "cancelled"
  attempt,
  spoke,         \* the last attempt whose child has written text, 0 if none
  asked,         \* the child of this attempt is interrupted by a permission request
  ran,           \* the last tool the child of a running attempt has run
  teamTasks,     \* _team_task_counts
  reviewRounds,  \* _review_counts
  task,          \* the task in TeamProtocolState, and the messages it refused
  report         \* what the Lead is told: "none", "ok", "error", "rejected"

childVars == <<attempt, spoke, asked, ran>>
teamVars  == <<teamTasks, reviewRounds>>
vars == <<config, mode, role, stage, childVars, teamVars, task, report>>

\* _resolve_team_run_id: analyses and reviews share the team of their run; the
\* research tool brings a fresh team id to every call.
TeamId(d, r) == IF r \in Researchers THEN d ELSE runOf[d]
Team(d) == TeamId(d, role[d])

TypeOK ==
  /\ config \in Configs
  /\ mode \in [Runs -> SearchModes]
  /\ role \in [Delegations -> Roles \cup {"none"}]
  /\ stage \in [Delegations -> {"new", "admitted", "running", "backoff", "answered", "cancelled"}]
  /\ attempt \in [Delegations -> 0..(MaxRetries + 1)]
  /\ spoke \in [Delegations -> 0..(MaxRetries + 1)]
  /\ asked \in [Delegations -> BOOLEAN]
  /\ ran \in [Delegations -> ChildUses \cup {"none"}]
  /\ teamTasks \in [Delegations \cup Runs -> 0..MaxTasks]
  /\ reviewRounds \in [Runs -> 0..MaxReviewRounds]
  /\ task \in [Delegations -> [status : {"pending", "running", "succeeded", "failed"},
                               refused : SUBSET MessageKinds]]
  /\ report \in [Delegations -> {"none", "ok", "error", "rejected"}]

Init ==
  /\ config \in Configs
  /\ mode \in [Runs -> Modes]
  /\ role = [d \in Delegations |-> "none"]
  /\ stage = [d \in Delegations |-> "new"]
  /\ attempt = [d \in Delegations |-> 0]
  /\ spoke = [d \in Delegations |-> 0]
  /\ asked = [d \in Delegations |-> FALSE]
  /\ ran = [d \in Delegations |-> "none"]
  /\ teamTasks = [t \in Delegations \cup Runs |-> 0]
  /\ reviewRounds = [r \in Runs |-> 0]
  /\ task = [d \in Delegations |-> [status |-> "pending", refused |-> {}]]
  /\ report = [d \in Delegations |-> "none"]

-----------------------------------------------------------------------------
\* _emit: the parties of a message, by its kind unless the caller names them.
Envelope(r, kind) ==
  CASE kind \in {"TASK_REQUEST", "REVIEW_REQUEST", "RESULT_ACK"} ->
         [kind |-> kind, sender |-> "lead", recipient |-> r]
    [] kind = "TASK_ACCEPTED" -> [kind |-> kind, sender |-> "runtime", recipient |-> "lead"]
    [] kind = "RETRY" -> [kind |-> kind, sender |-> "runtime", recipient |-> r]
    [] OTHER -> [kind |-> kind, sender |-> r, recipient |-> "lead"]

\* A refused message is logged and dropped; the caller goes on.
Emit(d, r, kinds) ==
  task' = [task EXCEPT ![d] = AcceptAll(@, [i \in DOMAIN kinds |-> Envelope(r, kinds[i])])]

Move(d, to) == stage' = [stage EXCEPT ![d] = to]
Answer(d, what) == Move(d, "answered") /\ report' = [report EXCEPT ![d] = what]

\* The kinds a mode permits: DelegateResearchTool._kind_allowed.
KindsAllowed(m) ==
  CASE m = "rag" -> {"catalog", "rag"}
    [] m = "web" -> {"web"}
    [] m = "catalog" -> {"catalog"}
    [] OTHER -> Researchers

\* The kind a call asks for: its own, else the mode's, else the one of the
\* classified objective.
ResearchKind(requested, m, class) ==
  IF requested # "auto" THEN requested ELSE IF m = "auto" THEN class ELSE m

\* delegate_research: a kind of the mode, never both sources in one call.
Research(d) ==
  /\ stage[d] = "new"
  /\ \E requested \in Researchers \cup {"auto"}, class \in Researchers \cup {"hybrid"} :
       LET kind == ResearchKind(requested, mode[runOf[d]], class)
       IN IF kind \in Researchers \cap KindsAllowed(mode[runOf[d]])
          THEN /\ role' = [role EXCEPT ![d] = kind]
               /\ Move(d, "admitted")
               /\ UNCHANGED report
          ELSE Answer(d, "rejected") /\ UNCHANGED role
  /\ UNCHANGED <<config, mode, childVars, teamVars, task>>

\* delegate_analysis.
Analysis(d) ==
  /\ stage[d] = "new"
  /\ role' = [role EXCEPT ![d] = "analyst"]
  /\ Move(d, "admitted")
  /\ UNCHANGED <<config, mode, childVars, teamVars, task, report>>

RoundFree(r) == reviewRounds[r] < MaxReviewRounds

\* request_review: reserve_review_round, then REVIEW_REQUEST.
Review(d) ==
  /\ stage[d] = "new"
  /\ role' = [role EXCEPT ![d] = "reviewer"]
  /\ \/ /\ RoundFree(runOf[d])
        /\ reviewRounds' = [reviewRounds EXCEPT ![runOf[d]] = @ + 1]
        /\ Move(d, "admitted")
        /\ Emit(d, "reviewer", <<"REVIEW_REQUEST">>)
        /\ UNCHANGED report
     \/ /\ ~RoundFree(runOf[d])
        /\ Answer(d, "rejected")
        /\ UNCHANGED <<reviewRounds, task>>
  /\ UNCHANGED <<config, mode, childVars, teamTasks>>

\* Mutant: the budget is compared after the task has been counted.
WithinBudgetLate(t) == teamTasks[t] <= MaxTasks

WithinBudget(t) == teamTasks[t] < MaxTasks

\* Mutant: a retry repeats the attempt number of the attempt it replaces.
AttemptRepeated(d) == IF attempt[d] = 0 THEN 1 ELSE attempt[d]

NextAttempt(d) == attempt[d] + 1

\* The messages that open an attempt.
Begin(d) ==
  /\ Move(d, "running")
  /\ attempt' = [attempt EXCEPT ![d] = NextAttempt(d)]
  /\ asked' = [asked EXCEPT ![d] = FALSE]
  /\ Emit(d, role[d], <<"TASK_REQUEST", "TASK_ACCEPTED">>)
  /\ UNCHANGED <<config, mode, role, spoke, ran, reviewRounds>>

\* delegate up to the first attempt.  The definitions hold every role, a call of
\* the Lead has depth 0 and asks for no tools beyond the role's, so the other
\* refusals of delegate are out of reach.
StartTask(d) ==
  /\ stage[d] = "admitted"
  /\ \/ /\ WithinBudget(Team(d))
        /\ teamTasks' = [teamTasks EXCEPT ![Team(d)] = @ + 1]
        /\ Begin(d)
        /\ UNCHANGED report
     \/ /\ ~WithinBudget(Team(d))
        /\ Answer(d, "error")
        /\ UNCHANGED <<config, mode, role, childVars, teamVars, task>>

-----------------------------------------------------------------------------
\* The tools of a role, of those the runtime has.
RoleTools(r) ==
  CASE r = "catalog" -> IF config.rag THEN {"document_catalog"} ELSE {}
    [] r = "rag"     -> IF config.rag THEN {"document_search"} ELSE {}
    [] r = "web"     -> IF config.web # "absent" THEN {"web_search"} ELSE {}
    [] r = "analyst" -> {"calculator"}
    [] OTHER         -> {}

\* create_researcher_loop raises for a researcher without tools.
HasChild(d) == role[d] \in Researchers => RoleTools(role[d]) # {}

Verdict(d, use) ==
  Evaluate(SubagentRules(config), use, RoleTools(role[d]), mode[runOf[d]], config)

Speaks(d) == spoke' \in {spoke, [spoke EXCEPT ![d] = attempt[d]]}

\* Mutant: the child is given the registry of the profile.
ProfileRegistry(d) == UNION {RoleTools(r) : r \in Roles}

\* The registry of the child holds the tools of its role.
Registry(d) == RoleTools(role[d])

\* One tool use of the child: the rules, the hooks, then the registry.  A use
\* that asks ends the child's turn with the question open.
ChildUse(d) ==
  /\ stage[d] = "running" /\ ~asked[d] /\ HasChild(d)
  /\ \E use \in ChildUses :
       \/ /\ use \in Registry(d)
          /\ \E failing \in SUBSET {"permission_check", "tool_call_logging"} :
               Passes(Verdict(d, use) = "allow", failing)
          /\ ran' = [ran EXCEPT ![d] = use]
          /\ UNCHANGED asked
       \/ /\ Verdict(d, use) = "ask"
          /\ asked' = [asked EXCEPT ![d] = TRUE]
          /\ UNCHANGED ran
  /\ Speaks(d)
  /\ UNCHANGED <<config, mode, role, stage, attempt, teamVars, task, report>>

\* The review found in a reviewer's summary, with the messages it sends.
ReviewMessages(d) ==
  IF role[d] # "reviewer" THEN {<<>>}
  ELSE {<<>>, <<"REVIEW_RESULT">>, <<"REVIEW_RESULT", "REVISION_REQUEST">>}

\* The attempt succeeded: its summary goes to the Lead.
Succeed(d) ==
  \E review \in ReviewMessages(d) :
    /\ Emit(d, role[d], <<"TASK_RESULT", "RESULT_ACK">> \o review)
    /\ Answer(d, "ok")

AttemptsLeft(d) == attempt[d] < MaxRetries + 1

\* Mutant: a retry is not announced.
RetryMessagesSilent == <<"TASK_FAILED">>

RetryMessages == <<"TASK_FAILED", "RETRY">>

\* The attempt failed: a retry after a pause, or the end.  A failure that still
\* carries text is read as a review all the same.
Fail(d, retryable, hasText) ==
  \/ /\ retryable /\ AttemptsLeft(d)
     /\ Emit(d, role[d], RetryMessages)
     /\ Move(d, "backoff")
     /\ UNCHANGED report
  \/ /\ ~(retryable /\ AttemptsLeft(d))
     /\ \E review \in IF hasText THEN ReviewMessages(d) ELSE {<<>>} :
          Emit(d, role[d], <<"TASK_FAILED">> \o review)
     /\ Answer(d, "error")

\* SubagentRunner.run returns.  The summary is the last text of the thread,
\* whichever attempt wrote it: with one the attempt succeeded, unless the
\* iteration limit stopped it.
ChildEnds(d) ==
  /\ stage[d] = "running"
  /\ Speaks(d)
  /\ \/ HasChild(d) /\ spoke'[d] # 0 /\ Succeed(d)
     \/ HasChild(d) /\ spoke'[d] = 0 /\ Fail(d, TRUE, FALSE)
     \/ HasChild(d) /\ ~asked[d] /\ Fail(d, TRUE, spoke'[d] # 0)
     \/ \* ainvoke raises, or the factory does
        \E retryable \in IF HasChild(d) THEN BOOLEAN ELSE {FALSE} : Fail(d, retryable, FALSE)
     \/ HasDeadline /\ HasChild(d) /\ Fail(d, TRUE, FALSE)
  /\ ran' = [ran EXCEPT ![d] = "none"]
  /\ UNCHANGED <<config, mode, role, attempt, asked, teamVars>>

\* The retry sleep is over: the next attempt.
Retry(d) ==
  /\ stage[d] = "backoff"
  /\ Begin(d)
  /\ UNCHANGED <<teamTasks, report>>

\* The tool call of the Lead times out or its run is cancelled.
Cancel(d) ==
  /\ stage[d] \in {"admitted", "running", "backoff"}
  /\ Move(d, "cancelled")
  /\ ran' = [ran EXCEPT ![d] = "none"]
  /\ UNCHANGED <<config, mode, role, attempt, spoke, asked, teamVars, task, report>>

-----------------------------------------------------------------------------
CoordinatorStep(d) == StartTask(d) \/ ChildEnds(d) \/ Retry(d)

Next == \E d \in Delegations :
  Research(d) \/ Analysis(d) \/ Review(d) \/ CoordinatorStep(d) \/ ChildUse(d) \/ Cancel(d)

Spec == Init /\ [][Next]_vars

\* The event loop resumes a delegation; a child's turn ends (AgentLoop, ModelGateway).
Fairness == \A d \in Delegations : WF_vars(CoordinatorStep(d))
FairSpec == Spec /\ Fairness

-----------------------------------------------------------------------------
Started(d) == attempt[d] > 0

\* A delegation has a role unless it was rejected, and starts once it is admitted.
StartedInStep(d) ==
  /\ stage[d] \in {"new", "admitted"} => ~Started(d)
  /\ stage[d] \in {"running", "backoff"} => Started(d)
  /\ stage[d] \in {"admitted", "running", "backoff"} \/ Started(d) => role[d] \in Roles
  /\ stage[d] = "backoff" => AttemptsLeft(d)
  /\ spoke[d] <= attempt[d]

\* The budgets of a team hold with every interleaving of its delegations: each
\* started task is counted once, in its own team, and neither the tasks nor the
\* review rounds exceed their limits.
BudgetsHold ==
  /\ TypeOK
  /\ \A d \in Delegations : StartedInStep(d)
  /\ \A r \in Runs :
       /\ teamTasks[r] = Cardinality({d \in Delegations : Started(d) /\ Team(d) = r})
       /\ reviewRounds[r] <= MaxReviewRounds

\* The protocol's status of a delegation at each stage, and what the Lead is told.
TaskInStep(d) ==
  /\ stage[d] \in {"new", "admitted", "backoff"} => task[d].status = "pending"
  /\ stage[d] = "running" => task[d].status = "running"
  /\ stage[d] = "cancelled" => task[d].status \in {"pending", "running"}
  /\ report[d] # "none" <=> stage[d] = "answered"
  /\ report[d] = "ok" => \/ task[d].status = "succeeded"
                         \/ task[d].status = "pending" /\ role[d] = "reviewer"
  /\ report[d] = "error" /\ Started(d) => task[d].status = "failed"
  /\ report[d] \in {"error", "rejected"} /\ ~Started(d) => task[d].status = "pending"
  /\ report[d] = "rejected" => ~Started(d)

\* The protocol state agrees with what the Lead is told: a delegation it calls
\* running is at work or was cancelled, a reported success succeeded (or was sent
\* back by its reviewer), a reported failure failed; and of the coordinator's own
\* messages it refuses at most the revision of a review that itself failed.
ReportMatchesProtocol ==
  \A d \in Delegations :
    /\ TaskInStep(d)
    /\ task[d].refused # {} => /\ task[d].refused = {"REVISION_REQUEST"}
                               /\ role[d] = "reviewer" /\ report[d] = "error"

\* A subagent runs only tools of its role, none the search mode of its run
\* forbids where RAG is on, and none the Lead would not be allowed itself.
SubagentsKeepRoleAndMode ==
  \A d \in Delegations : ran[d] # "none" =>
    /\ ran[d] \in RoleTools(role[d])
    /\ config.rag => ~Opposed(mode[runOf[d]], ran[d])
    /\ Evaluate(LeadRules(config), ran[d], ChildUses, mode[runOf[d]], config) = "allow"

\* A delegation that was admitted is answered, or its call is cancelled: retries end.
DelegationsReturn ==
  \A d \in Delegations :
    stage[d] = "admitted" ~> stage[d] \in {"answered", "cancelled"}

\* One run of the Lead starts no more subagent tasks than the budget allows.  Not so:
\* each research delegation is a team of its own.
RunBudgetHolds ==
  \A r \in Runs : Cardinality({d \in Delegations : Started(d) /\ runOf[d] = r}) <= MaxTasks
=============================================================================
