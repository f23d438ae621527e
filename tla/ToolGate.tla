------------------------------ MODULE ToolGate ------------------------------
(***************************************************************************)
(* What decides whether a proposed tool use runs: the permission rules of  *)
(* the profile in their order (src/business/knowledge_assistant), the      *)
(* PermissionPipeline (src/harness/permissions.py), and the PreToolUse     *)
(* hooks (src/harness/hooks.py).  The Lead has every rule, a subagent the  *)
(* few that bootstrap.create_researcher_loop selects.                      *)
(*                                                                         *)
(* A use stands for a tool and the class of input its rule tells apart.    *)
(* A configuration says whether RAG is on and how the web search tool of   *)
(* an MCP server is annotated ("absent" when there is none).               *)
(***************************************************************************)
EXTENDS Naturals, Sequences, FiniteSets, SequencesExt, FiniteSetsExt

Annotations == {"absent", "read_only", "destructive", "unmarked"}
SearchModes == {"auto", "catalog", "rag", "web", "hybrid"}

\* The rules that look at nothing but the use.
Answers == [
  allow_calculator       |-> [calculator |-> "allow"],
  authorized_file_read   |-> [read_knowledge |-> "allow", read_workspace |-> "ask",
                              read_outside |-> "deny", read_malformed |-> "raises"],
  report_write           |-> [report_new |-> "allow", report_overwrite |-> "ask",
                              report_invalid |-> "deny"],
  deny_external_publish  |-> [external_publish |-> "deny"],
  allow_todo_write       |-> [todo_write |-> "allow"],
  allow_load_skill       |-> [load_skill |-> "allow"],
  allow_task_system      |-> [task_tool |-> "allow"],
  confirm_memory_write   |-> [memory_write |-> "ask"],
  allow_memory_search    |-> [memory_search |-> "allow"],
  allow_document_search  |-> [document_search |-> "allow"],
  allow_document_catalog |-> [document_catalog |-> "allow"],
  allow_delegate_research |-> [delegate_research |-> "allow"],
  allow_delegate_analysis |-> [delegate_analysis |-> "allow"],
  allow_request_review   |-> [request_review |-> "allow"]]

\* SearchModePermissionRule: the sources a forced mode excludes.
Opposed(mode, use) ==
  \/ mode = "rag" /\ use = "web_search"
  \/ mode = "web" /\ use \in {"document_search", "document_catalog"}

\* MCPPermissionRule by the annotation of the tool.
McpAnswer(annotation) == IF annotation = "read_only" THEN "allow" ELSE "ask"

\* What one rule says of a use: "allow", "ask", "deny", "passthrough", or it raises.
RuleAnswer(rule, use, mode, config) ==
  CASE rule = "search_mode_policy" -> IF Opposed(mode, use) THEN "deny" ELSE "passthrough"
    [] rule = "mcp_tool_annotations" ->
         IF use = "web_search" THEN McpAnswer(config.web) ELSE "passthrough"
    [] OTHER -> IF use \in DOMAIN Answers[rule] THEN Answers[rule][use] ELSE "passthrough"

When(condition, rules) == IF condition THEN rules ELSE {}

\* The order of the rules in every pipeline: create_knowledge_assistant_profile,
\* then the MCP rule and the rules of the delegation tools, which bootstrap appends.
RuleOrder ==
  <<"allow_calculator", "authorized_file_read", "report_write", "deny_external_publish",
    "search_mode_policy", "allow_todo_write", "allow_load_skill", "allow_task_system",
    "confirm_memory_write", "allow_memory_search", "allow_document_search",
    "allow_document_catalog", "mcp_tool_annotations",
    "allow_delegate_research", "allow_delegate_analysis", "allow_request_review">>

DelegationRules == {"allow_delegate_research", "allow_delegate_analysis", "allow_request_review"}
RagRules == {"search_mode_policy", "allow_document_search", "allow_document_catalog"}

\* create_knowledge_assistant_profile, and the MCP rule where there is a tool.
ProfileRules(config) ==
  {"allow_calculator", "authorized_file_read", "report_write", "deny_external_publish",
   "allow_todo_write", "allow_load_skill", "allow_task_system",
   "confirm_memory_write", "allow_memory_search"}
  \cup When(config.rag, RagRules)
  \cup When(config.web # "absent", {"mcp_tool_annotations"})

\* bootstrap_agent adds the rules of the three delegation tools.
LeadRules(config) == ProfileRules(config) \cup DelegationRules

SubagentRuleNames == {"allow_document_catalog", "allow_document_search", "allow_calculator",
                      "search_mode_policy", "mcp_tool_annotations"}

\* create_researcher_loop.selected_rules.
SubagentRules(config) == ProfileRules(config) \cap SubagentRuleNames

\* The places of the rules that answer a use.
Conclusive(rules, use, mode, config) ==
  {i \in DOMAIN RuleOrder : /\ RuleOrder[i] \in rules
                            /\ RuleAnswer(RuleOrder[i], use, mode, config) # "passthrough"}

\* PermissionPipeline.evaluate: the first conclusive rule decides, a rule that
\* raises denies, and a use no rule knows is denied unless there are no rules.
Evaluate(rules, use, known, mode, config) ==
  LET places == Conclusive(rules, use, mode, config)
      first  == RuleAnswer(RuleOrder[Min(places)], use, mode, config)
  IN IF places # {}
     THEN (IF first = "raises" THEN "deny" ELSE first)
     ELSE IF use \in known /\ rules = {} THEN "allow" ELSE "deny"

\* HookRegistry.dispatch: hooks in order; the first that blocks ends it, one that
\* raises is skipped or, in failure mode RAISE, ends it.
Dispatch(answers, failureMode) ==
  LET ends == {i \in DOMAIN answers : \/ answers[i] = "block"
                                      \/ answers[i] = "raises" /\ failureMode = "raise"}
  IN IF ends = {} THEN "continue" ELSE answers[Min(ends)]

\* The PreToolUse hooks of the profile: PermissionCheckHook blocks what is not
\* granted, ToolCallLoggingHook never blocks; each may fail.
PreToolUse(granted, failing) ==
  LET answer == [permission_check |-> IF granted THEN "none" ELSE "block",
                 tool_call_logging |-> "none"]
      hooks  == <<"permission_check", "tool_call_logging">>
  IN Dispatch([i \in DOMAIN hooks |-> IF hooks[i] \in failing THEN "raises" ELSE answer[hooks[i]]],
              "continue")

\* create_permission_update: granted and not blocked.
Passes(granted, failing) == granted /\ PreToolUse(granted, failing) = "continue"
=============================================================================
