---------------------------- MODULE TeamProtocol ----------------------------
(***************************************************************************)
(* TeamProtocolState and validate_team_message                             *)
(* (src/harness/capabilities/agent_teams/team_protocols.py): who may send  *)
(* which message to whom, and what it does to the status of its task.      *)
(* Every message gets a fresh id, so the test for duplicates never hits.   *)
(***************************************************************************)
EXTENDS Naturals, Sequences

\* The kinds of TeamMessageKind that anyone sends.
MessageKinds == {"TASK_REQUEST", "TASK_ACCEPTED", "TASK_RESULT", "TASK_FAILED", "RETRY",
                 "REVIEW_REQUEST", "REVIEW_RESULT", "REVISION_REQUEST", "RESULT_ACK"}

Teammate(party) == party \notin {"lead", "runtime", "user"}

\* sender_rules
MaySend(m) ==
  CASE m.kind \in {"TASK_REQUEST", "REVIEW_REQUEST", "RESULT_ACK"} -> m.sender = "lead"
    [] m.kind = "TASK_ACCEPTED" -> m.sender \in {"runtime", "lead"}
    [] m.kind = "TASK_RESULT"   -> Teammate(m.sender)
    [] m.kind = "TASK_FAILED"   -> Teammate(m.sender) \/ m.sender = "runtime"
    [] m.kind = "RETRY"         -> m.sender = "runtime"
    [] m.kind \in {"REVIEW_RESULT", "REVISION_REQUEST"} -> m.sender = "reviewer"

\* recipient_rules, and TASK_REQUEST must target a teammate
MayReceive(m) ==
  CASE m.kind \in {"TASK_RESULT", "TASK_FAILED", "REVIEW_RESULT", "REVISION_REQUEST"} ->
         m.recipient = "lead"
    [] m.kind \in {"RESULT_ACK", "TASK_REQUEST"} -> Teammate(m.recipient)
    [] OTHER -> TRUE

WellFormed(m) == m.sender # m.recipient /\ MaySend(m) /\ MayReceive(m)

\* transitions: the statuses a message may meet
Meets == [TASK_REQUEST     |-> {"pending", "failed", "rejected"},
          TASK_ACCEPTED    |-> {"pending"},
          TASK_RESULT      |-> {"running", "pending"},
          TASK_FAILED      |-> {"running", "pending"},
          RETRY            |-> {"failed", "timeout"},
          REVISION_REQUEST |-> {"succeeded"}]

\* status_by_kind: the status it leaves
Leaves == [TASK_ACCEPTED    |-> "running",
           TASK_RESULT      |-> "succeeded",
           TASK_FAILED      |-> "failed",
           RETRY            |-> "pending",
           REVISION_REQUEST |-> "pending"]

Acceptable(status, m) ==
  WellFormed(m) /\ (m.kind \in DOMAIN Meets => status \in Meets[m.kind])

\* accept, with the kinds of the messages it has raised on.
Accept(task, m) ==
  IF ~Acceptable(task.status, m)
  THEN [task EXCEPT !.refused = @ \cup {m.kind}]
  ELSE IF m.kind \in DOMAIN Leaves THEN [task EXCEPT !.status = Leaves[m.kind]] ELSE task

\* Messages of one task accepted one after the other.
AcceptAll(task, msgs) ==
  LET after[i \in 0..Len(msgs)] == IF i = 0 THEN task ELSE Accept(after[i - 1], msgs[i])
  IN after[Len(msgs)]
=============================================================================
