-------------------------- MODULE AgentTeam_proofs --------------------------
(***************************************************************************)
(* Proofs about AgentTeam, for any delegations, runs, budgets and modes.   *)
(***************************************************************************)
EXTENDS AgentTeam, FiniteSetTheorems, TLAPS

-----------------------------------------------------------------------------
(* The messages of a delegation *)

\* AcceptAll takes the messages one after the other: what it makes of at most four.
LEMMA AcceptFour ==
  ASSUME NEW t, NEW msgs, Len(msgs) \in 1..4
  PROVE  LET a1 == Accept(t, msgs[1])
             a2 == Accept(a1, msgs[2])
             a3 == Accept(a2, msgs[3])
             a4 == Accept(a3, msgs[4])
         IN AcceptAll(t, msgs) = IF Len(msgs) = 1 THEN a1 ELSE IF Len(msgs) = 2 THEN a2
                                 ELSE IF Len(msgs) = 3 THEN a3 ELSE a4
<1> DEFINE a1 == Accept(t, msgs[1])
           a2 == Accept(a1, msgs[2])
           a3 == Accept(a2, msgs[3])
           a4 == Accept(a3, msgs[4])
<1> DEFINE n == Len(msgs)
           Folds(f) == f = [i \in 0..n |-> IF i = 0 THEN t ELSE Accept(f[i - 1], msgs[i])]
           g == [i \in 0..n |-> IF i = 0 THEN t ELSE IF i = 1 THEN a1 ELSE IF i = 2 THEN a2
                                ELSE IF i = 3 THEN a3 ELSE a4]
           after == CHOOSE f : Folds(f)
<1>1. AcceptAll(t, msgs) = after[n]
  BY DEF AcceptAll
<1>2. Folds(g)
  <2>1. ASSUME NEW i \in 0..n
        PROVE  g[i] = IF i = 0 THEN t ELSE Accept(g[i - 1], msgs[i])
    <3>1. CASE i = 0
      BY <3>1
    <3>2. CASE i = 1
      BY <3>2
    <3>3. CASE i = 2
      BY <3>3
    <3>4. CASE i = 3
      BY <3>4
    <3>5. CASE i = 4
      BY <3>5
    <3> QED BY <3>1, <3>2, <3>3, <3>4, <3>5
  <2> QED BY <2>1
<1>3. Folds(after)
  <2> HIDE DEF Folds, g
  <2> QED BY <1>2
<1>4. \A i \in 0..n : after[i] = IF i = 0 THEN t ELSE Accept(after[i - 1], msgs[i])
  <2> HIDE DEF after
  <2> QED BY <1>3
<1> HIDE DEF after
<1>5. n \in Nat /\ after[0] = t
  BY <1>4
<1>6. after[1] = a1
  BY <1>4, <1>5
<1>7. n >= 2 => after[2] = a2
  BY <1>4, <1>6
<1>8. n >= 3 => after[3] = a3
  BY <1>4, <1>7
<1>9. n = 4 => after[4] = a4
  BY <1>4, <1>8
<1>10. \/ n = 1 /\ AcceptAll(t, msgs) = a1
       \/ n = 2 /\ AcceptAll(t, msgs) = a2
       \/ n = 3 /\ AcceptAll(t, msgs) = a3
       \/ n = 4 /\ AcceptAll(t, msgs) = a4
  <2>1. n \in {1, 2, 3, 4}
    OBVIOUS
  <2> HIDE DEF n, g, Folds
  <2> QED BY <1>1, <1>6, <1>7, <1>8, <1>9, <2>1
<1> QED BY <1>10

\* The coordinator's envelopes are well formed; only a reviewer sends reviews.
LEMMA EnvelopesAreWellFormed ==
  ASSUME NEW r \in Roles, NEW kind \in MessageKinds,
         kind \in {"REVIEW_RESULT", "REVISION_REQUEST"} => r = "reviewer"
  PROVE  WellFormed(Envelope(r, kind)) /\ Envelope(r, kind).kind = kind
BY DEF WellFormed, MaySend, MayReceive, Teammate, Envelope, MessageKinds, Roles, Researchers

Tasks == [status : {"pending", "running", "succeeded", "failed"}, refused : SUBSET MessageKinds]

\* The status a well-formed message leaves, and whether it is refused.
StatusAfter(status, kind) ==
  IF kind = "TASK_ACCEPTED" /\ status = "pending" THEN "running"
  ELSE IF kind = "TASK_RESULT" /\ status \in {"pending", "running"} THEN "succeeded"
  ELSE IF kind = "TASK_FAILED" /\ status \in {"pending", "running"} THEN "failed"
  ELSE IF kind = "RETRY" /\ status = "failed" THEN "pending"
  ELSE IF kind = "REVISION_REQUEST" /\ status = "succeeded" THEN "pending"
  ELSE status

Refused(status, kind) ==
  \/ kind = "TASK_REQUEST" /\ status \notin {"pending", "failed"}
  \/ kind = "TASK_ACCEPTED" /\ status # "pending"
  \/ kind \in {"TASK_RESULT", "TASK_FAILED"} /\ status \notin {"pending", "running"}
  \/ kind = "RETRY" /\ status # "failed"
  \/ kind = "REVISION_REQUEST" /\ status # "succeeded"

Follows(old, new, kind) ==
  /\ new.status = StatusAfter(old.status, kind)
  /\ new.refused = IF Refused(old.status, kind) THEN old.refused \cup {kind} ELSE old.refused

\* What accepting a well-formed message does to a task.
LEMMA AcceptEffect ==
  ASSUME NEW t \in Tasks, NEW m, WellFormed(m), m.kind \in MessageKinds
  PROVE  Accept(t, m) \in Tasks /\ Follows(t, Accept(t, m), m.kind)
<1> USE DEF Tasks, Follows, StatusAfter, Refused
<1>1. /\ m.kind \in DOMAIN Meets <=> m.kind \in {"TASK_REQUEST", "TASK_ACCEPTED", "TASK_RESULT",
                                                 "TASK_FAILED", "RETRY", "REVISION_REQUEST"}
      /\ m.kind \in DOMAIN Leaves <=> m.kind \in {"TASK_ACCEPTED", "TASK_RESULT", "TASK_FAILED",
                                                  "RETRY", "REVISION_REQUEST"}
  BY DEF Meets, Leaves
<1>2. CASE m.kind = "TASK_REQUEST"
  BY <1>1, <1>2 DEF Accept, Acceptable, Meets, MessageKinds
<1>3. CASE m.kind = "TASK_ACCEPTED"
  BY <1>1, <1>3 DEF Accept, Acceptable, Meets, Leaves, MessageKinds
<1>4. CASE m.kind = "TASK_RESULT"
  BY <1>1, <1>4 DEF Accept, Acceptable, Meets, Leaves, MessageKinds
<1>5. CASE m.kind = "TASK_FAILED"
  BY <1>1, <1>5 DEF Accept, Acceptable, Meets, Leaves, MessageKinds
<1>6. CASE m.kind = "RETRY"
  BY <1>1, <1>6 DEF Accept, Acceptable, Meets, Leaves, MessageKinds
<1>7. CASE m.kind = "REVISION_REQUEST"
  BY <1>1, <1>7 DEF Accept, Acceptable, Meets, Leaves, MessageKinds
<1>8. CASE m.kind \in {"REVIEW_REQUEST", "REVIEW_RESULT", "RESULT_ACK"}
  BY <1>1, <1>8 DEF Accept, Acceptable, MessageKinds
<1> QED BY <1>2, <1>3, <1>4, <1>5, <1>6, <1>7, <1>8 DEF MessageKinds

\* A delegation whose task follows the messages one after the other.
Chain(d, kinds, a1, a2, a3, a4) ==
  /\ Follows(task[d], a1, kinds[1])
  /\ Len(kinds) >= 2 => Follows(a1, a2, kinds[2])
  /\ Len(kinds) >= 3 => Follows(a2, a3, kinds[3])
  /\ Len(kinds) = 4 => Follows(a3, a4, kinds[4])
  /\ task' = [task EXCEPT ![d] = IF Len(kinds) = 1 THEN a1 ELSE IF Len(kinds) = 2 THEN a2
                                 ELSE IF Len(kinds) = 3 THEN a3 ELSE a4]

Effect(d, kinds) == \E a1, a2, a3, a4 \in Tasks : Chain(d, kinds, a1, a2, a3, a4)

\* What sending at most four messages does to a task.
LEMMA EmitEffect ==
  ASSUME TypeOK, NEW d \in Delegations, NEW r \in Roles, NEW kinds \in Seq(MessageKinds),
         Len(kinds) \in 1..4, Emit(d, r, kinds),
         \A i \in 1..Len(kinds) : kinds[i] \in {"REVIEW_RESULT", "REVISION_REQUEST"} => r = "reviewer"
  PROVE  Effect(d, kinds)
<1> DEFINE n == Len(kinds)
           msgs == [i \in DOMAIN kinds |-> Envelope(r, kinds[i])]
<1>1. /\ DOMAIN kinds = 1..n /\ n \in 1..4 /\ Len(msgs) = n
      /\ \A i \in 1..n : msgs[i] = Envelope(r, kinds[i]) /\ kinds[i] \in MessageKinds
  OBVIOUS
<1>2. task' = [task EXCEPT ![d] = AcceptAll(task[d], msgs)] /\ task[d] \in Tasks
  BY DEF Emit, TypeOK, Tasks
<1> HIDE DEF msgs
<1>3. \A i \in 1..n, t \in Tasks :
        Accept(t, msgs[i]) \in Tasks /\ Follows(t, Accept(t, msgs[i]), kinds[i])
  BY <1>1, EnvelopesAreWellFormed, AcceptEffect
<1> DEFINE a1 == Accept(task[d], msgs[1])
           a2 == Accept(a1, msgs[2])
           a3 == Accept(a2, msgs[3])
           a4 == Accept(a3, msgs[4])
<1>8. AcceptAll(task[d], msgs) = IF n = 1 THEN a1 ELSE IF n = 2 THEN a2 ELSE IF n = 3 THEN a3 ELSE a4
  <2>1. Len(msgs) \in 1..4
    BY <1>1
  <2>2. AcceptAll(task[d], msgs) = IF Len(msgs) = 1 THEN a1 ELSE IF Len(msgs) = 2 THEN a2
                                   ELSE IF Len(msgs) = 3 THEN a3 ELSE a4
    BY <2>1, AcceptFour
  <2> QED BY <1>1, <2>2
<1>9. a1 \in Tasks /\ Follows(task[d], a1, kinds[1])
  BY <1>1, <1>2, <1>3
<1>10. n >= 2 => a2 \in Tasks /\ Follows(a1, a2, kinds[2])
  BY <1>1, <1>3, <1>9
<1>11. n >= 3 => a3 \in Tasks /\ Follows(a2, a3, kinds[3])
  BY <1>1, <1>3, <1>10
<1>12. n = 4 => a4 \in Tasks /\ Follows(a3, a4, kinds[4])
  BY <1>1, <1>3, <1>11
<1> DEFINE b2 == IF n >= 2 THEN a2 ELSE a1
           b3 == IF n >= 3 THEN a3 ELSE a1
           b4 == IF n = 4 THEN a4 ELSE a1
           Ends(x2, x3, x4) == IF n = 1 THEN a1 ELSE IF n = 2 THEN x2 ELSE IF n = 3 THEN x3 ELSE x4
<1>13. b2 \in Tasks /\ b3 \in Tasks /\ b4 \in Tasks
  BY <1>9, <1>10, <1>11, <1>12
<1>14. /\ n >= 2 => Follows(a1, b2, kinds[2])
       /\ n >= 3 => Follows(b2, b3, kinds[3])
       /\ n = 4 => Follows(b3, b4, kinds[4])
       /\ Ends(a2, a3, a4) = Ends(b2, b3, b4)
  <2>1. n \in {1, 2, 3, 4}
    BY <1>1
  <2> HIDE DEF n
  <2> QED BY <1>10, <1>11, <1>12, <2>1
<1>15. task' = [task EXCEPT ![d] = Ends(b2, b3, b4)]
  <2>1. task' = [task EXCEPT ![d] = Ends(a2, a3, a4)]
    BY <1>2, <1>8
  <2> HIDE DEF Ends, b2, b3, b4
  <2> QED BY <1>14, <2>1
<1> HIDE DEF b2, b3, b4
<1> QED BY <1>9, <1>13, <1>14, <1>15 DEF Effect, Chain

\* The task of a delegation becomes t.
Becomes(d, t) == t \in Tasks /\ task' = [task EXCEPT ![d] = t]

\* TASK_REQUEST and TASK_ACCEPTED put a pending task to work.
LEMMA OpeningMessages ==
  ASSUME TypeOK, NEW d \in Delegations, NEW r \in Roles, task[d].status = "pending",
         Emit(d, r, <<"TASK_REQUEST", "TASK_ACCEPTED">>)
  PROVE  \E t : Becomes(d, t) /\ t.status = "running" /\ t.refused = task[d].refused
<1> DEFINE kinds == <<"TASK_REQUEST", "TASK_ACCEPTED">>
<1>1. /\ kinds \in Seq(MessageKinds) /\ Emit(d, r, kinds) /\ Len(kinds) = 2
      /\ kinds[1] = "TASK_REQUEST" /\ kinds[2] = "TASK_ACCEPTED"
      /\ \A i \in 1..Len(kinds) : kinds[i] \notin {"REVIEW_RESULT", "REVISION_REQUEST"}
  BY DEF MessageKinds
<1> HIDE DEF kinds
<1>2. Effect(d, kinds)
  BY <1>1, EmitEffect
<1>3. PICK a1, a2, a3, a4 \in Tasks : Chain(d, kinds, a1, a2, a3, a4)
  BY <1>2 DEF Effect
<1>4. /\ Follows(task[d], a1, kinds[1]) /\ Follows(a1, a2, kinds[2])
      /\ task' = [task EXCEPT ![d] = a2]
  BY <1>1, <1>3 DEF Chain
<1>5. a2.status = "running" /\ a2.refused = task[d].refused
  BY <1>1, <1>4 DEF Follows, StatusAfter, Refused
<1> QED BY <1>4, <1>5 DEF Becomes

\* A review request says nothing of the status.
LEMMA RequestingMessage ==
  ASSUME TypeOK, NEW d \in Delegations, Emit(d, "reviewer", <<"REVIEW_REQUEST">>)
  PROVE  \E t : Becomes(d, t) /\ t.status = task[d].status /\ t.refused = task[d].refused
<1> DEFINE kinds == <<"REVIEW_REQUEST">>
<1>1. /\ kinds \in Seq(MessageKinds) /\ Emit(d, "reviewer", kinds)
      /\ Len(kinds) = 1 /\ kinds[1] = "REVIEW_REQUEST"
      /\ \A i \in 1..Len(kinds) : kinds[i] \notin {"REVIEW_RESULT", "REVISION_REQUEST"}
      /\ "reviewer" \in Roles
  BY DEF MessageKinds, Roles
<1> HIDE DEF kinds
<1>2. Effect(d, kinds)
  BY <1>1, EmitEffect
<1>3. PICK a1, a2, a3, a4 \in Tasks : Chain(d, kinds, a1, a2, a3, a4)
  BY <1>2 DEF Effect
<1>4. Follows(task[d], a1, kinds[1]) /\ task' = [task EXCEPT ![d] = a1]
  BY <1>1, <1>3 DEF Chain
<1> QED BY <1>1, <1>4 DEF Becomes, Follows, StatusAfter, Refused

\* A failure that is retried leaves the task pending again.
LEMMA RetryingMessages ==
  ASSUME TypeOK, NEW d \in Delegations, NEW r \in Roles, task[d].status = "running",
         Emit(d, r, RetryMessages)
  PROVE  \E t : Becomes(d, t) /\ t.status = "pending" /\ t.refused = task[d].refused
<1> DEFINE kinds == <<"TASK_FAILED", "RETRY">>
<1>1. /\ kinds \in Seq(MessageKinds) /\ Emit(d, r, kinds) /\ Len(kinds) = 2
      /\ kinds[1] = "TASK_FAILED" /\ kinds[2] = "RETRY"
      /\ \A i \in 1..Len(kinds) : kinds[i] \notin {"REVIEW_RESULT", "REVISION_REQUEST"}
  BY DEF MessageKinds, RetryMessages
<1> HIDE DEF kinds
<1>2. Effect(d, kinds)
  BY <1>1, EmitEffect
<1>3. PICK a1, a2, a3, a4 \in Tasks : Chain(d, kinds, a1, a2, a3, a4)
  BY <1>2 DEF Effect
<1>4. /\ Follows(task[d], a1, kinds[1]) /\ Follows(a1, a2, kinds[2])
      /\ task' = [task EXCEPT ![d] = a2]
  BY <1>1, <1>3 DEF Chain
<1>5. a2.status = "pending" /\ a2.refused = task[d].refused
  BY <1>1, <1>4 DEF Follows, StatusAfter, Refused
<1> QED BY <1>4, <1>5 DEF Becomes

\* The review a summary may carry.
LEMMA Reviews ==
  ASSUME NEW d, NEW review \in ReviewMessages(d)
  PROVE  \/ review = <<>>
         \/ role[d] = "reviewer" /\ review = <<"REVIEW_RESULT">>
         \/ role[d] = "reviewer" /\ review = <<"REVIEW_RESULT", "REVISION_REQUEST">>
BY DEF ReviewMessages

\* A success ends the task, or a review sends it back at once.
LEMMA SuccessMessages ==
  ASSUME TypeOK, NEW d \in Delegations, role[d] \in Roles, task[d].status = "running",
         NEW review \in ReviewMessages(d),
         Emit(d, role[d], <<"TASK_RESULT", "RESULT_ACK">> \o review)
  PROVE  \E t : /\ Becomes(d, t) /\ t.refused = task[d].refused
                /\ \/ t.status = "succeeded"
                   \/ t.status = "pending" /\ role[d] = "reviewer"
<1> DEFINE kinds == <<"TASK_RESULT", "RESULT_ACK">> \o review
<1>1. CASE review = <<>>
  <2>1. /\ kinds \in Seq(MessageKinds) /\ Emit(d, role[d], kinds) /\ Len(kinds) = 2
        /\ kinds[1] = "TASK_RESULT" /\ kinds[2] = "RESULT_ACK"
        /\ \A i \in 1..Len(kinds) : kinds[i] \notin {"REVIEW_RESULT", "REVISION_REQUEST"}
    BY <1>1 DEF MessageKinds
  <2> HIDE DEF kinds
  <2>2. Effect(d, kinds)
    BY <2>1, EmitEffect
  <2>3. PICK a1, a2, a3, a4 \in Tasks : Chain(d, kinds, a1, a2, a3, a4)
    BY <2>2 DEF Effect
  <2>4. /\ Follows(task[d], a1, kinds[1]) /\ Follows(a1, a2, kinds[2])
        /\ task' = [task EXCEPT ![d] = a2]
    BY <2>1, <2>3 DEF Chain
  <2>5. a2.status = "succeeded" /\ a2.refused = task[d].refused
    BY <2>1, <2>4 DEF Follows, StatusAfter, Refused
  <2> QED BY <2>4, <2>5 DEF Becomes
<1>2. CASE role[d] = "reviewer" /\ review = <<"REVIEW_RESULT">>
  <2>1. /\ kinds \in Seq(MessageKinds) /\ Emit(d, role[d], kinds) /\ Len(kinds) = 3
        /\ kinds[1] = "TASK_RESULT" /\ kinds[2] = "RESULT_ACK" /\ kinds[3] = "REVIEW_RESULT"
    BY <1>2 DEF MessageKinds
  <2> HIDE DEF kinds
  <2>2. Effect(d, kinds)
    BY <1>2, <2>1, EmitEffect
  <2>3. PICK a1, a2, a3, a4 \in Tasks : Chain(d, kinds, a1, a2, a3, a4)
    BY <2>2 DEF Effect
  <2>4. /\ Follows(task[d], a1, kinds[1]) /\ Follows(a1, a2, kinds[2])
        /\ Follows(a2, a3, kinds[3]) /\ task' = [task EXCEPT ![d] = a3]
    BY <2>1, <2>3 DEF Chain
  <2>5. a3.status = "succeeded" /\ a3.refused = task[d].refused
    BY <2>1, <2>4 DEF Follows, StatusAfter, Refused
  <2> QED BY <2>4, <2>5 DEF Becomes
<1>3. CASE role[d] = "reviewer" /\ review = <<"REVIEW_RESULT", "REVISION_REQUEST">>
  <2>1. /\ kinds \in Seq(MessageKinds) /\ Emit(d, role[d], kinds) /\ Len(kinds) = 4
        /\ kinds[1] = "TASK_RESULT" /\ kinds[2] = "RESULT_ACK"
        /\ kinds[3] = "REVIEW_RESULT" /\ kinds[4] = "REVISION_REQUEST"
    BY <1>3 DEF MessageKinds
  <2> HIDE DEF kinds
  <2>2. Effect(d, kinds)
    BY <1>3, <2>1, EmitEffect
  <2>3. PICK a1, a2, a3, a4 \in Tasks : Chain(d, kinds, a1, a2, a3, a4)
    BY <2>2 DEF Effect
  <2>4. /\ Follows(task[d], a1, kinds[1]) /\ Follows(a1, a2, kinds[2])
        /\ Follows(a2, a3, kinds[3]) /\ Follows(a3, a4, kinds[4])
        /\ task' = [task EXCEPT ![d] = a4]
    BY <2>1, <2>3 DEF Chain
  <2>5. a4.status = "pending" /\ a4.refused = task[d].refused
    BY <2>1, <2>4 DEF Follows, StatusAfter, Refused
  <2> QED BY <1>3, <2>4, <2>5 DEF Becomes
<1> QED BY <1>1, <1>2, <1>3, Reviews

\* A last failure ends the task; the revision a failed review asks for is refused.
LEMMA FailureMessages ==
  ASSUME TypeOK, NEW d \in Delegations, role[d] \in Roles, task[d].status = "running",
         NEW review \in ReviewMessages(d) \cup {<<>>},
         Emit(d, role[d], <<"TASK_FAILED">> \o review)
  PROVE  \E t : /\ Becomes(d, t) /\ t.status = "failed"
                /\ \/ t.refused = task[d].refused
                   \/ role[d] = "reviewer" /\ t.refused = task[d].refused \cup {"REVISION_REQUEST"}
<1> DEFINE kinds == <<"TASK_FAILED">> \o review
<1>1. CASE review = <<>>
  <2>1. /\ kinds \in Seq(MessageKinds) /\ Emit(d, role[d], kinds) /\ Len(kinds) = 1 /\ kinds[1] = "TASK_FAILED"
        /\ \A i \in 1..Len(kinds) : kinds[i] \notin {"REVIEW_RESULT", "REVISION_REQUEST"}
    BY <1>1 DEF MessageKinds
  <2> HIDE DEF kinds
  <2>2. Effect(d, kinds)
    BY <2>1, EmitEffect
  <2>3. PICK a1, a2, a3, a4 \in Tasks : Chain(d, kinds, a1, a2, a3, a4)
    BY <2>2 DEF Effect
  <2>4. Follows(task[d], a1, kinds[1]) /\ task' = [task EXCEPT ![d] = a1]
    BY <2>1, <2>3 DEF Chain
  <2>5. a1.status = "failed" /\ a1.refused = task[d].refused
    BY <2>1, <2>4 DEF Follows, StatusAfter, Refused
  <2> QED BY <2>4, <2>5 DEF Becomes
<1>2. CASE role[d] = "reviewer" /\ review = <<"REVIEW_RESULT">>
  <2>1. /\ kinds \in Seq(MessageKinds) /\ Emit(d, role[d], kinds) /\ Len(kinds) = 2
        /\ kinds[1] = "TASK_FAILED" /\ kinds[2] = "REVIEW_RESULT"
    BY <1>2 DEF MessageKinds
  <2> HIDE DEF kinds
  <2>2. Effect(d, kinds)
    BY <1>2, <2>1, EmitEffect
  <2>3. PICK a1, a2, a3, a4 \in Tasks : Chain(d, kinds, a1, a2, a3, a4)
    BY <2>2 DEF Effect
  <2>4. /\ Follows(task[d], a1, kinds[1]) /\ Follows(a1, a2, kinds[2])
        /\ task' = [task EXCEPT ![d] = a2]
    BY <2>1, <2>3 DEF Chain
  <2>5. a2.status = "failed" /\ a2.refused = task[d].refused
    BY <2>1, <2>4 DEF Follows, StatusAfter, Refused
  <2> QED BY <2>4, <2>5 DEF Becomes
<1>3. CASE role[d] = "reviewer" /\ review = <<"REVIEW_RESULT", "REVISION_REQUEST">>
  <2>1. /\ kinds \in Seq(MessageKinds) /\ Emit(d, role[d], kinds) /\ Len(kinds) = 3
        /\ kinds[1] = "TASK_FAILED" /\ kinds[2] = "REVIEW_RESULT" /\ kinds[3] = "REVISION_REQUEST"
    BY <1>3 DEF MessageKinds
  <2> HIDE DEF kinds
  <2>2. Effect(d, kinds)
    BY <1>3, <2>1, EmitEffect
  <2>3. PICK a1, a2, a3, a4 \in Tasks : Chain(d, kinds, a1, a2, a3, a4)
    BY <2>2 DEF Effect
  <2>4. /\ Follows(task[d], a1, kinds[1]) /\ Follows(a1, a2, kinds[2])
        /\ Follows(a2, a3, kinds[3]) /\ task' = [task EXCEPT ![d] = a3]
    BY <2>1, <2>3 DEF Chain
  <2>5. a3.status = "failed" /\ a3.refused = task[d].refused \cup {"REVISION_REQUEST"}
    BY <2>1, <2>4 DEF Follows, StatusAfter, Refused
  <2> QED BY <1>3, <2>4, <2>5 DEF Becomes
<1> QED BY <1>1, <1>2, <1>3, Reviews

-----------------------------------------------------------------------------
(* The rules of a subagent *)

RoleUses == {"document_catalog", "document_search", "web_search", "calculator"}

\* The tools of every role are among four.
LEMMA ToolsOfRoles ==
  ASSUME NEW r \in Roles
  PROVE  RoleTools(r) \subseteq RoleUses
BY DEF RoleTools, RoleUses, Roles, Researchers

\* The rules a subagent is not given say nothing of those tools.
LEMMA OtherRulesPass ==
  ASSUME NEW use \in RoleUses, NEW m, NEW c, NEW i \in DOMAIN RuleOrder,
         RuleOrder[i] \notin SubagentRuleNames
  PROVE  RuleAnswer(RuleOrder[i], use, m, c) = "passthrough"
<1>1. RuleOrder[i] \in {"authorized_file_read", "report_write", "deny_external_publish",
        "allow_todo_write", "allow_load_skill", "allow_task_system", "confirm_memory_write",
        "allow_memory_search", "allow_delegate_research", "allow_delegate_analysis",
        "allow_request_review"}
  BY DEF RuleOrder, SubagentRuleNames
<1>2. use \notin DOMAIN Answers[RuleOrder[i]]
  BY <1>1 DEF Answers, RoleUses
<1>3. RuleOrder[i] # "search_mode_policy" /\ RuleOrder[i] # "mcp_tool_annotations"
  BY <1>1
<1> QED BY <1>2, <1>3 DEF RuleAnswer

\* For the tools of a role the Lead's pipeline and the subagent's have the same
\* conclusive rules.
LEMMA SameConclusiveRules ==
  ASSUME NEW use \in RoleUses, NEW m, NEW c
  PROVE  Conclusive(LeadRules(c), use, m, c) = Conclusive(SubagentRules(c), use, m, c)
<1>1. SubagentRules(c) \subseteq LeadRules(c)
  BY DEF SubagentRules, LeadRules
<1>2. ASSUME NEW i \in DOMAIN RuleOrder, RuleOrder[i] \in LeadRules(c),
             RuleAnswer(RuleOrder[i], use, m, c) # "passthrough"
      PROVE  RuleOrder[i] \in SubagentRules(c)
  <2>1. RuleOrder[i] \in SubagentRuleNames
    BY <1>2, OtherRulesPass
  <2>2. SubagentRuleNames \cap DelegationRules = {}
    BY DEF SubagentRuleNames, DelegationRules
  <2> QED BY <1>2, <2>1, <2>2 DEF LeadRules, SubagentRules
<1> QED BY <1>1, <1>2 DEF Conclusive

\* Where RAG is on, the search mode of the run is asked before any rule that
\* allows a source it excludes.
LEMMA OpposedSourceIsDenied ==
  ASSUME NEW use \in RoleUses, NEW m, NEW c, NEW known, c.rag, Opposed(m, use)
  PROVE  Evaluate(SubagentRules(c), use, known, m, c) = "deny"
<1> DEFINE P == Conclusive(SubagentRules(c), use, m, c)
<1>1. 5 \in DOMAIN RuleOrder /\ RuleOrder[5] = "search_mode_policy"
  BY DEF RuleOrder
<1>2. RuleAnswer("search_mode_policy", use, m, c) = "deny"
  BY DEF RuleAnswer
<1>3. "search_mode_policy" \in SubagentRules(c)
  BY DEF SubagentRules, ProfileRules, When, RagRules, SubagentRuleNames
<1>4. 5 \in P
  BY <1>1, <1>2, <1>3 DEF Conclusive
<1>5. \A i \in P : i >= 5 /\ i \in Nat
  <2>1. ASSUME NEW i \in P
        PROVE  i >= 5 /\ i \in Nat
    <3>1. i \in DOMAIN RuleOrder /\ RuleOrder[i] \in SubagentRules(c)
           /\ RuleAnswer(RuleOrder[i], use, m, c) # "passthrough"
      BY <2>1 DEF Conclusive
    <3>2. i \in 1..16
      BY <3>1 DEF RuleOrder
    <3>3. RuleOrder[i] \in SubagentRuleNames
      BY <3>1 DEF SubagentRules
    <3>4. i \in 1..4 => RuleOrder[i] = "allow_calculator"
      BY <3>2, <3>3 DEF RuleOrder, SubagentRuleNames
    <3>5. use # "calculator"
      BY DEF Opposed
    <3>6. RuleAnswer("allow_calculator", use, m, c) = "passthrough"
      BY <3>5 DEF RuleAnswer, Answers
    <3> QED BY <3>1, <3>2, <3>4, <3>6
  <2> QED BY <2>1
<1>6. Min(P) = 5
  <2> HIDE DEF P
  <2> QED BY <1>4, <1>5 DEF Min
<1> QED BY <1>1, <1>2, <1>4, <1>6 DEF Evaluate

\* create_researcher_loop selects the rules of a subagent from the Lead's: for every
\* configuration and search mode what they allow a subagent the search mode does not
\* exclude, and the Lead's own pipeline allows too.
THEOREM SubagentsGetNoMore ==
  ASSUME NEW use \in RoleUses, NEW m, NEW c, NEW known, NEW k2,
         Evaluate(SubagentRules(c), use, known, m, c) = "allow"
  PROVE  /\ c.rag => ~Opposed(m, use)
         /\ Evaluate(LeadRules(c), use, k2, m, c) = "allow"
<1>1. c.rag => ~Opposed(m, use)
  BY OpposedSourceIsDenied
<1>2. "allow_calculator" \in SubagentRules(c)
  BY DEF SubagentRules, ProfileRules, SubagentRuleNames
<1>3. Conclusive(SubagentRules(c), use, m, c) # {}
  BY <1>2 DEF Evaluate
<1>4. Evaluate(LeadRules(c), use, k2, m, c) = Evaluate(SubagentRules(c), use, known, m, c)
  BY <1>3, SameConclusiveRules DEF Evaluate
<1> QED BY <1>1, <1>4

-----------------------------------------------------------------------------
(* The inductive invariant: one delegation at a time *)

RefusalInStep(d) ==
  task[d].refused # {} => /\ task[d].refused = {"REVISION_REQUEST"}
                          /\ role[d] = "reviewer" /\ report[d] = "error"

ToolInStep(d) ==
  ran[d] # "none" => /\ stage[d] = "running"
                     /\ ran[d] \in RoleTools(role[d])
                     /\ config.rag => ~Opposed(mode[runOf[d]], ran[d])
                     /\ Evaluate(LeadRules(config), ran[d], ChildUses, mode[runOf[d]], config)
                          = "allow"

InStep(d) == StartedInStep(d) /\ TaskInStep(d) /\ RefusalInStep(d) /\ ToolInStep(d)

\* A delegation no step touches stays in step.
LEMMA UntouchedStaysInStep ==
  ASSUME NEW e, InStep(e), config' = config, mode' = mode, role'[e] = role[e],
         stage'[e] = stage[e], attempt'[e] = attempt[e], spoke'[e] = spoke[e],
         ran'[e] = ran[e], task'[e] = task[e], report'[e] = report[e]
  PROVE  InStep(e)'
<1>1. StartedInStep(e)'
  BY DEF InStep, StartedInStep, Started, AttemptsLeft
<1>2. TaskInStep(e)' /\ RefusalInStep(e)'
  BY DEF InStep, TaskInStep, RefusalInStep, Started
<1>3. RoleTools(role[e])' = RoleTools(role[e])
  BY DEF RoleTools
<1>4. ToolInStep(e)'
  BY <1>3 DEF InStep, ToolInStep
<1> QED BY <1>1, <1>2, <1>4 DEF InStep

\* A task that has been replaced keeps its type.
LEMMA TaskTyped ==
  ASSUME TypeOK, NEW d \in Delegations, NEW t, Becomes(d, t)
  PROVE  /\ task' \in [Delegations -> Tasks] /\ task'[d] = t
         /\ \A e \in Delegations : e # d => task'[e] = task[e]
BY DEF TypeOK, Becomes, Tasks

\* An attempt starts: the delegation runs and its task with it.
LEMMA BeginStep ==
  ASSUME TypeOK, NEW d \in Delegations, InStep(d), role[d] \in Roles,
         task[d].status = "pending", report[d] = "none", ran[d] = "none",
         attempt[d] < MaxRetries + 1, Begin(d), UNCHANGED report, teamTasks' \in [Delegations \cup Runs -> 0..MaxTasks]
  PROVE  TypeOK' /\ InStep(d)' /\ \A e \in Delegations : e # d /\ InStep(e) => InStep(e)'
<1> USE TeamAssumption
<1>1. PICK t : Becomes(d, t) /\ t.status = "running" /\ t.refused = task[d].refused
  <2>1. Emit(d, role[d], <<"TASK_REQUEST", "TASK_ACCEPTED">>)
    BY DEF Begin
  <2> QED BY <2>1, OpeningMessages
<1>2. /\ stage' = [stage EXCEPT ![d] = "running"] /\ attempt' = [attempt EXCEPT ![d] = attempt[d] + 1]
      /\ asked' = [asked EXCEPT ![d] = FALSE]
      /\ UNCHANGED <<config, mode, role, spoke, ran, reviewRounds, report>>
  BY DEF Begin, Move, NextAttempt
<1>3. TypeOK'
  <2>1. attempt[d] + 1 \in 0..(MaxRetries + 1)
    BY DEF TypeOK
  <2> QED BY <1>1, <1>2, <2>1, TaskTyped DEF TypeOK, Tasks
<1>4. stage'[d] = "running" /\ attempt'[d] = attempt[d] + 1 /\ task'[d] = t
  BY <1>1, <1>2, TaskTyped DEF TypeOK
<1>5. StartedInStep(d)'
  <2>1. attempt[d] \in Nat /\ spoke[d] \in Nat
    BY DEF TypeOK
  <2> QED BY <1>2, <1>4, <2>1 DEF InStep, StartedInStep, Started
<1>6. TaskInStep(d)' /\ RefusalInStep(d)'
  BY <1>1, <1>2, <1>4 DEF InStep, TaskInStep, RefusalInStep
<1>7. ToolInStep(d)'
  BY <1>2 DEF ToolInStep
<1>8. ASSUME NEW e \in Delegations, e # d, InStep(e)
      PROVE  InStep(e)'
  <2>1. stage'[e] = stage[e] /\ attempt'[e] = attempt[e] /\ task'[e] = task[e]
    BY <1>1, <1>2, <1>8, TaskTyped DEF TypeOK
  <2> QED BY <1>2, <1>8, <2>1, UntouchedStaysInStep
<1> QED BY <1>3, <1>5, <1>6, <1>7, <1>8 DEF InStep

\* A delegation that gets its role, or is turned away.
LEMMA RoleStep ==
  ASSUME TypeOK, NEW d \in Delegations, \A e \in Delegations : InStep(e),
         Research(d) \/ Analysis(d)
  PROVE  TypeOK' /\ \A e \in Delegations : InStep(e)'
<1>1. \/ \E r \in Roles : /\ role' = [role EXCEPT ![d] = r]
                           /\ stage' = [stage EXCEPT ![d] = "admitted"]
                           /\ report' = [report EXCEPT ![d] = "none"]
      \/ /\ role' = role /\ stage' = [stage EXCEPT ![d] = "answered"]
         /\ report' = [report EXCEPT ![d] = "rejected"]
  <2>1. CASE Analysis(d)
    <3>1. /\ role' = [role EXCEPT ![d] = "analyst"] /\ stage' = [stage EXCEPT ![d] = "admitted"]
          /\ report' = report
      BY <2>1 DEF Analysis, Move
    <3>2. report[d] = "none"
      BY <2>1 DEF Analysis, InStep, TaskInStep, TypeOK
    <3>3. report' = [report EXCEPT ![d] = "none"]
      BY <3>1, <3>2 DEF TypeOK
    <3>4. "analyst" \in Roles
      BY DEF Roles
    <3> QED BY <3>1, <3>3, <3>4, Zenon
  <2>2. CASE Research(d)
    <3>1. report[d] = "none"
      BY <2>2 DEF Research, InStep, TaskInStep, TypeOK
    <3>2. PICK kind : IF kind \in Researchers \cap KindsAllowed(mode[runOf[d]])
                      THEN /\ role' = [role EXCEPT ![d] = kind]
                           /\ Move(d, "admitted")
                           /\ UNCHANGED report
                      ELSE Answer(d, "rejected") /\ UNCHANGED role
      BY <2>2, Zenon DEF Research
    <3>3. CASE kind \in Researchers \cap KindsAllowed(mode[runOf[d]])
      <4>1. /\ role' = [role EXCEPT ![d] = kind] /\ stage' = [stage EXCEPT ![d] = "admitted"]
            /\ report' = report /\ kind \in Roles
        BY <3>2, <3>3 DEF Move, Roles
      <4>2. report' = [report EXCEPT ![d] = "none"]
        BY <3>1, <4>1 DEF TypeOK
      <4> QED BY <4>1, <4>2, Zenon
    <3>4. CASE kind \notin Researchers \cap KindsAllowed(mode[runOf[d]])
      <4>1. /\ stage' = [stage EXCEPT ![d] = "answered"] /\ role' = role
            /\ report' = [report EXCEPT ![d] = "rejected"]
        BY <3>2, <3>4 DEF Answer, Move
      <4> QED BY <4>1
    <3> QED BY <3>3, <3>4
  <2> QED BY <2>1, <2>2
<1>2. /\ UNCHANGED <<config, mode, attempt, spoke, asked, ran, teamTasks, reviewRounds, task>>
      /\ stage[d] = "new"
  BY DEF Research, Analysis, childVars, teamVars
<1>3. TypeOK'
  <2>1. /\ role' \in [Delegations -> Roles \cup {"none"}]
        /\ stage' \in [Delegations -> {"new", "admitted", "running", "backoff", "answered", "cancelled"}]
        /\ report' \in [Delegations -> {"none", "ok", "error", "rejected"}]
    <3>1. ASSUME NEW r \in Roles, role' = [role EXCEPT ![d] = r]
          PROVE  role' \in [Delegations -> Roles \cup {"none"}]
      BY <3>1 DEF TypeOK
    <3>2. ASSUME NEW to \in {"admitted", "answered"}, stage' = [stage EXCEPT ![d] = to]
          PROVE  stage' \in [Delegations -> {"new", "admitted", "running", "backoff", "answered",
                                             "cancelled"}]
      BY <3>2 DEF TypeOK
    <3>3. ASSUME NEW what \in {"none", "rejected"}, report' = [report EXCEPT ![d] = what]
          PROVE  report' \in [Delegations -> {"none", "ok", "error", "rejected"}]
      BY <3>3 DEF TypeOK
    <3> QED BY <1>1, <3>1, <3>2, <3>3 DEF TypeOK
  <2> QED BY <1>2, <2>1 DEF TypeOK
<1>4. /\ \/ stage'[d] = "admitted" /\ report'[d] = "none" /\ role'[d] \in Roles
         \/ stage'[d] = "answered" /\ report'[d] = "rejected"
      /\ ~Started(d) /\ task[d].status = "pending" /\ ran[d] = "none" /\ attempt[d] = 0
      /\ task[d].refused = {}
  <2>1. ~Started(d) /\ task[d].status = "pending" /\ ran[d] = "none" /\ task[d].refused = {}
    BY <1>2 DEF TypeOK, InStep, StartedInStep, TaskInStep, ToolInStep, RefusalInStep
  <2>2. attempt[d] = 0
    BY <2>1, TeamAssumption DEF TypeOK, Started
  <2>3. \/ stage'[d] = "admitted" /\ report'[d] = "none" /\ role'[d] \in Roles
        \/ stage'[d] = "answered" /\ report'[d] = "rejected"
    BY <1>1 DEF TypeOK
  <2> QED BY <2>1, <2>2, <2>3
<1>5. ASSUME NEW e \in Delegations
      PROVE  InStep(e)'
  <2>1. CASE e # d
    <3>1. role'[e] = role[e] /\ stage'[e] = stage[e] /\ report'[e] = report[e]
      BY <1>1, <2>1 DEF TypeOK
    <3> QED BY <1>2, <3>1, UntouchedStaysInStep
  <2>2. CASE e = d
    <3>1. StartedInStep(d)'
      BY <1>2, <1>4 DEF StartedInStep, Started, InStep
    <3>2. TaskInStep(d)'
      BY <1>2, <1>4 DEF TaskInStep, Started
    <3>3. RefusalInStep(d)' /\ ToolInStep(d)'
      BY <1>2, <1>4 DEF RefusalInStep, ToolInStep
    <3> QED BY <2>2, <3>1, <3>2, <3>3 DEF InStep
  <2> QED BY <2>1, <2>2
<1> QED BY <1>3, <1>5

\* A review is admitted while there are rounds left.
LEMMA ReviewStep ==
  ASSUME TypeOK, NEW d \in Delegations, \A e \in Delegations : InStep(e), Review(d)
  PROVE  TypeOK' /\ \A e \in Delegations : InStep(e)'
<1> USE TeamAssumption
<1>1. /\ UNCHANGED <<config, mode, attempt, spoke, asked, ran, teamTasks>>
      /\ stage[d] = "new" /\ role' = [role EXCEPT ![d] = "reviewer"]
  BY DEF Review, childVars
<1>2. /\ ~Started(d) /\ task[d].status = "pending" /\ ran[d] = "none" /\ attempt[d] = 0
      /\ task[d].refused = {} /\ report[d] = "none"
  <2>1. /\ ~Started(d) /\ task[d].status = "pending" /\ ran[d] = "none" /\ report[d] = "none"
        /\ task[d].refused = {}
    BY <1>1 DEF TypeOK, InStep, StartedInStep, TaskInStep, ToolInStep, RefusalInStep
  <2>2. attempt[d] = 0
    BY <2>1 DEF TypeOK, Started
  <2> QED BY <2>1, <2>2
<1>3. PICK t, to, what :
        /\ Becomes(d, t) /\ t.status = "pending" /\ t.refused = {}
        /\ stage' = [stage EXCEPT ![d] = to] /\ report' = [report EXCEPT ![d] = what]
        /\ \/ to = "admitted" /\ what = "none"
           \/ to = "answered" /\ what = "rejected"
        /\ reviewRounds' \in [Runs -> 0..MaxReviewRounds]
  <2>1. CASE RoundFree(runOf[d])
    <3>1. /\ reviewRounds' = [reviewRounds EXCEPT ![runOf[d]] = @ + 1]
          /\ Emit(d, "reviewer", <<"REVIEW_REQUEST">>)
          /\ stage' = [stage EXCEPT ![d] = "admitted"] /\ report' = report
      BY <2>1 DEF Review, Move
    <3>2. PICK t : Becomes(d, t) /\ t.status = task[d].status /\ t.refused = task[d].refused
      BY <3>1, RequestingMessage
    <3>3. reviewRounds' \in [Runs -> 0..MaxReviewRounds]
      BY <2>1, <3>1 DEF TypeOK, RoundFree
    <3>4. report' = [report EXCEPT ![d] = "none"]
      BY <1>2, <3>1 DEF TypeOK
    <3>5. t.status = "pending" /\ t.refused = {}
      BY <1>2, <3>2
    <3> QED BY <3>1, <3>2, <3>3, <3>4, <3>5, Zenon
  <2>2. CASE ~RoundFree(runOf[d])
    <3>1. /\ UNCHANGED <<reviewRounds, task>>
          /\ stage' = [stage EXCEPT ![d] = "answered"] /\ report' = [report EXCEPT ![d] = "rejected"]
      BY <2>2 DEF Review, Move, Answer
    <3>2. Becomes(d, task[d])
      BY <3>1 DEF TypeOK, Becomes, Tasks
    <3>3. reviewRounds' \in [Runs -> 0..MaxReviewRounds]
      BY <3>1 DEF TypeOK
    <3> QED BY <1>2, <3>1, <3>2, <3>3, Zenon
  <2> QED BY <2>1, <2>2
<1>4. TypeOK'
  <2>1. "reviewer" \in Roles
    BY DEF Roles
  <2> QED BY <1>1, <1>3, <2>1, TaskTyped DEF TypeOK, Tasks
<1>5. stage'[d] = to /\ report'[d] = what /\ role'[d] = "reviewer" /\ task'[d] = t
  BY <1>1, <1>3, TaskTyped DEF TypeOK
<1>6. ASSUME NEW e \in Delegations
      PROVE  InStep(e)'
  <2>1. CASE e # d
    <3>1. /\ role'[e] = role[e] /\ stage'[e] = stage[e] /\ report'[e] = report[e]
          /\ task'[e] = task[e]
      BY <1>1, <1>3, <2>1, TaskTyped DEF TypeOK
    <3> QED BY <1>1, <3>1, UntouchedStaysInStep
  <2>2. CASE e = d
    <3>0. "reviewer" \in Roles
      BY DEF Roles
    <3>1. StartedInStep(d)'
      BY <1>1, <1>2, <1>3, <1>5, <3>0 DEF StartedInStep, Started, InStep
    <3>2. TaskInStep(d)'
      BY <1>1, <1>2, <1>3, <1>5 DEF TaskInStep, Started
    <3>3. RefusalInStep(d)' /\ ToolInStep(d)'
      BY <1>1, <1>2, <1>3, <1>5 DEF RefusalInStep, ToolInStep
    <3> QED BY <2>2, <3>1, <3>2, <3>3 DEF InStep
  <2> QED BY <2>1, <2>2
<1> QED BY <1>4, <1>6

\* What the end of a child's turn makes of its delegation.
Settles(d, t) ==
  \/ /\ AttemptsLeft(d) /\ Move(d, "backoff") /\ UNCHANGED report
     /\ t.status = "pending" /\ t.refused = task[d].refused
  \/ /\ Answer(d, "ok") /\ t.refused = task[d].refused
     /\ \/ t.status = "succeeded"
        \/ t.status = "pending" /\ role[d] = "reviewer"
  \/ /\ Answer(d, "error") /\ t.status = "failed"
     /\ \/ t.refused = task[d].refused
        \/ role[d] = "reviewer" /\ t.refused = task[d].refused \cup {"REVISION_REQUEST"}

LEMMA FailSettles ==
  ASSUME TypeOK, NEW d \in Delegations, role[d] \in Roles, task[d].status = "running",
         NEW retryable, NEW hasText, Fail(d, retryable, hasText)
  PROVE  \E t : Becomes(d, t) /\ Settles(d, t)
<1>1. CASE /\ retryable /\ AttemptsLeft(d)
           /\ Emit(d, role[d], RetryMessages)
           /\ Move(d, "backoff")
           /\ UNCHANGED report
  <2>1. PICK t : Becomes(d, t) /\ t.status = "pending" /\ t.refused = task[d].refused
    BY <1>1, RetryingMessages
  <2> QED BY <1>1, <2>1 DEF Settles
<1>2. CASE /\ \E review \in IF hasText THEN ReviewMessages(d) ELSE {<<>>} :
                Emit(d, role[d], <<"TASK_FAILED">> \o review)
           /\ Answer(d, "error")
  <2>1. PICK review \in ReviewMessages(d) \cup {<<>>} : Emit(d, role[d], <<"TASK_FAILED">> \o review)
    BY <1>2
  <2>2. PICK t : /\ Becomes(d, t) /\ t.status = "failed"
                 /\ \/ t.refused = task[d].refused
                    \/ role[d] = "reviewer" /\ t.refused = task[d].refused \cup {"REVISION_REQUEST"}
    BY <2>1, FailureMessages
  <2> QED BY <1>2, <2>2 DEF Settles
<1> QED BY <1>1, <1>2 DEF Fail

LEMMA SucceedSettles ==
  ASSUME TypeOK, NEW d \in Delegations, role[d] \in Roles, task[d].status = "running", Succeed(d)
  PROVE  \E t : Becomes(d, t) /\ Settles(d, t)
<1>1. PICK review \in ReviewMessages(d) :
        Emit(d, role[d], <<"TASK_RESULT", "RESULT_ACK">> \o review) /\ Answer(d, "ok")
  BY DEF Succeed
<1>2. PICK t : /\ Becomes(d, t) /\ t.refused = task[d].refused
               /\ \/ t.status = "succeeded"
                  \/ t.status = "pending" /\ role[d] = "reviewer"
  BY <1>1, SuccessMessages
<1> QED BY <1>1, <1>2 DEF Settles

\* A child's turn ends: the protocol follows what the Lead is told.
LEMMA ChildEndsStep ==
  ASSUME TypeOK, NEW d \in Delegations, \A e \in Delegations : InStep(e), ChildEnds(d)
  PROVE  TypeOK' /\ \A e \in Delegations : InStep(e)'
<1> USE TeamAssumption
<1>1. /\ stage[d] = "running" /\ spoke' \in {spoke, [spoke EXCEPT ![d] = attempt[d]]}
      /\ ran' = [ran EXCEPT ![d] = "none"]
      /\ UNCHANGED <<config, mode, role, attempt, asked, teamTasks, reviewRounds>>
  BY DEF ChildEnds, Speaks, teamVars
<1>2. role[d] \in Roles /\ task[d].status = "running" /\ Started(d) /\ task[d].refused = {}
      /\ report[d] = "none"
  BY <1>1 DEF InStep, StartedInStep, TaskInStep, RefusalInStep, TypeOK
<1>3. Succeed(d) \/ \E retryable, hasText : Fail(d, retryable, hasText)
  BY Zenon DEF ChildEnds
<1>4. PICK t : Becomes(d, t) /\ Settles(d, t)
  BY <1>2, <1>3, FailSettles, SucceedSettles
<1>5. PICK to, what : /\ stage' = [stage EXCEPT ![d] = to] /\ report' = [report EXCEPT ![d] = what]
                      /\ \/ to = "backoff" /\ what = "none"
                         \/ to = "answered" /\ what \in {"ok", "error"}
  <2>1. report = [report EXCEPT ![d] = "none"]
    BY <1>2 DEF TypeOK
  <2>2. CASE Move(d, "backoff") /\ UNCHANGED report
    BY <2>1, <2>2, Zenon DEF Move
  <2>3. CASE \E what \in {"ok", "error"} : Answer(d, what)
    BY <2>3, Zenon DEF Answer, Move
  <2> QED BY <1>4, <2>2, <2>3 DEF Settles
<1>6. TypeOK'
  <2>1. /\ spoke' \in [Delegations -> 0..(MaxRetries + 1)] /\ ran' \in [Delegations -> ChildUses \cup {"none"}]
    BY <1>1 DEF TypeOK
  <2>2. /\ stage' \in [Delegations -> {"new", "admitted", "running", "backoff", "answered", "cancelled"}]
        /\ report' \in [Delegations -> {"none", "ok", "error", "rejected"}]
    BY <1>5 DEF TypeOK
  <2> QED BY <1>1, <1>4, <2>1, <2>2, TaskTyped DEF TypeOK, Tasks
<1>7. /\ stage'[d] = to /\ report'[d] = what /\ task'[d] = t
      /\ ran'[d] = "none" /\ spoke'[d] \in {spoke[d], attempt[d]}
  BY <1>1, <1>4, <1>5, TaskTyped DEF TypeOK
<1>8. ASSUME NEW e \in Delegations
      PROVE  InStep(e)'
  <2>1. CASE e # d
    <3>1. /\ stage'[e] = stage[e] /\ report'[e] = report[e] /\ task'[e] = task[e]
          /\ ran'[e] = ran[e] /\ spoke'[e] = spoke[e]
      BY <1>1, <1>4, <1>5, <2>1, TaskTyped DEF TypeOK
    <3> QED BY <1>1, <3>1, UntouchedStaysInStep
  <2>2. CASE e = d
    <3>1. to = "backoff" => AttemptsLeft(d) /\ t.status = "pending" /\ t.refused = {}
      BY <1>2, <1>4, <1>5, <1>7 DEF Settles, Answer, Move, TypeOK
    <3>2. what = "ok" => /\ t.refused = {}
                         /\ \/ t.status = "succeeded"
                            \/ t.status = "pending" /\ role[d] = "reviewer"
      BY <1>2, <1>4, <1>5, <1>7 DEF Settles, Answer, Move, TypeOK
    <3>3. what = "error" => /\ t.status = "failed"
                            /\ \/ t.refused = {}
                               \/ role[d] = "reviewer" /\ t.refused = {"REVISION_REQUEST"}
      BY <1>2, <1>4, <1>5, <1>7 DEF Settles, Answer, Move, TypeOK
    <3>4. StartedInStep(d)'
      <4>1. attempt[d] \in Nat /\ spoke[d] \in Nat /\ spoke[d] <= attempt[d]
        BY DEF TypeOK, InStep, StartedInStep
      <4> QED BY <1>1, <1>2, <1>5, <1>7, <3>1, <4>1 DEF StartedInStep, Started, AttemptsLeft
    <3>5. TaskInStep(d)'
      BY <1>1, <1>2, <1>5, <1>7, <3>1, <3>2, <3>3 DEF TaskInStep, Started
    <3>6. RefusalInStep(d)' /\ ToolInStep(d)'
      BY <1>1, <1>5, <1>7, <3>1, <3>2, <3>3 DEF RefusalInStep, ToolInStep
    <3> QED BY <2>2, <3>4, <3>5, <3>6 DEF InStep
  <2> QED BY <2>1, <2>2
<1> QED BY <1>6, <1>8

\* A child runs a tool, or its turn stops at a question.
LEMMA ChildUseStep ==
  ASSUME TypeOK, NEW d \in Delegations, \A e \in Delegations : InStep(e), ChildUse(d)
  PROVE  TypeOK' /\ \A e \in Delegations : InStep(e)'
<1> USE TeamAssumption
<1>1. /\ stage[d] = "running" /\ spoke' \in {spoke, [spoke EXCEPT ![d] = attempt[d]]}
      /\ UNCHANGED <<config, mode, role, stage, attempt, teamTasks, reviewRounds, task, report>>
  BY DEF ChildUse, Speaks, teamVars
<1>2. role[d] \in Roles
  BY <1>1 DEF InStep, StartedInStep
<1>3. PICK use \in ChildUses :
        \/ /\ use \in RoleTools(role[d]) /\ Verdict(d, use) = "allow"
           /\ ran' = [ran EXCEPT ![d] = use] /\ asked' = asked
        \/ ran' = ran /\ asked' = [asked EXCEPT ![d] = TRUE]
  <2>1. PICK use \in ChildUses :
          \/ /\ use \in Registry(d)
             /\ \E failing \in SUBSET {"permission_check", "tool_call_logging"} :
                  Passes(Verdict(d, use) = "allow", failing)
             /\ ran' = [ran EXCEPT ![d] = use]
             /\ UNCHANGED asked
          \/ /\ Verdict(d, use) = "ask"
             /\ asked' = [asked EXCEPT ![d] = TRUE]
             /\ UNCHANGED ran
    BY Zenon DEF ChildUse
  <2> QED BY <2>1, Zenon DEF Registry, Passes
<1>4. TypeOK'
  <2>1. spoke' \in [Delegations -> 0..(MaxRetries + 1)]
    BY <1>1 DEF TypeOK
  <2>2. ran' \in [Delegations -> ChildUses \cup {"none"}] /\ asked' \in [Delegations -> BOOLEAN]
    BY <1>3 DEF TypeOK
  <2> QED BY <1>1, <2>1, <2>2 DEF TypeOK
<1>5. ToolInStep(d)'
  <2>1. CASE /\ use \in RoleTools(role[d]) /\ Verdict(d, use) = "allow"
             /\ ran' = [ran EXCEPT ![d] = use]
    <3>1. ran'[d] = use
      BY <2>1 DEF TypeOK
    <3>2. use \in RoleUses
      BY <1>2, <2>1, ToolsOfRoles
    <3>3. /\ config.rag => ~Opposed(mode[runOf[d]], use)
          /\ Evaluate(LeadRules(config), use, ChildUses, mode[runOf[d]], config) = "allow"
      BY <2>1, <3>2, SubagentsGetNoMore DEF Verdict
    <3>4. RoleTools(role[d])' = RoleTools(role[d])
      BY <1>1 DEF RoleTools
    <3> QED BY <1>1, <2>1, <3>1, <3>3, <3>4 DEF ToolInStep
  <2>2. CASE ran' = ran
    <3>1. RoleTools(role[d])' = RoleTools(role[d])
      BY <1>1 DEF RoleTools
    <3> QED BY <1>1, <2>2, <3>1 DEF InStep, ToolInStep
  <2> QED BY <1>3, <2>1, <2>2
<1>6. ASSUME NEW e \in Delegations
      PROVE  InStep(e)'
  <2>1. CASE e # d
    <3>1. spoke'[e] = spoke[e] /\ ran'[e] = ran[e]
      BY <1>1, <1>3, <2>1 DEF TypeOK
    <3> QED BY <1>1, <3>1, UntouchedStaysInStep
  <2>2. CASE e = d
    <3>1. StartedInStep(d)'
      <4>1. attempt[d] \in Nat /\ spoke[d] <= attempt[d] /\ spoke'[d] \in {spoke[d], attempt[d]}
        BY <1>1 DEF TypeOK, InStep, StartedInStep
      <4> QED BY <1>1, <4>1 DEF InStep, StartedInStep, Started, AttemptsLeft
    <3>2. TaskInStep(d)' /\ RefusalInStep(d)'
      BY <1>1 DEF InStep, TaskInStep, RefusalInStep, Started
    <3> QED BY <1>5, <2>2, <3>1, <3>2 DEF InStep
  <2> QED BY <2>1, <2>2
<1> QED BY <1>4, <1>6

\* The Lead's call ends under the delegation.
LEMMA CancelStep ==
  ASSUME TypeOK, NEW d \in Delegations, \A e \in Delegations : InStep(e), Cancel(d)
  PROVE  TypeOK' /\ \A e \in Delegations : InStep(e)'
<1>1. /\ stage[d] \in {"admitted", "running", "backoff"}
      /\ stage' = [stage EXCEPT ![d] = "cancelled"] /\ ran' = [ran EXCEPT ![d] = "none"]
      /\ UNCHANGED <<config, mode, role, attempt, spoke, asked, teamTasks, reviewRounds, task, report>>
  BY DEF Cancel, Move, teamVars
<1>2. TypeOK'
  BY <1>1 DEF TypeOK
<1>3. ASSUME NEW e \in Delegations
      PROVE  InStep(e)'
  <2>1. CASE e # d
    <3>1. stage'[e] = stage[e] /\ ran'[e] = ran[e]
      BY <1>1, <2>1 DEF TypeOK
    <3> QED BY <1>1, <3>1, UntouchedStaysInStep
  <2>2. CASE e = d
    <3>1. stage'[d] = "cancelled" /\ ran'[d] = "none"
      BY <1>1 DEF TypeOK
    <3>2. StartedInStep(d)'
      BY <1>1, <3>1 DEF InStep, StartedInStep, Started
    <3>3. TaskInStep(d)'
      BY <1>1, <3>1 DEF InStep, TaskInStep, Started, TypeOK
    <3>4. RefusalInStep(d)' /\ ToolInStep(d)'
      BY <1>1, <3>1 DEF InStep, RefusalInStep, ToolInStep
    <3> QED BY <2>2, <3>2, <3>3, <3>4 DEF InStep
  <2> QED BY <2>1, <2>2
<1> QED BY <1>2, <1>3

\* The first attempt of a delegation, or its refusal over the budget.
LEMMA StartTaskStep ==
  ASSUME TypeOK, NEW d \in Delegations, \A e \in Delegations : InStep(e), StartTask(d)
  PROVE  TypeOK' /\ \A e \in Delegations : InStep(e)'
<1> USE TeamAssumption
<1>1. /\ stage[d] = "admitted" /\ role[d] \in Roles /\ ~Started(d) /\ attempt[d] = 0
      /\ task[d].status = "pending" /\ report[d] = "none" /\ ran[d] = "none"
      /\ task[d].refused = {}
  BY DEF StartTask, InStep, StartedInStep, TaskInStep, RefusalInStep, ToolInStep, TypeOK, Started
<1>2. CASE WithinBudget(Team(d)) /\ teamTasks' = [teamTasks EXCEPT ![Team(d)] = @ + 1]
             /\ Begin(d) /\ UNCHANGED report
  <2>1. teamTasks' \in [Delegations \cup Runs -> 0..MaxTasks]
    <3>1. Team(d) \in Delegations \cup Runs
      BY <1>1 DEF Team, TeamId
    <3> QED BY <1>2, <3>1 DEF TypeOK, WithinBudget
  <2>2. attempt[d] < MaxRetries + 1
    BY <1>1
  <2>3. TypeOK' /\ InStep(d)' /\ \A e \in Delegations : e # d /\ InStep(e) => InStep(e)'
    BY <1>1, <1>2, <2>1, <2>2, BeginStep
  <2> QED BY <2>3
<1>3. CASE /\ ~WithinBudget(Team(d)) /\ Answer(d, "error")
           /\ UNCHANGED <<config, mode, role, childVars, teamVars, task>>
  <2>1. /\ stage' = [stage EXCEPT ![d] = "answered"] /\ report' = [report EXCEPT ![d] = "error"]
        /\ UNCHANGED <<config, mode, role, attempt, spoke, asked, ran, teamTasks, reviewRounds, task>>
    BY <1>3 DEF Answer, Move, childVars, teamVars
  <2>2. TypeOK'
    BY <2>1 DEF TypeOK
  <2>3. ASSUME NEW e \in Delegations
        PROVE  InStep(e)'
    <3>1. CASE e # d
      <4>1. stage'[e] = stage[e] /\ report'[e] = report[e]
        BY <2>1, <3>1 DEF TypeOK
      <4> QED BY <2>1, <4>1, UntouchedStaysInStep
    <3>2. CASE e = d
      <4>1. stage'[d] = "answered" /\ report'[d] = "error"
        BY <2>1 DEF TypeOK
      <4>2. StartedInStep(d)'
        BY <1>1, <2>1, <4>1 DEF InStep, StartedInStep, Started
      <4>3. TaskInStep(d)' /\ RefusalInStep(d)' /\ ToolInStep(d)'
        BY <1>1, <2>1, <4>1 DEF TaskInStep, RefusalInStep, ToolInStep, Started
      <4> QED BY <3>2, <4>2, <4>3 DEF InStep
    <3> QED BY <3>1, <3>2
  <2> QED BY <2>2, <2>3
<1> QED BY <1>2, <1>3 DEF StartTask

\* The next attempt of a delegation.
LEMMA RetryStep ==
  ASSUME TypeOK, NEW d \in Delegations, \A e \in Delegations : InStep(e), Retry(d)
  PROVE  TypeOK' /\ \A e \in Delegations : InStep(e)'
<1>1. /\ stage[d] = "backoff" /\ role[d] \in Roles /\ attempt[d] < MaxRetries + 1
      /\ task[d].status = "pending" /\ report[d] = "none" /\ ran[d] = "none"
  BY DEF Retry, InStep, StartedInStep, TaskInStep, ToolInStep, TypeOK, AttemptsLeft
<1>2. Begin(d) /\ teamTasks' \in [Delegations \cup Runs -> 0..MaxTasks] /\ UNCHANGED report
  BY DEF Retry, TypeOK
<1> QED BY <1>1, <1>2, BeginStep

-----------------------------------------------------------------------------
(* The budget of a team *)

\* The started delegations of a team.
Charged(r) == {d \in Delegations : Started(d) /\ Team(d) = r}

Counted(r) == IsFiniteSet(Charged(r)) /\ teamTasks[r] = Cardinality(Charged(r))

\* Whatever starts no task and moves no started delegation keeps the count.
LEMMA CountKept ==
  ASSUME NEW r, Counted(r), teamTasks' = teamTasks,
         \A d \in Delegations : /\ Started(d)' <=> Started(d)
                                /\ Started(d) => role'[d] = role[d]
  PROVE  Counted(r)'
<1>1. \A d \in Delegations : Started(d) => Team(d)' = Team(d)
  BY DEF Team, TeamId
<1>2. Charged(r)' = Charged(r)
  BY <1>1 DEF Charged
<1> QED BY <1>2 DEF Counted

\* A task that starts is counted once, in its own team.
LEMMA CountStarted ==
  ASSUME TypeOK, NEW d \in Delegations, InStep(d), StartTask(d), NEW r \in Runs, Counted(r)
  PROVE  Counted(r)'
<1> USE TeamAssumption
<1>1. stage[d] = "admitted" /\ ~Started(d) /\ attempt[d] = 0
  BY DEF StartTask, InStep, StartedInStep, TypeOK, Started
<1>2. CASE WithinBudget(Team(d)) /\ teamTasks' = [teamTasks EXCEPT ![Team(d)] = @ + 1] /\ Begin(d)
  <2>1. attempt' = [attempt EXCEPT ![d] = attempt[d] + 1] /\ role' = role
    BY <1>2 DEF Begin, NextAttempt
  <2>2. /\ Started(d)' /\ \A e \in Delegations : e # d => (Started(e)' <=> Started(e))
        /\ \A e \in Delegations : Team(e)' = Team(e)
    BY <1>1, <2>1 DEF Started, Team, TeamId, TypeOK
  <2>3. CASE Team(d) = r
    <3>1. Charged(r)' = Charged(r) \cup {d} /\ d \notin Charged(r)
      BY <1>1, <2>2, <2>3 DEF Charged
    <3>2. teamTasks'[r] = teamTasks[r] + 1
      BY <1>2, <2>3 DEF TypeOK
    <3>3. /\ IsFiniteSet(Charged(r) \cup {d})
          /\ Cardinality(Charged(r) \cup {d}) = Cardinality(Charged(r)) + 1
      BY <3>1, FS_AddElement DEF Counted
    <3> QED BY <3>1, <3>2, <3>3 DEF Counted
  <2>4. CASE Team(d) # r
    <3>1. Charged(r)' = Charged(r)
      BY <2>2, <2>4 DEF Charged
    <3>2. teamTasks'[r] = teamTasks[r]
      BY <1>2, <2>4 DEF TypeOK
    <3> QED BY <3>1, <3>2 DEF Counted
  <2> QED BY <2>3, <2>4
<1>3. CASE UNCHANGED <<config, mode, role, childVars, teamVars, task>>
  <2>1. role' = role /\ attempt' = attempt /\ teamTasks' = teamTasks
    BY <1>3 DEF childVars, teamVars
  <2> QED BY <2>1, CountKept DEF Started
<1> QED BY <1>2, <1>3 DEF StartTask

\* The other steps.
LEMMA CountUntouched ==
  ASSUME TypeOK, NEW d \in Delegations, InStep(d), NEW r \in Runs, Counted(r),
         \/ Research(d) \/ Analysis(d) \/ Review(d) \/ ChildEnds(d) \/ Retry(d)
         \/ ChildUse(d) \/ Cancel(d)
  PROVE  Counted(r)'
<1> USE TeamAssumption
<1>1. CASE Research(d) \/ Analysis(d) \/ Review(d)
  <2>1. /\ attempt' = attempt /\ teamTasks' = teamTasks /\ stage[d] = "new"
        /\ \A e \in Delegations : e # d => role'[e] = role[e]
    <3>1. CASE Research(d)
      BY <3>1 DEF Research, childVars, teamVars, TypeOK
    <3>2. CASE Analysis(d)
      BY <3>2 DEF Analysis, childVars, teamVars, TypeOK
    <3>3. CASE Review(d)
      BY <3>3 DEF Review, childVars, TypeOK
    <3> QED BY <1>1, <3>1, <3>2, <3>3
  <2>2. ~Started(d)
    BY <2>1 DEF InStep, StartedInStep
  <2> QED BY <2>1, <2>2, CountKept DEF Started
<1>2. CASE Retry(d)
  <2>1. /\ attempt' = [attempt EXCEPT ![d] = attempt[d] + 1] /\ role' = role
        /\ teamTasks' = teamTasks /\ Started(d)
    BY <1>2 DEF Retry, Begin, NextAttempt, InStep, StartedInStep
  <2>2. \A e \in Delegations : Started(e)' <=> Started(e)
    BY <2>1 DEF Started, TypeOK
  <2> QED BY <2>1, <2>2, CountKept
<1>3. CASE ChildEnds(d) \/ ChildUse(d) \/ Cancel(d)
  <2>1. attempt' = attempt /\ role' = role /\ teamTasks' = teamTasks
    BY <1>3 DEF ChildEnds, ChildUse, Cancel, teamVars
  <2> QED BY <2>1, CountKept DEF Started
<1> QED BY <1>1, <1>2, <1>3

-----------------------------------------------------------------------------
(* The theorems *)

TeamInv ==
  /\ TypeOK
  /\ \A d \in Delegations : InStep(d)
  /\ \A r \in Runs : Counted(r)

LEMMA TeamInit == Init => TeamInv
<1> SUFFICES ASSUME Init PROVE TeamInv
  OBVIOUS
<1> USE TeamAssumption
<1>1. TypeOK
  BY DEF Init, TypeOK, Roles, Researchers, ChildUses, MessageKinds
<1>2. ASSUME NEW d \in Delegations
      PROVE  InStep(d)
  <2>1. /\ stage[d] = "new" /\ attempt[d] = 0 /\ spoke[d] = 0 /\ ran[d] = "none"
        /\ task[d].status = "pending" /\ task[d].refused = {} /\ report[d] = "none"
    BY DEF Init
  <2> QED BY <2>1 DEF InStep, StartedInStep, TaskInStep, RefusalInStep, ToolInStep, Started
<1>3. ASSUME NEW r \in Runs
      PROVE  Counted(r)
  <2>1. Charged(r) = {}
    BY DEF Init, Charged, Started
  <2> QED BY <2>1, FS_EmptySet DEF Counted, Init
<1> QED BY <1>1, <1>2, <1>3 DEF TeamInv

LEMMA TeamStep == TeamInv /\ [Next]_vars => TeamInv'
<1> SUFFICES ASSUME TeamInv, [Next]_vars PROVE TeamInv'
  OBVIOUS
<1>1. /\ TypeOK /\ \A d \in Delegations : InStep(d)
      /\ \A r \in Runs : Counted(r)
  BY DEF TeamInv
<1>2. CASE UNCHANGED vars
  <2>1. /\ UNCHANGED <<config, mode, role, stage, attempt, spoke, asked, ran, teamTasks,
                       reviewRounds, task, report>>
    BY <1>2 DEF vars, childVars, teamVars
  <2>2. TypeOK'
    BY <1>1, <2>1 DEF TypeOK
  <2>3. \A d \in Delegations : InStep(d)'
    BY <1>1, <2>1, UntouchedStaysInStep
  <2>4. \A r \in Runs : Counted(r)'
    BY <1>1, <2>1, CountKept DEF Started
  <2> QED BY <2>2, <2>3, <2>4 DEF TeamInv
<1>3. ASSUME NEW d \in Delegations,
             \/ Research(d) \/ Analysis(d) \/ Review(d) \/ CoordinatorStep(d)
             \/ ChildUse(d) \/ Cancel(d)
      PROVE  TeamInv'
  <2>1. CASE Research(d) \/ Analysis(d)
    BY <1>1, <2>1, RoleStep, CountUntouched DEF TeamInv
  <2>2. CASE Review(d)
    BY <1>1, <2>2, ReviewStep, CountUntouched DEF TeamInv
  <2>3. CASE StartTask(d)
    BY <1>1, <2>3, StartTaskStep, CountStarted DEF TeamInv
  <2>4. CASE ChildEnds(d)
    BY <1>1, <2>4, ChildEndsStep, CountUntouched DEF TeamInv
  <2>5. CASE Retry(d)
    BY <1>1, <2>5, RetryStep, CountUntouched DEF TeamInv
  <2>6. CASE ChildUse(d)
    BY <1>1, <2>6, ChildUseStep, CountUntouched DEF TeamInv
  <2>7. CASE Cancel(d)
    BY <1>1, <2>7, CancelStep, CountUntouched DEF TeamInv
  <2> QED BY <1>3, <2>1, <2>2, <2>3, <2>4, <2>5, <2>6, <2>7 DEF CoordinatorStep
<1> QED BY <1>2, <1>3 DEF Next

LEMMA TeamInvariant == Spec => []TeamInv
BY TeamInit, TeamStep, PTL DEF Spec

\* Every started task is counted once, in its own team, and no team exceeds its
\* tasks or its rounds (DelegationBudget and reserve_review_round, team.py).
THEOREM TeamBudgetsHold == Spec => []BudgetsHold
<1>1. TeamInv => BudgetsHold
  <2> SUFFICES ASSUME TeamInv PROVE BudgetsHold
    OBVIOUS
  <2>1. ASSUME NEW r \in Runs
        PROVE  /\ teamTasks[r] = Cardinality({d \in Delegations : Started(d) /\ Team(d) = r})
               /\ reviewRounds[r] <= MaxReviewRounds
    <3>1. reviewRounds[r] \in 0..MaxReviewRounds
      BY DEF TeamInv, TypeOK
    <3> QED BY <3>1, TeamAssumption DEF TeamInv, Counted, Charged
  <2> QED BY <2>1 DEF TeamInv, InStep, BudgetsHold
<1> QED BY <1>1, TeamInvariant, PTL

\* What the coordinator tells the Lead agrees with the protocol state, which refuses
\* none of its messages but the revision of a failed review (TeamCoordinator.delegate).
THEOREM ReportsMatchTheProtocol == Spec => []ReportMatchesProtocol
<1>1. TeamInv => ReportMatchesProtocol
  BY DEF TeamInv, InStep, RefusalInStep, ReportMatchesProtocol
<1> QED BY <1>1, TeamInvariant, PTL

\* A subagent runs a tool of its role only, within the search mode of its run and
\* the permissions of the Lead (create_researcher_loop).
THEOREM SubagentsStayInRole == Spec => []SubagentsKeepRoleAndMode
<1>1. TeamInv => SubagentsKeepRoleAndMode
  BY DEF TeamInv, InStep, ToolInStep, SubagentsKeepRoleAndMode
<1> QED BY <1>1, TeamInvariant, PTL
=============================================================================
