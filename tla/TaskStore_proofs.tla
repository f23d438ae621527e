-------------------------- MODULE TaskStore_proofs --------------------------
(***************************************************************************)
(* Proofs about TaskStore, for any sets of tasks, owners and clients.      *)
(***************************************************************************)
EXTENDS TaskStore, TLAPS

\* What a commit does to the table: the row of its task becomes the draft, all
\* other rows stay.
LEMMA StoreEffect ==
  ASSUME TypeOK, NEW t \in Tasks, NEW row \in Rows, Store(t, row)
  PROVE  /\ status' \in [Tasks -> Statuses]
         /\ owner' \in [Tasks -> Owners \cup {NoOwner}]
         /\ dependencies' \in [Tasks -> SUBSET Tasks]
         /\ status'[t] = row.status /\ owner'[t] = row.owner /\ dependencies'[t] = row.deps
         /\ \A u \in Tasks \ {t} : /\ status'[u] = status[u] /\ owner'[u] = owner[u]
                                   /\ dependencies'[u] = dependencies[u]
BY DEF Store, TypeOK, Rows

\* What the row written by a transaction is, operation by operation.
LEMMA NewRowIs ==
  ASSUME TypeOK, NEW req \in Requests
  PROVE  /\ NewRow(req) \in Rows
         /\ req.task \in Tasks
         /\ req.op = "create" => /\ NewRow(req).status = "pending"
                                 /\ NewRow(req).owner = NoOwner
                                 /\ NewRow(req).deps = req.deps
         /\ req.op = "claim" => /\ NewRow(req).status = "in_progress"
                                /\ NewRow(req).owner = req.owner
                                /\ NewRow(req).deps = dependencies[req.task]
         /\ req.op = "complete" => NewRow(req).status = "completed"
         /\ req.op = "fail" => NewRow(req).status = "failed"
         /\ req.op \in {"complete", "fail"} => /\ NewRow(req).owner = owner[req.task]
                                               /\ NewRow(req).deps = dependencies[req.task]
         /\ req.op \in {"create", "claim", "complete", "fail"}
<1>1. CASE req.op = "create"
  BY <1>1 DEF Requests, NewRow, Rows, TypeOK, Statuses
<1>2. CASE req.op = "claim"
  BY <1>2 DEF Requests, NewRow, Rows, TypeOK, Statuses
<1>3. CASE req.op \in {"complete", "fail"}
  BY <1>3 DEF Requests, NewRow, Rows, TypeOK, Statuses
<1>4. QED
  BY <1>1, <1>2, <1>3 DEF Requests

\* What a transaction that commits has found in the table, which nobody has
\* changed since.
LEMMA CommitGuard ==
  ASSUME StoreInv, NEW c \in Clients, Commit(c)
  PROVE  /\ request[c] \in Requests
         /\ Store(request[c].task, NewRow(request[c]))
         /\ request[c].op = "create" =>
              /\ status[request[c].task] = "absent"
              /\ request[c].deps \subseteq Tasks
              /\ \A d \in request[c].deps : status[d] # "absent"
         /\ request[c].op = "claim" =>
              /\ request[c].owner \in Owners
              /\ status[request[c].task] = "pending"
              /\ \A d \in dependencies[request[c].task] : status[d] = "completed"
         /\ request[c].op \in {"complete", "fail"} =>
              /\ request[c].owner \in Owners
              /\ status[request[c].task] = "in_progress"
              /\ owner[request[c].task] = request[c].owner
<1> DEFINE req == request[c]
<1>1. /\ req \in Requests /\ Valid(req) /\ Matches(req)
      /\ Store(req.task, NewRow(req))
  BY DEF Commit, StoreInv, TypeOK, DraftIsNext
<1>2. CASE req.op = "create"
  BY <1>1, <1>2 DEF Requests, Valid, Matches
<1>3. CASE req.op = "claim"
  BY <1>1, <1>3 DEF Requests, Valid, Matches, Claimable
<1>4. CASE req.op \in {"complete", "fail"}
  BY <1>1, <1>4 DEF Requests, Valid, Matches
<1>5. QED
  BY <1>1, <1>2, <1>3, <1>4

\* A commit keeps the records consistent and the dependencies in order.
LEMMA CommitKeepsOrder ==
  ASSUME StoreInv, NEW c \in Clients, Commit(c)
  PROVE  RecordsConsistent' /\ DependenciesFirst' /\ DependenciesExist'
<1> DEFINE req == request[c]
<1>1. req \in Requests /\ TypeOK
  BY CommitGuard DEF StoreInv
<1>2. req.task \in Tasks /\ NewRow(req) \in Rows
  BY <1>1, NewRowIs
<1>3. /\ status'[req.task] = NewRow(req).status
      /\ owner'[req.task] = NewRow(req).owner
      /\ dependencies'[req.task] = NewRow(req).deps
      /\ \A u \in Tasks \ {req.task} : /\ status'[u] = status[u] /\ owner'[u] = owner[u]
                                      /\ dependencies'[u] = dependencies[u]
  BY <1>1, <1>2, CommitGuard, StoreEffect
<1>4. RecordsConsistent /\ DependenciesFirst /\ DependenciesExist
      /\ NoOwner \notin Owners /\ dependencies \in [Tasks -> SUBSET Tasks]
  BY TaskStoreAssumption DEF StoreInv, TypeOK
<1>5. CASE req.op = "create"
  <2>1. /\ status[req.task] = "absent" /\ status'[req.task] = "pending"
        /\ owner'[req.task] = NoOwner
        /\ dependencies'[req.task] = req.deps /\ req.deps \subseteq Tasks
        /\ \A d \in req.deps : status[d] # "absent"
    BY <1>1, <1>3, <1>5, CommitGuard, NewRowIs
  <2>2. QED
    BY <1>2, <1>3, <1>4, <2>1 DEF RecordsConsistent, DependenciesFirst, DependenciesExist
<1>6. CASE req.op = "claim"
  <2>1. /\ status[req.task] = "pending" /\ status'[req.task] = "in_progress"
        /\ owner'[req.task] \in Owners
        /\ dependencies'[req.task] = dependencies[req.task]
        /\ \A d \in dependencies[req.task] : status[d] = "completed"
    BY <1>1, <1>3, <1>6, CommitGuard, NewRowIs
  <2>2. QED
    BY <1>2, <1>3, <1>4, <2>1 DEF RecordsConsistent, DependenciesFirst, DependenciesExist
<1>7. CASE req.op \in {"complete", "fail"}
  <2>1. /\ status[req.task] = "in_progress" /\ status'[req.task] \in {"completed", "failed"}
        /\ owner'[req.task] = owner[req.task]
        /\ dependencies'[req.task] = dependencies[req.task]
    BY <1>1, <1>3, <1>7, CommitGuard, NewRowIs
  <2>2. QED
    BY <1>2, <1>3, <1>4, <2>1 DEF RecordsConsistent, DependenciesFirst, DependenciesExist
<1>8. QED
  BY <1>1, <1>5, <1>6, <1>7, NewRowIs

\* StoreInv is an invariant of every interleaving of transactions, failures and
\* crashes.
THEOREM StoreInvariant == Spec => []StoreInv
<1>1. Init => StoreInv
  BY DEF Init, StoreInv, TypeOK, Statuses, OneWriter, DraftIsNext, RecordsConsistent, DependenciesFirst,
         DependenciesExist
<1>2. StoreInv /\ [Next]_vars => StoreInv'
  <2> SUFFICES ASSUME StoreInv, [Next]_vars PROVE StoreInv'
    OBVIOUS
  <2> USE TaskStoreAssumption
  <2>1. ASSUME NEW c \in Clients, NEW req \in Requests, Begin(c, req) PROVE StoreInv'
    BY <2>1 DEF Begin, WriteLockFree, Become, tableVars, StoreInv, TypeOK, OneWriter,
                DraftIsNext, RecordsConsistent, DependenciesFirst, DependenciesExist, Valid, Matches, NewRow, Claimable
  <2>2. ASSUME NEW c \in Clients, Check(c) PROVE StoreInv'
    <3>1. TypeOK' /\ OneWriter' /\ RecordsConsistent' /\ DependenciesFirst' /\ DependenciesExist'
      BY <2>2 DEF Check, Become, tableVars, StoreInv, TypeOK, OneWriter, RecordsConsistent, DependenciesFirst,
                  DependenciesExist
    <3>2. \A req : Valid(req)' = Valid(req) /\ Matches(req)' = Matches(req)
                     /\ NewRow(req)' = NewRow(req)
      BY <2>2 DEF Check, tableVars, Valid, Matches, NewRow, Claimable
    <3>3. stage'[c] = "checked" => Valid(request[c])
      BY <2>2 DEF Check, Become, StoreInv, TypeOK
    <3>4. DraftIsNext'
      BY <2>2, <3>2, <3>3 DEF Check, Become, StoreInv, TypeOK, DraftIsNext
    <3>5. QED
      BY <3>1, <3>4 DEF StoreInv
  <2>3. ASSUME NEW c \in Clients, Write(c) PROVE StoreInv'
    <3>1. request[c] \in Requests /\ NewRow(request[c]) \in Rows
      BY <2>3, NewRowIs DEF Write, StoreInv, TypeOK
    <3>2. TypeOK'
      BY <2>3, <3>1 DEF Write, Become, tableVars, StoreInv, TypeOK
    <3>3. OneWriter' /\ RecordsConsistent' /\ DependenciesFirst' /\ DependenciesExist'
      BY <2>3 DEF Write, Become, tableVars, StoreInv, TypeOK, OneWriter, RecordsConsistent, DependenciesFirst,
                  DependenciesExist
    <3>4. \A req : Valid(req)' = Valid(req) /\ Matches(req)' = Matches(req)
                     /\ NewRow(req)' = NewRow(req)
      BY <2>3 DEF Write, tableVars, Valid, Matches, NewRow, Claimable
    <3>5. DraftIsNext'
      BY <2>3, <3>4 DEF Write, Become, StoreInv, TypeOK, OneWriter, DraftIsNext
    <3>6. QED
      BY <3>2, <3>3, <3>5 DEF StoreInv
  <2>4. ASSUME NEW c \in Clients, Commit(c) PROVE StoreInv'
    <3>1. /\ status' \in [Tasks -> Statuses]
          /\ owner' \in [Tasks -> Owners \cup {NoOwner}]
          /\ dependencies' \in [Tasks -> SUBSET Tasks]
      BY <2>4, CommitGuard, NewRowIs, StoreEffect DEF StoreInv
    <3>2. TypeOK' /\ OneWriter' /\ DraftIsNext'
      BY <2>4, <3>1 DEF Commit, EndTransaction, Become, StoreInv, TypeOK, OneWriter, DraftIsNext
    <3>3. QED
      BY <2>4, <3>2, CommitKeepsOrder DEF StoreInv
  <2>5. ASSUME NEW c \in Clients, ReadBackFails(c) PROVE StoreInv'
    BY <2>5 DEF ReadBackFails, Become, tableVars, StoreInv, TypeOK, OneWriter, DraftIsNext,
                RecordsConsistent, DependenciesFirst, DependenciesExist, Valid, Matches, NewRow, Claimable
  <2>6. ASSUME NEW c \in Clients, Rollback(c) \/ Crash(c) PROVE StoreInv'
    BY <2>6 DEF Rollback, Crash, ReleaseWriteLock, EndTransaction, Become, tableVars, StoreInv,
                TypeOK, OneWriter, DraftIsNext, RecordsConsistent, DependenciesFirst, DependenciesExist
  <2>7. CASE UNCHANGED vars
    BY <2>7 DEF vars, tableVars, StoreInv, TypeOK, OneWriter, DraftIsNext, RecordsConsistent, DependenciesFirst,
                DependenciesExist, Valid, Matches, NewRow, Claimable
  <2>8. QED
    BY <2>1, <2>2, <2>3, <2>4, <2>5, <2>6, <2>7 DEF Next, TransactionStep
<1>3. QED
  BY <1>1, <1>2, PTL DEF Spec

\* No task is worked on before everything it depends on is completed.
THEOREM DependenciesComeFirst == Spec => []DependenciesFirst
BY StoreInvariant, PTL DEF StoreInv

\* The row of a task is taken by one owner, ends once and keeps its dependencies,
\* through any interleaving of transactions of several connections.
THEOREM OwnersKeepTheirTasks == Spec => TasksKeepTheirOwner
<1> DEFINE Kept(t) ==
      /\ status[t] = "in_progress" =>
           status'[t] \in {"in_progress", "completed", "failed"} /\ owner'[t] = owner[t]
      /\ status[t] \in {"completed", "failed"} =>
           status'[t] = status[t] /\ owner'[t] = owner[t]
      /\ status[t] # "absent" =>
           status'[t] # "absent" /\ dependencies'[t] = dependencies[t]
<1>1. StoreInv /\ [Next]_vars => [\A t \in Tasks : Kept(t)]_vars
  <2> SUFFICES ASSUME StoreInv, [Next]_vars PROVE \A t \in Tasks : Kept(t)
    OBVIOUS
  <2>1. ASSUME NEW c \in Clients, Commit(c) PROVE \A t \in Tasks : Kept(t)
    <3> DEFINE req == request[c]
    <3>1. req \in Requests /\ TypeOK /\ Store(req.task, NewRow(req))
      BY <2>1, CommitGuard DEF StoreInv
    <3>2. req.task \in Tasks /\ NewRow(req) \in Rows
      BY <3>1, NewRowIs
    <3>3. /\ status'[req.task] = NewRow(req).status
          /\ owner'[req.task] = NewRow(req).owner
          /\ dependencies'[req.task] = NewRow(req).deps
          /\ \A u \in Tasks \ {req.task} : Kept(u)
      BY <3>1, <3>2, StoreEffect
    <3>4. Kept(req.task)
      <4>1. CASE req.op = "create"
        BY <2>1, <4>1, CommitGuard
      <4>2. CASE req.op = "claim"
        BY <2>1, <3>1, <3>3, <4>2, CommitGuard, NewRowIs
      <4>3. CASE req.op \in {"complete", "fail"}
        BY <2>1, <3>1, <3>3, <4>3, CommitGuard, NewRowIs
      <4> QED BY <3>1, <4>1, <4>2, <4>3, NewRowIs
    <3> QED BY <3>3, <3>4
  <2>2. CASE UNCHANGED tableVars
    BY <2>2 DEF tableVars
  <2>3. ASSUME NEW c \in Clients, \/ \E req \in Requests : Begin(c, req)
                                  \/ Check(c) \/ Write(c) \/ ReadBackFails(c)
                                  \/ Rollback(c) \/ Crash(c)
        PROVE UNCHANGED tableVars
    BY <2>3 DEF Begin, Check, Write, ReadBackFails, Rollback, Crash
  <2>4. UNCHANGED vars => UNCHANGED tableVars
    BY DEF vars
  <2> QED BY <2>1, <2>2, <2>3, <2>4 DEF Next, TransactionStep
<1>2. QED
  BY <1>1, StoreInvariant, PTL DEF Spec, TasksKeepTheirOwner

\* The transactions implement the atomic task board.
THEOREM Refinement == Spec => ImplementsTaskBoard
<1>1. Init => Board!Init
  BY DEF Init, Board!Init
<1>2. StoreInv /\ [Next]_vars => [Board!Next]_(Board!vars)
  <2> SUFFICES ASSUME StoreInv, [Next]_vars PROVE [Board!Next]_(Board!vars)
    OBVIOUS
  <2>1. ASSUME NEW c \in Clients, Commit(c) PROVE Board!Next
    <3> DEFINE req == request[c]
    <3>1. req \in Requests /\ TypeOK /\ Store(req.task, NewRow(req))
      BY <2>1, CommitGuard DEF StoreInv
    <3>2. req.task \in Tasks
      BY <3>1, NewRowIs
    <3>3. CASE req.op = "create"
      <4>1. /\ status' = [status EXCEPT ![req.task] = "pending"]
            /\ owner' = [owner EXCEPT ![req.task] = NoOwner]
            /\ dependencies' = [dependencies EXCEPT ![req.task] = req.deps]
        BY <3>1, <3>3, NewRowIs DEF Store
      <4>2. owner[req.task] = NoOwner
        BY <2>1, <3>2, <3>3, CommitGuard DEF StoreInv, RecordsConsistent
      <4>3. owner' = owner
        BY <3>1, <4>1, <4>2 DEF TypeOK
      <4>4. Board!Create(req.task, req.deps)
        BY <2>1, <3>3, <4>1, <4>3, CommitGuard DEF Board!Create
      <4>5. req.deps \in SUBSET Tasks
        BY <2>1, <3>3, CommitGuard
      <4>6. QED
        BY <3>2, <4>4, <4>5 DEF Board!Next
    <3>4. CASE req.op = "claim"
      <4>1. /\ status' = [status EXCEPT ![req.task] = "in_progress"]
            /\ owner' = [owner EXCEPT ![req.task] = req.owner]
            /\ dependencies' = [dependencies EXCEPT ![req.task] = dependencies[req.task]]
        BY <3>1, <3>4, NewRowIs DEF Store
      <4>2. dependencies' = dependencies
        BY <3>1, <4>1 DEF TypeOK
      <4>3. Board!Claim(req.task, req.owner)
        BY <2>1, <3>4, <4>1, <4>2, CommitGuard DEF Board!Claim
      <4>4. req.owner \in Owners
        BY <2>1, <3>4, CommitGuard
      <4>5. QED
        BY <3>2, <4>3, <4>4 DEF Board!Next
    <3>5. CASE req.op \in {"complete", "fail"}
      <4>1. /\ status' = [status EXCEPT ![req.task] = NewRow(req).status]
            /\ owner' = [owner EXCEPT ![req.task] = owner[req.task]]
            /\ dependencies' = [dependencies EXCEPT ![req.task] = dependencies[req.task]]
            /\ NewRow(req).status \in {"completed", "failed"}
        BY <3>1, <3>5, NewRowIs DEF Store
      <4>2. owner' = owner /\ dependencies' = dependencies
        BY <3>1, <4>1 DEF TypeOK
      <4>3. Board!Finish(req.task, req.owner, NewRow(req).status)
        BY <2>1, <3>5, <4>1, <4>2, CommitGuard DEF Board!Finish
      <4>4. req.owner \in Owners
        BY <2>1, <3>5, CommitGuard
      <4>5. QED
        BY <3>2, <4>1, <4>3, <4>4 DEF Board!Next
    <3>6. QED
      BY <3>1, <3>3, <3>4, <3>5, NewRowIs
  <2>2. ASSUME NEW c \in Clients, \/ \E req \in Requests : Begin(c, req)
                                  \/ Check(c) \/ Write(c) \/ ReadBackFails(c)
                                  \/ Rollback(c) \/ Crash(c)
        PROVE UNCHANGED Board!vars
    BY <2>2 DEF Begin, Check, Write, ReadBackFails, Rollback, Crash, tableVars, Board!vars
  <2>3. CASE UNCHANGED vars
    BY <2>3 DEF vars, tableVars, Board!vars
  <2>4. QED
    BY <2>1, <2>2, <2>3 DEF Next, TransactionStep
<1>3. QED
  BY <1>1, <1>2, StoreInvariant, PTL DEF Spec, Board!Spec, ImplementsTaskBoard
=============================================================================
