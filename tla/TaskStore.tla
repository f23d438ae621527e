----------------------------- MODULE TaskStore -----------------------------
(***************************************************************************)
(* SQLiteTaskStore (src/services/stores.py): create, claim, complete and   *)
(* fail as SQLite transactions of several statements, on connections of    *)
(* several processes to one database file.  BEGIN IMMEDIATE takes the only *)
(* write lock of the database; what a transaction has written is seen by   *)
(* others after its COMMIT; a process that dies leaves nothing of it.      *)
(***************************************************************************)
CONSTANTS
  Tasks,       \* task ids, each drawn once
  Owners, NoOwner,
  Clients,     \* the connections: one store object each, guarded by its lock
  Nobody

ASSUME TaskStoreAssumption == NoOwner \notin Owners /\ Nobody \notin Clients

VARIABLES
  \* the committed table
  status, owner, dependencies,
  writer,      \* the client whose transaction holds the write lock
  stage,       \* of each client: "idle", "begun", "checked", "written", "failed"
  request,     \* the operation of each client
  draft        \* the row as the transaction has written it

tableVars == <<status, owner, dependencies>>
vars == <<tableVars, writer, stage, request, draft>>

Statuses == {"absent", "pending", "in_progress", "completed", "failed"}

\* An operation and its arguments.  The owner is whatever the caller says.
Requests ==
  [op : {"create"}, task : Tasks, owner : {NoOwner}, deps : SUBSET Tasks]
    \cup [op : {"claim", "complete", "fail"}, task : Tasks, owner : Owners, deps : {{}}]

Rows == [status : Statuses, owner : Owners \cup {NoOwner}, deps : SUBSET Tasks]

TypeOK ==
  /\ status \in [Tasks -> Statuses]
  /\ owner \in [Tasks -> Owners \cup {NoOwner}]
  /\ dependencies \in [Tasks -> SUBSET Tasks]
  /\ writer \in Clients \cup {Nobody}
  /\ stage \in [Clients -> {"idle", "begun", "checked", "written", "failed"}]
  /\ request \in [Clients -> Requests \cup {Nobody}]
  /\ draft \in [Clients -> Rows \cup {Nobody}]
  /\ \A c \in Clients : stage[c] # "idle" => request[c] \in Requests
  /\ \A c \in Clients : stage[c] = "written" => draft[c] \in Rows

Init ==
  /\ status = [t \in Tasks |-> "absent"]
  /\ owner = [t \in Tasks |-> NoOwner]
  /\ dependencies = [t \in Tasks |-> {}]
  /\ writer = Nobody
  /\ stage = [c \in Clients |-> "idle"]
  /\ request = [c \in Clients |-> Nobody]
  /\ draft = [c \in Clients |-> Nobody]

-----------------------------------------------------------------------------
Become(c, st) == stage' = [stage EXCEPT ![c] = st]

EndTransaction(c) ==
  /\ Become(c, "idle")
  /\ request' = [request EXCEPT ![c] = Nobody]
  /\ draft' = [draft EXCEPT ![c] = Nobody]

\* Mutant: the transaction is deferred, several begin at once.
WriteLockIgnored == TRUE

WriteLockFree == writer = Nobody

\* BEGIN IMMEDIATE.  (While the lock is taken it waits, or raises after the
\* busy timeout and nothing has happened.)
Begin(c, req) ==
  /\ stage[c] = "idle" /\ WriteLockFree
  /\ writer' = c
  /\ request' = [request EXCEPT ![c] = req]
  /\ Become(c, "begun")
  /\ UNCHANGED <<tableVars, draft>>

\* claim: pending, and no dependency that is not completed.
Claimable(t) ==
  status[t] = "pending" /\ \A d \in dependencies[t] : status[d] = "completed"

\* What the SELECTs of the operation must find.
Valid(req) ==
  CASE req.op = "create" -> \A d \in req.deps : status[d] # "absent"
    [] req.op = "claim" -> Claimable(req.task)
    [] OTHER -> status[req.task] = "in_progress" /\ owner[req.task] = req.owner

Check(c) ==
  /\ stage[c] = "begun"
  /\ Become(c, IF Valid(request[c]) THEN "checked" ELSE "failed")
  /\ UNCHANGED <<tableVars, writer, request, draft>>

\* Mutant: the row is updated by its id alone.
MatchesById(req) == TRUE

\* The WHERE clause of the UPDATE; a fresh id for the INSERT.
Matches(req) ==
  CASE req.op = "create" -> status[req.task] = "absent"
    [] req.op = "claim" -> status[req.task] = "pending"
    [] OTHER -> status[req.task] = "in_progress" /\ owner[req.task] = req.owner

NewRow(req) ==
  CASE req.op = "create" -> [status |-> "pending", owner |-> NoOwner, deps |-> req.deps]
    [] req.op = "claim" ->
         [status |-> "in_progress", owner |-> req.owner, deps |-> dependencies[req.task]]
    [] OTHER ->
         [status |-> IF req.op = "complete" THEN "completed" ELSE "failed",
          owner |-> owner[req.task], deps |-> dependencies[req.task]]

\* INSERT or UPDATE.  No row matched raises.
Write(c) ==
  /\ stage[c] = "checked"
  /\ IF Matches(request[c])
     THEN /\ draft' = [draft EXCEPT ![c] = NewRow(request[c])]
          /\ Become(c, "written")
     ELSE Become(c, "failed") /\ UNCHANGED draft
  /\ UNCHANGED <<tableVars, writer, request>>

\* The row read back is not a valid TaskRecord (an empty result reference).
ReadBackFails(c) ==
  /\ stage[c] = "written"
  /\ Become(c, "failed")
  /\ UNCHANGED <<tableVars, writer, request, draft>>

\* The row of the table.
Store(t, row) ==
  /\ status' = [status EXCEPT ![t] = row.status]
  /\ owner' = [owner EXCEPT ![t] = row.owner]
  /\ dependencies' = [dependencies EXCEPT ![t] = row.deps]

Commit(c) ==
  /\ stage[c] = "written"
  /\ Store(request[c].task, draft[c])
  /\ writer' = Nobody
  /\ EndTransaction(c)

\* Mutant: the error path keeps the lock.
KeepLock == UNCHANGED writer

\* End of a transaction that changes nothing.
ReleaseWriteLock == writer' = Nobody

\* __exit__ with an error.
Rollback(c) ==
  /\ stage[c] = "failed"
  /\ ReleaseWriteLock
  /\ EndTransaction(c)
  /\ UNCHANGED tableVars

\* The process dies in the transaction.
Crash(c) ==
  /\ stage[c] # "idle"
  /\ writer' = Nobody
  /\ EndTransaction(c)
  /\ UNCHANGED tableVars

-----------------------------------------------------------------------------
TransactionStep(c) ==
  Check(c) \/ Write(c) \/ Commit(c) \/ ReadBackFails(c) \/ Rollback(c)

Next ==
  \E c \in Clients :
    \/ \E req \in Requests : Begin(c, req)
    \/ TransactionStep(c)
    \/ Crash(c)

Spec == Init /\ [][Next]_vars

\* A transaction contains no wait: its statements follow each other.
FairSpec == Spec /\ \A c \in Clients : WF_vars(TransactionStep(c))

-----------------------------------------------------------------------------
\* Nobody works on a task, or has finished it, while a dependency of it is not
\* completed, whoever claims and finishes what in between.
DependenciesFirst ==
  \A t \in Tasks :
    status[t] \in {"in_progress", "completed", "failed"} =>
      \A d \in dependencies[t] : status[d] = "completed"

\* Dependencies are acyclic: what a task depends on was there before it.
DependenciesExist ==
  \A t \in Tasks : \A d \in dependencies[t] : status[d] # "absent" /\ d # t

\* The write lock comes back after every transaction, also one that fails or dies.
LockComesBack == writer # Nobody ~> writer = Nobody

\* Every row passes TaskRecord's validator: it can be read back.
RecordsConsistent ==
  \A t \in Tasks : owner[t] = NoOwner <=> status[t] \in {"absent", "pending"}

\* At most one transaction is open, and it is the one that holds the lock.
OneWriter == \A c \in Clients : stage[c] # "idle" => writer = c

\* The row an open transaction has written follows from the committed table.
DraftIsNext ==
  \A c \in Clients :
    /\ stage[c] \in {"checked", "written"} => Valid(request[c])
    /\ stage[c] = "written" => Matches(request[c]) /\ draft[c] = NewRow(request[c])

\* The inductive invariant.
StoreInv ==
  /\ TypeOK
  /\ OneWriter
  /\ DraftIsNext
  /\ RecordsConsistent
  /\ DependenciesFirst
  /\ DependenciesExist

\* A task in progress stays with the owner that claimed it, one that has ended
\* never changes again, and a dependency list is fixed with the task: a transaction
\* that checked the row long ago cannot steal, reopen or rewire it.
TasksKeepTheirOwner ==
  [][\A t \in Tasks :
       /\ status[t] = "in_progress" =>
            status'[t] \in {"in_progress", "completed", "failed"} /\ owner'[t] = owner[t]
       /\ status[t] \in {"completed", "failed"} =>
            status'[t] = status[t] /\ owner'[t] = owner[t]
       /\ status[t] # "absent" =>
            status'[t] # "absent" /\ dependencies'[t] = dependencies[t]]_vars

-----------------------------------------------------------------------------
Board == INSTANCE TaskBoard

\* The transactions implement the atomic operations.
ImplementsTaskBoard == Board!Spec
=============================================================================
