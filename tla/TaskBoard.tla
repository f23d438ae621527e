----------------------------- MODULE TaskBoard -----------------------------
(***************************************************************************)
(* What a TaskStore (src/harness/capabilities/task_system.py) promises:    *)
(* every operation happens at once.  InMemoryTaskStore, one lock around a  *)
(* dictionary, is this specification.                                      *)
(***************************************************************************)
CONSTANTS Tasks, Owners, NoOwner

VARIABLES status, owner, dependencies

vars == <<status, owner, dependencies>>

Init ==
  /\ status = [t \in Tasks |-> "absent"]
  /\ owner = [t \in Tasks |-> NoOwner]
  /\ dependencies = [t \in Tasks |-> {}]

Create(t, ds) ==
  /\ status[t] = "absent"
  /\ \A d \in ds : status[d] # "absent"
  /\ status' = [status EXCEPT ![t] = "pending"]
  /\ dependencies' = [dependencies EXCEPT ![t] = ds]
  /\ UNCHANGED owner

\* _validate_claim.
Claim(t, o) ==
  /\ status[t] = "pending"
  /\ \A d \in dependencies[t] : status[d] = "completed"
  /\ status' = [status EXCEPT ![t] = "in_progress"]
  /\ owner' = [owner EXCEPT ![t] = o]
  /\ UNCHANGED dependencies

\* _validate_finish.
Finish(t, o, st) ==
  /\ status[t] = "in_progress" /\ owner[t] = o
  /\ status' = [status EXCEPT ![t] = st]
  /\ UNCHANGED <<owner, dependencies>>

Next ==
  \E t \in Tasks :
    \/ \E ds \in SUBSET Tasks : Create(t, ds)
    \/ \E o \in Owners : \/ Claim(t, o)
                         \/ \E st \in {"completed", "failed"} : Finish(t, o, st)

Spec == Init /\ [][Next]_vars
=============================================================================
