------------------------------- MODULE RunLock -------------------------------
(***************************************************************************)
(* What ConversationService promises about one conversation, without       *)
(* handlers, records in flight or checkpoints: the row is a lock that one  *)
(* run holds from the message that starts it until the run ends, a run     *)
(* works only while it holds the lock, and a run parked on a permission    *)
(* request keeps the lock without working.  A run that has stopped working *)
(* still has to give the lock back; a cancellation may take it from the    *)
(* run before, and the run may then park all the same, but no other run    *)
(* can have the lock in between.                                           *)
(***************************************************************************)
CONSTANTS Conversations, Runs, NoRun

VARIABLES
  phase,     \* the lock: fresh, idle, running, waiting or deleted
  holder,    \* the run that holds it
  working,   \* the runs whose graph executes
  ending,    \* per conversation, the runs that stopped and have not returned
  spent      \* the runs that have been started

vars == <<phase, holder, working, ending, spent>>

Init ==
  /\ phase = [c \in Conversations |-> "fresh"]
  /\ holder = [c \in Conversations |-> NoRun]
  /\ working = {}
  /\ ending = [c \in Conversations |-> {}]
  /\ spent = {}

Move(c, from, to) == phase[c] = from /\ phase' = [phase EXCEPT ![c] = to]

Returns(c, r) == ending' = [ending EXCEPT ![c] = @ \ {r}]

Open(c) == Move(c, "fresh", "idle") /\ UNCHANGED <<holder, working, ending, spent>>

\* A fresh run takes the lock of a conversation that is idle, and at rest, and
\* starts to work.
Acquire(c, r) ==
  /\ Move(c, "idle", "running")
  /\ ending[c] = {}
  /\ r \notin spent
  /\ holder' = [holder EXCEPT ![c] = r]
  /\ working' = working \cup {r}
  /\ spent' = spent \cup {r}
  /\ UNCHANGED ending

\* The holder stops working and has not given the lock back yet.
Stop(c) ==
  /\ phase[c] = "running" /\ holder[c] \in working
  /\ working' = working \ {holder[c]}
  /\ ending' = [ending EXCEPT ![c] = @ \cup {holder[c]}]
  /\ UNCHANGED <<phase, holder, spent>>

\* The holder keeps the lock while it waits for a permission.
Park(c) ==
  /\ Move(c, "running", "waiting")
  /\ working' = working \ {holder[c]}
  /\ Returns(c, holder[c])
  /\ UNCHANGED <<holder, spent>>

Continue(c) ==
  /\ Move(c, "waiting", "running")
  /\ ending[c] = {}
  /\ working' = working \cup {holder[c]}
  /\ UNCHANGED <<holder, ending, spent>>

Release(c) ==
  /\ Move(c, "running", "idle")
  /\ holder' = [holder EXCEPT ![c] = NoRun]
  /\ working' = working \ {holder[c]}
  /\ Returns(c, holder[c])
  /\ UNCHANGED spent

\* A cancellation takes the lock from a holder that has stopped.
Break(c) ==
  /\ Move(c, "running", "idle")
  /\ holder[c] \in ending[c]
  /\ holder' = [holder EXCEPT ![c] = NoRun]
  /\ UNCHANGED <<working, ending, spent>>

\* The former holder returns: it leaves the broken lock, or takes it back to park.
Settle(c) ==
  /\ phase[c] = "idle"
  /\ \E r \in ending[c] : Returns(c, r)
  /\ UNCHANGED <<phase, holder, working, spent>>

Reclaim(c) ==
  /\ Move(c, "idle", "waiting")
  /\ \E r \in ending[c] : Returns(c, r) /\ holder' = [holder EXCEPT ![c] = r]
  /\ UNCHANGED <<working, spent>>

Remove(c) ==
  /\ Move(c, "idle", "deleted")
  /\ ending[c] = {}
  /\ UNCHANGED <<holder, working, ending, spent>>

AtRest == working = {} /\ ending = [c \in Conversations |-> {}]

Halt == AtRest' /\ UNCHANGED <<phase, holder, spent>>

\* After a restart nothing works: the locks of working runs are broken, the
\* locks of parked runs stay.
Recover ==
  /\ AtRest
  /\ phase' = [c \in Conversations |->
                 IF phase[c] = "running" THEN "idle" ELSE phase[c]]
  /\ holder' = [c \in Conversations |->
                  IF phase[c] = "running" THEN NoRun ELSE holder[c]]
  /\ UNCHANGED <<working, ending, spent>>

Next ==
  \/ \E c \in Conversations :
       \/ Open(c) \/ Stop(c) \/ Park(c) \/ Continue(c) \/ Release(c)
       \/ Break(c) \/ Settle(c) \/ Reclaim(c) \/ Remove(c)
       \/ \E r \in Runs : Acquire(c, r)
  \/ Halt
  \/ Recover

Spec == Init /\ [][Next]_vars
=============================================================================
