--------------------------- MODULE ConcurrencyPool ---------------------------
(***************************************************************************)
(* _ConcurrencyPool (src/services/model_gateway.py): the slots of one      *)
(* quota scope, shared by the processes of a machine.  A slot is a file;   *)
(* its flock belongs to the open file of one lease.  Within a process the  *)
(* slots in use are also kept in _active_slots, under a mutex.  An         *)
(* acquisition looks at the slots one by one while other processes go on,  *)
(* and a release unlocks the file before it takes the mutex.               *)
(***************************************************************************)
EXTENDS Naturals, FiniteSets

CONSTANTS
  Procs,       \* processes that open the lock directory
  Callers,     \* threads and coroutines that call models
  procOf,      \* the process of each caller
  maxConcurrency,  \* what each process configures for the scope
  Nobody

ASSUME PoolAssumption ==
  /\ IsFiniteSet(Procs)
  /\ procOf \in [Callers -> Procs]
  /\ maxConcurrency \in [Procs -> Nat \ {0}]
  /\ Nobody \notin Callers

SlotsOf(p) == 0..(maxConcurrency[p] - 1)
AllSlots == UNION {SlotsOf(p) : p \in Procs}

VARIABLES
  lockedBy,      \* the caller whose open file holds the flock of a slot
  activeSlots,   \* _active_slots of each process
  mutex,         \* the caller inside _mutex of each process
  stage,         \* "idle", "scan", "leased", "unlocked" (release before its mutex)
  slot           \* the slot a caller looks at, holds or gives back

vars == <<lockedBy, activeSlots, mutex, stage, slot>>

TypeOK ==
  /\ lockedBy \in [AllSlots -> Callers \cup {Nobody}]
  /\ activeSlots \in [Procs -> SUBSET AllSlots]
  /\ \A p \in Procs : activeSlots[p] \subseteq SlotsOf(p)
  /\ mutex \in [Procs -> Callers \cup {Nobody}]
  /\ stage \in [Callers -> {"idle", "scan", "leased", "unlocked"}]
  /\ slot \in [Callers -> Nat]

Init ==
  /\ lockedBy = [s \in AllSlots |-> Nobody]
  /\ activeSlots = [p \in Procs |-> {}]
  /\ mutex = [p \in Procs |-> Nobody]
  /\ stage = [c \in Callers |-> "idle"]
  /\ slot = [c \in Callers |-> 0]

-----------------------------------------------------------------------------
\* _slot_paths of the caller's process.
Slots(c) == SlotsOf(procOf[c])

Active(c) == activeSlots[procOf[c]]
MutexFree(c) == mutex[procOf[c]] = Nobody
LeaveMutex(c) == mutex' = [mutex EXCEPT ![procOf[c]] = Nobody]
Become(c, st) == stage' = [stage EXCEPT ![c] = st]

\* try_acquire enters the mutex.
TryAcquire(c) ==
  /\ stage[c] = "idle" /\ MutexFree(c)
  /\ mutex' = [mutex EXCEPT ![procOf[c]] = c]
  /\ Become(c, "scan")
  /\ slot' = [slot EXCEPT ![c] = 0]
  /\ UNCHANGED <<lockedBy, activeSlots>>

\* Mutant: the slot files are locked shared.
LockableShared(c) == slot[c] \notin Active(c)

\* The slot under examination is not used here and its file is not locked.
Lockable(c) == slot[c] \notin Active(c) /\ lockedBy[slot[c]] = Nobody

TakeSlot(c) ==
  /\ stage[c] = "scan" /\ slot[c] \in Slots(c) /\ Lockable(c)
  /\ lockedBy' = [lockedBy EXCEPT ![slot[c]] = c]
  /\ activeSlots' = [activeSlots EXCEPT ![procOf[c]] = @ \cup {slot[c]}]
  /\ LeaveMutex(c)
  /\ Become(c, "leased")
  /\ UNCHANGED slot

SkipSlot(c) ==
  /\ stage[c] = "scan" /\ slot[c] \in Slots(c) /\ ~Lockable(c)
  /\ slot' = [slot EXCEPT ![c] = @ + 1]
  /\ UNCHANGED <<lockedBy, activeSlots, mutex, stage>>

\* Every slot was taken when it was looked at.
AtCapacity(c) ==
  /\ stage[c] = "scan" /\ slot[c] \notin Slots(c)
  /\ LeaveMutex(c)
  /\ Become(c, "idle")
  /\ UNCHANGED <<lockedBy, activeSlots, slot>>

\* release: LOCK_UN and close, outside the mutex.
Unlock(c) ==
  /\ stage[c] = "leased"
  /\ lockedBy' = [lockedBy EXCEPT ![slot[c]] = Nobody]
  /\ Become(c, "unlocked")
  /\ UNCHANGED <<activeSlots, mutex, slot>>

\* Mutant: only the file lock is given back.
DiscardNothing(c) == UNCHANGED activeSlots

\* _active_slots.discard.
DiscardActive(c) == activeSlots' = [activeSlots EXCEPT ![procOf[c]] = @ \ {slot[c]}]

Discard(c) ==
  /\ stage[c] = "unlocked" /\ MutexFree(c)
  /\ DiscardActive(c)
  /\ Become(c, "idle")
  /\ UNCHANGED <<lockedBy, mutex, slot>>

\* A process dies: the kernel closes its files.  It starts again with an empty
\* _active_slots; the lock files stay.
Die(p) ==
  LET mine == {c \in Callers : procOf[c] = p}
  IN /\ lockedBy' = [s \in AllSlots |-> IF lockedBy[s] \in mine THEN Nobody ELSE lockedBy[s]]
     /\ activeSlots' = [activeSlots EXCEPT ![p] = {}]
     /\ mutex' = [mutex EXCEPT ![p] = Nobody]
     /\ stage' = [c \in Callers |-> IF c \in mine THEN "idle" ELSE stage[c]]
     /\ UNCHANGED slot

-----------------------------------------------------------------------------
CallerStep(c) ==
  TryAcquire(c) \/ TakeSlot(c) \/ SkipSlot(c) \/ AtCapacity(c) \/ Unlock(c) \/ Discard(c)

Next ==
  \/ \E c \in Callers : CallerStep(c)
  \/ \E p \in Procs : Die(p)

Spec == Init /\ [][Next]_vars

\* A caller inside the mutex goes on; one that waits for it gets it in the end;
\* a provider call ends and its lease is released.  Nobody has to ask again.
Fairness ==
  \A c \in Callers :
    /\ WF_vars(TakeSlot(c) \/ SkipSlot(c) \/ AtCapacity(c) \/ Unlock(c))
    /\ SF_vars(Discard(c))

FairSpec == Spec /\ Fairness

-----------------------------------------------------------------------------
\* The bookkeeping of a process says exactly which slots its own callers use or
\* are giving back: no marker survives its lease, whoever unlocks in between.
ActiveSlotsAreUsed ==
  \A p \in Procs :
    activeSlots[p] = {slot[c] : c \in {d \in Callers : /\ procOf[d] = p
                                                      /\ stage[d] \in {"leased", "unlocked"}}}

\* Every lease holds the file lock of its slot, so two leases never share one.
LeaseHoldsItsFile ==
  \A c \in Callers : stage[c] = "leased" => lockedBy[slot[c]] = c

\* A caller is inside its process's mutex exactly while it scans.
MutexHeldByScanner ==
  \A p \in Procs, c \in Callers :
    mutex[p] = c <=> procOf[c] = p /\ stage[c] = "scan"

\* Two callers of a process never use, or give back, the same slot.
SlotsDiffer ==
  \A c, d \in Callers :
    /\ c # d /\ procOf[c] = procOf[d]
    /\ stage[c] \in {"leased", "unlocked"} /\ stage[d] \in {"leased", "unlocked"}
    => slot[c] # slot[d]

\* The inductive invariant.
PoolInv ==
  /\ TypeOK
  /\ MutexHeldByScanner
  /\ ActiveSlotsAreUsed
  /\ SlotsDiffer
  /\ LeaseHoldsItsFile

\* A slot marked in use is unmarked in the end: no release is held up for ever by
\* the callers that keep scanning, and none is forgotten.
SlotsComeBack ==
  \A p \in Procs, s \in AllSlots : s \in activeSlots[p] ~> s \notin activeSlots[p]

-----------------------------------------------------------------------------
\* Processes that configure different limits share the files of the largest.
PoolQuota == INSTANCE Quota WITH
               Limit  <- Cardinality(AllSlots),
               leased <- {c \in Callers : stage[c] = "leased"},
               asking <- {c \in Callers : stage[c] = "scan"}

\* The pool is a quota: however processes scan, release and die, there are never
\* more leases than slots.
ImplementsQuota == PoolQuota!Spec
=============================================================================
