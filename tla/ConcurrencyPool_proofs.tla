----------------------- MODULE ConcurrencyPool_proofs -----------------------
(***************************************************************************)
(* The slots of a quota scope, for any number of processes and callers:    *)
(* the bookkeeping of every process agrees with the file locks, and the    *)
(* pool never grants more leases than the scope has slots.                 *)
(***************************************************************************)
EXTENDS ConcurrencyPool, FiniteSetTheorems, FunctionTheorems, TLAPS

USE PoolAssumption

\* The callers that hold a lease.
Leased == {c \in Callers : stage[c] = "leased"}

\* The lock files of a scope are finitely many: those of its largest limit.
LEMMA SlotsFinite == IsFiniteSet(AllSlots)
<1> DEFINE Sets == {SlotsOf(p) : p \in Procs}
           f == [p \in Procs |-> SlotsOf(p)]
<1>1. f \in Surjection(Procs, Sets)
  BY DEF Surjection
<1>2. IsFiniteSet(Sets)
  BY <1>1, FS_Surjection
<1>3. \A T \in Sets : IsFiniteSet(T)
  <2> SUFFICES ASSUME NEW p \in Procs PROVE IsFiniteSet(0..(maxConcurrency[p] - 1))
    BY DEF SlotsOf
  <2> maxConcurrency[p] - 1 \in Int
    OBVIOUS
  <2> QED BY FS_Interval
<1> HIDE DEF Sets
<1>4. IsFiniteSet(UNION Sets)
  BY <1>2, <1>3, FS_UNION
<1> QED BY <1>4 DEF AllSlots, Sets

\* A process starts with nothing in use.
LEMMA InitPool == Init => PoolInv
BY DEF Init, PoolInv, TypeOK, MutexHeldByScanner, ActiveSlotsAreUsed, SlotsDiffer,
       LeaseHoldsItsFile

\* A caller that uses or gives back a slot has marked it in its process.
LEMMA UsedIsActive ==
  ASSUME PoolInv, NEW c \in Callers, stage[c] \in {"leased", "unlocked"}
  PROVE  slot[c] \in activeSlots[procOf[c]] /\ slot[c] \in SlotsOf(procOf[c])
BY DEF PoolInv, TypeOK, ActiveSlotsAreUsed

\* Every action keeps the invariant.
LEMMA NextPool == PoolInv /\ [Next]_vars => PoolInv'
<1> SUFFICES ASSUME PoolInv, [Next]_vars PROVE PoolInv'
  OBVIOUS
<1> USE DEF PoolInv
<1>1. ASSUME NEW c \in Callers, TryAcquire(c) PROVE PoolInv'
  <2> USE <1>1 DEF TryAcquire, MutexFree, Become
  <2>1. TypeOK'
    BY DEF TypeOK
  <2>2. MutexHeldByScanner'
    BY DEF TypeOK, MutexHeldByScanner
  <2>3. ActiveSlotsAreUsed'
    BY DEF TypeOK, ActiveSlotsAreUsed
  <2>4. SlotsDiffer' /\ LeaseHoldsItsFile'
    BY DEF TypeOK, SlotsDiffer, LeaseHoldsItsFile
  <2> QED BY <2>1, <2>2, <2>3, <2>4
<1>2. ASSUME NEW c \in Callers, TakeSlot(c) PROVE PoolInv'
  <2> USE <1>2 DEF TakeSlot, Lockable, LeaveMutex, Become
  <2> slot[c] \in SlotsOf(procOf[c]) /\ slot[c] \in AllSlots
    BY DEF Slots, AllSlots
  <2>1. TypeOK'
    BY DEF TypeOK
  <2>2. MutexHeldByScanner'
    BY DEF TypeOK, MutexHeldByScanner
  <2>3. ActiveSlotsAreUsed'
    BY DEF TypeOK, ActiveSlotsAreUsed
  <2>4. SlotsDiffer'
    <3> \A d \in Callers : /\ procOf[d] = procOf[c]
                           /\ stage[d] \in {"leased", "unlocked"}
                           => slot[d] # slot[c]
      BY UsedIsActive DEF Active
    <3> QED BY DEF TypeOK, SlotsDiffer
  <2>5. LeaseHoldsItsFile'
    BY DEF TypeOK, LeaseHoldsItsFile
  <2> QED BY <2>1, <2>2, <2>3, <2>4, <2>5
<1>3. ASSUME NEW c \in Callers, SkipSlot(c) PROVE PoolInv'
  <2> USE <1>3 DEF SkipSlot
  <2>1. TypeOK' /\ MutexHeldByScanner'
    BY DEF TypeOK, MutexHeldByScanner
  <2>2. ActiveSlotsAreUsed'
    BY DEF TypeOK, ActiveSlotsAreUsed
  <2>3. SlotsDiffer' /\ LeaseHoldsItsFile'
    BY DEF TypeOK, SlotsDiffer, LeaseHoldsItsFile
  <2> QED BY <2>1, <2>2, <2>3
<1>4. ASSUME NEW c \in Callers, AtCapacity(c) PROVE PoolInv'
  <2> USE <1>4 DEF AtCapacity, LeaveMutex, Become
  <2>1. TypeOK' /\ MutexHeldByScanner'
    BY DEF TypeOK, MutexHeldByScanner
  <2>2. ActiveSlotsAreUsed'
    BY DEF TypeOK, ActiveSlotsAreUsed
  <2>3. SlotsDiffer' /\ LeaseHoldsItsFile'
    BY DEF TypeOK, SlotsDiffer, LeaseHoldsItsFile
  <2> QED BY <2>1, <2>2, <2>3
<1>5. ASSUME NEW c \in Callers, Unlock(c) PROVE PoolInv'
  <2> USE <1>5 DEF Unlock, Become
  <2> lockedBy[slot[c]] = c
    BY DEF LeaseHoldsItsFile
  <2>1. TypeOK' /\ MutexHeldByScanner'
    <3>1. TypeOK'
      BY DEF TypeOK
    <3>2. MutexHeldByScanner'
      BY DEF TypeOK, MutexHeldByScanner
    <3> QED BY <3>1, <3>2
  <2>2. ActiveSlotsAreUsed'
    BY DEF TypeOK, ActiveSlotsAreUsed
  <2>3. SlotsDiffer' /\ LeaseHoldsItsFile'
    BY DEF TypeOK, SlotsDiffer, LeaseHoldsItsFile
  <2> QED BY <2>1, <2>2, <2>3
<1>6. ASSUME NEW c \in Callers, Discard(c) PROVE PoolInv'
  <2> USE <1>6 DEF Discard, DiscardActive, MutexFree, Become
  <2>1. TypeOK' /\ MutexHeldByScanner'
    BY DEF TypeOK, MutexHeldByScanner
  <2>2. ActiveSlotsAreUsed'
    BY DEF TypeOK, ActiveSlotsAreUsed, SlotsDiffer
  <2>3. SlotsDiffer' /\ LeaseHoldsItsFile'
    BY DEF TypeOK, SlotsDiffer, LeaseHoldsItsFile
  <2> QED BY <2>1, <2>2, <2>3
<1>7. ASSUME NEW p \in Procs, Die(p) PROVE PoolInv'
  <2> USE <1>7 DEF Die
  <2>1. TypeOK' /\ MutexHeldByScanner'
    BY DEF TypeOK, MutexHeldByScanner
  <2>2. ActiveSlotsAreUsed'
    BY DEF TypeOK, ActiveSlotsAreUsed
  <2>3. SlotsDiffer'
    BY DEF TypeOK, SlotsDiffer
  <2>4. LeaseHoldsItsFile'
    <3> SUFFICES ASSUME NEW c \in Callers, stage'[c] = "leased"
                 PROVE  lockedBy'[slot[c]] = c
      BY DEF LeaseHoldsItsFile
    <3>1. procOf[c] # p /\ stage[c] = "leased"
      BY DEF TypeOK
    <3>2. slot[c] \in AllSlots /\ lockedBy[slot[c]] = c
      BY <3>1, UsedIsActive DEF AllSlots, LeaseHoldsItsFile
    <3> QED BY <3>1, <3>2 DEF TypeOK
  <2> QED BY <2>1, <2>2, <2>3, <2>4
<1>8. CASE UNCHANGED vars
  BY <1>8 DEF vars, TypeOK, MutexHeldByScanner, ActiveSlotsAreUsed, SlotsDiffer,
              LeaseHoldsItsFile
<1> QED
  BY <1>1, <1>2, <1>3, <1>4, <1>5, <1>6, <1>7, <1>8 DEF Next, CallerStep

\* The inductive invariant holds in every reachable state.
THEOREM PoolInvariant == Spec => []PoolInv
BY InitPool, NextPool, PTL DEF Spec

\* For every number of processes, callers and slots: every lease holds the file
\* lock of its slot, so no two leases share one (_SlotLease, try_acquire).
THEOREM LeasesHoldFiles == Spec => []LeaseHoldsItsFile
<1> PoolInv => LeaseHoldsItsFile
  BY DEF PoolInv
<1> QED BY PoolInvariant, PTL

\* For every number of processes, callers and slots: _active_slots never keeps
\* a slot its process neither uses nor is giving back.
THEOREM NoStaleMarker == Spec => []ActiveSlotsAreUsed
<1> PoolInv => ActiveSlotsAreUsed
  BY DEF PoolInv
<1> QED BY PoolInvariant, PTL

\* The leases fit in the slots: the slot of a lease identifies it.
LEMMA LeasesFit ==
  ASSUME PoolInv
  PROVE  IsFiniteSet(Leased) /\ Cardinality(Leased) <= Cardinality(AllSlots)
<1> DEFINE f == [c \in Leased |-> slot[c]]
<1>1. f \in [Leased -> AllSlots]
  BY UsedIsActive DEF Leased, AllSlots
<1>2. \A c, d \in Leased : f[c] = f[d] => c = d
  BY DEF Leased, PoolInv, LeaseHoldsItsFile
<1>3. f \in Injection(Leased, AllSlots)
  BY <1>1, <1>2 DEF Injection, IsInjective
<1> QED BY <1>3, SlotsFinite, FS_Injection

\* Every step of the pool is a step of the quota, or none.
LEMMA NextQuota ==
  ASSUME PoolInv, PoolInv', [Next]_vars
  PROVE  [PoolQuota!Next]_PoolQuota!vars
<1> DEFINE Asking == {c \in Callers : stage[c] = "scan"}
<1> SUFFICES \/ PoolQuota!Next
             \/ Leased' = Leased /\ Asking' = Asking
  BY DEF PoolQuota!vars, Leased
<1> USE DEF PoolInv
<1>1. ASSUME NEW c \in Callers, TryAcquire(c) PROVE PoolQuota!Ask(c)
  BY <1>1 DEF TryAcquire, Become, PoolQuota!Ask, TypeOK
<1>2. ASSUME NEW c \in Callers, TakeSlot(c) PROVE PoolQuota!Grant(c)
  <2>1. Leased' = Leased \cup {c} /\ c \notin Leased
    BY <1>2 DEF TakeSlot, Become, TypeOK, Leased
  <2>2. IsFiniteSet(Leased') /\ Cardinality(Leased') <= Cardinality(AllSlots)
    <3> DEFINE f == [d \in Leased' |-> slot'[d]]
    <3>1. \A d \in Leased' : slot'[d] \in AllSlots /\ lockedBy'[slot'[d]] = d
      <4> SUFFICES ASSUME NEW d \in Leased'
                   PROVE  slot'[d] \in AllSlots /\ lockedBy'[slot'[d]] = d
        OBVIOUS
      <4>1. d \in Callers /\ stage'[d] = "leased"
        BY DEF Leased
      <4>2. slot'[d] \in activeSlots'[procOf[d]]
        BY <4>1 DEF ActiveSlotsAreUsed
      <4> QED BY <4>1, <4>2 DEF TypeOK, AllSlots, LeaseHoldsItsFile
    <3>2. f \in Injection(Leased', AllSlots)
      BY <3>1 DEF Injection, IsInjective
    <3> QED BY <3>2, SlotsFinite, FS_Injection
  <2>3. Cardinality(Leased) < Cardinality(AllSlots)
    <3>1. IsFiniteSet(Leased)
      BY LeasesFit
    <3>2. Cardinality(Leased') = Cardinality(Leased) + 1
      BY <2>1, <3>1, FS_AddElement
    <3> QED BY <2>2, <3>1, <3>2, SlotsFinite, FS_CardinalityType
  <2>4. c \in Asking /\ Asking' = Asking \ {c}
    BY <1>2 DEF TakeSlot, Become, TypeOK
  <2>5. PoolQuota!Cardinality(Leased) = Cardinality(Leased)
    BY DEF PoolQuota!Cardinality, Cardinality
  <2> QED BY <2>1, <2>3, <2>4, <2>5 DEF PoolQuota!Grant, Leased
<1>3. ASSUME NEW c \in Callers, SkipSlot(c) PROVE Leased' = Leased /\ Asking' = Asking
  BY <1>3 DEF SkipSlot, Leased
<1>4. ASSUME NEW c \in Callers, AtCapacity(c) PROVE PoolQuota!Refuse(c)
  BY <1>4 DEF AtCapacity, Become, TypeOK, PoolQuota!Refuse
<1>5. ASSUME NEW c \in Callers, Unlock(c) PROVE PoolQuota!Release(c)
  BY <1>5 DEF Unlock, Become, TypeOK, PoolQuota!Release
<1>6. ASSUME NEW c \in Callers, Discard(c) PROVE Leased' = Leased /\ Asking' = Asking
  BY <1>6 DEF Discard, Become, TypeOK, Leased
<1>7. ASSUME NEW p \in Procs, Die(p) PROVE \E cs \in SUBSET Callers : PoolQuota!Die(cs)
  <2> DEFINE mine == {c \in Callers : procOf[c] = p}
  <2> PoolQuota!Die(mine)
    BY <1>7 DEF Die, TypeOK, PoolQuota!Die
  <2> QED OBVIOUS
<1>8. CASE UNCHANGED vars
  BY <1>8 DEF vars, Leased
<1> QED
  BY <1>1, <1>2, <1>3, <1>4, <1>5, <1>6, <1>7, <1>8 DEF Next, CallerStep, PoolQuota!Next

\* For every number of processes, callers and slots: however the processes scan
\* the slots, release and die, the pool grants a lease only while fewer callers
\* hold one than the scope has slots (try_acquire, release).
THEOREM Refinement == Spec => ImplementsQuota
<1>1. Init => PoolQuota!Init
  BY DEF Init, PoolQuota!Init
<1>2. PoolInv /\ PoolInv' /\ [Next]_vars => [PoolQuota!Next]_PoolQuota!vars
  BY NextQuota
<1> QED
  BY <1>1, <1>2, PoolInvariant, PTL DEF Spec, PoolQuota!Spec, ImplementsQuota

=============================================================================
