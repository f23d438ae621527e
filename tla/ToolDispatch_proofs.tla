------------------------ MODULE ToolDispatch_proofs ------------------------
(***************************************************************************)
(* Proofs about ToolDispatch, for any batch, groups and threads.           *)
(***************************************************************************)
EXTENDS ToolDispatch, WellFoundedInduction, TLAPS

-----------------------------------------------------------------------------
(* Operators *)

\* A non-empty set of natural numbers has a least element.
LEMMA LeastNumber ==
  ASSUME NEW S \in SUBSET Nat, S # {}
  PROVE  \E m \in S : \A x \in S : m <= x
<1> DEFINE R == OpToRel(<, Nat)
<1>1. PICK m \in S : \A x \in S : <<x, m>> \notin R
  <2> HIDE DEF R
  <2>1. IsWellFoundedOn(R, Nat)
    BY NatLessThanWellFounded DEF R
  <2> QED BY <2>1, WFMin
<1>2. \A x \in S : ~(x < m)
  BY <1>1 DEF OpToRel
<1> QED BY <1>2

\* A bounded one has a greatest element.
LEMMA GreatestNumber ==
  ASSUME NEW S \in SUBSET Nat, S # {}, NEW b \in Nat, \A x \in S : x <= b
  PROVE  \E m \in S : \A x \in S : x <= m
<1> DEFINE T == {b - x : x \in S}
<1>1. T \in SUBSET Nat /\ T # {}
  <2>1. \A x \in S : b - x \in Nat
    OBVIOUS
  <2>2. PICK x \in S : TRUE
    OBVIOUS
  <2>3. b - x \in T
    OBVIOUS
  <2> QED BY <2>1, <2>3
<1>2. PICK t \in T : \A x \in T : t <= x
  <2> HIDE DEF T
  <2> QED BY <1>1, LeastNumber
<1>3. PICK m \in S : t = b - m
  BY <1>2
<1>4. \A x \in S : b - m <= b - x
  BY <1>2, <1>3
<1> QED BY <1>4

\* Max of a set of numbers with a greatest element is that element.
LEMMA MaxIsGreatest ==
  ASSUME NEW S \in SUBSET Nat, NEW m \in S, \A x \in S : x <= m
  PROVE  Max(S) = m
<1>1. \A x \in S : (\A y \in S : x >= y) => x = m
  BY SMT
<1>2. \A y \in S : m >= y
  BY SMT
<1> QED BY <1>1, <1>2 DEF Max

\* Appending a call that is not there keeps a sequence injective and the calls
\* before it where they are.
LEMMA AppendNew ==
  ASSUME NEW seq \in Seq(Calls), IsInjective(seq),
         NEW e \in Calls, \A n \in DOMAIN seq : seq[n] # e
  PROVE  /\ Append(seq, e) \in Seq(Calls) /\ IsInjective(Append(seq, e))
         /\ DOMAIN Append(seq, e) = DOMAIN seq \cup {Len(seq) + 1}
         /\ \A n \in DOMAIN seq : Append(seq, e)[n] = seq[n] /\ n \in Nat /\ n < Len(seq) + 1
         /\ Append(seq, e)[Len(seq) + 1] = e /\ Len(seq) + 1 \in Nat
  BY DEF IsInjective

-----------------------------------------------------------------------------
(* The invariant *)

\* Calls of a loop group take turns: this follows from what the stages say.
LEMMA Exclusive ==
  ASSUME TypeOK, StagesMatchWork, GroupsInOrder
  PROVE  LoopGroupsAreExclusive
<1> SUFFICES ASSUME NEW i \in working, NEW j \in working,
                    SameGroup(i, j), group[i] \notin ThreadedGroups, j < i
             PROVE  FALSE
  BY DEF LoopGroupsAreExclusive, TypeOK, Calls, SameGroup
<1>1. stage[i] = "running" /\ stage[j] = "running"
  BY DEF StagesMatchWork, TypeOK, SameGroup
<1> QED BY <1>1 DEF GroupsInOrder, TypeOK

LEMMA InitInv == Init => DispatchInv
<1> SUFFICES ASSUME Init PROVE DispatchInv
  OBVIOUS
<1>1. TypeOK
  BY DEF Init, TypeOK, IsInjective
<1>2. StagesMatchWork /\ GroupsInOrder /\ SuccessInInputOrder
  BY DEF Init, StagesMatchWork, GroupsInOrder, SuccessInInputOrder
<1> QED BY <1>1, <1>2, Exclusive DEF DispatchInv

\* Whatever a call's tool does, its effect goes to the end of the sequence.
LEMMA EffectLast ==
  ASSUME DispatchInv, NEW i \in Calls, i \in working,
         effects' = Append(effects, i)
  PROVE  /\ effects' \in Seq(Calls) /\ IsInjective(effects')
         /\ DOMAIN effects' = DOMAIN effects \cup {Len(effects) + 1}
         /\ \A n \in DOMAIN effects : effects'[n] = effects[n] /\ n \in Nat /\ n < Len(effects) + 1
         /\ effects'[Len(effects) + 1] = i /\ Len(effects) + 1 \in Nat
  BY AppendNew DEF DispatchInv, TypeOK, StagesMatchWork

LEMMA NextInv == DispatchInv /\ [Next]_vars => DispatchInv'
<1> SUFFICES ASSUME DispatchInv, [Next]_vars
             PROVE  TypeOK' /\ StagesMatchWork' /\ GroupsInOrder' /\ SuccessInInputOrder'
  BY Exclusive, PTL DEF DispatchInv
<1> USE DEF DispatchInv
<1> USE DEF DispatchInv, TypeOK
<1>1. ASSUME NEW i \in Calls, Reject(i)
      PROVE  TypeOK' /\ StagesMatchWork' /\ GroupsInOrder' /\ SuccessInInputOrder'
  BY <1>1 DEF StagesMatchWork, GroupsInOrder, SuccessInInputOrder, Reject, Answer, ItsTurn, SameGroup, Calls
<1>2. ASSUME NEW i \in Calls, Invoke(i)
      PROVE  TypeOK' /\ StagesMatchWork' /\ GroupsInOrder' /\ SuccessInInputOrder'
  BY <1>2 DEF StagesMatchWork, GroupsInOrder, SuccessInInputOrder, Invoke, ItsTurn, SameGroup, Calls
<1>3. ASSUME NEW i \in Calls, ToolReturns(i)
      PROVE  TypeOK' /\ StagesMatchWork' /\ GroupsInOrder' /\ SuccessInInputOrder'
  <2>1. i \in working
    BY <1>3 DEF StagesMatchWork, ToolReturns
  <2>2. CASE Answer(i, "ok") /\ effects' = Append(effects, i)
    <3>1. TypeOK'
      BY <1>3, <2>1, <2>2, EffectLast DEF ToolReturns, Answer
    <3>2. StagesMatchWork'
      BY <1>3, <2>1, <2>2, EffectLast DEF ToolReturns, Answer, StagesMatchWork
    <3>3. GroupsInOrder'
      BY <1>3, <2>2 DEF ToolReturns, Answer, GroupsInOrder, SameGroup
    <3>4. ASSUME NEW m \in DOMAIN effects', NEW n \in DOMAIN effects',
                 SameGroup(effects[m], effects[n])', result'[effects'[m]] = "ok",
                 result'[effects'[n]] = "ok", effects'[m] < effects'[n]
          PROVE  m < n
      <4>1. CASE m \in DOMAIN effects /\ n \in DOMAIN effects
        BY <1>3, <2>1, <2>2, <3>4, <4>1, EffectLast
           DEF ToolReturns, Answer, SuccessInInputOrder, SameGroup, StagesMatchWork
      <4>2. CASE m \in DOMAIN effects /\ n = Len(effects) + 1
        BY <4>2, <2>1, <2>2, EffectLast
      <4>3. CASE m = Len(effects) + 1 /\ n \in DOMAIN effects
        \* a later call of the group has succeeded: this one is done, not running
        <5>1. effects'[m] = i /\ effects'[n] = effects[n] /\ effects[n] # i
          BY <2>1, <2>2, <4>3, EffectLast DEF StagesMatchWork
        <5>2. result[effects[n]] = "ok" /\ stage[effects[n]] = "done" /\ effects[n] \in Calls
          BY <1>3, <2>2, <3>4, <4>3, <5>1 DEF ToolReturns, Answer, StagesMatchWork
        <5>3. stage[i] = "done"
          BY <1>3, <3>4, <5>1, <5>2 DEF GroupsInOrder, SameGroup, ToolReturns
        <5> QED BY <1>3, <5>3 DEF ToolReturns
      <4>4. CASE m = Len(effects) + 1 /\ n = Len(effects) + 1
        BY <3>4, <4>4, <2>1, <2>2, EffectLast DEF Calls
      <4> QED BY <4>1, <4>2, <4>3, <4>4, <2>1, <2>2, EffectLast
    <3> QED BY <3>1, <3>2, <3>3, <3>4 DEF SuccessInInputOrder
  <2>3. CASE Answer(i, "error") /\ UNCHANGED effects
    BY <1>3, <2>3 DEF ToolReturns, Answer, StagesMatchWork, GroupsInOrder, SuccessInInputOrder, SameGroup
  <2> QED BY <1>3, <2>2, <2>3 DEF ToolReturns
<1>4. ASSUME NEW i \in Calls, ToolTimesOut(i)
      PROVE  TypeOK' /\ StagesMatchWork' /\ GroupsInOrder' /\ SuccessInInputOrder'
  BY <1>4 DEF ToolTimesOut, Unstoppable, Answer, StagesMatchWork, GroupsInOrder, SuccessInInputOrder, SameGroup
<1>5. ASSUME NEW i \in Calls, ThreadEnds(i)
      PROVE  TypeOK' /\ StagesMatchWork' /\ GroupsInOrder' /\ SuccessInInputOrder'
  <2>1. GroupsInOrder'
    BY <1>5 DEF ThreadEnds, GroupsInOrder, SameGroup
  <2>2. CASE effects' = effects
    BY <1>5, <2>1, <2>2 DEF ThreadEnds, StagesMatchWork, SuccessInInputOrder, SameGroup
  <2>3. CASE effects' = Append(effects, i)
    <3>1. TypeOK' /\ StagesMatchWork'
      BY <1>5, <2>3, EffectLast DEF ThreadEnds, StagesMatchWork
    <3>2. ASSUME NEW m \in DOMAIN effects',  result'[effects'[m]] = "ok"
          PROVE  m \in DOMAIN effects /\ effects'[m] = effects[m]
      BY <1>5, <2>3, <3>2, EffectLast DEF ThreadEnds, StagesMatchWork
    <3>3. SuccessInInputOrder'
      BY <1>5, <3>2 DEF ThreadEnds, SuccessInInputOrder, SameGroup
    <3> QED BY <2>1, <3>1, <3>3
  <2> QED BY <1>5, <2>2, <2>3 DEF ThreadEnds
<1>6. CASE Return
  BY <1>6 DEF Return, StagesMatchWork, GroupsInOrder, SuccessInInputOrder, SameGroup
<1>7. CASE Cancel
  BY <1>7 DEF Cancel, Unstoppable, StagesMatchWork, GroupsInOrder, SuccessInInputOrder, SameGroup
<1>8. CASE UNCHANGED vars
  BY <1>8 DEF vars, StagesMatchWork, GroupsInOrder, SuccessInInputOrder, SameGroup
<1> QED BY <1>1, <1>2, <1>3, <1>4, <1>5, <1>6, <1>7, <1>8 DEF Next, CallStep

\* A batch of tool calls keeps its groups in order: no two tools of a group that can
\* be stopped are at work together, a call has one answer and at most one effect, and
\* reported successes took effect in the order of the request (adispatch_many).
THEOREM DispatchInvariant == Spec => []DispatchInv
<1> QED BY InitInv, NextInv, PTL DEF Spec

-----------------------------------------------------------------------------
(* The kept patch *)

\* Successes of a group lie in the effects in the order of their numbers, so the last
\* one is the one with the greatest number.
LEMMA LastIsGreatest == DispatchInv => LastSuccessWins
<1> SUFFICES ASSUME DispatchInv, NEW g \in Groups,
                    NEW done, done = {n \in DOMAIN effects : group[effects[n]] = g /\ result[effects[n]] = "ok"},
                    done # {}
             PROVE  StateUpdateOf(g) = effects[Max(done)]
  BY DEF LastSuccessWins
<1> DEFINE calls == {i \in Calls : group[i] = g /\ result[i] = "ok"}
<1> USE DEF DispatchInv, TypeOK
<1>1. done \in SUBSET Nat /\ \A n \in done : n <= Len(effects) /\ n \in DOMAIN effects
  OBVIOUS
<1>2. PICK m \in done : \A n \in done : n <= m
  <2>1. Len(effects) \in Nat
    OBVIOUS
  <2> QED BY <1>1, <2>1, GreatestNumber
<1>3. Max(done) = m
  BY <1>1, <1>2, MaxIsGreatest
<1>4. effects[m] \in calls /\ calls \in SUBSET Nat
  <2>1. effects[m] \in Calls /\ group[effects[m]] = g /\ result[effects[m]] = "ok"
    BY <1>1
  <2> QED BY <2>1, DispatchAssumption DEF Calls
<1>5. ASSUME NEW i \in calls PROVE i <= effects[m]
  <2>0. i \in Calls /\ group[i] = g /\ result[i] = "ok"
    OBVIOUS
  <2>1. PICK n \in done : effects[n] = i
    BY <2>0 DEF StagesMatchWork
  <2>2. effects[m] < i => m < n
    BY <1>1, <2>1, DispatchAssumption DEF SuccessInInputOrder, SameGroup
  <2>3. effects[m] \in Calls
    BY <1>1
  <2> QED BY <1>1, <1>2, <2>0, <2>1, <2>2, <2>3, DispatchAssumption DEF Calls
<1>6. Max(calls) = effects[m]
  <2> HIDE DEF calls
  <2> QED BY <1>4, <1>5, MaxIsGreatest
<1> QED BY <1>3, <1>4, <1>6 DEF StateUpdateOf, KeptPatch

\* After a batch the state is that of the last success, whatever timed out.
THEOREM LastPatchKept == Spec => []LastSuccessWins
<1> QED BY DispatchInvariant, LastIsGreatest, PTL
=============================================================================
