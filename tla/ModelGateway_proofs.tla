------------------------ MODULE ModelGateway_proofs ------------------------
(***************************************************************************)
(* Proofs about ModelGateway, for any calls, routes, scopes and limits.    *)
(***************************************************************************)
EXTENDS ModelGateway, FiniteSetTheorems, SequenceTheorems, TLAPS

-----------------------------------------------------------------------------
(* Operators *)

\* The request's order of the routes is a permutation of them that starts with the
\* chosen one.
LEMMA Walk ==
  ASSUME NEW c \in Calls, chosen[c] \in Routes \cup {NoModel}
  PROVE  /\ RoutesForRequest(c) \in Seq(Routes)
         /\ DOMAIN RoutesForRequest(c) = 1..Len(routes)
         /\ Len(RoutesForRequest(c)) = Len(routes)
         /\ Len(routes) \in Nat \ {0}
         /\ \A i, j \in 1..Len(routes) :
              RoutesForRequest(c)[i] = RoutesForRequest(c)[j] => i = j
         /\ \A r \in Routes : \E i \in 1..Len(routes) : RoutesForRequest(c)[i] = r
         /\ \A i \in 1..Len(routes) : RoutesForRequest(c)[i] \in Routes
         /\ chosen[c] \in Routes => RoutesForRequest(c)[1] = chosen[c]
<1> DEFINE n == Len(routes)
           w == RoutesForRequest(c)
<1>1. /\ routes \in Seq(Routes) /\ n \in Nat \ {0} /\ DOMAIN routes = 1..n
      /\ \A i \in 1..n : routes[i] \in Routes
      /\ \A i, j \in 1..n : routes[i] = routes[j] => i = j
      /\ NoModel \notin Routes
  BY GatewayAssumption DEF IsInjective
<1>2. \A r \in Routes : \E i \in 1..n : routes[i] = r
  BY <1>1 DEF Routes, ToSet
<1> SUFFICES /\ DOMAIN w = 1..n
             /\ \A i \in 1..n : w[i] \in Routes
             /\ \A i, j \in 1..n : w[i] = w[j] => i = j
             /\ \A r \in Routes : \E i \in 1..n : w[i] = r
             /\ chosen[c] \in Routes => w[1] = chosen[c]
             /\ w = [i \in 1..n |-> w[i]]
  <2>1. w \in [1..n -> Routes]
    OBVIOUS
  <2>2. w \in Seq(Routes)
    BY <1>1, <2>1, SeqDef
  <2> QED BY <1>1, <2>2
<1>3. CASE chosen[c] = NoModel
  BY <1>1, <1>2, <1>3 DEF RoutesForRequest
<1>4. CASE chosen[c] \in Routes
  <2> DEFINE p == PositionOf(chosen[c])
  <2>1. p \in 1..n /\ routes[p] = chosen[c]
    BY <1>1, <1>2, <1>4 DEF PositionOf
  <2>2. w = [i \in 1..n |-> IF i = 1 THEN chosen[c]
                            ELSE IF i <= p THEN routes[i - 1] ELSE routes[i]]
    BY <1>1, <1>4 DEF RoutesForRequest
  <2> HIDE DEF p, w
  <2>3. DOMAIN w = 1..n /\ w = [i \in 1..n |-> w[i]] /\ w[1] = chosen[c]
    BY <1>1, <2>2
  <2>4. \A i \in 1..n : w[i] = routes[IF i = 1 THEN p ELSE IF i <= p THEN i - 1 ELSE i]
    BY <2>1, <2>2
  <2>5. \A i \in 1..n : w[i] \in Routes
    BY <1>1, <2>1, <2>4
  <2>6. \A i, j \in 1..n : w[i] = w[j] => i = j
    <3> SUFFICES ASSUME NEW i \in 1..n, NEW j \in 1..n, w[i] = w[j] PROVE i = j
      OBVIOUS
    <3> DEFINE f(k) == IF k = 1 THEN p ELSE IF k <= p THEN k - 1 ELSE k
    <3>1. f(i) \in 1..n /\ f(j) \in 1..n
      BY <1>1, <2>1
    <3>2. routes[f(i)] = routes[f(j)]
      BY <2>4
    <3>3. f(i) = f(j)
      <4> HIDE DEF f
      <4> QED BY <1>1, <3>1, <3>2
    <3> QED BY <1>1, <2>1, <3>3
  <2>7. \A r \in Routes : \E i \in 1..n : w[i] = r
    <3> SUFFICES ASSUME NEW r \in Routes PROVE \E i \in 1..n : w[i] = r
      OBVIOUS
    <3>1. PICK k \in 1..n : routes[k] = r
      BY <1>2
    <3>2. CASE k = p
      BY <1>1, <2>4, <3>1, <3>2
    <3>3. CASE k < p
      <4>1. k + 1 \in 1..n /\ k + 1 # 1 /\ k + 1 <= p /\ (k + 1) - 1 = k
        BY <1>1, <2>1, <3>3
      <4> QED BY <2>4, <3>1, <4>1
    <3>4. CASE k > p
      BY <1>1, <2>1, <2>4, <3>1, <3>4
    <3> QED BY <2>1, <3>2, <3>3, <3>4
  <2> QED BY <2>3, <2>5, <2>6, <2>7
<1> QED BY <1>3, <1>4

\* The order of the routes depends on the request only.
LEMMA SameWalk ==
  ASSUME chosen' = chosen
  PROVE  \A c : RoutesForRequest(c)' = RoutesForRequest(c)
  BY DEF RoutesForRequest, PositionOf

-----------------------------------------------------------------------------
(* The invariant *)

LEMMA InitInv == Init => GatewayInv
<1> SUFFICES ASSUME Init PROVE GatewayInv
  OBVIOUS
<1> USE DEF Init
<1>1. Len(routes) \in Nat \ {0}
  BY GatewayAssumption
<1>2. TypeOK
  BY <1>1, GatewayAssumption DEF TypeOK
<1>3. RoutesWalked
  <2>1. \A c \in Calls : Passed(c) = {}
    BY DEF Passed
  <2>2. \A c \in Calls, i \in DOMAIN routes : RoutesForRequest(c)[i] \in Routes
    BY Walk, GatewayAssumption
  <2>3. \A c \in Calls : at[c] <= Len(routes) => Route(c) \in Routes
    BY <1>1, Walk DEF Route
  <2> QED BY <1>1, <2>1, <2>2, <2>3, GatewayAssumption DEF RoutesWalked, Walked
<1>4. AttemptsBounded /\ SlotOnlyWhileCalling /\ ChosenModelFirst
  BY GatewayAssumption DEF AttemptsBounded, SlotOnlyWhileCalling, ChosenModelFirst
<1>5. ScopesWithinLimit
  BY FS_EmptySet, GatewayAssumption DEF ScopesWithinLimit, InUse
<1> QED BY <1>2, <1>3, <1>4, <1>5 DEF GatewayInv

\* A call on which nothing happens keeps what is known of it.
LEMMA SameCall ==
  ASSUME NEW d \in Calls, Walked(d), RoutesForRequest(d)' = RoutesForRequest(d),
         stage'[d] = stage[d], chosen'[d] = chosen[d], at'[d] = at[d],
         retries'[d] = retries[d], gaveUp'[d] = gaveUp[d], outcome'[d] = outcome[d],
         attempts'[d] = attempts[d]
  PROVE  Walked(d)'
<1>1. Passed(d)' = Passed(d) /\ Route(d)' = Route(d)
  BY DEF Passed, Route
<1> QED BY <1>1 DEF Walked

\* Slots are only given back: every scope stays within its limit.
LEMMA FewerLeases ==
  ASSUME GatewayInv, leases' \subseteq leases, chosen' = chosen,
         \A c \in leases' : at'[c] = at[c]
  PROVE  ScopesWithinLimit'
<1> SUFFICES ASSUME NEW r \in Routes
             PROVE  Cardinality(InUse(scopeOf[r])') <= limitOf[scopeOf[r]]
  BY DEF ScopesWithinLimit
<1>1. InUse(scopeOf[r])' \subseteq InUse(scopeOf[r])
  BY SameWalk DEF InUse, Route
<1>2. IsFiniteSet(InUse(scopeOf[r]))
  BY GatewayAssumption, FS_Subset DEF GatewayInv, TypeOK, InUse
<1>3. /\ Cardinality(InUse(scopeOf[r])') <= Cardinality(InUse(scopeOf[r]))
      /\ Cardinality(InUse(scopeOf[r])') \in Nat /\ Cardinality(InUse(scopeOf[r])) \in Nat
  BY <1>1, <1>2, FS_Subset, FS_CardinalityType
<1> QED BY <1>3, GatewayAssumption DEF GatewayInv, ScopesWithinLimit

\* The call leaves its route for the next one.
LEMMA LeavesRoute ==
  ASSUME GatewayInv, NEW c \in Calls, stage[c] \in {"route", "calling"},
         at[c] <= Len(routes), NextRoute(c), leases' = leases \ {c},
         UNCHANGED <<requestVars, outcome, attempts, fallbacks>>
  PROVE  GatewayInv'
<1> USE DEF GatewayInv, requestVars
<1>1. chosen[c] \in Routes \cup {NoModel}
  BY DEF TypeOK, RoutesWalked, Walked
<1>2. Route(c) \in Routes /\ Len(routes) \in Nat \ {0} /\ Route(c) = RoutesForRequest(c)[at[c]]
  BY <1>1, Walk DEF TypeOK, Route
<1>3. TypeOK'
  BY <1>2, GatewayAssumption DEF TypeOK, NextRoute, Following
<1>4. RoutesWalked'
  <2> SUFFICES ASSUME NEW d \in Calls PROVE Walked(d)'
    BY DEF RoutesWalked
  <2>1. CASE d = c
    <3>1. gaveUp'[c] = Passed(c)'
      <4>1. at'[c] - 1 = at[c] /\ 1..at[c] = 1..(at[c] - 1) \cup {at[c]}
        BY DEF NextRoute, Following, TypeOK
      <4>2. Passed(c)' = Passed(c) \cup {RoutesForRequest(c)[at[c]]}
        BY <4>1, SameWalk DEF Passed
      <4>3. gaveUp[c] = Passed(c)
        BY <1>1, GatewayAssumption DEF RoutesWalked, Walked
      <4> QED BY <1>2, <4>2, <4>3 DEF NextRoute, TypeOK
    <3>2. \A i \in DOMAIN routes : i > at[c] => attempts[c][RoutesForRequest(c)[i]] = 0
      BY <1>1, GatewayAssumption DEF RoutesWalked, Walked
    <3>3. /\ at'[c] = at[c] + 1 /\ at[c] \in Nat /\ DOMAIN routes = 1..Len(routes)
          /\ stage'[c] = "route" /\ retries'[c] = 0 /\ outcome'[c] = outcome[c]
          /\ attempts' = attempts /\ chosen' = chosen
      BY GatewayAssumption DEF NextRoute, Following, TypeOK
    <3>4. \A i \in DOMAIN routes : i > at'[c] => attempts'[c][RoutesForRequest(c)'[i]] = 0
      BY <3>2, <3>3, SameWalk
    <3>5. at'[c] <= Len(routes) => attempts'[c][Route(c)'] = 0
      BY <1>2, <3>2, <3>3, SameWalk DEF Route
    <3>6. outcome[c] # "unavailable" /\ chosen[c] # UnknownModel
      BY <1>1, GatewayAssumption DEF RoutesWalked, Walked
    <3> QED BY <2>1, <3>1, <3>3, <3>4, <3>5, <3>6 DEF Walked
  <2>2. CASE d # c
    <3>1. /\ stage'[d] = stage[d] /\ at'[d] = at[d] /\ retries'[d] = retries[d] /\ gaveUp'[d] = gaveUp[d]
          /\ outcome' = outcome /\ attempts' = attempts /\ chosen' = chosen
      BY <2>2 DEF NextRoute, TypeOK
    <3> QED BY <3>1, SameWalk, SameCall DEF RoutesWalked
  <2> QED BY <2>1, <2>2
<1>5. AttemptsBounded' /\ SlotOnlyWhileCalling' /\ ChosenModelFirst'
  BY DEF AttemptsBounded, SlotOnlyWhileCalling, ChosenModelFirst, NextRoute, TypeOK
<1>6. ScopesWithinLimit'
  BY FewerLeases DEF NextRoute, TypeOK
<1> QED BY <1>3, <1>4, <1>5, <1>6

\* A call ends, or rests between two attempts, without leaving its route.
LEMMA StaysOnRoute ==
  ASSUME GatewayInv, NEW c \in Calls, stage[c] \in {"route", "calling", "backoff"},
         UNCHANGED <<requestVars, at, attempts, gaveUp, fallbacks>>,
         TypeOK', leases' = leases \ {c},
         \A d \in Calls \ {c} : stage'[d] = stage[d] /\ retries'[d] = retries[d]
                                /\ outcome'[d] = outcome[d],
         \/ stage'[c] = "done" /\ outcome'[c] = "unavailable" /\ at[c] > Len(routes)
         \/ stage'[c] = "done" /\ outcome'[c] # "unavailable"
         \/ /\ stage'[c] \in {"route", "backoff"} /\ outcome'[c] = outcome[c]
            /\ at[c] <= Len(routes) /\ attempts[c][Route(c)] = retries'[c]
  PROVE  GatewayInv'
<1> USE DEF GatewayInv, requestVars
<1>1. RoutesWalked'
  <2> SUFFICES ASSUME NEW d \in Calls PROVE Walked(d)'
    BY DEF RoutesWalked
  <2>1. CASE d = c
    <3>1. Passed(c)' = Passed(c) /\ Route(c)' = Route(c)
      BY SameWalk DEF Passed, Route
    <3>2. chosen[c] # UnknownModel /\ outcome[c] # "unavailable" /\ Walked(c)
      BY DEF RoutesWalked, Walked
    <3>3. retries'[c] \in Nat
      BY GatewayAssumption DEF TypeOK
    <3>4. CASE stage'[c] = "done"
      BY <2>1, <3>1, <3>2, <3>4, SameWalk DEF Walked
    <3>5. CASE stage'[c] \in {"route", "backoff"}
      BY <2>1, <3>1, <3>2, <3>3, <3>5, SameWalk DEF Walked
    <3> QED BY <3>4, <3>5
  <2>2. CASE d # c
    BY <2>2, SameWalk, SameCall DEF RoutesWalked
  <2> QED BY <2>1, <2>2
<1>2. AttemptsBounded' /\ SlotOnlyWhileCalling' /\ ChosenModelFirst'
  BY DEF AttemptsBounded, SlotOnlyWhileCalling, ChosenModelFirst, TypeOK
<1>3. ScopesWithinLimit'
  BY FewerLeases
<1> QED BY <1>1, <1>2, <1>3

LEMMA RequestInv ==
  ASSUME GatewayInv, NEW c \in Calls, NEW model \in Routes \cup {NoModel, UnknownModel},
         NEW tool \in BOOLEAN, Request(c, model, tool)
  PROVE  GatewayInv'
<1> USE DEF GatewayInv, Request, eventVars
<1>1. TypeOK'
  BY DEF TypeOK, Finish
<1>2. \A d \in Calls \ {c} : RoutesForRequest(d)' = RoutesForRequest(d)
  BY DEF RoutesForRequest, PositionOf, TypeOK
<1>3. /\ at[c] = 1 /\ retries[c] = 0 /\ \A r \in Routes : attempts[c][r] = 0
      /\ gaveUp[c] = {} /\ outcome[c] # "unavailable" /\ c \notin leases
      /\ Len(routes) \in Nat \ {0} /\ DOMAIN routes = 1..Len(routes) /\ chosen'[c] = model
  <2>1. at[c] = 1 => Passed(c) = {}
    BY DEF Passed
  <2> QED BY <2>1, GatewayAssumption DEF RoutesWalked, Walked, SlotOnlyWhileCalling, TypeOK
<1>4. RoutesWalked'
  <2> SUFFICES ASSUME NEW d \in Calls PROVE Walked(d)'
    BY DEF RoutesWalked
  <2>1. CASE d = c
    <3>1. CASE model = UnknownModel
      <4>1. stage'[c] = "done" /\ outcome'[c] = "rejected" /\ chosen'[c] = UnknownModel
        BY <1>3, <3>1 DEF Finish, TypeOK
      <4> QED BY <2>1, <4>1 DEF Walked
    <3>2. CASE model # UnknownModel
      <4>1. chosen'[c] \in Routes \cup {NoModel}
        BY <1>3, <3>2
      <4>2. Passed(c)' = {}
        BY <1>3 DEF Passed
      <4>3. \A i \in 1..Len(routes) : RoutesForRequest(c)'[i] \in Routes
        <5>1. ASSUME chosen'[c] = NoModel PROVE RoutesForRequest(c)' = routes
          BY <5>1 DEF RoutesForRequest
        <5>2. ASSUME chosen'[c] \in Routes
              PROVE  \A i \in 1..Len(routes) : RoutesForRequest(c)'[i] \in Routes
          <6>1. PositionOf(chosen'[c]) \in DOMAIN routes
            BY <5>2 DEF PositionOf, Routes, ToSet
          <6>2. \A i \in 1..Len(routes) : routes[i] \in Routes
            BY GatewayAssumption
          <6>3. /\ RoutesForRequest(c)' = [i \in DOMAIN routes |->
                     IF i = 1 THEN chosen'[c]
                     ELSE IF i <= PositionOf(chosen'[c]) THEN routes[i - 1] ELSE routes[i]]
            BY <5>2, GatewayAssumption DEF RoutesForRequest, PositionOf
          <6> QED BY <1>3, <5>2, <6>1, <6>2, <6>3
        <5> QED BY <4>1, <5>1, <5>2, GatewayAssumption
      <4>4. Route(c)' \in Routes
        BY <1>3, <4>3 DEF Route
      <4>5. stage'[c] = "route" /\ at'[c] = 1 /\ gaveUp'[c] = {} /\ outcome'[c] = outcome[c]
            /\ attempts' = attempts /\ retries'[c] = 0
        BY <1>3, <3>2 DEF TypeOK
      <4> QED BY <1>3, <2>1, <3>2, <4>2, <4>3, <4>4, <4>5 DEF Walked
    <3> QED BY <3>1, <3>2
  <2>2. CASE d # c
    <3>1. stage'[d] = stage[d] /\ chosen'[d] = chosen[d] /\ outcome'[d] = outcome[d]
      BY <2>2 DEF TypeOK, Finish
    <3> QED BY <1>2, <2>2, <3>1, SameCall DEF RoutesWalked
  <2> QED BY <2>1, <2>2
<1>5. AttemptsBounded' /\ SlotOnlyWhileCalling' /\ ChosenModelFirst'
  BY <1>3 DEF AttemptsBounded, SlotOnlyWhileCalling, ChosenModelFirst, TypeOK, Finish
<1>6. ScopesWithinLimit'
  <2>1. leases' = leases /\ at' = at /\ \A d \in leases : d \in Calls \ {c}
    BY <1>3 DEF TypeOK
  <2>2. \A d \in leases : Route(d)' = Route(d)
    BY <1>2, <2>1 DEF Route
  <2>3. \A scope : InUse(scope)' = InUse(scope)
    BY <2>1, <2>2 DEF InUse
  <2> QED BY <2>3 DEF ScopesWithinLimit
<1> QED BY <1>1, <1>4, <1>5, <1>6

LEMMA CallProviderInv ==
  ASSUME GatewayInv, NEW c \in Calls, CallProvider(c)
  PROVE  GatewayInv'
<1> USE DEF GatewayInv, CallProvider, requestVars
<1>1. chosen[c] \in Routes \cup {NoModel} /\ chosen[c] # UnknownModel
  BY GatewayAssumption DEF TypeOK, RoutesWalked, Walked
<1>2. /\ Route(c) \in Routes /\ Len(routes) \in Nat \ {0} /\ DOMAIN routes = 1..Len(routes)
      /\ at[c] \in 1..Len(routes) /\ c \notin leases
      /\ Route(c) = RoutesForRequest(c)[at[c]]
  BY <1>1, Walk, GatewayAssumption DEF TypeOK, Route, SlotOnlyWhileCalling
<1>3. /\ attempts[c][Route(c)] = retries[c] /\ stage'[c] = "calling" /\ retries[c] \in Nat
      /\ attempts'[c][Route(c)] = retries[c] + 1
      /\ \A d \in Calls, r \in Routes : d # c \/ r # Route(c) => attempts'[d][r] = attempts[d][r]
      /\ attempts' \in [Calls -> [Routes -> Nat]]
  <2>1. retries[c] \in Nat
    BY GatewayAssumption DEF TypeOK
  <2>2. attempts[c][Route(c)] = retries[c]
    BY <1>1, <1>2, <2>1 DEF RoutesWalked, Walked
  <2> QED BY <1>2, <2>1, <2>2 DEF TypeOK
<1>4. TypeOK'
  <2>1. at[c] > 1 => routes[at[c] - 1] \in Routes
    BY <1>2, GatewayAssumption
  <2>2. fallbacks' \in [Calls -> SUBSET (Routes \X Routes)] /\ announced' \in [Calls -> BOOLEAN]
    <3>1. CASE at[c] > 1 /\ ~announced[c]
      <4>1. <<routes[at[c] - 1], Route(c)>> \in Routes \X Routes
        BY <1>2, <2>1, <3>1
      <4>2. fallbacks[c] \cup {<<routes[at[c] - 1], Route(c)>>} \in SUBSET (Routes \X Routes)
        BY <4>1 DEF TypeOK
      <4>3. /\ fallbacks' = [fallbacks EXCEPT ![c] = @ \cup {<<routes[at[c] - 1], Route(c)>>}]
            /\ announced' = [announced EXCEPT ![c] = TRUE]
        BY <3>1
      <4> QED BY <4>2, <4>3 DEF TypeOK
    <3>2. CASE ~(at[c] > 1 /\ ~announced[c])
      BY <3>2 DEF TypeOK
    <3> QED BY <3>1, <3>2
  <2> QED BY <1>3, <2>2 DEF TypeOK
<1>5. RoutesWalked'
  <2> SUFFICES ASSUME NEW d \in Calls PROVE Walked(d)'
    BY DEF RoutesWalked
  <2>1. CASE d = c
    <3>1. Passed(c)' = Passed(c) /\ Route(c)' = Route(c)
      BY SameWalk DEF Passed, Route
    <3>2. ASSUME NEW i \in DOMAIN routes, i > at[c]
          PROVE  attempts'[c][RoutesForRequest(c)[i]] = 0
      <4>1. RoutesForRequest(c)[i] \in Routes /\ RoutesForRequest(c)[i] # Route(c)
        <5>1. i \in 1..Len(routes) /\ i # at[c]
          BY <1>2, <3>2
        <5> QED BY <1>1, <1>2, <5>1, Walk
      <4>2. attempts[c][RoutesForRequest(c)[i]] = 0
        BY <1>1, <3>2 DEF RoutesWalked, Walked
      <4> QED BY <1>3, <4>1, <4>2
    <3>3. gaveUp'[c] = Passed(c) /\ outcome'[c] # "unavailable"
      BY <1>1 DEF RoutesWalked, Walked
    <3> QED BY <1>1, <1>2, <1>3, <2>1, <3>1, <3>2, <3>3, SameWalk DEF Walked
  <2>2. CASE d # c
    <3>1. attempts'[d] = attempts[d] /\ stage'[d] = stage[d]
      BY <2>2 DEF TypeOK
    <3> QED BY <2>2, <3>1, SameWalk, SameCall DEF RoutesWalked
  <2> QED BY <2>1, <2>2
<1>6. AttemptsBounded'
  <2>1. retries[c] <= MaxRetries \/ retries[c] <= RateLimitMaxRetries
    BY GatewayAssumption DEF TypeOK
  <2>2. attempts'[c][Route(c)] <= 1 + MaxRetries \/ attempts'[c][Route(c)] <= 1 + RateLimitMaxRetries
    BY <1>3, <2>1, GatewayAssumption
  <2> QED BY <1>2, <1>3, <2>2 DEF AttemptsBounded
<1>7. SlotOnlyWhileCalling'
  BY DEF SlotOnlyWhileCalling, TypeOK
<1>8. ChosenModelFirst'
  <2> SUFFICES ASSUME NEW d \in Calls, NEW r \in Routes, attempts'[d][r] > 0,
                      chosen[d] \in Routes \ {r}
               PROVE  chosen[d] \in gaveUp[d]
    BY DEF ChosenModelFirst
  <2>1. CASE d = c /\ r = Route(c)
    \* another route than the chosen one is not the first
    <3>1. RoutesForRequest(c)[1] = chosen[c]
      BY <1>1, <2>1, Walk
    <3>2. at[c] - 1 \in Nat /\ at[c] # 1
      BY <1>2, <2>1, <3>1
    <3>3. RoutesForRequest(c)[1] \in Passed(c)
      <4>1. 1 \in 1..(at[c] - 1)
        BY <1>2, <3>2
      <4> QED BY <4>1 DEF Passed
    <3> QED BY <1>1, <2>1, <3>1, <3>3 DEF RoutesWalked, Walked
  <2>2. CASE d # c \/ r # Route(c)
    BY <1>3, <2>2 DEF ChosenModelFirst
  <2> QED BY <2>1, <2>2
<1>9. ScopesWithinLimit'
  <2> SUFFICES ASSUME NEW r \in Routes
               PROVE  Cardinality(InUse(scopeOf[r])') <= limitOf[scopeOf[r]]
    BY DEF ScopesWithinLimit
  <2>1. /\ IsFiniteSet(InUse(scopeOf[r])) /\ Cardinality(InUse(scopeOf[r])) \in Nat
    BY GatewayAssumption, FS_Subset, FS_CardinalityType DEF TypeOK, InUse
  <2>2. CASE scopeOf[r] = scopeOf[Route(c)]
    <3>1. InUse(scopeOf[r])' = InUse(scopeOf[r]) \cup {c}
      BY <2>2, SameWalk DEF InUse, Route
    <3>2. c \notin InUse(scopeOf[r])
      BY <1>2 DEF InUse
    <3>3. Cardinality(InUse(scopeOf[r])') = Cardinality(InUse(scopeOf[r])) + 1
      BY <2>1, <3>1, <3>2, FS_AddElement
    <3> QED BY <1>2, <2>1, <2>2, <3>3, GatewayAssumption
  <2>3. CASE scopeOf[r] # scopeOf[Route(c)]
    <3>1. InUse(scopeOf[r])' = InUse(scopeOf[r])
      BY <2>3, SameWalk DEF InUse, Route
    <3> QED BY <3>1 DEF ScopesWithinLimit
  <2> QED BY <2>2, <2>3
<1> QED BY <1>4, <1>5, <1>6, <1>7, <1>8, <1>9

LEMMA TransientErrorInv ==
  ASSUME GatewayInv, NEW c \in Calls, NEW kind \in ErrorKinds, TransientError(c, kind)
  PROVE  GatewayInv'
<1> USE DEF GatewayInv, requestVars
<1>1. at[c] <= Len(routes) /\ chosen[c] # UnknownModel
  BY DEF TransientError, RoutesWalked, Walked
<1>2. leases' = leases \ {c}
  BY DEF TransientError, ReleaseAfter
<1>3. CASE ~LimitReached(retries[c], kind)
  <2>1. /\ retries' = [retries EXCEPT ![c] = @ + 1] /\ stage' = [stage EXCEPT ![c] = "backoff"]
        /\ UNCHANGED <<requestVars, outcome, attempts, fallbacks, gaveUp, at, announced>>
    BY <1>3 DEF TransientError
  <2>2. retries[c] + 1 \in 0..MaxRetries \cup 0..RateLimitMaxRetries
    <3>1. retries[c] \in Nat
      BY GatewayAssumption DEF TypeOK
    <3>2. CASE kind = "rate_limit"
      BY <1>3, <3>1, <3>2, GatewayAssumption DEF LimitReached
    <3>3. CASE kind # "rate_limit"
      BY <1>3, <3>1, <3>3, GatewayAssumption DEF LimitReached
    <3> QED BY <3>2, <3>3
  <2>3. TypeOK'
    BY <1>2, <2>1, <2>2 DEF TypeOK
  <2>4. attempts[c][Route(c)] = retries'[c]
    BY <1>1, <2>1, GatewayAssumption DEF TransientError, RoutesWalked, Walked, TypeOK
  <2> QED BY <1>1, <1>2, <2>1, <2>3, <2>4, StaysOnRoute DEF TransientError, TypeOK
<1>4. CASE LimitReached(retries[c], kind)
  BY <1>1, <1>2, <1>4, LeavesRoute DEF TransientError
<1> QED BY <1>3, <1>4

-----------------------------------------------------------------------------
LEMMA NextInv == GatewayInv /\ [Next]_vars => GatewayInv'
<1> SUFFICES ASSUME GatewayInv, [Next]_vars PROVE GatewayInv'
  OBVIOUS
<1> USE DEF GatewayInv
<1>1. \A c \in Calls : stage[c] = "route" => chosen[c] \in Routes \cup {NoModel} /\ c \notin leases
  BY DEF TypeOK, RoutesWalked, Walked, SlotOnlyWhileCalling
<1>2. \A c \in Calls : stage[c] = "route" => Len(RoutesForRequest(c)) = Len(routes)
  BY <1>1, Walk
<1>3. ASSUME NEW c \in Calls, NEW model \in Routes \cup {NoModel, UnknownModel},
             NEW tool \in BOOLEAN, Request(c, model, tool)
      PROVE  GatewayInv'
  BY <1>3, RequestInv
<1>4. ASSUME NEW c \in Calls, SkipUnsupported(c) \/ AtCapacity(c)
      PROVE  GatewayInv'
  BY <1>1, <1>2, <1>4, LeavesRoute DEF SkipUnsupported, AtCapacity
<1>5. ASSUME NEW c \in Calls, CallProvider(c)
      PROVE  GatewayInv'
  BY <1>5, CallProviderInv
<1>6. ASSUME NEW c \in Calls, Respond(c) \/ PermanentError(c) \/ Cancel(c)
      PROVE  GatewayInv'
  <2>1. TypeOK'
    BY <1>6 DEF TypeOK, Respond, PermanentError, Cancel, Finish, requestVars, eventVars
  <2>2. /\ stage[c] \in {"route", "calling", "backoff"} /\ leases' = leases \ {c}
        /\ UNCHANGED <<requestVars, at, attempts, gaveUp, fallbacks>>
        /\ stage'[c] = "done" /\ outcome'[c] # "unavailable"
        /\ \A d \in Calls \ {c} : stage'[d] = stage[d] /\ retries'[d] = retries[d]
                                  /\ outcome'[d] = outcome[d]
    BY <1>6 DEF TypeOK, Respond, PermanentError, Cancel, Finish, requestVars, eventVars
  <2> QED BY <2>1, <2>2, StaysOnRoute
<1>7. ASSUME NEW c \in Calls, NEW kind \in ErrorKinds, TransientError(c, kind)
      PROVE  GatewayInv'
  BY <1>7, TransientErrorInv
<1>8. ASSUME NEW c \in Calls, Wake(c)
      PROVE  GatewayInv'
  <2>1. TypeOK' /\ c \notin leases
    BY <1>8 DEF TypeOK, Wake, requestVars, eventVars, SlotOnlyWhileCalling
  <2>2. at[c] <= Len(routes) /\ attempts[c][Route(c)] = retries[c]
    <3>1. Walked(c) /\ retries[c] \in Nat /\ stage[c] = "backoff"
      BY <1>8, GatewayAssumption DEF Wake, RoutesWalked, TypeOK
    <3> QED BY <3>1 DEF Walked
  <2>3. /\ leases' = leases \ {c} /\ stage'[c] = "route" /\ stage[c] = "backoff"
        /\ UNCHANGED <<requestVars, at, attempts, gaveUp, fallbacks, retries, outcome>>
        /\ \A d \in Calls \ {c} : stage'[d] = stage[d]
    BY <1>8, <2>1 DEF TypeOK, Wake, requestVars, eventVars
  <2> QED BY <2>1, <2>2, <2>3, StaysOnRoute
<1>9. ASSUME NEW c \in Calls, Unavailable(c)
      PROVE  GatewayInv'
  <2>1. TypeOK' /\ c \notin leases /\ at[c] > Len(routes)
    BY <1>1, <1>2, <1>9 DEF TypeOK, Unavailable, Finish, requestVars, eventVars
  <2>2. /\ leases' = leases \ {c} /\ stage'[c] = "done" /\ stage[c] = "route"
        /\ outcome'[c] = "unavailable"
        /\ UNCHANGED <<requestVars, at, attempts, gaveUp, fallbacks, retries>>
        /\ \A d \in Calls \ {c} : stage'[d] = stage[d] /\ outcome'[d] = outcome[d]
    BY <1>9, <2>1 DEF TypeOK, Unavailable, Finish, requestVars, eventVars
  <2> QED BY <2>1, <2>2, StaysOnRoute
<1>10. CASE UNCHANGED vars
  <2>1. \A c : RoutesForRequest(c)' = RoutesForRequest(c) /\ Passed(c)' = Passed(c)
               /\ Route(c)' = Route(c)
    BY <1>10, SameWalk DEF vars, requestVars, Passed, Route
  <2>2. RoutesWalked'
    BY <1>10, <2>1, SameCall DEF vars, requestVars, eventVars, RoutesWalked
  <2>3. ScopesWithinLimit'
    BY <1>10, FewerLeases DEF vars, requestVars, eventVars
  <2> QED BY <1>10, <2>2, <2>3
          DEF vars, requestVars, eventVars, TypeOK, AttemptsBounded, SlotOnlyWhileCalling,
              ChosenModelFirst
<1> QED BY <1>3, <1>4, <1>5, <1>6, <1>7, <1>8, <1>9, <1>10 DEF Next, Progress

-----------------------------------------------------------------------------
\* Retries, slots and the order of the routes: for any calls, routes, scopes and limits
\* a call stays within its retry limits, holds a slot only while a provider answers, no
\* scope gives out more slots than it has, and the chosen model is asked first
\* (ModelGateway.ainvoke).
THEOREM GatewayInvariant == Spec => []GatewayInv
<1> QED BY InitInv, NextInv, PTL DEF Spec

\* "Unavailable" is reported only when every configured route was given up.
THEOREM AllRoutesGivenUp == Spec => []UnavailableAfterAllRoutes
<1>1. GatewayInv => UnavailableAfterAllRoutes
  <2> SUFFICES ASSUME GatewayInv, NEW c \in Calls, outcome[c] = "unavailable"
               PROVE  gaveUp[c] = Routes
    BY DEF UnavailableAfterAllRoutes
  <2>1. /\ at[c] > Len(routes) /\ chosen[c] # UnknownModel /\ gaveUp[c] = Passed(c)
        /\ at[c] \in Nat /\ gaveUp[c] \subseteq Routes /\ chosen[c] \in Routes \cup {NoModel}
    BY DEF GatewayInv, RoutesWalked, Walked, TypeOK
  <2>2. \A r \in Routes : r \in Passed(c)
    <3> SUFFICES ASSUME NEW r \in Routes PROVE r \in Passed(c)
      OBVIOUS
    <3>1. PICK i \in 1..Len(routes) : RoutesForRequest(c)[i] = r
      BY <2>1, Walk
    <3>2. i \in 1..(at[c] - 1)
      BY <2>1, <3>1, GatewayAssumption
    <3> QED BY <3>1, <3>2 DEF Passed
  <2> QED BY <2>1, <2>2
<1> QED BY <1>1, GatewayInvariant, PTL
=============================================================================
