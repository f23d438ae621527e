---------------------------- MODULE ModelGateway ----------------------------
(***************************************************************************)
(* ModelGateway (src/services/model_gateway.py): model calls that share    *)
(* the concurrency slots of the routes' quota scopes, retry transient      *)
(* errors after a delay and fall back along the routes.  A slot is taken   *)
(* from a ConcurrencyPool, here by its specification Quota: a lease needs  *)
(* a free slot, a refusal can always happen (another process or thread is  *)
(* at the pool).                                                           *)
(***************************************************************************)
EXTENDS Naturals, Sequences, FiniteSets, SequencesExt

CONSTANTS
  Calls,               \* concurrent invoke / ainvoke calls
  routes,              \* the configured routes: primary, then fallbacks
  scopeOf,             \* quota_scope of each route
  limitOf,             \* max_concurrency of each scope
  RequiredToolRoutes,  \* the routes with supports_required_tool_choice
  MaxRetries, RateLimitMaxRetries,
  NoModel, UnknownModel

Routes == ToSet(routes)

ASSUME GatewayAssumption ==
  /\ routes \in Seq(Routes) /\ routes # <<>> /\ IsInjective(routes)
  /\ IsFiniteSet(Calls)
  /\ \A r \in Routes : limitOf[scopeOf[r]] \in Nat \ {0}
  /\ RequiredToolRoutes \subseteq Routes
  /\ MaxRetries \in Nat /\ RateLimitMaxRetries \in Nat
  /\ NoModel \notin Routes /\ UnknownModel \notin Routes \cup {NoModel}

VARIABLES
  stage,      \* "idle", "route", "calling", "backoff", "done"
  chosen,     \* request.model
  needsTool,  \* request.required_tool is set
  at,         \* position in the routes for the request
  retries,    \* retry_number on the current route
  announced,  \* fallback_announced on the current route
  leases,     \* the calls that hold a slot of their route's scope
  outcome,    \* "none", "ok", "rejected", "failed", "unavailable", "cancelled"
  \* what happened
  attempts,   \* provider calls per route
  gaveUp,     \* the routes that were left
  fallbacks   \* FALLBACK events: <<model, fallback_model>>

requestVars == <<chosen, needsTool>>
eventVars   == <<attempts, gaveUp, fallbacks>>
vars == <<stage, requestVars, at, retries, announced, leases, outcome, eventVars>>

ErrorKinds == {"rate_limit", "transient"}

TypeOK ==
  /\ stage \in [Calls -> {"idle", "route", "calling", "backoff", "done"}]
  /\ chosen \in [Calls -> Routes \cup {NoModel, UnknownModel}]
  /\ needsTool \in [Calls -> BOOLEAN]
  /\ at \in [Calls -> 1..(Len(routes) + 1)]
  /\ retries \in [Calls -> 0..MaxRetries \cup 0..RateLimitMaxRetries]
  /\ announced \in [Calls -> BOOLEAN]
  /\ leases \subseteq Calls
  /\ outcome \in [Calls -> {"none", "ok", "rejected", "failed", "unavailable", "cancelled"}]
  /\ attempts \in [Calls -> [Routes -> Nat]]
  /\ gaveUp \in [Calls -> SUBSET Routes]
  /\ fallbacks \in [Calls -> SUBSET (Routes \X Routes)]

Init ==
  /\ stage = [c \in Calls |-> "idle"]
  /\ chosen = [c \in Calls |-> NoModel]
  /\ needsTool = [c \in Calls |-> FALSE]
  /\ at = [c \in Calls |-> 1]
  /\ retries = [c \in Calls |-> 0]
  /\ announced = [c \in Calls |-> FALSE]
  /\ leases = {}
  /\ outcome = [c \in Calls |-> "none"]
  /\ attempts = [c \in Calls |-> [r \in Routes |-> 0]]
  /\ gaveUp = [c \in Calls |-> {}]
  /\ fallbacks = [c \in Calls |-> {}]

-----------------------------------------------------------------------------
\* Mutant: the chosen model is the only route.
ChosenRouteOnly(c) == IF chosen[c] = NoModel THEN routes ELSE <<chosen[c]>>

PositionOf(route) == CHOOSE k \in DOMAIN routes : routes[k] = route

\* _routes_for_request: the chosen route is moved to the front.
RoutesForRequest(c) ==
  IF chosen[c] = NoModel THEN routes
  ELSE [i \in DOMAIN routes |->
          IF i = 1 THEN chosen[c]
          ELSE IF i <= PositionOf(chosen[c]) THEN routes[i - 1] ELSE routes[i]]

Route(c) == RoutesForRequest(c)[at[c]]
InUse(scope) == {c \in leases : scopeOf[Route(c)] = scope}

Finish(c, result) ==
  /\ stage' = [stage EXCEPT ![c] = "done"]
  /\ outcome' = [outcome EXCEPT ![c] = result]

\* enumerate.
Following(i) == i + 1

\* The loop goes on to the next route.
NextRoute(c) ==
  /\ gaveUp' = [gaveUp EXCEPT ![c] = @ \cup {Route(c)}]
  /\ at' = [at EXCEPT ![c] = Following(@)]
  /\ retries' = [retries EXCEPT ![c] = 0]
  /\ announced' = [announced EXCEPT ![c] = FALSE]
  /\ stage' = [stage EXCEPT ![c] = "route"]

Request(c, model, tool) ==
  /\ stage[c] = "idle"
  /\ chosen' = [chosen EXCEPT ![c] = model]
  /\ needsTool' = [needsTool EXCEPT ![c] = tool]
  /\ IF model = UnknownModel
     THEN Finish(c, "rejected")
     ELSE stage' = [stage EXCEPT ![c] = "route"] /\ UNCHANGED outcome
  /\ UNCHANGED <<at, retries, announced, leases, eventVars>>

\* The route cannot be forced to use the required tool.
Unsupported(c) == needsTool[c] /\ Route(c) \notin RequiredToolRoutes

SkipUnsupported(c) ==
  /\ stage[c] = "route" /\ at[c] <= Len(RoutesForRequest(c)) /\ Unsupported(c)
  /\ NextRoute(c)
  /\ UNCHANGED <<requestVars, leases, outcome, attempts, fallbacks>>

\* try_acquire succeeds; the first time on a fallback route the event is sent.
\* It names the predecessor in the configured order.
CallProvider(c) ==
  /\ stage[c] = "route" /\ at[c] <= Len(RoutesForRequest(c)) /\ ~Unsupported(c)
  /\ Cardinality(InUse(scopeOf[Route(c)])) < limitOf[scopeOf[Route(c)]]
  /\ leases' = leases \cup {c}
  /\ attempts' = [attempts EXCEPT ![c][Route(c)] = @ + 1]
  /\ stage' = [stage EXCEPT ![c] = "calling"]
  /\ IF at[c] > 1 /\ ~announced[c]
     THEN /\ fallbacks' = [fallbacks EXCEPT ![c] = @ \cup {<<routes[at[c] - 1], Route(c)>>}]
          /\ announced' = [announced EXCEPT ![c] = TRUE]
     ELSE UNCHANGED <<fallbacks, announced>>
  /\ UNCHANGED <<requestVars, at, retries, outcome, gaveUp>>

\* try_acquire refuses, on the first attempt or after a delay.
AtCapacity(c) ==
  /\ stage[c] = "route" /\ at[c] <= Len(RoutesForRequest(c)) /\ ~Unsupported(c)
  /\ NextRoute(c)
  /\ UNCHANGED <<requestVars, leases, outcome, attempts, fallbacks>>

Respond(c) ==
  /\ stage[c] = "calling"
  /\ leases' = leases \ {c}
  /\ Finish(c, "ok")
  /\ UNCHANGED <<requestVars, at, retries, announced, eventVars>>

\* An error that is not transient: a 4xx becomes "rejected", others are raised.
PermanentError(c) ==
  /\ stage[c] = "calling"
  /\ leases' = leases \ {c}
  /\ Finish(c, "rejected") \/ Finish(c, "failed")
  /\ UNCHANGED <<requestVars, at, retries, announced, eventVars>>

\* Mutant: the limit is checked after the next attempt.
LimitPassed(n, kind) ==
  n > (IF kind = "rate_limit" THEN RateLimitMaxRetries ELSE MaxRetries)

\* The limit depends on the error, the counter does not.
LimitReached(n, kind) ==
  n >= (IF kind = "rate_limit" THEN RateLimitMaxRetries ELSE MaxRetries)

\* The finally clause.
ReleaseAfter(c, retried) == leases \ {c}

TransientError(c, kind) ==
  /\ stage[c] = "calling"
  /\ LET retried == ~LimitReached(retries[c], kind)
     IN /\ leases' = ReleaseAfter(c, retried)
        /\ IF retried
           THEN /\ retries' = [retries EXCEPT ![c] = @ + 1]
                /\ stage' = [stage EXCEPT ![c] = "backoff"]
                /\ UNCHANGED <<gaveUp, at, announced>>
           ELSE NextRoute(c)
  /\ UNCHANGED <<requestVars, outcome, attempts, fallbacks>>

\* The delay is over: the loop tries to acquire again.
Wake(c) ==
  /\ stage[c] = "backoff"
  /\ stage' = [stage EXCEPT ![c] = "route"]
  /\ UNCHANGED <<requestVars, at, retries, announced, leases, outcome, eventVars>>

\* Mutant: out of routes the loop starts over.
StartOver(c) ==
  /\ stage[c] = "route" /\ at[c] > Len(RoutesForRequest(c))
  /\ at' = [at EXCEPT ![c] = 1]
  /\ UNCHANGED <<stage, requestVars, retries, announced, leases, outcome, eventVars>>

Unavailable(c) ==
  /\ stage[c] = "route" /\ at[c] > Len(RoutesForRequest(c))
  /\ Finish(c, "unavailable")
  /\ UNCHANGED <<requestVars, at, retries, announced, leases, eventVars>>

\* The run is cancelled during the provider call or the delay.
Cancel(c) ==
  /\ stage[c] \in {"calling", "backoff"}
  /\ leases' = leases \ {c}
  /\ Finish(c, "cancelled")
  /\ UNCHANGED <<requestVars, at, retries, announced, eventVars>>

-----------------------------------------------------------------------------
Progress(c) ==
  \/ SkipUnsupported(c) \/ CallProvider(c) \/ AtCapacity(c) \/ Respond(c)
  \/ PermanentError(c) \/ \E kind \in ErrorKinds : TransientError(c, kind)
  \/ Wake(c) \/ Unavailable(c)

Next ==
  \E c \in Calls :
    \/ \E model \in Routes \cup {NoModel, UnknownModel}, tool \in BOOLEAN :
         Request(c, model, tool)
    \/ Progress(c)
    \/ Cancel(c)

Spec == Init /\ [][Next]_vars

\* Providers answer or time out, delays end, the loop goes on.
FairSpec == Spec /\ \A c \in Calls : WF_vars(Progress(c))

-----------------------------------------------------------------------------
\* A slot is held during a provider call and at no other time: not through a
\* retry delay, not after an error, an answer or a cancellation.
SlotOnlyWhileCalling == leases = {c \in Calls : stage[c] = "calling"}

\* No mixture of error kinds makes a call try one route more often than the
\* larger of the two retry limits allows.
AttemptsBounded ==
  \A c \in Calls, r \in Routes :
    \/ attempts[c][r] <= 1 + MaxRetries
    \/ attempts[c][r] <= 1 + RateLimitMaxRetries

\* Another model than the one the user chose is only asked after the chosen one
\* was given up.
ChosenModelFirst ==
  \A c \in Calls, r \in Routes :
    attempts[c][r] > 0 /\ chosen[c] \in Routes \ {r} => chosen[c] \in gaveUp[c]

\* The calls at work in a quota scope never use more slots than it has.
ScopesWithinLimit ==
  \A r \in Routes : Cardinality(InUse(scopeOf[r])) <= limitOf[scopeOf[r]]

\* The routes before a call's position.
Passed(c) == {RoutesForRequest(c)[i] : i \in 1..(at[c] - 1)}

\* How far a call has come: the routes given up are those before its position, those
\* behind it are untouched, and the retry counter counts the attempts on its route.
Walked(c) ==
  /\ stage[c] = "idle" => /\ chosen[c] = NoModel /\ at[c] = 1 /\ retries[c] = 0
                          /\ \A r \in Routes : attempts[c][r] = 0
  /\ chosen[c] = UnknownModel => stage[c] = "done" /\ outcome[c] = "rejected"
  /\ stage[c] \in {"calling", "backoff"} => at[c] <= Len(routes)
  /\ chosen[c] # UnknownModel =>
       /\ gaveUp[c] = Passed(c)
       /\ \A i \in DOMAIN routes : i > at[c] => attempts[c][RoutesForRequest(c)[i]] = 0
       /\ stage[c] # "done" /\ at[c] <= Len(routes) =>
            attempts[c][Route(c)] = retries[c] + (IF stage[c] = "calling" THEN 1 ELSE 0)
  /\ outcome[c] = "unavailable" => stage[c] = "done" /\ at[c] > Len(routes)

RoutesWalked == \A c \in Calls : Walked(c)

\* Retries, slots and the order of the routes together: through every mixture of
\* errors, full pools and cancellations a call stays within its retry limits, holds
\* a slot only while a provider answers, and asks the chosen model first.
GatewayInv ==
  /\ TypeOK
  /\ RoutesWalked
  /\ AttemptsBounded
  /\ SlotOnlyWhileCalling
  /\ ScopesWithinLimit
  /\ ChosenModelFirst

\* "Unavailable" is reported only when every configured route was given up.
UnavailableAfterAllRoutes ==
  \A c \in Calls : outcome[c] = "unavailable" => gaveUp[c] = Routes

\* Every call ends: with an answer, an error, or out of routes.
CallsEnd == \A c \in Calls : stage[c] \notin {"idle", "done"} ~> stage[c] = "done"

\* A fallback event names a model that was given up.  Not so when the request chose
\* its model.
FallbackNamesGivenUpModel ==
  \A c \in Calls : \A f \in fallbacks[c] : f[1] \in gaveUp[c]
=============================================================================
