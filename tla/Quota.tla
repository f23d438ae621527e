------------------------------- MODULE Quota -------------------------------
(***************************************************************************)
(* What a _ConcurrencyPool promises: a bounded number of leases, taken     *)
(* without waiting.  A request may also be refused when leases are free:   *)
(* the pool looks at one slot after the other.                             *)
(***************************************************************************)
EXTENDS Naturals, FiniteSets

CONSTANTS Callers, Limit

VARIABLES leased,   \* the callers that hold a lease
          asking    \* the callers whose request is being answered

vars == <<leased, asking>>

Init == leased = {} /\ asking = {}

Ask(c) ==
  /\ c \notin leased \cup asking
  /\ asking' = asking \cup {c}
  /\ UNCHANGED leased

Grant(c) ==
  /\ c \in asking /\ Cardinality(leased) < Limit
  /\ leased' = leased \cup {c}
  /\ asking' = asking \ {c}

Refuse(c) ==
  /\ c \in asking
  /\ asking' = asking \ {c}
  /\ UNCHANGED leased

Release(c) ==
  /\ c \in leased
  /\ leased' = leased \ {c}
  /\ UNCHANGED asking

\* A process dies with its requests and leases.
Die(cs) ==
  /\ leased' = leased \ cs
  /\ asking' = asking \ cs

Next ==
  \/ \E c \in Callers : Ask(c) \/ Grant(c) \/ Refuse(c) \/ Release(c)
  \/ \E cs \in SUBSET Callers : Die(cs)

Spec == Init /\ [][Next]_vars
=============================================================================
