-------------------------- MODULE AgentLoop_proofs --------------------------
(***************************************************************************)
(* Proofs about AgentLoop and the compaction of its history, for any       *)
(* budgets, texts and numbers of turns and tool uses.                      *)
(***************************************************************************)
EXTENDS AgentLoop, FiniteSetTheorems, WellFoundedInduction, TLAPS

-----------------------------------------------------------------------------
(* Numbers *)

\* A non-empty set of natural numbers has a least element, and it is Min.
LEMMA LeastNumber ==
  ASSUME NEW S \in SUBSET Nat, S # {}
  PROVE  Min(S) \in S /\ \A x \in S : Min(S) <= x
<1> DEFINE R == OpToRel(<, Nat)
<1>1. PICK m \in S : \A x \in S : <<x, m>> \notin R
  <2> HIDE DEF R
  <2>1. IsWellFoundedOn(R, Nat)
    BY NatLessThanWellFounded DEF R
  <2> QED BY <2>1, WFMin
<1>2. \A x \in S : ~(x < m)
  BY <1>1 DEF OpToRel
<1>3. \A x \in S : m <= x
  BY <1>2
<1> QED BY <1>3 DEF Min

\* A bounded one has a greatest element, Max.
LEMMA GreatestNumber ==
  ASSUME NEW S \in SUBSET Nat, S # {}, NEW b \in Nat, \A x \in S : x <= b
  PROVE  Max(S) \in S /\ \A x \in S : x <= Max(S)
<1> DEFINE T == {b - x : x \in S}
<1>1. T \in SUBSET Nat /\ T # {}
  <2>1. \A x \in S : b - x \in Nat
    OBVIOUS
  <2>2. PICK x \in S : TRUE
    OBVIOUS
  <2>3. b - x \in T
    OBVIOUS
  <2> QED BY <2>1, <2>3
<1>2. PICK t \in T : \A x \in T : t <= x
  <2> HIDE DEF T
  <2> QED BY <1>1, LeastNumber
<1>3. PICK m \in S : t = b - m
  BY <1>2
<1>4. \A x \in S : b - m <= b - x
  BY <1>2, <1>3
<1>5. ASSUME NEW x \in S
      PROVE  x <= m
  <2>1. b - m <= b - x /\ b \in Nat /\ m \in Nat /\ x \in Nat
    BY <1>4
  <2> QED BY <2>1
<1> QED BY <1>5 DEF Max

-----------------------------------------------------------------------------
(* What _deduplicate returns *)

Folds(f, ms, n) == f = [i \in 0..n |-> IF i = 0 THEN <<>> ELSE Keep(f[i - 1], ms[i])]

\* The recursion of Deduplicate is sound: there is a function of that shape.
LEMMA FoldExists ==
  ASSUME NEW ms, NEW n \in Nat
  PROVE  \E f : Folds(f, ms, n)
<1> DEFINE None == {k \in Nat : ~ \E f : Folds(f, ms, k)}
<1> SUFFICES ASSUME None # {} PROVE FALSE
  OBVIOUS
<1>1. Min(None) \in None /\ \A k \in None : Min(None) <= k
  <2>1. None \in SUBSET Nat
    OBVIOUS
  <2> HIDE DEF None
  <2> QED BY <2>1, LeastNumber
<1> DEFINE m == Min(None)
<1>2. m \in Nat /\ ~ \E f : Folds(f, ms, m)
  BY <1>1
<1>3. m # 0
  <2>1. Folds([i \in 0..0 |-> <<>>], ms, 0)
    BY DEF Folds
  <2> QED BY <1>2, <2>1
<1>4. PICK f : Folds(f, ms, m - 1)
  <2>1. m - 1 \in Nat /\ ~(m <= m - 1)
    BY <1>2, <1>3
  <2> QED BY <1>1, <2>1
<1> DEFINE g == [i \in 0..m |-> IF i = m THEN Keep(f[m - 1], ms[m]) ELSE f[i]]
<1>5. Folds(g, ms, m)
  <2>1. ASSUME NEW i \in 0..m
        PROVE  g[i] = IF i = 0 THEN <<>> ELSE Keep(g[i - 1], ms[i])
    <3> HIDE DEF m
    <3>1. CASE i = m
      BY <1>2, <1>3, <3>1
    <3>2. CASE i # m
      BY <1>2, <1>3, <1>4, <3>2 DEF Folds
    <3> QED BY <3>1, <3>2
  <2> QED BY <2>1 DEF Folds
<1> QED BY <1>2, <1>5

\* d abridges the first n messages of ms: it ends and starts as they do, and its
\* neighbours are neighbours there.
Abridges(d, ms, n) ==
  /\ d # <<>> /\ Last(d) = ms[n] /\ d[1] = ms[1]
  /\ \A k \in 1..Len(d) : \E i \in 1..n : d[k] = ms[i]
  /\ \A k \in 1..(Len(d) - 1) : \E i \in 1..(n - 1) : d[k] = ms[i] /\ d[k + 1] = ms[i + 1]

\* One more message.
LEMMA KeepAbridges ==
  ASSUME NEW M, NEW ms \in Seq(M), NEW n \in 1..(Len(ms) - 1),
         NEW d \in Seq(M), Abridges(d, ms, n)
  PROVE  Keep(d, ms[n + 1]) \in Seq(M) /\ Abridges(Keep(d, ms[n + 1]), ms, n + 1)
<1>1. CASE IsPlain(ms[n + 1]) /\ Last(d) = ms[n + 1]
  <2>1. Keep(d, ms[n + 1]) = d
    BY <1>1 DEF Keep, Abridges
  <2>2. /\ \A k \in 1..Len(d) : \E i \in 1..(n + 1) : d[k] = ms[i]
        /\ \A k \in 1..(Len(d) - 1) : \E i \in 1..n : d[k] = ms[i] /\ d[k + 1] = ms[i + 1]
    <3>1. 1..n \subseteq 1..(n + 1) /\ 1..(n - 1) \subseteq 1..n
      OBVIOUS
    <3> QED BY <3>1 DEF Abridges
  <2> QED BY <1>1, <2>1, <2>2 DEF Abridges
<1>2. CASE ~(IsPlain(ms[n + 1]) /\ Last(d) = ms[n + 1])
  <2> DEFINE e == Append(d, ms[n + 1])
  <2>1. Keep(d, ms[n + 1]) = e
    BY <1>2 DEF Keep
  <2>2. /\ e \in Seq(M) /\ Len(e) = Len(d) + 1 /\ Len(d) \in Nat /\ Len(d) >= 1
        /\ \A k \in 1..Len(d) : e[k] = d[k]
        /\ e[Len(d) + 1] = ms[n + 1]
    BY DEF Abridges
  <2> HIDE DEF e
  <2>3. /\ e # <<>> /\ Last(e) = ms[n + 1] /\ e[1] = ms[1]
    BY <2>2 DEF Last, Abridges
  <2>4. ASSUME NEW k \in 1..Len(e)
        PROVE  \E i \in 1..(n + 1) : e[k] = ms[i]
    <3>1. CASE k = Len(d) + 1
      BY <2>2, <3>1
    <3>2. CASE k \in 1..Len(d)
      <4>1. PICK i \in 1..n : d[k] = ms[i]
        BY <3>2 DEF Abridges
      <4> QED BY <2>2, <3>2, <4>1
    <3> QED BY <2>2, <3>1, <3>2
  <2>5. ASSUME NEW k \in 1..(Len(e) - 1)
        PROVE  \E i \in 1..n : e[k] = ms[i] /\ e[k + 1] = ms[i + 1]
    <3>1. CASE k = Len(d)
      <4>1. e[k] = ms[n] /\ e[k + 1] = ms[n + 1]
        BY <2>2, <3>1 DEF Abridges, Last
      <4> QED BY <4>1
    <3>2. CASE k \in 1..(Len(d) - 1)
      <4>1. PICK i \in 1..(n - 1) : d[k] = ms[i] /\ d[k + 1] = ms[i + 1]
        BY <3>2 DEF Abridges
      <4>2. e[k] = d[k] /\ e[k + 1] = d[k + 1]
        BY <2>2, <3>2
      <4> QED BY <4>1, <4>2
    <3> QED BY <2>2, <3>1, <3>2
  <2> QED BY <2>1, <2>2, <2>3, <2>4, <2>5 DEF Abridges
<1> QED BY <1>1, <1>2

\* The deduplicated history is the history without some repetitions.
LEMMA DeduplicateAbridges ==
  ASSUME NEW M, NEW ms \in Seq(M), ms # <<>>
  PROVE  Deduplicate(ms) \in Seq(M) /\ Abridges(Deduplicate(ms), ms, Len(ms))
<1> DEFINE n == Len(ms)
           f == CHOOSE f : Folds(f, ms, n)
<1>1. n \in Nat /\ n >= 1
  OBVIOUS
<1>2. Deduplicate(ms) = f[n]
  BY DEF Deduplicate, Folds
<1>3. Folds(f, ms, n)
  BY <1>1, FoldExists
<1> HIDE DEF f
<1>4. \A i \in 0..n : f[i] = IF i = 0 THEN <<>> ELSE Keep(f[i - 1], ms[i])
  BY <1>3 DEF Folds
<1> DEFINE Bad == {i \in Nat : i \in 1..n /\ ~(f[i] \in Seq(M) /\ Abridges(f[i], ms, i))}
<1>5. Bad = {}
  <2> SUFFICES ASSUME Bad # {} PROVE FALSE
    OBVIOUS
  <2>1. Min(Bad) \in Bad /\ \A k \in Bad : Min(Bad) <= k
    <3>1. Bad \in SUBSET Nat
      OBVIOUS
    <3> HIDE DEF Bad
    <3> QED BY <3>1, LeastNumber
  <2> DEFINE m == Min(Bad)
  <2>2. m \in 1..n /\ ~(f[m] \in Seq(M) /\ Abridges(f[m], ms, m))
    BY <2>1
  <2>3. m # 1
    <3>1. f[0] = <<>> /\ f[1] = Keep(<<>>, ms[1])
      BY <1>1, <1>4
    <3>2. f[1] = <<ms[1]>> /\ ms[1] \in M
      BY <1>1, <3>1 DEF Keep
    <3>3. f[1] \in Seq(M) /\ Abridges(f[1], ms, 1)
      BY <3>2 DEF Abridges, Last
    <3> QED BY <2>2, <3>3
  <2>4. m - 1 \in 1..(n - 1) /\ f[m - 1] \in Seq(M) /\ Abridges(f[m - 1], ms, m - 1)
    <3>1. m - 1 \in 1..n /\ ~(m <= m - 1)
      BY <2>2, <2>3
    <3>2. m - 1 \notin Bad
      BY <2>1, <3>1
    <3> QED BY <1>1, <2>2, <3>1, <3>2
  <2>5. f[m] = Keep(f[m - 1], ms[m]) /\ (m - 1) + 1 = m
    BY <1>4, <2>2
  <2> HIDE DEF m
  <2> QED BY <2>2, <2>4, <2>5, KeepAbridges
<1> QED BY <1>1, <1>2, <1>5

-----------------------------------------------------------------------------
(* What a compaction returns *)

\* Answers belong to the request before them, and answer something.
Answered(ms) ==
  /\ AnswersPaired(ms)
  /\ \A i \in DOMAIN ms : ms[i].kind = "tool" => ms[i].uses # {}

\* A compacted history ends as the old one does; what is not a summary was there,
\* next to the same message unless it follows the summary, where no answer stands.
Compacted(new, ms) ==
  /\ new # <<>> /\ Last(new) = Last(ms) /\ new[1].kind # "tool"
  /\ \A k \in 1..Len(new) :
       \/ new[k].kind = "summary" /\ new[k].uses = {} /\ new[k].denied = {}
       \/ \E i \in 1..Len(ms) : new[k] = ms[i]
  /\ \A k \in 1..(Len(new) - 1) :
       \/ new[k].kind = "summary" /\ new[k + 1].kind # "tool"
       \/ \E i \in 1..(Len(ms) - 1) : new[k] = ms[i] /\ new[k + 1] = ms[i + 1]

\* A paired history does not start with an answer.
LEMMA FirstIsNoAnswer ==
  ASSUME NEW ms \in Seq(Message), ms # <<>>, Answered(ms)
  PROVE  ms[1].kind # "tool"
<1>1. 1 \in DOMAIN ms /\ ~(1 > 1)
  OBVIOUS
<1> QED BY <1>1 DEF Answered, AnswersPaired

LEMMA AbridgedIsCompacted ==
  ASSUME NEW ms \in Seq(Message), ms # <<>>, Answered(ms),
         NEW d \in Seq(Message), Abridges(d, ms, Len(ms))
  PROVE  Compacted(d, ms)
<1>1. ms[1].kind # "tool"
  BY FirstIsNoAnswer
<1> QED BY <1>1 DEF Abridges, Compacted, Last

\* A group starts with a message that is no answer, and there is a first group.
LEMMA GroupsStart ==
  ASSUME NEW ms \in Seq(Message), ms # <<>>, Answered(ms),
         NEW d \in Seq(Message), Abridges(d, ms, Len(ms))
  PROVE  /\ RetainedFrom(d) \in 1..Len(d)
         /\ d[RetainedFrom(d)].kind # "tool"
<1>1. GroupStarts(d) \in SUBSET Nat /\ GroupStarts(d) \subseteq 1..Len(d) /\ Len(d) \in Nat
  BY DEF GroupStarts
<1>2. 1 \in GroupStarts(d)
  BY DEF GroupStarts, Abridges
<1>3. RetainedFrom(d) \in GroupStarts(d)
  <2> DEFINE fits == {i \in GroupStarts(d) : Len(d) - i + 1 <= KeepRecent}
  <2>1. fits # {} => Min(fits) \in fits
    <3>1. fits \in SUBSET Nat
      BY <1>1
    <3> HIDE DEF fits
    <3> QED BY <3>1, LeastNumber
  <2>2. Max(GroupStarts(d)) \in GroupStarts(d)
    <3>1. \A x \in GroupStarts(d) : x <= Len(d)
      BY <1>1
    <3> QED BY <1>1, <1>2, <3>1, GreatestNumber
  <2>3. RetainedFrom(d) = IF fits # {} THEN Min(fits) ELSE Max(GroupStarts(d))
    BY DEF RetainedFrom
  <2> QED BY <2>1, <2>2, <2>3
<1>4. ASSUME NEW i \in GroupStarts(d)
      PROVE  d[i].kind # "tool"
  <2> SUFFICES ASSUME d[i].kind = "tool" PROVE FALSE
    OBVIOUS
  <2>1. i # 1
    BY FirstIsNoAnswer DEF Abridges
  <2>2. i \in Nat /\ i - 1 \in 1..(Len(d) - 1)
    BY <1>1, <2>1
  <2>3. PICK j \in 1..(Len(ms) - 1) : d[i - 1] = ms[j] /\ d[(i - 1) + 1] = ms[j + 1]
    BY <2>2 DEF Abridges
  <2>4. d[i] = ms[j + 1]
    BY <2>2, <2>3
  <2>5. j + 1 \in DOMAIN ms /\ (j + 1) - 1 = j
    BY <2>3
  <2>6. ms[j].kind = "assistant" /\ ms[j].uses # {}
    BY <2>4, <2>5 DEF Answered, AnswersPaired
  <2> QED BY <2>2, <2>3, <2>4, <2>6 DEF GroupStarts
<1> QED BY <1>1, <1>3, <1>4

LEMMA GoalTyped ==
  ASSUME NEW d \in Seq(Message)
  PROVE  CurrentGoal(d) \in Texts \cup {NoText}
<1> DEFINE users == {i \in DOMAIN d : d[i].kind = "user"}
<1>1. users \in SUBSET Nat /\ users \subseteq DOMAIN d /\ \A i \in users : i <= Len(d)
  OBVIOUS
<1>2. users # {} => Max(users) \in users
  <2> SUFFICES ASSUME users # {} PROVE Max(users) \in users
    OBVIOUS
  <2>1. Len(d) \in Nat
    OBVIOUS
  <2> HIDE DEF users
  <2> QED BY <1>1, <2>1, GreatestNumber
<1>3. CurrentGoal(d) = IF users = {} THEN NoText ELSE d[Max(users)].text
  BY DEF CurrentGoal
<1>4. users # {} => d[Max(users)] \in Message
  BY <1>1, <1>2
<1> QED BY <1>3, <1>4 DEF Message

\* Whatever compaction the loop makes, the history it leaves is a compacted one.
LEMMA CompactionsCompact ==
  ASSUME NEW ms \in Seq(Message), ms # <<>>, Answered(ms), NEW force,
         NEW new \in Compactions(ms, force)
  PROVE  new \in Seq(Message) /\ Compacted(new, ms)
<1> DEFINE d == Deduplicate(ms)
           from == RetainedFrom(d)
           sm == SummaryMessage(CurrentGoal(ms))
<1>1. d \in Seq(Message) /\ Abridges(d, ms, Len(ms))
  BY DeduplicateAbridges
<1>2. from \in 1..Len(d) /\ d[from].kind # "tool"
  BY <1>1, GroupsStart
<1>3. sm \in Message /\ sm.kind = "summary" /\ sm.uses = {} /\ sm.denied = {}
  BY GoalTyped DEF SummaryMessage, Message
<1>4. new = d \/ new = <<sm>> \o SubSeq(d, from, Len(d))
  <2>1. new \in Summarised(d, CurrentGoal(ms)) \/ new = d
    <3> DEFINE Results(e) == Summarised(e, CurrentGoal(ms))
                             \cup (IF force \/ Len(e) > MaxMessages THEN {} ELSE {e})
    <3>1. new \in UNION {Results(e) : e \in {d}}
      BY DEF Compactions
    <3>2. new \in Results(d)
      <4> HIDE DEF Results, d
      <4> QED BY <3>1
    <3> HIDE DEF d
    <3> QED BY <3>2
  <2> QED BY <2>1 DEF Summarised
<1> HIDE DEF d, from, sm
<1>5. CASE new = d
  BY <1>1, <1>5, AbridgedIsCompacted
<1>6. CASE new = <<sm>> \o SubSeq(d, from, Len(d))
  <2>1. /\ Len(d) \in Nat /\ from \in Nat
        /\ Len(SubSeq(d, from, Len(d))) = Len(d) - from + 1
        /\ SubSeq(d, from, Len(d)) \in Seq(Message)
        /\ \A k \in 1..(Len(d) - from + 1) : SubSeq(d, from, Len(d))[k] = d[from + k - 1]
    BY <1>1, <1>2
  <2>2. /\ new \in Seq(Message) /\ Len(new) = Len(d) - from + 2 /\ new[1] = sm
        /\ \A k \in 2..Len(new) : new[k] = d[from + k - 2]
    BY <1>3, <1>6, <2>1
  <2>3. Compacted(d, ms)
    BY <1>1, AbridgedIsCompacted
  <2>4. new # <<>> /\ Last(new) = Last(ms) /\ new[1].kind # "tool"
    BY <1>2, <1>3, <2>1, <2>2, <2>3 DEF Compacted, Last
  <2>5. ASSUME NEW k \in 1..Len(new)
        PROVE  \/ new[k].kind = "summary" /\ new[k].uses = {} /\ new[k].denied = {}
               \/ \E i \in 1..Len(ms) : new[k] = ms[i]
    <3>1. CASE k = 1
      BY <1>3, <2>2, <3>1
    <3>2. CASE k # 1
      <4>1. from + k - 2 \in 1..Len(d) /\ new[k] = d[from + k - 2]
        BY <1>2, <2>1, <2>2, <3>2
      <4> QED BY <2>3, <4>1 DEF Compacted
    <3> QED BY <3>1, <3>2
  <2>6. ASSUME NEW k \in 1..(Len(new) - 1)
        PROVE  \/ new[k].kind = "summary" /\ new[k + 1].kind # "tool"
               \/ \E i \in 1..(Len(ms) - 1) : new[k] = ms[i] /\ new[k + 1] = ms[i + 1]
    <3>1. CASE k = 1
      <4>1. new[2] = d[from]
        BY <2>1, <2>2, <3>1
      <4> QED BY <1>2, <1>3, <2>2, <3>1, <4>1
    <3>2. CASE k # 1
      <4> DEFINE j == from + k - 2
      <4>1. j \in 1..(Len(d) - 1) /\ new[k] = d[j] /\ new[k + 1] = d[j + 1]
        <5>1. k \in 2..Len(new) /\ k + 1 \in 2..Len(new) /\ from + (k + 1) - 2 = j + 1
          BY <2>1, <2>2, <3>2
        <5>2. new[k] = d[j]
          BY <2>2, <5>1
        <5>3. new[k + 1] = d[from + (k + 1) - 2]
          BY <2>2, <5>1
        <5>4. j \in 1..(Len(d) - 1)
          <6>1. /\ k \in Nat /\ k >= 2 /\ k + 1 <= Len(d) - from + 2
                /\ from >= 1 /\ from \in Nat /\ Len(d) \in Nat
            BY <1>2, <2>1, <2>2, <5>1
          <6> QED BY <6>1
        <5> QED BY <5>1, <5>2, <5>3, <5>4
      <4> HIDE DEF j
      <4> QED BY <2>3, <4>1 DEF Compacted
    <3> QED BY <3>1, <3>2
  <2> QED BY <2>2, <2>4, <2>5, <2>6 DEF Compacted
<1> QED BY <1>4, <1>5, <1>6

\* ContextCompactor: whatever the history, the budget and the reason of a compaction,
\* no answer loses its request and none stands first, so that the result can be
\* compacted again; and the history still ends with the message to act on.
THEOREM CompactionKeepsPairs ==
  ASSUME NEW ms \in Seq(Message), ms # <<>>, Answered(ms),
         NEW force \in BOOLEAN, NEW new \in Compactions(ms, force)
  PROVE  new \in Seq(Message) /\ new # <<>> /\ Answered(new) /\ Last(new) = Last(ms)
<1>1. new \in Seq(Message) /\ Compacted(new, ms)
  BY CompactionsCompact
<1>2. ASSUME NEW k \in DOMAIN new, new[k].kind = "tool"
      PROVE  /\ k > 1 /\ new[k - 1].kind = "assistant" /\ new[k - 1].uses = new[k].uses
             /\ new[k].uses # {}
  <2>1. k \in 1..Len(new) /\ k # 1
    BY <1>1, <1>2 DEF Compacted
  <2>2. k - 1 \in 1..(Len(new) - 1) /\ (k - 1) + 1 = k
    BY <1>1, <2>1
  <2>3. PICK i \in 1..(Len(ms) - 1) : new[k - 1] = ms[i] /\ new[k] = ms[i + 1]
    <3>1. \/ new[k - 1].kind = "summary" /\ new[(k - 1) + 1].kind # "tool"
          \/ \E i \in 1..(Len(ms) - 1) : new[k - 1] = ms[i] /\ new[(k - 1) + 1] = ms[i + 1]
      BY <1>1, <2>2 DEF Compacted
    <3> QED BY <1>2, <2>2, <3>1
  <2>4. i + 1 \in DOMAIN ms /\ (i + 1) - 1 = i
    OBVIOUS
  <2>5. ms[i].kind = "assistant" /\ ms[i].uses = ms[i + 1].uses /\ ms[i + 1].uses # {}
    BY <1>2, <2>3, <2>4 DEF Answered, AnswersPaired
  <2> QED BY <2>1, <2>3, <2>5
<1> QED BY <1>1, <1>2 DEF Compacted, Answered, AnswersPaired

-----------------------------------------------------------------------------
(* The inductive invariant *)

\* One message: its uses have been proposed, and an answer says what became of them.
Truthful(m) ==
  /\ m.denied \subseteq m.uses /\ m.uses \subseteq 1..proposed
  /\ m.kind = "tool" => /\ m.uses # {}
                        /\ \A u \in m.uses : (u \in m.denied) <=> (executions[u] = 0)

\* Two neighbours: an answer follows its request, and what else follows one is a user.
Adjacent(m, n) ==
  /\ n.kind = "tool" => m.kind = "assistant" /\ m.uses = n.uses
  /\ m.kind = "assistant" /\ m.uses # {} => n.kind \in {"tool", "user"}

Sound(ms) ==
  /\ \A i \in 1..Len(ms) : Truthful(ms[i])
  /\ \A i \in 1..(Len(ms) - 1) : Adjacent(ms[i], ms[i + 1])
  /\ ms # <<>> => ms[1].kind # "tool"

WithUses == {"permission", "waiting", "tool"}

\* How the last message fits the node, and the reason to stop.
NodeInv ==
  /\ node # "idle" => messages # <<>>
  /\ node = "prepare" => Last(messages).kind = "user"
  /\ node \in {"compact", "model"} => Last(messages).kind \in {"user", "tool"}
  /\ node \in WithUses => Last(messages).kind = "assistant" /\ LatestUses # {}
  /\ node \in {"compact", "model"} \cup WithUses => stopReason = "none"
  /\ node = "final" => \/ stopReason = "hook_blocked" /\ Last(messages).kind = "user"
                       \/ /\ stopReason = "none" /\ Last(messages).kind = "assistant"
                          /\ LatestUses = {} \/ iterationCount >= maxIterations
                       \/ stopReason = "max_iterations"
  /\ CompletedIsAnswered
  /\ node # "tool" => ran = {}

\* What is known of a tool use before, during and after its execution.
UsesInv ==
  /\ \A u \in ToolUseIds :
       u > proposed => executions[u] = 0 /\ u \notin refused /\ u \notin hookBlocked
  /\ node \in {"permission", "waiting"} =>
       \A u \in LatestUses : executions[u] = 0 /\ u \notin refused /\ u \notin hookBlocked
  /\ node \in WithUses =>
       \A i \in 1..Len(messages) : messages[i].kind = "tool" => messages[i].uses \cap LatestUses = {}
  /\ node = "tool" =>
       /\ pendingToolUses \cup pendingToolResults = LatestUses
       /\ pendingToolUses \cap pendingToolResults = {}
       /\ \A u \in pendingToolUses : /\ verdict[u] \in {"allow", "ask"}
                                     /\ verdict[u] = "ask" => u \in granted
                                     /\ u \notin refused /\ u \notin hookBlocked
       /\ \A u \in LatestUses : executions[u] = IF u \in ran THEN 1 ELSE 0
  /\ OnlyAuthorisedToolsRun
  /\ ToolRunsAtMostOnce

AgentInv == TypeOK /\ Sound(messages) /\ NodeInv /\ UsesInv

-----------------------------------------------------------------------------
(* The history *)

LEMMA SoundIsAnswered ==
  ASSUME NEW ms \in Seq(Message), Sound(ms)
  PROVE  Answered(ms)
<1>1. ASSUME NEW i \in DOMAIN ms, ms[i].kind = "tool"
      PROVE  i > 1 /\ ms[i - 1].kind = "assistant" /\ ms[i - 1].uses = ms[i].uses /\ ms[i].uses # {}
  <2>1. i \in 1..Len(ms) /\ i # 1
    BY <1>1 DEF Sound
  <2>2. i - 1 \in 1..(Len(ms) - 1) /\ (i - 1) + 1 = i
    BY <2>1
  <2>3. Adjacent(ms[i - 1], ms[i])
    BY <2>2 DEF Sound
  <2> QED BY <1>1, <2>1, <2>3 DEF Sound, Adjacent, Truthful
<1> QED BY <1>1 DEF Answered, AnswersPaired

LEMMA SoundCompacted ==
  ASSUME NEW ms \in Seq(Message), Sound(ms), NEW new \in Seq(Message), Compacted(new, ms)
  PROVE  Sound(new)
<1>1. ASSUME NEW k \in 1..Len(new)
      PROVE  Truthful(new[k])
  <2>1. CASE new[k].kind = "summary" /\ new[k].uses = {} /\ new[k].denied = {}
    BY <2>1 DEF Truthful
  <2>2. CASE \E i \in 1..Len(ms) : new[k] = ms[i]
    BY <2>2 DEF Sound
  <2> QED BY <2>1, <2>2 DEF Compacted
<1>2. ASSUME NEW k \in 1..(Len(new) - 1)
      PROVE  Adjacent(new[k], new[k + 1])
  <2>1. CASE new[k].kind = "summary" /\ new[k + 1].kind # "tool"
    BY <2>1 DEF Adjacent
  <2>2. CASE \E i \in 1..(Len(ms) - 1) : new[k] = ms[i] /\ new[k + 1] = ms[i + 1]
    BY <2>2 DEF Sound
  <2> QED BY <2>1, <2>2 DEF Compacted
<1> QED BY <1>1, <1>2 DEF Sound, Compacted

LEMMA Appended ==
  ASSUME NEW M, NEW ms \in Seq(M), NEW m \in M
  PROVE  /\ Append(ms, m) \in Seq(M) /\ Append(ms, m) # <<>> /\ Last(Append(ms, m)) = m
         /\ Len(Append(ms, m)) = Len(ms) + 1 /\ Append(ms, m)[Len(ms) + 1] = m
         /\ \A k \in 1..Len(ms) : Append(ms, m)[k] = ms[k]
BY DEF Last

LEMMA SoundAppended ==
  ASSUME NEW ms \in Seq(Message), Sound(ms), NEW m \in Message, Truthful(m),
         ms = <<>> => m.kind # "tool", ms # <<>> => Adjacent(Last(ms), m)
  PROVE  Sound(Append(ms, m))
<1> DEFINE e == Append(ms, m)
<1>1. /\ Len(ms) \in Nat /\ Len(e) = Len(ms) + 1 /\ e[Len(ms) + 1] = m
      /\ \A k \in 1..Len(ms) : e[k] = ms[k]
  BY Appended
<1> HIDE DEF e
<1>2. \A k \in 1..Len(e) : Truthful(e[k])
  BY <1>1 DEF Sound
<1>3. ASSUME NEW k \in 1..(Len(e) - 1)
      PROVE  Adjacent(e[k], e[k + 1])
  <2>1. CASE k = Len(ms)
    BY <1>1, <2>1 DEF Last
  <2>2. CASE k \in 1..(Len(ms) - 1)
    <3>1. e[k] = ms[k] /\ e[k + 1] = ms[k + 1]
      BY <1>1, <2>2
    <3> QED BY <2>2, <3>1 DEF Sound
  <2> QED BY <1>1, <2>1, <2>2
<1>4. e[1].kind # "tool"
  BY <1>1 DEF Sound
<1> QED BY <1>2, <1>3, <1>4 DEF Sound, e

-----------------------------------------------------------------------------
(* The steps *)

\* A sound history stays sound while no tool runs and none is proposed.
LEMMA SoundKept ==
  ASSUME NEW ms, Sound(ms), proposed' = proposed, executions' = executions, messages' = ms
  PROVE  Sound(messages)'
BY DEF Sound, Truthful, Adjacent

LEMMA StartTurnInv == AgentInv /\ StartTurn => AgentInv'
<1> SUFFICES ASSUME AgentInv, StartTurn PROVE AgentInv'
  OBVIOUS
<1> USE AgentLoopAssumption
<1>1. PICK text \in Texts : messages' = Append(messages, UserMessage(text)) /\ goal' = text
  BY DEF StartTurn
<1>2. /\ node = "idle" /\ node' = "prepare" /\ turns < MaxTurns /\ turns' = turns + 1
      /\ UNCHANGED <<iterationCount, stopReason, pendingToolUses, pendingToolResults, ran,
                     maxIterations, proposed, verdict, granted, refused, hookBlocked,
                     executions>>
  BY DEF StartTurn, GoTo, EntryNode, factVars
<1> DEFINE m == UserMessage(text)
<1>3. m \in Message /\ m.kind = "user" /\ Truthful(m) /\ m.denied \subseteq m.uses
  BY DEF UserMessage, Message, Truthful
<1> HIDE DEF m
<1>4. messages' \in Seq(Message) /\ messages' # <<>> /\ Last(messages') = m
  BY <1>1, <1>3, Appended DEF AgentInv, TypeOK, m
<1>5. Sound(messages)'
  <2>1. messages # <<>> => Adjacent(Last(messages), m)
    BY <1>3 DEF Adjacent
  <2>2. Sound(Append(messages, m))
    BY <1>3, <2>1, SoundAppended DEF AgentInv, TypeOK
  <2> QED BY <1>1, <1>2, <2>2, SoundKept DEF m
<1>6. TypeOK'
  <2>1. \A i \in DOMAIN messages' : messages'[i].denied \subseteq messages'[i].uses
    BY <1>4, <1>5 DEF Sound, Truthful
  <2> QED BY <1>1, <1>2, <1>4, <2>1 DEF AgentInv, TypeOK, Nodes
<1>7. NodeInv'
  BY <1>2, <1>3, <1>4 DEF AgentInv, NodeInv, WithUses, CompletedIsAnswered
<1>8. UsesInv'
  BY <1>2 DEF AgentInv, UsesInv, WithUses, OnlyAuthorisedToolsRun, ToolRunsAtMostOnce
<1> QED BY <1>5, <1>6, <1>7, <1>8 DEF AgentInv

LEMMA PrepareInv == AgentInv /\ Prepare => AgentInv'
<1> SUFFICES ASSUME AgentInv, Prepare PROVE AgentInv'
  OBVIOUS
<1> USE AgentLoopAssumption
<1>1. /\ node = "prepare" /\ iterationCount' = 0
      /\ \/ stopReason' = "none" /\ node' = "compact"
         \/ stopReason' = "hook_blocked" /\ node' = "final"
      /\ UNCHANGED <<messages, pendingToolUses, pendingToolResults, ran, proposed, verdict, granted,
                     refused, hookBlocked, executions, maxIterations, turns, goal>>
  BY DEF Prepare, factVars, turnVars
<1>2. Sound(messages)'
  BY <1>1, SoundKept DEF AgentInv
<1>3. TypeOK'
  BY <1>1 DEF AgentInv, TypeOK, Nodes, StopReasons
<1>4. NodeInv'
  BY <1>1 DEF AgentInv, NodeInv, WithUses, CompletedIsAnswered, LatestUses
<1>5. UsesInv'
  BY <1>1 DEF AgentInv, UsesInv, WithUses, OnlyAuthorisedToolsRun, ToolRunsAtMostOnce
<1> QED BY <1>2, <1>3, <1>4, <1>5 DEF AgentInv

LEMMA CompactInv == AgentInv /\ Compact => AgentInv'
<1> SUFFICES ASSUME AgentInv, Compact PROVE AgentInv'
  OBVIOUS
<1>1. /\ node = "compact" /\ node' = "model" /\ messages' \in Compactions(messages, FALSE)
      /\ UNCHANGED <<iterationCount, stopReason, pendingToolUses, pendingToolResults, ran,
                     proposed, verdict, granted, refused, hookBlocked, executions, maxIterations, turns, goal>>
  BY DEF Compact, GoTo, factVars, turnVars
<1>2. messages \in Seq(Message) /\ messages # <<>> /\ Sound(messages)
  BY <1>1 DEF AgentInv, TypeOK, NodeInv
<1>3. messages' \in Seq(Message) /\ Compacted(messages', messages)
  BY <1>1, <1>2, CompactionsCompact, SoundIsAnswered
<1>4. Sound(messages)'
  <2>1. Sound(messages')
    BY <1>2, <1>3, SoundCompacted
  <2>2. proposed' = proposed /\ executions' = executions
    BY <1>1
  <2> QED BY <2>1, <2>2 DEF Sound, Truthful, Adjacent
<1>5. messages' # <<>> /\ Last(messages') = Last(messages)
  BY <1>3 DEF Compacted
<1>6. TypeOK'
  <2>1. \A i \in DOMAIN messages' : messages'[i].denied \subseteq messages'[i].uses
    BY <1>3, <1>4 DEF Sound, Truthful
  <2> QED BY <1>1, <1>3, <2>1 DEF AgentInv, TypeOK, NodeInv, Nodes
<1>7. NodeInv'
  BY <1>1, <1>5 DEF AgentInv, NodeInv, WithUses, CompletedIsAnswered
<1>8. UsesInv'
  BY <1>1 DEF AgentInv, UsesInv, WithUses, OnlyAuthorisedToolsRun, ToolRunsAtMostOnce
<1> QED BY <1>4, <1>6, <1>7, <1>8 DEF AgentInv

\* The history the model is asked with, as it is or compacted once more.
LEMMA AskedHistory ==
  ASSUME NEW ms \in Seq(Message), ms # <<>>, Sound(ms),
         NEW history \in {ms} \cup Compactions(ms, TRUE)
  PROVE  /\ history \in Seq(Message) /\ Sound(history) /\ history # <<>>
         /\ Last(history) = Last(ms)
<1>1. CASE history = ms
  BY <1>1
<1>2. CASE history \in Compactions(ms, TRUE)
  <2>1. history \in Seq(Message) /\ Compacted(history, ms)
    BY <1>2, CompactionsCompact, SoundIsAnswered
  <2> QED BY <2>1, SoundCompacted DEF Compacted
<1> QED BY <1>1, <1>2

LEMMA ModelInv == AgentInv /\ Model => AgentInv'
<1> SUFFICES ASSUME AgentInv, Model PROVE AgentInv'
  OBVIOUS
<1> USE AgentLoopAssumption
<1>0. PICK history \in {messages} \cup Compactions(messages, TRUE) :
        Responds(history, iterationCount + 1)
  BY Zenon DEF Model, Counted
<1>1. /\ iterationCount' = iterationCount + 1
      /\ \E k \in 0..MaxBatch :
           /\ proposed + k <= MaxToolUses
           /\ messages' = Append(history, AssistantMessage((proposed + 1)..(proposed + k)))
           /\ proposed' = proposed + k
           /\ node' = RouteAfterModel((proposed + 1)..(proposed + k), iterationCount + 1)
  BY <1>0, Zenon DEF Responds
<1>2. /\ node = "model" /\ iterationCount < maxIterations
      /\ UNCHANGED <<stopReason, pendingToolUses, pendingToolResults, ran, verdict, granted, refused,
                     hookBlocked, executions, maxIterations, turns, goal>>
  BY DEF Model, turnVars
<1> PICK k \in 0..MaxBatch :
        /\ proposed + k <= MaxToolUses
        /\ messages' = Append(history, AssistantMessage((proposed + 1)..(proposed + k)))
        /\ proposed' = proposed + k
        /\ node' = RouteAfterModel((proposed + 1)..(proposed + k), iterationCount + 1)
  BY <1>1
<1>3. PICK uses : uses = (proposed + 1)..(proposed + k)
  OBVIOUS
<1>4. PICK m : m = AssistantMessage(uses)
  OBVIOUS
<1>5. /\ proposed \in Nat /\ proposed' \in 0..MaxToolUses /\ uses \subseteq ToolUseIds
      /\ uses \subseteq 1..proposed' /\ 1..proposed \subseteq 1..proposed'
      /\ uses \cap (1..proposed) = {} /\ \A u \in uses : u > proposed
  BY <1>1, <1>3 DEF AgentInv, TypeOK, ToolUseIds
<1>6. m \in Message /\ m.kind = "assistant" /\ m.uses = uses /\ m.denied = {}
  BY <1>5, <1>4 DEF AssistantMessage, Message
<1>7. /\ history \in Seq(Message) /\ Sound(history) /\ history # <<>>
      /\ Last(history) = Last(messages)
  <2>1. messages \in Seq(Message) /\ messages # <<>> /\ Sound(messages)
    BY <1>2 DEF AgentInv, TypeOK, NodeInv
  <2> QED BY <2>1, AskedHistory
<1>8. messages' = Append(history, m) /\ node' = RouteAfterModel(uses, iterationCount + 1)
  BY <1>1, <1>3, <1>4
<1>9. /\ messages' \in Seq(Message) /\ messages' # <<>> /\ Last(messages') = m
      /\ Len(messages') = Len(history) + 1 /\ messages'[Len(history) + 1] = m
      /\ \A j \in 1..Len(history) : messages'[j] = history[j]
  BY <1>6, <1>7, <1>8, Appended
<1>10. Sound(messages)'
  <2>1. \A i \in 1..Len(history) : Truthful(history[i])'
    BY <1>2, <1>5, <1>7 DEF Sound, Truthful
  <2>2. Truthful(m)'
    BY <1>5, <1>6 DEF Truthful
  <2>3. \A i \in 1..Len(messages') : Truthful(messages[i])'
    <3>1. \A i \in 1..Len(messages') : i = Len(history) + 1 \/ i \in 1..Len(history)
      BY <1>7, <1>9
    <3>2. ASSUME NEW i \in 1..Len(messages')
          PROVE  Truthful(messages[i])'
      <4>1. CASE i = Len(history) + 1
        BY <1>9, <2>2, <4>1 DEF Truthful
      <4>2. CASE i \in 1..Len(history)
        BY <1>9, <2>1, <4>2 DEF Truthful
      <4> QED BY <3>1, <4>1, <4>2
    <3> QED BY <3>2
  <2>4. ASSUME NEW i \in 1..(Len(messages') - 1)
        PROVE  Adjacent(messages'[i], messages'[i + 1])
    <3>1. CASE i = Len(history)
      <4>1. messages'[i] = Last(messages) /\ messages'[i + 1] = m
        BY <1>7, <1>9, <3>1 DEF Last
      <4>2. Last(messages).kind # "assistant"
        BY <1>2 DEF AgentInv, NodeInv
      <4> QED BY <1>6, <4>1, <4>2 DEF Adjacent
    <3>2. CASE i \in 1..(Len(history) - 1)
      <4>1. messages'[i] = history[i] /\ messages'[i + 1] = history[i + 1]
        BY <1>7, <1>9, <3>2
      <4> QED BY <1>7, <3>2, <4>1 DEF Sound
    <3> QED BY <1>7, <1>9, <3>1, <3>2
  <2>5. messages'[1].kind # "tool"
    BY <1>7, <1>9 DEF Sound
  <2> QED BY <2>3, <2>4, <2>5 DEF Sound, Adjacent
<1>11. \/ node' = "final" /\ (uses = {} \/ iterationCount' >= maxIterations)
       \/ node' = "permission" /\ uses # {} /\ iterationCount' < maxIterations
  <2>1. iterationCount \in Nat /\ maxIterations \in Nat
    BY DEF AgentInv, TypeOK
  <2>2. node' = IF uses = {} \/ iterationCount + 1 >= maxIterations THEN "final" ELSE "permission"
    BY <1>8 DEF RouteAfterModel
  <2>3. CASE uses = {} \/ iterationCount + 1 >= maxIterations
    <3>1. node' = "final"
      BY <2>2, <2>3
    <3>2. uses = {} \/ iterationCount' >= maxIterations
      BY <1>1, <2>3
    <3> QED BY <3>1, <3>2
  <2>4. CASE ~(uses = {} \/ iterationCount + 1 >= maxIterations)
    BY <1>1, <2>1, <2>2, <2>4
  <2> QED BY <2>3, <2>4
<1>12. LatestUses' = uses
  BY <1>6, <1>9 DEF LatestUses
<1>13. TypeOK'
  <2>1. \A i \in DOMAIN messages' : messages'[i].denied \subseteq messages'[i].uses
    BY <1>9, <1>10 DEF Sound, Truthful
  <2>2. iterationCount' \in Nat
    BY <1>1 DEF AgentInv, TypeOK
  <2> QED BY <1>2, <1>5, <1>9, <1>11, <2>1, <2>2 DEF AgentInv, TypeOK, Nodes
<1>14. NodeInv'
  BY <1>2, <1>6, <1>9, <1>11, <1>12 DEF AgentInv, NodeInv, WithUses, CompletedIsAnswered
<1>15. UsesInv'
  <2>1. \A u \in ToolUseIds :
          u > proposed' => executions'[u] = 0 /\ u \notin refused' /\ u \notin hookBlocked'
    BY <1>1, <1>2, <1>5 DEF AgentInv, UsesInv, ToolUseIds
  <2>2. \A u \in uses : executions'[u] = 0 /\ u \notin refused' /\ u \notin hookBlocked'
    BY <1>2, <1>5 DEF AgentInv, UsesInv
  <2>3. \A i \in 1..Len(messages') : messages'[i].kind = "tool" => messages'[i].uses \cap uses = {}
    <3>1. \A i \in 1..Len(history) : history[i].uses \subseteq 1..proposed
      BY <1>7 DEF Sound, Truthful
    <3>2. \A i \in 1..Len(messages') : i = Len(history) + 1 \/ i \in 1..Len(history)
      BY <1>7, <1>9
    <3> QED BY <1>5, <1>6, <1>9, <3>1, <3>2
  <2>4. node' # "tool"
    BY <1>11
  <2>5. OnlyAuthorisedToolsRun' /\ ToolRunsAtMostOnce'
    BY <1>2 DEF AgentInv, UsesInv, OnlyAuthorisedToolsRun, ToolRunsAtMostOnce
  <2> QED BY <1>12, <2>1, <2>2, <2>3, <2>4, <2>5 DEF UsesInv
<1> QED BY <1>10, <1>13, <1>14, <1>15 DEF AgentInv

\* What evaluating the rules for the latest uses changes.
LEMMA EvaluationEffect ==
  ASSUME AgentInv, LatestUses \subseteq ToolUseIds, NEW decision \in Evaluations
  PROVE  /\ decision \in [ToolUseIds -> {"none", "allow", "ask", "deny"}]
         /\ \A u \in ToolUseIds \ LatestUses : decision[u] = verdict[u]
         /\ \A u \in LatestUses : decision[u] \in Decisions
BY DEF Evaluations, Decisions, AgentInv, TypeOK

LEMMA LatestTyped ==
  ASSUME AgentInv, messages # <<>>
  PROVE  LatestUses \subseteq ToolUseIds
<1>1. Len(messages) \in DOMAIN messages /\ messages \in Seq(Message)
  BY DEF AgentInv, TypeOK
<1>2. Last(messages) \in Message
  BY <1>1 DEF Last
<1> QED BY <1>2 DEF LatestUses, Message

\* The facts about the uses that run survive a new evaluation of the latest ones.
LEMMA RunUsesUntouched ==
  ASSUME AgentInv, node \in {"permission", "waiting"},
         NEW decision \in Evaluations, verdict' = decision, executions' = executions,
         granted \subseteq granted', refused' \subseteq refused \cup LatestUses,
         hookBlocked' \subseteq hookBlocked \cup LatestUses
  PROVE  OnlyAuthorisedToolsRun' /\ ToolRunsAtMostOnce'
<1>1. LatestUses \subseteq ToolUseIds
  BY LatestTyped DEF AgentInv, NodeInv
<1>2. \A u \in ToolUseIds : executions[u] > 0 => u \notin LatestUses
  BY DEF AgentInv, UsesInv
<1>3. \A u \in ToolUseIds \ LatestUses : decision[u] = verdict[u]
  BY <1>1, EvaluationEffect
<1> QED BY <1>2, <1>3 DEF AgentInv, UsesInv, OnlyAuthorisedToolsRun, ToolRunsAtMostOnce

\* The plan of the tool node authorises what it will run, and only that.
LEMMA PlanInv ==
  ASSUME AgentInv, node \in {"permission", "waiting"},
         NEW decision \in Evaluations, verdict' = decision,
         NEW grants \in SUBSET Asked(decision), NEW refusals \in SUBSET Asked(decision),
         grants \cap refusals = {}, Plan(decision, grants, refusals),
         UNCHANGED <<messages, iterationCount, stopReason, ran, proposed, executions, maxIterations, turns, goal>>
  PROVE  AgentInv'
<1> USE AgentLoopAssumption
<1>1. PICK blocked \in SUBSET LatestUses :
        /\ pendingToolUses' = Authorised(decision, grants) \ blocked
        /\ pendingToolResults' = Denied(Authorised(decision, grants), blocked)
        /\ hookBlocked' = hookBlocked \cup blocked /\ granted' = granted \cup grants
        /\ refused' = refused \cup refusals /\ node' = "tool"
  BY Zenon DEF Plan
<1>2. /\ LatestUses \subseteq ToolUseIds /\ messages # <<>> /\ ran = {}
      /\ Last(messages).kind = "assistant" /\ LatestUses # {}
      /\ stopReason = "none"
  BY LatestTyped DEF AgentInv, NodeInv, WithUses
<1>3. /\ decision \in [ToolUseIds -> {"none", "allow", "ask", "deny"}]
      /\ \A u \in LatestUses : decision[u] \in Decisions
  BY <1>2, EvaluationEffect
<1>4. Asked(decision) \subseteq LatestUses /\ Authorised(decision, grants) \subseteq LatestUses
  BY DEF Asked, Authorised
<1>5. /\ pendingToolUses' \subseteq LatestUses /\ pendingToolResults' \subseteq LatestUses
      /\ pendingToolUses' \cup pendingToolResults' = LatestUses
      /\ pendingToolUses' \cap pendingToolResults' = {}
  BY <1>1, <1>4 DEF Denied
<1>6. ASSUME NEW u \in pendingToolUses'
      PROVE  /\ decision[u] \in {"allow", "ask"} /\ (decision[u] = "ask" => u \in granted')
             /\ u \notin refused' /\ u \notin hookBlocked'
  <2>1. u \in LatestUses /\ u \notin blocked /\ u \notin refused /\ u \notin hookBlocked
    BY <1>1, <1>5 DEF AgentInv, UsesInv
  <2>2. decision[u] = "allow" \/ (decision[u] = "ask" /\ u \in grants)
    BY <1>1 DEF Authorised
  <2>3. u \notin refusals
    BY <2>2 DEF Asked
  <2>4. decision[u] \in {"allow", "ask"}
    BY <2>2
  <2>5. decision[u] = "ask" => u \in granted'
    BY <1>1, <2>2
  <2>6. u \notin refused'
    BY <1>1, <2>1, <2>3
  <2>7. u \notin hookBlocked'
    BY <1>1, <2>1
  <2> QED BY <2>4, <2>5, <2>6, <2>7
<1>7. Sound(messages)'
  BY SoundKept DEF AgentInv
<1>8. TypeOK'
  BY <1>1, <1>2, <1>3, <1>4, <1>5 DEF AgentInv, TypeOK, Nodes
<1>9. LatestUses' = LatestUses
  BY DEF LatestUses
<1>10. NodeInv'
  BY <1>1, <1>2, <1>9 DEF NodeInv, WithUses, CompletedIsAnswered
<1>11. UsesInv'
  <2>1. OnlyAuthorisedToolsRun' /\ ToolRunsAtMostOnce'
    BY <1>1, <1>4, RunUsesUntouched
  <2>2. \A u \in LatestUses : executions[u] = 0 /\ u \notin ran
    BY <1>2 DEF AgentInv, UsesInv
  <2>3. \A i \in 1..Len(messages) :
          messages[i].kind = "tool" => messages[i].uses \cap LatestUses = {}
    BY DEF AgentInv, UsesInv, WithUses
  <2>4. ASSUME NEW u \in ToolUseIds, u > proposed
        PROVE  executions[u] = 0 /\ u \notin refused' /\ u \notin hookBlocked'
    <3>1. Last(messages).uses \subseteq 1..proposed
      <4>1. Len(messages) \in 1..Len(messages)
        BY <1>2 DEF AgentInv, TypeOK
      <4> QED BY <4>1 DEF AgentInv, Sound, Truthful, Last
    <3>2. u \notin LatestUses
      BY <2>4, <3>1 DEF LatestUses, AgentInv, TypeOK, ToolUseIds
    <3> QED BY <1>1, <1>4, <2>4, <3>2 DEF AgentInv, UsesInv
  <2> QED BY <1>1, <1>5, <1>6, <1>9, <2>1, <2>2, <2>3, <2>4 DEF UsesInv
<1> QED BY <1>7, <1>8, <1>10, <1>11 DEF AgentInv

LEMMA PermissionInv == AgentInv /\ Permission => AgentInv'
<1> SUFFICES ASSUME AgentInv, Permission PROVE AgentInv'
  OBVIOUS
<1>1. /\ node = "permission"
      /\ UNCHANGED <<messages, iterationCount, stopReason, ran, proposed, executions, maxIterations, turns, goal>>
  BY DEF Permission, turnVars
<1>2. PICK decision \in Evaluations :
        /\ verdict' = decision
        /\ \/ /\ Asked(decision) # {}
              /\ node' = "waiting"
              /\ UNCHANGED <<pendingToolUses, pendingToolResults, granted, refused, hookBlocked>>
           \/ /\ Asked(decision) = {}
              /\ Plan(decision, {}, {})
  BY Zenon DEF Permission
<1>3. CASE Plan(decision, {}, {})
  <2>1. {} \in SUBSET Asked(decision) /\ {} \cap {} = {}
    OBVIOUS
  <2> QED BY <1>1, <1>2, <1>3, <2>1, PlanInv
<1>4. CASE /\ node' = "waiting"
           /\ UNCHANGED <<pendingToolUses, pendingToolResults, granted, refused, hookBlocked>>
  <2>1. LatestUses \subseteq ToolUseIds
    BY <1>1, LatestTyped DEF AgentInv, NodeInv
  <2>2. decision \in [ToolUseIds -> {"none", "allow", "ask", "deny"}]
    BY <2>1, EvaluationEffect
  <2>3. Sound(messages)'
    BY <1>1, SoundKept DEF AgentInv
  <2>4. TypeOK'
    BY <1>1, <1>2, <1>4, <2>2 DEF AgentInv, TypeOK
  <2>5. LatestUses' = LatestUses
    BY <1>1 DEF LatestUses
  <2>6. NodeInv'
    BY <1>1, <1>4, <2>5 DEF AgentInv, NodeInv, WithUses, CompletedIsAnswered
  <2>7. OnlyAuthorisedToolsRun' /\ ToolRunsAtMostOnce'
    BY <1>1, <1>2, <1>4, RunUsesUntouched
  <2>8. UsesInv'
    BY <1>1, <1>4, <2>5, <2>7 DEF AgentInv, UsesInv, WithUses
  <2> QED BY <2>3, <2>4, <2>6, <2>8 DEF AgentInv
<1> QED BY <1>2, <1>3, <1>4

LEMMA ResumeInv == AgentInv /\ Resume => AgentInv'
<1> SUFFICES ASSUME AgentInv, Resume PROVE AgentInv'
  OBVIOUS
<1>1. /\ node = "waiting"
      /\ UNCHANGED <<messages, iterationCount, stopReason, ran, proposed, executions, maxIterations, turns, goal>>
  BY DEF Resume, turnVars
<1>2. PICK decision \in Evaluations :
        /\ verdict' = decision
        /\ \E grants, refusals \in SUBSET Asked(decision) :
             /\ grants \cap refusals = {}
             /\ \/ /\ grants \cup refusals = Asked(decision)
                   /\ Plan(decision, grants, refusals)
                \/ /\ grants \cup refusals # Asked(decision)
                   /\ node' = "idle"
                   /\ UNCHANGED <<pendingToolUses, pendingToolResults, granted, refused,
                                  hookBlocked>>
  BY Zenon DEF Resume
<1>3. PICK grants \in SUBSET Asked(decision), refusals \in SUBSET Asked(decision) :
        /\ grants \cap refusals = {}
        /\ \/ Plan(decision, grants, refusals)
           \/ /\ node' = "idle"
              /\ UNCHANGED <<pendingToolUses, pendingToolResults, granted, refused, hookBlocked>>
  BY <1>2, Zenon
<1>4. CASE Plan(decision, grants, refusals)
  BY <1>1, <1>2, <1>3, <1>4, PlanInv
<1>5. CASE /\ node' = "idle"
           /\ UNCHANGED <<pendingToolUses, pendingToolResults, granted, refused, hookBlocked>>
  <2>1. LatestUses \subseteq ToolUseIds
    BY <1>1, LatestTyped DEF AgentInv, NodeInv
  <2>2. decision \in [ToolUseIds -> {"none", "allow", "ask", "deny"}]
    BY <2>1, EvaluationEffect
  <2>3. Sound(messages)'
    BY <1>1, SoundKept DEF AgentInv
  <2>4. TypeOK'
    BY <1>1, <1>2, <1>5, <2>2 DEF AgentInv, TypeOK
  <2>5. NodeInv'
    BY <1>1, <1>5 DEF AgentInv, NodeInv, WithUses, CompletedIsAnswered
  <2>6. OnlyAuthorisedToolsRun' /\ ToolRunsAtMostOnce'
    BY <1>1, <1>2, <1>5, RunUsesUntouched
  <2>7. UsesInv'
    BY <1>1, <1>5, <2>6 DEF AgentInv, UsesInv, WithUses
  <2> QED BY <2>3, <2>4, <2>5, <2>7 DEF AgentInv
<1> QED BY <1>3, <1>4, <1>5

LEMMA RunToolInv ==
  ASSUME AgentInv, NEW u \in ToolUseIds, RunTool(u)
  PROVE  AgentInv'
<1>1. /\ node = "tool" /\ u \in pendingToolUses /\ u \notin ran
      /\ executions' = [executions EXCEPT ![u] = @ + 1] /\ ran' = ran \cup {u}
      /\ UNCHANGED <<messages, iterationCount, stopReason, pendingToolUses, pendingToolResults, node,
                     proposed, verdict, granted, refused, hookBlocked, maxIterations, turns, goal>>
  BY DEF RunTool, Runnable, stateVars, turnVars
<1>2. /\ u \in LatestUses /\ LatestUses \subseteq ToolUseIds /\ messages # <<>>
      /\ verdict[u] \in {"allow", "ask"} /\ (verdict[u] = "ask" => u \in granted)
      /\ u \notin refused /\ u \notin hookBlocked /\ executions[u] = 0
  <2>1. messages # <<>>
    BY <1>1 DEF AgentInv, NodeInv
  <2> QED BY <1>1, <2>1, LatestTyped DEF AgentInv, UsesInv
<1>3. /\ executions' \in [ToolUseIds -> Nat] /\ executions'[u] = 1
      /\ \A v \in ToolUseIds : v # u => executions'[v] = executions[v]
  BY <1>1, <1>2 DEF AgentInv, TypeOK
<1>4. \A i \in 1..Len(messages) : messages[i].kind = "tool" => u \notin messages[i].uses
  BY <1>1, <1>2 DEF AgentInv, UsesInv, WithUses
<1>5. u <= proposed /\ proposed \in Nat /\ u \in Nat
  <2>1. u \in Nat /\ proposed \in Nat
    BY AgentLoopAssumption DEF ToolUseIds, AgentInv, TypeOK
  <2>2. Len(messages) \in 1..Len(messages)
    BY <1>2 DEF AgentInv, TypeOK
  <2>3. LatestUses \subseteq 1..proposed
    BY <2>2 DEF AgentInv, Sound, Truthful, Last, LatestUses
  <2> QED BY <1>2, <2>1, <2>3
<1>6. Sound(messages)'
  <2>1. ASSUME NEW i \in 1..Len(messages)
        PROVE  Truthful(messages[i])'
    <3>1. Truthful(messages[i])
      BY DEF AgentInv, Sound
    <3>2. messages[i].uses \subseteq ToolUseIds
      <4>1. messages[i] \in Message
        BY DEF AgentInv, TypeOK
      <4> QED BY <4>1 DEF Message
    <3>3. messages[i].kind = "tool" => \A v \in messages[i].uses : executions'[v] = executions[v]
      BY <1>3, <1>4, <3>2
    <3> QED BY <1>1, <3>1, <3>3 DEF Truthful
  <2> QED BY <1>1, <2>1 DEF AgentInv, Sound, Adjacent
<1>7. TypeOK'
  BY <1>1, <1>3 DEF AgentInv, TypeOK
<1>8. LatestUses' = LatestUses
  BY <1>1 DEF LatestUses
<1>9. NodeInv'
  BY <1>1, <1>8 DEF AgentInv, NodeInv, WithUses, CompletedIsAnswered
<1>10. UsesInv'
  <2>1. \A v \in ToolUseIds :
          v > proposed => executions'[v] = 0 /\ v \notin refused /\ v \notin hookBlocked
    BY <1>3, <1>5 DEF AgentInv, UsesInv, ToolUseIds
  <2>2. \A v \in LatestUses : executions'[v] = IF v \in ran' THEN 1 ELSE 0
    <3>1. \A v \in LatestUses : executions[v] = IF v \in ran THEN 1 ELSE 0
      BY <1>1 DEF AgentInv, UsesInv
    <3> QED BY <1>1, <1>2, <1>3, <3>1
  <2>3. OnlyAuthorisedToolsRun'
    BY <1>1, <1>2, <1>3 DEF AgentInv, UsesInv, OnlyAuthorisedToolsRun
  <2>4. ToolRunsAtMostOnce'
    BY <1>3 DEF AgentInv, UsesInv, ToolRunsAtMostOnce
  <2> QED BY <1>1, <1>8, <2>1, <2>2, <2>3, <2>4 DEF AgentInv, UsesInv, WithUses
<1> QED BY <1>6, <1>7, <1>9, <1>10 DEF AgentInv

LEMMA ToolsDoneInv == AgentInv /\ ToolsDone => AgentInv'
<1> SUFFICES ASSUME AgentInv, ToolsDone PROVE AgentInv'
  OBVIOUS
<1>1. /\ node = "tool" /\ node' = "compact" /\ ran = pendingToolUses
      /\ messages' = Append(messages, ToolMessage(LatestUses, LatestUses \cap pendingToolResults))
      /\ pendingToolUses' = {} /\ pendingToolResults' = {} /\ ran' = {}
      /\ UNCHANGED <<iterationCount, stopReason, proposed, verdict, granted, refused, hookBlocked,
                     executions, maxIterations, turns, goal>>
  BY DEF ToolsDone, GoTo, AllRan, factVars, turnVars
<1>2. /\ messages # <<>> /\ messages \in Seq(Message) /\ Last(messages).kind = "assistant"
      /\ LatestUses # {} /\ stopReason = "none"
  BY <1>1 DEF AgentInv, TypeOK, NodeInv, WithUses
<1>3. /\ LatestUses \subseteq ToolUseIds /\ LatestUses \subseteq 1..proposed
  <2>1. Len(messages) \in 1..Len(messages)
    BY <1>2
  <2>2. LatestUses \subseteq 1..proposed
    BY <2>1 DEF AgentInv, Sound, Truthful, Last, LatestUses
  <2> QED BY <1>2, <2>2, LatestTyped
<1>4. PICK m : m = ToolMessage(LatestUses, LatestUses \cap pendingToolResults)
  OBVIOUS
<1>5. /\ m \in Message /\ m.kind = "tool" /\ m.uses = LatestUses
      /\ m.denied = LatestUses \cap pendingToolResults
  BY <1>3, <1>4 DEF ToolMessage, Message
<1>6. Truthful(m)
  <2>1. \A u \in LatestUses : (u \in pendingToolResults) <=> (u \notin ran)
    BY <1>1 DEF AgentInv, UsesInv
  <2>2. \A u \in LatestUses : executions[u] = IF u \in ran THEN 1 ELSE 0
    BY <1>1 DEF AgentInv, UsesInv
  <2>3. \A u \in LatestUses : (u \in m.denied) <=> (executions[u] = 0)
    BY <1>5, <2>1, <2>2
  <2> QED BY <1>2, <1>3, <1>5, <2>3 DEF Truthful
<1>7. Sound(Append(messages, m))
  <2>1. Adjacent(Last(messages), m)
    BY <1>2, <1>5 DEF Adjacent, LatestUses
  <2> QED BY <1>2, <1>5, <1>6, <2>1, SoundAppended DEF AgentInv
<1>8. Sound(messages)'
  BY <1>1, <1>4, <1>7, SoundKept
<1>9. messages' \in Seq(Message) /\ messages' # <<>> /\ Last(messages') = m
  BY <1>1, <1>2, <1>4, <1>5, Appended
<1>10. TypeOK'
  <2>1. \A i \in DOMAIN messages' : messages'[i].denied \subseteq messages'[i].uses
    BY <1>8, <1>9 DEF Sound, Truthful
  <2> QED BY <1>1, <1>9, <2>1 DEF AgentInv, TypeOK, Nodes
<1>11. NodeInv'
  BY <1>1, <1>2, <1>5, <1>9 DEF NodeInv, WithUses, CompletedIsAnswered
<1>12. UsesInv'
  BY <1>1 DEF AgentInv, UsesInv, WithUses, OnlyAuthorisedToolsRun, ToolRunsAtMostOnce
<1> QED BY <1>8, <1>10, <1>11, <1>12 DEF AgentInv

LEMMA FinalInv == AgentInv /\ Final => AgentInv'
<1> SUFFICES ASSUME AgentInv, Final PROVE AgentInv'
  OBVIOUS
<1>1. /\ node = "final" /\ node' = "idle" /\ stopReason' = FinishReason
      /\ UNCHANGED <<messages, iterationCount, pendingToolUses, pendingToolResults, ran, proposed,
                     verdict, granted, refused, hookBlocked, executions, maxIterations, turns, goal>>
  BY DEF Final, GoTo, factVars, turnVars
<1>2. \/ stopReason = "hook_blocked" /\ Last(messages).kind = "user"
      \/ /\ stopReason = "none" /\ Last(messages).kind = "assistant"
         /\ LatestUses = {} \/ iterationCount >= maxIterations
      \/ stopReason = "max_iterations"
  BY <1>1 DEF AgentInv, NodeInv
<1>3. stopReason' \in StopReasons /\ (stopReason' = "completed" =>
        Last(messages).kind = "assistant" /\ LatestUses = {})
  BY <1>1, <1>2 DEF FinishReason, StopReasons
<1>4. Sound(messages)'
  BY <1>1, SoundKept DEF AgentInv
<1>5. TypeOK'
  BY <1>1, <1>3 DEF AgentInv, TypeOK
<1>6. NodeInv'
  <2>1. CompletedIsAnswered'
    BY <1>1, <1>3 DEF CompletedIsAnswered, LatestUses
  <2> QED BY <1>1, <2>1 DEF AgentInv, NodeInv, WithUses
<1>7. UsesInv'
  BY <1>1 DEF AgentInv, UsesInv, WithUses, OnlyAuthorisedToolsRun, ToolRunsAtMostOnce
<1> QED BY <1>4, <1>5, <1>6, <1>7 DEF AgentInv

LEMMA AbortInv == AgentInv /\ Abort => AgentInv'
<1> SUFFICES ASSUME AgentInv, Abort PROVE AgentInv'
  OBVIOUS
<1>1. /\ node \in Nodes \cup {"waiting"} /\ node' = "idle" /\ ran' = {}
      /\ UNCHANGED <<messages, iterationCount, stopReason, pendingToolUses, pendingToolResults,
                     proposed, verdict, granted, refused, hookBlocked, executions, maxIterations, turns, goal>>
  BY DEF Abort, stateVars, factVars, turnVars
<1>2. Sound(messages)'
  BY <1>1, SoundKept DEF AgentInv
<1>3. TypeOK'
  BY <1>1 DEF AgentInv, TypeOK
<1>4. NodeInv'
  <2>1. stopReason = "completed" => node = "prepare"
    BY <1>1 DEF AgentInv, NodeInv, WithUses, Nodes
  <2>2. CompletedIsAnswered'
    BY <1>1, <2>1 DEF AgentInv, NodeInv, CompletedIsAnswered
  <2> QED BY <1>1, <2>2 DEF NodeInv, WithUses
<1>5. UsesInv'
  BY <1>1 DEF AgentInv, UsesInv, WithUses, OnlyAuthorisedToolsRun, ToolRunsAtMostOnce
<1> QED BY <1>2, <1>3, <1>4, <1>5 DEF AgentInv

LEMMA BudgetSpentInv == AgentInv /\ BudgetSpent => AgentInv'
<1> SUFFICES ASSUME AgentInv, BudgetSpent PROVE AgentInv'
  OBVIOUS
<1>1. /\ node = "model" /\ node' = "final" /\ stopReason' = "max_iterations"
      /\ UNCHANGED <<messages, iterationCount, pendingToolUses, pendingToolResults, ran, proposed,
                     verdict, granted, refused, hookBlocked, executions, maxIterations, turns, goal>>
  BY DEF BudgetSpent, GoTo, factVars, turnVars
<1>2. Sound(messages)'
  BY <1>1, SoundKept DEF AgentInv
<1>3. TypeOK'
  BY <1>1 DEF AgentInv, TypeOK, Nodes, StopReasons
<1>4. NodeInv'
  BY <1>1 DEF AgentInv, NodeInv, WithUses, CompletedIsAnswered
<1>5. UsesInv'
  BY <1>1 DEF AgentInv, UsesInv, WithUses, OnlyAuthorisedToolsRun, ToolRunsAtMostOnce
<1> QED BY <1>2, <1>3, <1>4, <1>5 DEF AgentInv

LEMMA ReconfigureInv == AgentInv /\ Reconfigure => AgentInv'
<1> SUFFICES ASSUME AgentInv, Reconfigure PROVE AgentInv'
  OBVIOUS
<1>1. /\ node \in {"idle", "waiting"} /\ maxIterations' \in Budgets
      /\ UNCHANGED <<messages, iterationCount, stopReason, pendingToolUses, pendingToolResults, node,
                     ran, proposed, verdict, granted, refused, hookBlocked, executions, turns, goal>>
  BY DEF Reconfigure, stateVars, factVars, turnVars
<1>2. Sound(messages)'
  BY <1>1, SoundKept DEF AgentInv
<1>3. TypeOK'
  BY <1>1 DEF AgentInv, TypeOK
<1>4. NodeInv'
  BY <1>1 DEF AgentInv, NodeInv, WithUses, CompletedIsAnswered, LatestUses
<1>5. UsesInv'
  BY <1>1 DEF AgentInv, UsesInv, WithUses, OnlyAuthorisedToolsRun, ToolRunsAtMostOnce, LatestUses
<1> QED BY <1>2, <1>3, <1>4, <1>5 DEF AgentInv

LEMMA AgentInit == Init => AgentInv
<1> SUFFICES ASSUME Init PROVE AgentInv
  OBVIOUS
<1> USE AgentLoopAssumption
<1>1. TypeOK
  BY DEF Init, TypeOK, StopReasons
<1>2. Sound(messages)
  BY DEF Init, Sound
<1>3. NodeInv
  BY DEF Init, NodeInv, WithUses, CompletedIsAnswered
<1>4. UsesInv
  BY DEF Init, UsesInv, WithUses, OnlyAuthorisedToolsRun, ToolRunsAtMostOnce
<1> QED BY <1>1, <1>2, <1>3, <1>4 DEF AgentInv

LEMMA AgentStep == AgentInv /\ [Next]_vars => AgentInv'
<1> SUFFICES ASSUME AgentInv, [Next]_vars PROVE AgentInv'
  OBVIOUS
<1>1. CASE UNCHANGED vars
  BY <1>1 DEF AgentInv, TypeOK, Sound, Truthful, Adjacent, NodeInv, UsesInv, WithUses,
    CompletedIsAnswered, OnlyAuthorisedToolsRun, ToolRunsAtMostOnce, LatestUses,
    vars, stateVars, factVars, turnVars
<1>2. CASE StartTurn
  BY <1>2, StartTurnInv
<1>3. CASE Prepare
  BY <1>3, PrepareInv
<1>4. CASE Compact
  BY <1>4, CompactInv
<1>5. CASE Model
  BY <1>5, ModelInv
<1>6. CASE Permission
  BY <1>6, PermissionInv
<1>7. CASE \E u \in ToolUseIds : RunTool(u)
  BY <1>7, RunToolInv
<1>8. CASE ToolsDone
  BY <1>8, ToolsDoneInv
<1>9. CASE Final
  BY <1>9, FinalInv
<1>10. CASE Resume
  BY <1>10, ResumeInv
<1>11. CASE Abort
  BY <1>11, AbortInv
<1>12. CASE BudgetSpent
  BY <1>12, BudgetSpentInv
<1>13. CASE Reconfigure
  BY <1>13, ReconfigureInv
<1> QED BY <1>1, <1>2, <1>3, <1>4, <1>5, <1>6, <1>7, <1>8, <1>9, <1>10, <1>11, <1>12, <1>13
        DEF Next, NodeStep

-----------------------------------------------------------------------------
(* The results *)

\* The inductive invariant holds: the history is sound, its end fits the node, and
\* no use has run that is not covered by the plan of its own turn.
THEOREM AgentInvariant == Spec => []AgentInv
BY AgentInit, AgentStep, PTL DEF Spec

\* Uses left open are followed by a user message, or end the history where the
\* graph does not call the model again.
LEMMA OpenUsesAreLast == AgentInv => OpenUsesEndTheirTurn
<1> SUFFICES ASSUME AgentInv, NEW i \in Unanswered(messages)
             PROVE  IF i < Len(messages)
                    THEN messages[i + 1].kind = "user"
                    ELSE node \in {"permission", "waiting", "tool", "final", "idle"}
  BY DEF OpenUsesEndTheirTurn
<1>1. /\ i \in 1..Len(messages) /\ Len(messages) \in Nat
      /\ messages[i].kind = "assistant" /\ messages[i].uses # {}
      /\ ~(i < Len(messages) /\ messages[i + 1].kind = "tool")
  BY DEF Unanswered, AgentInv, TypeOK
<1>2. CASE i < Len(messages)
  <2>1. i \in 1..(Len(messages) - 1)
    BY <1>1, <1>2
  <2>2. Adjacent(messages[i], messages[i + 1])
    BY <2>1 DEF AgentInv, Sound
  <2> QED BY <1>1, <1>2, <2>2 DEF Adjacent
<1>3. CASE ~(i < Len(messages))
  <2>1. i = Len(messages)
    BY <1>1, <1>3
  <2>2. Last(messages).kind = "assistant"
    BY <1>1, <2>1 DEF Last
  <2>3. node \notin {"prepare", "compact", "model"}
    BY <2>2 DEF AgentInv, NodeInv
  <2> QED BY <1>3, <2>3 DEF AgentInv, TypeOK, Nodes
<1> QED BY <1>2, <1>3

\* Between any two nodes the checkpointed state is sound, whatever is aborted,
\* refused, resumed or cut off by the iteration limit.
THEOREM LoopIsSound == Spec => []LoopInv
<1>1. AgentInv => LoopInv
  <2>1. AgentInv => PlanMatchesRequest
    BY DEF AgentInv, NodeInv, UsesInv, WithUses, PlanMatchesRequest
  <2> QED BY <2>1, OpenUsesAreLast DEF AgentInv, NodeInv, LoopInv
<1> QED BY <1>1, AgentInvariant, PTL

\* No tool runs that is not allowed or approved, or that is refused or blocked.
THEOREM OnlyAuthorised == Spec => []OnlyAuthorisedToolsRun
<1>1. AgentInv => OnlyAuthorisedToolsRun
  BY DEF AgentInv, UsesInv
<1> QED BY <1>1, AgentInvariant, PTL

\* A proposed tool use runs at most once over all the turns of the thread.
THEOREM AtMostOnce == Spec => []ToolRunsAtMostOnce
<1>1. AgentInv => ToolRunsAtMostOnce
  BY DEF AgentInv, UsesInv
<1> QED BY <1>1, AgentInvariant, PTL

\* A history tells of every tool use what happened to it, compacted or not.
THEOREM HistoryIsTrue == Spec => []HistoryTellsTheTruth
<1>1. AgentInv => HistoryTellsTheTruth
  BY DEF AgentInv, TypeOK, Sound, Truthful, HistoryTellsTheTruth
<1> QED BY <1>1, AgentInvariant, PTL

\* Answers stay paired with their uses through any number of compactions.
THEOREM PairsSurvive == Spec => []PairsSurviveCompaction
<1>1. AgentInv => PairsSurviveCompaction
  BY SoundIsAnswered DEF AgentInv, TypeOK, Answered, PairsSurviveCompaction
<1> QED BY <1>1, AgentInvariant, PTL

-----------------------------------------------------------------------------
(* The end of a turn *)

\* How much of the tool node is left.
LEMMA ToolsLeft ==
  ASSUME TypeOK
  PROVE  /\ Cardinality(pendingToolUses \ ran) \in 0..MaxToolUses
         /\ \A u \in pendingToolUses \ ran :
              Cardinality(pendingToolUses \ (ran \cup {u}))
                = Cardinality(pendingToolUses \ ran) - 1
<1> USE AgentLoopAssumption
<1>1. IsFiniteSet(ToolUseIds) /\ Cardinality(ToolUseIds) = MaxToolUses
  BY FS_Interval DEF ToolUseIds
<1>2. pendingToolUses \ ran \subseteq ToolUseIds
  BY DEF TypeOK
<1>3. /\ IsFiniteSet(pendingToolUses \ ran)
      /\ Cardinality(pendingToolUses \ ran) <= MaxToolUses
  BY <1>1, <1>2, FS_Subset
<1>4. Cardinality(pendingToolUses \ ran) \in Nat
  BY <1>3, FS_CardinalityType
<1>5. ASSUME NEW u \in pendingToolUses \ ran
      PROVE  Cardinality(pendingToolUses \ (ran \cup {u})) = Cardinality(pendingToolUses \ ran) - 1
  <2>1. pendingToolUses \ (ran \cup {u}) = (pendingToolUses \ ran) \ {u}
    OBVIOUS
  <2> QED BY <1>3, <2>1, FS_RemoveElement
<1>6. Cardinality(pendingToolUses \ ran) \in 0..MaxToolUses
  BY <1>3, <1>4
<1> QED BY <1>5, <1>6

\* What the iterations the budget leaves can take.
RoundsLeft == StepsPerIteration * IterationsLeft

LEMMA Products ==
  ASSUME NEW s \in Nat, NEW x \in Nat
  PROVE  s * x \in Nat /\ s * (x + 1) = s * x + s
OBVIOUS

\* The measure, node by node.
Measured ==
  /\ StepsPerIteration \in Nat /\ IterationsLeft \in Nat /\ RoundsLeft \in Nat
  /\ node = "prepare" => StepsLeft = StepsPerIteration * (maxIterations + 1)
  /\ node = "compact" => StepsLeft = RoundsLeft + 2
  /\ node = "model" => StepsLeft = RoundsLeft + 1
  /\ node = "permission" => StepsLeft = RoundsLeft + MaxToolUses + 5
  /\ node = "waiting" => StepsLeft = RoundsLeft + MaxToolUses + 4
  /\ node = "tool" =>
       /\ Cardinality(pendingToolUses \ ran) \in 0..MaxToolUses
       /\ StepsLeft = RoundsLeft + Cardinality(pendingToolUses \ ran) + 3
  /\ node = "final" => StepsLeft = 0

LEMMA StepsAtNode == TypeOK => Measured
<1> SUFFICES ASSUME TypeOK PROVE Measured
  OBVIOUS
<1> USE AgentLoopAssumption
<1>1. StepsPerIteration \in Nat /\ IterationsLeft \in Nat
  BY DEF TypeOK, StepsPerIteration, IterationsLeft
<1>2. RoundsLeft \in Nat
  BY <1>1, Products DEF RoundsLeft
<1>3. Cardinality(pendingToolUses \ ran) \in 0..MaxToolUses
  BY ToolsLeft
<1>4. /\ node = "prepare" => StepsLeft = StepsPerIteration * (maxIterations + 1)
      /\ node = "final" => StepsLeft = 0
      /\ node \notin {"prepare", "final"} => StepsLeft = RoundsLeft + StepsToModel
  BY DEF StepsLeft, RoundsLeft
<1>5. /\ node = "compact" => StepsToModel = 2
      /\ node = "model" => StepsToModel = 1
      /\ node = "permission" => StepsToModel = MaxToolUses + 5
      /\ node = "waiting" => StepsToModel = MaxToolUses + 4
      /\ node = "tool" => StepsToModel = Cardinality(pendingToolUses \ ran) + 3
  BY DEF StepsToModel
<1> QED BY <1>1, <1>2, <1>3, <1>4, <1>5 DEF Measured

\* While the graph keeps its count and its budget, it keeps its rounds.
LEMMA RoundsKept ==
  ASSUME maxIterations' = maxIterations, iterationCount' = iterationCount
  PROVE  RoundsLeft' = RoundsLeft
BY DEF RoundsLeft, StepsPerIteration, IterationsLeft

\* A step of a turn leaves fewer steps than there were.
LEMMA StepAdvances ==
  ASSUME AgentInv, AgentInv', Next, node # "idle", node' # "idle", vars' # vars,
         maxIterations' = maxIterations
  PROVE  StepsLeft' < StepsLeft
<1> USE AgentLoopAssumption
<1>1. TypeOK /\ TypeOK' /\ Measured /\ Measured'
  <2>1. TypeOK /\ TypeOK'
    BY DEF AgentInv
  <2> QED BY <2>1, StepsAtNode, PTL
<1>2. /\ StepsPerIteration \in Nat /\ StepsPerIteration = MaxToolUses + 6
      /\ StepsPerIteration' = StepsPerIteration /\ RoundsLeft \in Nat /\ RoundsLeft' \in Nat
      /\ maxIterations \in Nat \ {0} /\ iterationCount \in Nat
  BY <1>1 DEF StepsPerIteration, TypeOK, Measured
<1>4. /\ node' = "compact" => StepsLeft' = RoundsLeft' + 2
      /\ node' = "model" => StepsLeft' = RoundsLeft' + 1
      /\ node' = "permission" => StepsLeft' = RoundsLeft' + MaxToolUses + 5
      /\ node' = "waiting" => StepsLeft' = RoundsLeft' + MaxToolUses + 4
      /\ node' = "tool" => /\ Cardinality(pendingToolUses \ ran)' \in 0..MaxToolUses
                           /\ StepsLeft' = RoundsLeft' + Cardinality(pendingToolUses \ ran)' + 3
      /\ node' = "final" => StepsLeft' = 0
  BY <1>1 DEF Measured
<1>5. CASE Prepare
  <2>1. StepsLeft = StepsPerIteration * (maxIterations + 1)
    BY <1>1, <1>5 DEF Prepare, Measured
  <2>2. RoundsLeft' = StepsPerIteration * maxIterations
    BY <1>2, <1>5 DEF Prepare, RoundsLeft, IterationsLeft
  <2>3. StepsLeft = RoundsLeft' + StepsPerIteration
    BY <1>2, <2>1, <2>2, Products
  <2>4. node' \in {"compact", "final"}
    BY <1>5 DEF Prepare
  <2> QED BY <1>2, <1>4, <2>3, <2>4
<1>6. CASE Compact
  BY <1>1, <1>2, <1>4, <1>6, RoundsKept DEF Compact, GoTo, Measured
<1>7. CASE Model
  <2>1. iterationCount < maxIterations /\ iterationCount' = iterationCount + 1 /\ node = "model"
    BY <1>7 DEF Model, Responds, Counted
  <2>2. IterationsLeft = IterationsLeft' + 1 /\ IterationsLeft' \in Nat
    BY <1>2, <2>1 DEF IterationsLeft
  <2>3. RoundsLeft = RoundsLeft' + StepsPerIteration
    BY <1>2, <2>2, Products DEF RoundsLeft
  <2>4. node' \in {"permission", "final"}
    BY <1>7 DEF Model, Responds, RouteAfterModel
  <2>5. StepsLeft = RoundsLeft + 1
    BY <1>1, <2>1 DEF Measured
  <2> QED BY <1>2, <1>4, <2>3, <2>4, <2>5
<1>8. CASE BudgetSpent
  BY <1>1, <1>2, <1>4, <1>8 DEF BudgetSpent, GoTo, Measured
<1>9. CASE Permission \/ Resume
  <2>1. RoundsLeft' = RoundsLeft
    BY <1>9, RoundsKept DEF Permission, Resume
  <2>2. \/ node = "permission" /\ node' \in {"waiting", "tool"}
        \/ node = "waiting" /\ node' = "tool"
    BY <1>9 DEF Permission, Resume, Plan
  <2>3. /\ node = "permission" => StepsLeft = RoundsLeft + MaxToolUses + 5
        /\ node = "waiting" => StepsLeft = RoundsLeft + MaxToolUses + 4
    BY <1>1 DEF Measured
  <2> QED BY <1>2, <1>4, <2>1, <2>2, <2>3
<1>10. CASE \E u \in ToolUseIds : RunTool(u)
  <2>1. PICK u \in ToolUseIds : RunTool(u)
    BY <1>10
  <2>2. /\ u \in pendingToolUses \ ran /\ ran' = ran \cup {u} /\ node = "tool" /\ node' = "tool"
        /\ pendingToolUses' = pendingToolUses /\ iterationCount' = iterationCount
    BY <2>1 DEF RunTool, Runnable, stateVars
  <2>3. Cardinality(pendingToolUses \ ran)' = Cardinality(pendingToolUses \ ran) - 1
    BY <1>1, <2>2, ToolsLeft
  <2>4. StepsLeft = RoundsLeft + Cardinality(pendingToolUses \ ran) + 3
    BY <1>1, <2>2 DEF Measured
  <2>5. Cardinality(pendingToolUses \ ran) \in Nat
    BY <1>1, ToolsLeft
  <2> QED BY <1>2, <1>4, <2>2, <2>3, <2>4, <2>5, RoundsKept
<1>11. CASE ToolsDone
  <2>1. node = "tool" /\ node' = "compact" /\ RoundsLeft' = RoundsLeft
    BY <1>11, RoundsKept DEF ToolsDone, GoTo
  <2>2. StepsLeft = RoundsLeft + Cardinality(pendingToolUses \ ran) + 3
    BY <1>1, <2>1 DEF Measured
  <2>3. Cardinality(pendingToolUses \ ran) \in Nat
    BY <1>1, ToolsLeft
  <2> QED BY <1>2, <1>4, <2>1, <2>2, <2>3
<1>12. ~StartTurn /\ ~Final /\ ~Abort
  BY DEF StartTurn, Final, Abort, GoTo
<1>13. ~Reconfigure
  BY DEF Reconfigure, vars, stateVars, factVars, turnVars
<1> QED BY <1>5, <1>6, <1>7, <1>8, <1>9, <1>10, <1>11, <1>12, <1>13 DEF Next, NodeStep

\* For every budget every step of a turn brings its end nearer, so a turn the
\* scheduler serves ends: the measure is a natural number.
THEOREM TurnsAdvance == Spec => TurnAdvances
<1>1. AgentInv /\ AgentInv' /\ [Next]_vars
        => [node # "idle" /\ node' # "idle" /\ maxIterations' = maxIterations
              => StepsLeft' < StepsLeft]_vars
  BY StepAdvances
<1> QED BY <1>1, AgentInvariant, PTL DEF Spec, TurnAdvances
=============================================================================
