--------------------------- MODULE ContextCompact ---------------------------
(***************************************************************************)
(* The message history of a thread and what ContextCompactor               *)
(* (src/harness/capabilities/context_compact.py) makes of it.  Contents    *)
(* are abstracted to a text drawn from a small set; whether a history is   *)
(* over the character budget is a free choice, the message budget is not.  *)
(***************************************************************************)
EXTENDS Naturals, Sequences, SequencesExt, FiniteSetsExt

CONSTANTS
  KeepRecent,     \* keep_recent_messages, at least 4
  MaxMessages     \* max_messages, at least 8

ASSUME CompactAssumption == KeepRecent \in Nat /\ KeepRecent >= 4
                            /\ MaxMessages \in Nat /\ MaxMessages >= 8

\* Message (src/harness/messages.py).  A summary is a USER message that starts
\* with the compaction marker; its text is the goal it protects.  A TOOL message
\* answers "uses" and "denied" are those it answers without having run them.
NoText == 0
UserMessage(text)     == [kind |-> "user", text |-> text, uses |-> {}, denied |-> {}]
SummaryMessage(text)  == [kind |-> "summary", text |-> text, uses |-> {}, denied |-> {}]
AssistantMessage(ids) == [kind |-> "assistant", text |-> NoText, uses |-> ids, denied |-> {}]
ToolMessage(ids, den) == [kind |-> "tool", text |-> NoText, uses |-> ids, denied |-> den]

IsPlain(m) == m.uses = {}

\* One message of _deduplicate: a plain one equal to the last one kept is dropped.
Keep(kept, m) == IF kept # <<>> /\ IsPlain(m) /\ Last(kept) = m THEN kept ELSE Append(kept, m)

\* _deduplicate.
Deduplicate(ms) ==
  LET kept[i \in 0..Len(ms)] == IF i = 0 THEN <<>> ELSE Keep(kept[i - 1], ms[i])
  IN kept[Len(ms)]

\* Mutant: every message is a group of its own.
GroupStartsAnywhere(ms) == DOMAIN ms

\* _message_groups: where a group starts.  A TOOL message after an assistant
\* message with tool uses belongs to that message's group.
GroupStarts(ms) ==
  {i \in DOMAIN ms : ~(/\ i > 1 /\ ms[i].kind = "tool"
                       /\ ms[i - 1].kind = "assistant" /\ ms[i - 1].uses # {})}

\* _split_history: the first message retained.  Whole groups are taken from the
\* end while they fit in KeepRecent; the last group is taken even if it does not.
RetainedFrom(ms) ==
  LET fits == {i \in GroupStarts(ms) : Len(ms) - i + 1 <= KeepRecent}
  IN IF fits # {} THEN Min(fits) ELSE Max(GroupStarts(ms))

\* _protected_state: the newest USER message that is not itself a summary.
CurrentGoal(ms) ==
  LET users == {i \in DOMAIN ms : ms[i].kind = "user"}
  IN IF users = {} THEN NoText ELSE ms[Max(users)].text

\* The deduplicated history d with everything before its retained part replaced
\* by one summary that protects the goal.
Summarised(d, goal) ==
  {IF from = 1 THEN d ELSE <<SummaryMessage(goal)>> \o SubSeq(d, from, Len(d)) :
     from \in {RetainedFrom(d)}}

\* compact / acompact: the histories it may return.  Persisting large results
\* and shortening old ones changes contents only.
Compactions(ms, forceSummary) ==
  UNION {Summarised(d, CurrentGoal(ms))
           \cup (IF forceSummary \/ Len(d) > MaxMessages THEN {} ELSE {d}) :
         d \in {Deduplicate(ms)}}

-----------------------------------------------------------------------------
\* A TOOL message answers exactly the uses of the assistant message before it.
AnswersPaired(ms) ==
  \A i \in DOMAIN ms :
    ms[i].kind = "tool" =>
      i > 1 /\ ms[i - 1].kind = "assistant" /\ ms[i - 1].uses = ms[i].uses

\* Tool uses that no TOOL message answers.
Unanswered(ms) ==
  {i \in DOMAIN ms : /\ ms[i].kind = "assistant" /\ ms[i].uses # {}
                     /\ ~(i < Len(ms) /\ ms[i + 1].kind = "tool")}
=============================================================================
