----------------------------- MODULE ChatClient -----------------------------
(***************************************************************************)
(* The terminals of one user (`agent chat`, src/entrypoints/cli.py) as the *)
(* clients of the server's routes (src/entrypoints/api.py), and the token  *)
(* ledger the routes keep (src/services/usage.py).                         *)
(*                                                                         *)
(* A terminal is sequential: it reads a command, sends requests one by one *)
(* and blocks on each, with what earlier replies told it.  Meanwhile other *)
(* terminals of the user work on the same conversations.  The requests are *)
(* the handlers of Conversation, none of them changed: a terminal's cancel *)
(* or delete request is the call of the same name, so Calls are the        *)
(* terminals.  Commands that only show something are left out.             *)
(***************************************************************************)
EXTENDS Conversation, Naturals, FiniteSets

CONSTANTS
  MaxQuestions,   \* bound: permission requests of one run
  MaxCalls        \* bound: model calls of a server process

Terminals == Calls

ASSUME MaxQuestionsAssumption == MaxQuestions \in Nat

VARIABLES
  terminal,   \* the state of each terminal
  questions,  \* permission requests each run has made
  \* ModelUsageCollector and UserTokenUsageLedger of the process, in model calls
  captured,   \* the runs with a call in the request at work
  used, billed

usageVars == <<captured, used, billed>>
chatVars  == <<terminal, questions, usageVars>>
allVars   == <<vars, chatVars>>

Screens == {"closed", "prompt", "running", "ask", "detail", "confirm", "deleting",
            "create", "cancel", "cancelling"}

\* The screens behind which a request is under way.
Waiting == {"running", "deleting", "cancelling"}

\* current: conversation_id.  forced: the conversation a search mode other than
\* auto was chosen in.  target: the conversation a /delete is about.  run,
\* question: what was sent, or the permission request that is shown.
Closed == [screen |-> "closed", current |-> NoConversation, forced |-> NoConversation,
           target |-> NoConversation, run |-> NoRun, question |-> 0]

ChatInit ==
  /\ Init
  /\ terminal = [t \in Terminals |-> Closed]
  /\ questions = [r \in Runs |-> 0]
  /\ captured = {} /\ used = 0 /\ billed = 0

-----------------------------------------------------------------------------
At(t, screen) == terminal[t].screen = screen
Become(t, state) == terminal' = [terminal EXCEPT ![t] = state]
Goto(t, screen) == terminal' = [terminal EXCEPT ![t].screen = screen]

\* The loop reads the next command.
Prompt(state) == [Closed EXCEPT !.screen = "prompt", !.current = state.current,
                                !.forced = state.forced]

Asking(state, r) == [state EXCEPT !.screen = "ask", !.run = r, !.question = questions[r]]

\* A conversation becomes the current one; the search mode is auto again.
Entered(t, c) == [Closed EXCEPT !.screen = "prompt", !.current = c]

\* client.create_conversation: at the start, for /new, and after the current
\* conversation has been deleted.
OpenNew(t) ==
  /\ At(t, "closed") \/ At(t, "prompt") \/ At(t, "create")
  /\ FreeCall(t)
  /\ \E c \in Conversations : Create(c) /\ Become(t, Entered(t, c))
  /\ UNCHANGED <<questions, usageVars>>

\* /search-mode.
SearchMode(t) ==
  /\ At(t, "prompt")
  /\ \E c \in {NoConversation, terminal[t].current} :
       terminal' = [terminal EXCEPT ![t].forced = c]
  /\ UNCHANGED <<vars, questions, usageVars>>

\* _execute_message: the terminal blocks until the run ends or asks.
SendText(t, r) ==
  /\ At(t, "prompt")
  /\ SendMessage(terminal[t].current, r)
  /\ Become(t, [terminal[t] EXCEPT !.screen = "running", !.run = r])
  /\ UNCHANGED <<questions, usageVars>>

\* _complete_run: the question on the screen is answered, for its run.
AnswerQuestion(t) ==
  /\ At(t, "ask")
  /\ ResumePermission(terminal[t].current, terminal[t].run)
  /\ Goto(t, "running")
  /\ UNCHANGED <<questions, usageVars>>

\* /switch on what the list says: not while the run is running; with a question
\* open the terminal asks for it next.
Switch(t) ==
  /\ up /\ At(t, "prompt")
  /\ \E c \in Conversations :
       \/ status[c] = "idle" /\ Become(t, Entered(t, c))
       \/ status[c] = "waiting" /\ Become(t, [Entered(t, c) EXCEPT !.screen = "detail"])
  /\ UNCHANGED <<vars, questions, usageVars>>

\* get_conversation: the question, or "persisted permission state is incomplete".
Detail(t) ==
  /\ up /\ At(t, "detail")
  /\ LET c == terminal[t].current
     IN /\ status[c] # "deleted"
        /\ Become(t, IF request[c] # NoRun THEN Asking(terminal[t], activeRun[c])
                                           ELSE Prompt(terminal[t]))
  /\ UNCHANGED <<vars, questions, usageVars>>

\* /delete up to its confirmation.
DeleteCommand(t) ==
  /\ up /\ At(t, "prompt")
  /\ \E c \in Conversations :
       /\ status[c] \notin {"fresh", "deleted"}
       /\ Become(t, [terminal[t] EXCEPT !.screen = "confirm", !.target = c])
  /\ UNCHANGED <<vars, questions, usageVars>>

\* Confirmed and accepted; or given up, or refused by the server, which is shown.
DeleteConfirmed(t) ==
  /\ At(t, "confirm")
  /\ \/ Delete(t, terminal[t].target) /\ Goto(t, "deleting")
     \/ Become(t, Prompt(terminal[t])) /\ UNCHANGED vars
  /\ UNCHANGED <<questions, usageVars>>

\* The terminal goes on after its delete or cancel, unless it has been left.
GoesOn(t, screen) ==
  Become(t, IF ~At(t, screen) THEN terminal[t] ELSE Prompt(terminal[t]))

\* The reply to a delete.
Deleted(t) ==
  /\ \/ /\ DeleteReturns(t)
        /\ IF At(t, "deleting") /\ terminal[t].target = terminal[t].current
           THEN Goto(t, "create") ELSE GoesOn(t, "deleting")
     \/ DeleteFails(t) /\ GoesOn(t, "deleting")
  /\ UNCHANGED <<questions, usageVars>>

\* /cancel: the running run of a listed conversation.
CancelCommand(t) ==
  /\ up /\ At(t, "prompt")
  /\ \E c \in Conversations :
       /\ status[c] = "running"
       /\ Become(t, [terminal[t] EXCEPT !.screen = "cancel", !.run = activeRun[c]])
  /\ UNCHANGED <<vars, questions, usageVars>>

\* cancel_run with that run id; an answer that is there at once and a refusal are
\* shown.
CancelSent(t) ==
  /\ At(t, "cancel")
  /\ \/ CancelRun(t, terminal[t].run) /\ Goto(t, "cancelling")
     \/ /\ CancelEndedRun(terminal[t].run) \/ UNCHANGED vars
        /\ Become(t, Prompt(terminal[t]))
  /\ UNCHANGED <<questions, usageVars>>

Cancelled(t) ==
  /\ CancelReturns(t) /\ GoesOn(t, "cancelling")
  /\ UNCHANGED <<questions, usageVars>>

\* /exit, the end of the input, and every HTTP error outside /delete and
\* /cancel: a refused or failed message or answer, a timeout, a server that is
\* not there.  What the terminal has asked for goes on in the server.
Leave(t) ==
  /\ ~At(t, "closed") /\ Become(t, Closed)
  /\ UNCHANGED <<vars, questions, usageVars>>

-----------------------------------------------------------------------------
\* A model of the run answers inside a request: ModelUsageCollector.emit.
ModelAnswers(r) ==
  /\ graph[r] = "running" /\ r \notin captured
  /\ used < MaxCalls
  /\ captured' = captured \cup {r}
  /\ used' = used + 1
  /\ UNCHANGED <<vars, terminal, questions, billed>>

\* Mutant: only a request that ends well reaches the ledger.
BilledIfAnswered(r, outcome) ==
  IF outcome \in {"completed", "interrupted"} /\ r \in captured THEN billed + 1 ELSE billed

\* UserTokenUsageLedger.record, by the routes, also when the handler raises.
Billed(r, outcome) == IF r \in captured THEN billed + 1 ELSE billed

\* A blocked terminal reads the outcome; a failed or cancelled run is an HTTP error.
Replied(state, outcome, question) ==
  CASE outcome = "interrupted" -> [state EXCEPT !.screen = "ask", !.question = question]
    [] outcome = "completed" -> Prompt(state)
    [] OTHER -> Closed

\* The route of send_message or resume_permission ends; its question is the last
\* one of its run.
RequestEnds(r, outcome, question) ==
  /\ terminal' = [t \in Terminals |->
       IF At(t, "running") /\ terminal[t].run = r
       THEN Replied(terminal[t], outcome, question) ELSE terminal[t]]
  /\ billed' = Billed(r, outcome)
  /\ captured' = captured \ {r}
  /\ UNCHANGED used

\* A graph that stops at a permission request has made one more.
CountQuestion(r) ==
  /\ questions' = [questions EXCEPT ![r] = @ + (IF graph'[r] = "interrupted" THEN 1 ELSE 0)]
  /\ questions'[r] <= MaxQuestions

SendEnds(r) ==
  SendReturns(r) /\ RequestEnds(r, graph[r], questions[r]) /\ UNCHANGED questions

ResumeEnds(r) ==
  ResumeReturns(r) /\ CountQuestion(r) /\ RequestEnds(r, graph'[r], questions'[r])

GraphEnds(r) == GraphTaskEnds(r) /\ CountQuestion(r) /\ UNCHANGED <<terminal, usageVars>>

\* Inside the server, unseen by a terminal.
Inside ==
  /\ \/ \E r \in Runs : GraphCheckpoint(r)
     \/ \E t \in Terminals : DeleteThread(t)
     \/ Restart
  /\ UNCHANGED chatVars

\* Mutant: a terminal waits for a server that is gone.
NeverCutOff(t) == FALSE

\* The connection of a request under way breaks with the server.
CutOff(t) == terminal[t].screen \in Waiting

\* The server dies, and with it its ledger.
ServerDies ==
  /\ Crash
  /\ terminal' = [t \in Terminals |-> IF CutOff(t) THEN Closed ELSE terminal[t]]
  /\ captured' = {} /\ used' = 0 /\ billed' = 0
  /\ UNCHANGED questions

-----------------------------------------------------------------------------
Command(t) ==
  \/ OpenNew(t) \/ SearchMode(t) \/ AnswerQuestion(t) \/ Switch(t) \/ Detail(t)
  \/ DeleteCommand(t) \/ DeleteConfirmed(t) \/ CancelCommand(t) \/ CancelSent(t)
  \/ Leave(t)
  \/ \E r \in Runs : SendText(t, r)

ServerStep ==
  \/ \E r \in Runs : ModelAnswers(r) \/ GraphEnds(r) \/ SendEnds(r) \/ ResumeEnds(r)
  \/ \E t \in Terminals : Deleted(t) \/ Cancelled(t)
  \/ Inside
  \/ ServerDies

ChatNext == (\E t \in Terminals : Command(t)) \/ ServerStep

ChatSpec == ChatInit /\ [][ChatNext]_allVars

-----------------------------------------------------------------------------
ChatTypeOK ==
  /\ terminal \in [Terminals -> [screen : Screens,
                                 current : Conversations \cup {NoConversation},
                                 forced : Conversations \cup {NoConversation},
                                 target : Conversations \cup {NoConversation},
                                 run : Runs \cup {NoRun},
                                 question : 0..MaxQuestions]]
  /\ questions \in [Runs -> 0..MaxQuestions]

\* What a terminal shows agrees with the server.
Served(t) ==
  LET s == terminal[t]
  IN /\ ~At(t, "closed")    => s.current \in Conversations
     /\ At(t, "confirm")    => s.target \in Conversations
     /\ At(t, "running")    => s.run \in LiveRuns \cap RunsOf(s.current)
     /\ At(t, "cancelling") => cancelling[t] = s.run
     /\ At(t, "deleting")   => deleting[t] = s.target
     /\ At(t, "ask")        => s.run \in RunsOf(s.current) /\ s.question \in 1..questions[s.run]
     /\ s.forced \in {NoConversation, s.current}

\* A question on a row is of the run the row names, and every run that stopped at
\* a permission request has been counted one.
QuestionsAreAsked ==
  /\ \A c \in Conversations :
       request[c] # NoRun => /\ request[c] = activeRun[c]
                             /\ request[c] \in RunsOf(c) /\ questions[request[c]] > 0
  /\ \A r \in Runs : graph[r] = "interrupted" => questions[r] > 0

\* No terminal waits for a reply that nobody will send, a question on a screen is
\* one its run has asked, in the terminal's conversation, and a forced search mode
\* is used in the conversation it was chosen in: through timeouts, crashes and the
\* work of the other terminals.
TerminalsAreServed ==
  /\ ChatTypeOK
  /\ \A t \in Terminals : Served(t)
  /\ QuestionsAreAsked

\* Every model call of a server process is on the user's bill once its request
\* has ended, however it ended; and no graph calls a model outside a request.
LedgerIsComplete ==
  /\ captured \cup Executing \subseteq LiveRuns
  /\ used = billed + Cardinality(captured)

\* A permission request is answered once: a second answer, given to a question
\* that has been answered meanwhile, is refused.
SecondAnswerIsRefused ==
  [][\A t \in Terminals :
       terminal[t].screen = "ask" /\ terminal'[t].screen = "running"
         => terminal[t].question = questions[terminal[t].run]]_allVars
=============================================================================
