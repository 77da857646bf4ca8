------------------------------ MODULE Sessions ------------------------------
(***************************************************************************)
(* One session outside any loop and the three parts of the plugin that     *)
(* send prompts to it or count them: the tool agent_<role>, which prompts  *)
(* a child session, polls it and tries fallback models                     *)
(* (src/src/runtime/agent-as-tool.ts); the hook that sends a prompt again  *)
(* after a provider timeout (src/src/hooks/session-retry.ts); and the      *)
(* budget of the agent (src/src/hooks/budget.ts, runtime/agent-budget.ts). *)
(* The user types into the same session.                                   *)
(*                                                                         *)
(* A user message is a number, in the order of arrival; its text is named  *)
(* by the message that had it first.  MaxMessages bounds the messages,     *)
(* MaxErrors the undelivered session.error events of a kind, MaxFallbacks  *)
(* the fallback models, MaxToolFailures the failures of tools.             *)
(***************************************************************************)
EXTENDS Naturals, FiniteSets

CONSTANTS MaxMessages, MaxErrors, MaxFallbacks, MaxToolFailures, TurnLimit, FailureLimit

ASSUME SessionsAssumption == MaxMessages \in Nat /\ MaxErrors \in Nat

VARIABLES messages,   \* user messages: who sent each, and whose text it has
          turn,       \* whether the session is busy, and the latest answer
          errors,     \* session.error events not delivered yet
          seen,       \* lastPrompt of the session
          retried,    \* retriedMessages
          backoff,    \* retries that wait for their backoff, per message
          asked,      \* the running call of agent_<role>
          budget,     \* the state of the budget of agent and session
          snapshot    \* budget:<session>:<agent> in the key-value store

sessionVars == <<messages, turn, errors, seen, retried, backoff, asked, budget, snapshot>>
promptVars == <<messages, turn, budget, snapshot>>
retryVars == <<errors, seen, retried, backoff>>

Messages == 1 .. MaxMessages
ErrorNames == {"timeout", "stream_abort", "other"}

NoMessage == [by |-> "nobody", text |-> 0]
NoAsk == [pc |-> "idle", attempt |-> 0, continued |-> FALSE, text |-> 0]

\* checkBudget: at its limit a counter is a violation, from four fifths of it
\* on a warning; the limit zero is none.
Level(count, limit) ==
  IF limit > 0 /\ count >= limit THEN "violation"
  ELSE IF limit > 0 /\ 5 * count >= 4 * limit THEN "warning" ELSE "within"

Checked(b) == [turns |-> Level(b.turns, TurnLimit), failures |-> Level(b.failures, FailureLimit)]

\* config.agents is set, so that the policy is warn_then_stop.
Allowed(b) == /\ Checked(b).turns # "violation"
              /\ Checked(b).failures # "violation"

\* recordTurn or recordToolFailure with the snapshot written from its result.
Recorded(b) == /\ budget' = b
               /\ snapshot' = [state |-> b, result |-> Checked(b), allowed |-> Allowed(b)]

NoBudget == [turns |-> 0, failures |-> 0]

SessionsInit ==
  /\ messages = [m \in Messages |-> NoMessage]
  /\ turn = [busy |-> FALSE, answer |-> 0]
  /\ errors = [e \in ErrorNames |-> 0]
  /\ seen = 0 /\ retried = {} /\ backoff = [m \in Messages |-> 0]
  /\ asked = NoAsk
  /\ budget = NoBudget
  /\ snapshot = [state |-> NoBudget, result |-> Checked(NoBudget), allowed |-> TRUE]

Newest == Cardinality({m \in Messages : messages[m].by # "nobody"})

\* The server takes a prompt: a message of its own, counted by chat.message.
Prompt(by, text) ==
  LET m == Newest + 1
  IN  /\ m \in Messages
      /\ messages' = [messages EXCEPT ![m] = [by |-> by, text |-> IF text = 0 THEN m ELSE text]]
      /\ turn' = [turn EXCEPT !.busy = TRUE]
      /\ Recorded([budget EXCEPT !.turns = @ + 1])

UserPrompts ==
  /\ Newest > 0
  /\ Prompt("user", 0)
  /\ UNCHANGED <<retryVars, asked>>

\* messages.transform before a request to the model: the last user message is
\* remembered, with its text.
Transforms ==
  /\ turn.busy
  /\ seen' = Newest
  /\ UNCHANGED <<promptVars, errors, retried, backoff, asked>>

\* The turn ends, with an answer to the last message or with none (the model
\* could not be found, for one).
TurnIsOver(answered) ==
  /\ turn.busy
  /\ turn' = [busy |-> FALSE, answer |-> IF answered THEN Newest ELSE turn.answer]
  /\ UNCHANGED <<messages, budget, snapshot, retryVars, asked>>

\* It fails, and its error is published, once or twice.
TurnFails(error, copies) ==
  /\ turn.busy
  /\ \A e \in ErrorNames : errors[e] + copies <= MaxErrors
  /\ turn' = [turn EXCEPT !.busy = FALSE]
  /\ errors' = [errors EXCEPT ![error] = @ + copies]
  /\ UNCHANGED <<messages, budget, snapshot, seen, retried, backoff, asked>>

\* tool.execute.after with metadata.is_error and the agent's name.
ToolFails ==
  /\ turn.busy /\ budget.failures < MaxToolFailures
  /\ Recorded([budget EXCEPT !.failures = @ + 1])
  /\ UNCHANGED <<messages, turn, retryVars, asked>>

-----------------------------------------------------------------------------
(* The retry hook                                                          *)

\* Timeouts, and aborts whose text tells of a stream that broke; an abort by
\* the user is one of the others.
RetriedErrors == {"timeout", "stream_abort"}

\* A defect to check the property with: a message counts as retried only when
\* its retry has been sent.
ErrorEventUnmarked(error) ==
  /\ errors[error] > 0
  /\ errors' = [errors EXCEPT ![error] = @ - 1]
  /\ \/ /\ error \in RetriedErrors /\ seen \notin retried \cup {0}
        /\ backoff' = [backoff EXCEPT ![seen] = @ + 1]
     \/ /\ error \notin RetriedErrors \/ seen \in retried \cup {0}
        /\ UNCHANGED backoff
  /\ UNCHANGED <<promptVars, seen, retried, asked>>

\* session.error: the message remembered last is marked and its retry waits.
ErrorEvent(error) ==
  /\ errors[error] > 0
  /\ errors' = [errors EXCEPT ![error] = @ - 1]
  /\ \/ /\ error \in RetriedErrors /\ seen \notin retried \cup {0}
        /\ retried' = retried \cup {seen}
        /\ backoff' = [backoff EXCEPT ![seen] = @ + 1]
     \/ /\ error \notin RetriedErrors \/ seen \in retried \cup {0}
        /\ UNCHANGED <<retried, backoff>>
  /\ UNCHANGED <<promptVars, seen, asked>>

\* The backoff is over: the text goes out as a new message, whatever the
\* session does by then; or the server refuses it.
RetrySent(m) ==
  /\ backoff[m] > 0
  /\ backoff' = [backoff EXCEPT ![m] = @ - 1]
  /\ Prompt("retry", messages[m].text)
  /\ UNCHANGED <<errors, seen, retried, asked>>

RetryRefused(m) ==
  /\ backoff[m] > 0
  /\ backoff' = [backoff EXCEPT ![m] = @ - 1]
  /\ UNCHANGED <<promptVars, errors, seen, retried, asked>>

-----------------------------------------------------------------------------
(* The tool agent_<role>, without background                               *)

\* A child session is created for it, or an older one is found again.
AskBegins(continued) ==
  /\ asked = NoAsk
  /\ continued <=> Newest > 0
  /\ asked' = [NoAsk EXCEPT !.pc = "prompting", !.continued = continued]
  /\ UNCHANGED <<promptVars, retryVars>>

\* In the background: the prompt is sent and nobody waits.
AskInBackground ==
  /\ asked = NoAsk
  /\ Prompt("tool", 0)
  /\ UNCHANGED <<retryVars, asked>>

\* sendAndPoll: all attempts carry the same text.
AskPrompts ==
  /\ asked.pc = "prompting"
  /\ Prompt("tool", asked.text)
  /\ asked' = [asked EXCEPT !.pc = "polling", !.text = IF @ = 0 THEN Newest + 1 ELSE @]
  /\ UNCHANGED retryVars

\* The next fallback model, or the end.
NextModel(a) == IF a.attempt < MaxFallbacks THEN [a EXCEPT !.pc = "prompting", !.attempt = @ + 1]
                                            ELSE NoAsk

AskRefused ==
  /\ asked.pc = "prompting"
  /\ asked' = NextModel(asked)
  /\ UNCHANGED <<promptVars, retryVars>>

\* A poll finds the session idle, or five minutes have passed.
AskPolled(late) ==
  /\ asked.pc = "polling"
  /\ ~late => ~turn.busy
  /\ asked' = [asked EXCEPT !.pc = "reading"]
  /\ UNCHANGED <<promptVars, retryVars>>

\* The last assistant message of the session is the result, if it has text.
AskReads ==
  /\ asked.pc = "reading"
  /\ asked' = IF turn.answer # 0 THEN NoAsk ELSE NextModel(asked)
  /\ UNCHANGED <<promptVars, retryVars>>

\* A call of the server throws.
AskThrows ==
  /\ asked.pc \in {"prompting", "reading"}
  /\ asked' = NoAsk
  /\ UNCHANGED <<promptVars, retryVars>>

SessionsNext ==
  \/ UserPrompts \/ Transforms \/ ToolFails
  \/ \E answered \in BOOLEAN : TurnIsOver(answered)
  \/ \E error \in ErrorNames : ErrorEvent(error) \/ \E copies \in {1, 2} : TurnFails(error, copies)
  \/ \E m \in Messages : RetrySent(m) \/ RetryRefused(m)
  \/ \E b \in BOOLEAN : AskBegins(b) \/ AskPolled(b)
  \/ AskInBackground \/ AskPrompts \/ AskRefused \/ AskReads \/ AskThrows

SessionsSpec == SessionsInit /\ [][SessionsNext]_sessionVars

-----------------------------------------------------------------------------
\* The state has the types of the code, and only messages sent are named.
SessionsTypeOK ==
  /\ messages \in [Messages -> [by : {"nobody", "user", "tool", "retry"}, text : 0 .. MaxMessages]]
  /\ turn \in [busy : BOOLEAN, answer : 0 .. Newest]
  /\ errors \in [ErrorNames -> 0 .. MaxErrors]
  /\ seen \in 0 .. Newest /\ retried \subseteq 1 .. Newest
  /\ budget.turns = Newest /\ snapshot.state = budget

(***************************************************************************)
(* "1 retry per messageID" (session-retry.ts:15): however often its error  *)
(* is delivered, and whatever is sent and forgotten meanwhile, a message   *)
(* is not sent a second time by the hook, nor does it wait to be.  A retry *)
(* is a message of its own, so that the bound counts from it anew.         *)
(***************************************************************************)
RetriedOnce ==
  \A text \in Messages :
    LET with == {m \in Messages : messages[m].text = text}
        retries == {m \in with : messages[m].by = "retry"}
    IN  Cardinality(retries) + Cardinality({m \in with : backoff[m] > 0})
          <= Cardinality(with \cap retried)
=============================================================================
