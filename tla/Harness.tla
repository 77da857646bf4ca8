------------------------------ MODULE Harness -------------------------------
(***************************************************************************)
(* The two reminders of the harness for one session                        *)
(* (src/src/hooks/harness.ts): the doom-loop detector, which remembers the *)
(* signatures of the last tool calls and looks for a repeated pattern at   *)
(* their end (src/src/harness/doom-loop.ts), and the tracker of the open   *)
(* todos of a session that goes idle (src/src/harness/pending-todos.ts).   *)
(*                                                                         *)
(* A signature stands for tool and arguments.  Cap is the code's limit of  *)
(* 64 signatures, Threshold its doomLoopThreshold; MaxHistory bounds the   *)
(* calls between two resets.                                               *)
(***************************************************************************)
EXTENDS Naturals, Sequences

CONSTANTS Signatures, Threshold, Cap, MaxHistory, Todos

\* The default threshold is 3.  With 1 the first call of a session would be a loop that
\* detect does not see: it compares at least two calls.
ASSUME HarnessAssumption ==
  /\ Threshold \in Nat /\ Threshold > 1 /\ Cap \in Nat \ {0} /\ MaxHistory \in Nat

VARIABLES perSession,     \* the signatures remembered
          alreadyWarned,
          reminders,      \* reminders of a loop handed to the TUI
          todos,          \* the todo list, as the last event told it
          reminderKey,    \* lastReminderKey
          told,           \* the last list handed to the TUI
          idle,           \* the session is idle, its event is handled
          history         \* all calls since the last reset

harnessVars == <<perSession, alreadyWarned, reminders, todos, reminderKey, told, idle, history>>
loopVars == <<perSession, alreadyWarned, reminders, history>>
todoVars == <<todos, reminderKey, told>>

Statuses == {"absent", "pending", "in_progress", "completed"}
Open(list) == {<<t, list[t]>> : t \in {u \in Todos : list[u] \in {"pending", "in_progress"}}}

HarnessInit ==
  /\ perSession = <<>> /\ alreadyWarned = FALSE /\ reminders = 0
  /\ todos = [t \in Todos |-> "absent"] /\ reminderKey = {} /\ told = {}
  /\ idle = FALSE /\ history = <<>>

-----------------------------------------------------------------------------
\* A defect to check the property with: the list is cut before its limit.
RecordShort(list, signature) ==
  IF Len(list) >= Cap - 1 THEN Append(Tail(list), signature) ELSE Append(list, signature)

\* record: the oldest signature goes when the list is over its limit.
Record(list, signature) ==
  LET longer == Append(list, signature)
  IN  IF Len(longer) > Cap THEN Tail(longer) ELSE longer

\* countRecentRepetitions: how often the last p signatures follow one another
\* at the end of the list.
Repetitions(list, p) ==
  IF Len(list) < 2 * p THEN 0
  ELSE LET Same(k) == \A i \in 0 .. p - 1 : list[Len(list) - k * p - i] = list[Len(list) - i]
           counts == {k \in 1 .. Len(list) \div p : \A j \in 0 .. k - 1 : Same(j)}
       IN  CHOOSE k \in counts : \A other \in counts : other <= k

\* detect
Detected(list) ==
  /\ Len(list) >= Threshold
  /\ \E p \in 1 .. Len(list) - 1 : Repetitions(list, p) >= Threshold

\* toolBefore: the call is recorded, and the first loop of the session has a
\* reminder, which the TUI shows or not.
ToolBefore(signature) ==
  LET list == Record(perSession, signature)
      warns == Detected(list) /\ ~alreadyWarned
  IN  /\ Len(history) < MaxHistory
      /\ perSession' = list
      /\ alreadyWarned' = (alreadyWarned \/ warns)
      /\ reminders' = IF warns THEN reminders + 1 ELSE reminders
      /\ history' = Append(history, signature)
      /\ idle' = FALSE
      /\ UNCHANGED todoVars

\* todo.updated
TodosUpdated(list) ==
  /\ todos' = list /\ idle' = FALSE
  /\ UNCHANGED <<loopVars, reminderKey, told>>

\* session.idle: the open todos, unless they were the last ones reminded of.
SessionIdle ==
  LET reminds == Open(todos) \notin {{}, reminderKey}
  IN  /\ reminderKey' = IF reminds THEN Open(todos) ELSE reminderKey
      /\ told' = IF reminds THEN Open(todos) ELSE told
      /\ idle' = TRUE
      /\ UNCHANGED <<loopVars, todos>>

\* session.deleted or session.ended: everything is forgotten.
SessionReset ==
  /\ perSession' = <<>> /\ alreadyWarned' = FALSE /\ reminders' = 0 /\ history' = <<>>
  /\ todos' = [t \in Todos |-> "absent"] /\ reminderKey' = {} /\ told' = {}
  /\ idle' = FALSE

HarnessNext ==
  \/ \E signature \in Signatures : ToolBefore(signature)
  \/ \E list \in [Todos -> Statuses] : TodosUpdated(list)
  \/ SessionIdle \/ SessionReset

HarnessSpec == HarnessInit /\ [][HarnessNext]_harnessVars

-----------------------------------------------------------------------------
\* The state has the types of the code.
HarnessTypeOK ==
  /\ Len(perSession) <= Cap /\ Len(perSession) <= Len(history)
  /\ alreadyWarned \in BOOLEAN /\ idle \in BOOLEAN
  /\ todos \in [Todos -> Statuses]

\* The calls end with a pattern that follows itself Threshold times, all of it
\* among the last Cap calls.
Loops(calls) ==
  \E p \in 1 .. Len(calls) :
    /\ p * Threshold <= Len(calls) /\ p * Threshold <= Cap
    /\ \A i \in 0 .. p * (Threshold - 1) - 1 : calls[Len(calls) - i] = calls[Len(calls) - i - p]

(***************************************************************************)
(* "triggers a reminder when a repeating pattern dominates the tail of the *)
(* sequence" (doom-loop.ts:4-9): the agent has had its one reminder of a   *)
(* loop exactly if its calls since the last reset have at some time ended  *)
(* in a loop, however long ago the first of them were dropped; and an      *)
(* idle session with open todos has been reminded of just these.           *)
(***************************************************************************)
LoopsWarned ==
  /\ alreadyWarned <=> \E n \in 1 .. Len(history) : Loops(SubSeq(history, 1, n))
  /\ reminders = IF alreadyWarned THEN 1 ELSE 0
  /\ idle /\ Open(todos) # {} => told = Open(todos)
=============================================================================
