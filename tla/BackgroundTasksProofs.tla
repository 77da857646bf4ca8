----------------------- MODULE BackgroundTasksProofs -----------------------
(* Theorems about background tasks, for every set of tasks and poll cycles *)
(* and every limit.                                                        *)
EXTENDS BackgroundTasks, TLAPS

Known(t) == row[t].st # "none"
Begun(t) == row[t].st \notin {"none", "pending"}

(* What a caller of startTask, a poll cycle or a refresh goes on with is   *)
(* a task its row has not fallen back behind.                              *)
CallInv ==
  \A c \in Caller :
    /\ call[c].pc # "none" => call[c].task \in Task /\ Known(call[c].task)
    /\ call[c].pc = "prompt" => Begun(call[c].task)
    /\ c \in Task /\ call[c].pc # "none" => call[c].task = c

CheckInv ==
  \A p \in Poll : poll[p].pc \in {"status", "check"} => \A t \in poll[p].tasks : Begun(t)

DrainInv ==
  \A p \in Poll : \A t \in poll[p].tasks : Known(t)

RefreshInv == \A t \in refreshed : Begun(t)

(* Only tasks with a session are continued and checked.                    *)
AskInv == \A t \in Task : asked[t] # NoRow => asked[t].sid # NoSession
RowInv == \A t \in Task : row[t].st = "running" => row[t].sid # NoSession
PromptInv == \A c \in Caller : call[c].pc = "prompt" => call[c].sid # NoSession
SidsInv ==
  \A p \in Poll : poll[p].pc \in {"status", "check"} =>
    \A t \in poll[p].tasks : poll[p].sids[t] # NoSession

SpawnInv == \A t \in spawned : Known(t) /\ (mode = "lite" => Begun(t))

TaskInv ==
  /\ CallInv /\ CheckInv /\ DrainInv /\ RefreshInv
  /\ AskInv /\ RowInv /\ PromptInv /\ SidsInv
  /\ SpawnInv /\ PendingIsPolled

-----------------------------------------------------------------------------
(* Type correctness *)

LEMMA Constants ==
  /\ MaxSessions \in Nat /\ MaxRestarts \in Nat /\ MaxContinues \in Nat
  /\ ModelOf \in [Task -> Model]
  /\ Modes \subseteq {"full", "lite"}
  /\ NoRow \in Row /\ NoCall \in Call /\ NoCycle \in Cycle
  /\ NoRows \in [Task -> Row]
  BY BackgroundAssumption
  DEF NoRow, Row, Status, NoCall, Call, NoCycle, Cycle, NoRows, NoSids

LEMMA RowsTyped ==
  ASSUME TypeOK, NEW t \in Task
  PROVE  /\ \A s \in Session \cup {NoSession} : MarkedRunning(t, s) \in [Task -> Row]
         /\ MarkedCompleted(t) \in [Task -> Row]
         /\ MarkedError(t) \in [Task -> Row]
         /\ \A s \in Status : [row EXCEPT ![t].st = s] \in [Task -> Row]
<1>1. \A s \in Status : [row EXCEPT ![t].st = s] \in [Task -> Row]
  BY DEF TypeOK, Row
<1>2. \A s \in Session \cup {NoSession} : [st |-> "running", sid |-> s] \in Row
  BY DEF Row, Status
<1>3. row \in [Task -> Row]
  BY DEF TypeOK
<1> QED
  BY <1>1, <1>2, <1>3 DEF MarkedRunning, MarkedCompleted, MarkedError, Status

LEMMA StepTyped ==
  ASSUME TypeOK, TaskInv, [Next]_vars
  PROVE  TypeOK'
<1>1. ASSUME NEW t \in Task, Tools(t) PROVE TypeOK'
  <2>1. CASE Spawn(t)
    <3>1. row' \in [Task -> Row]
      BY <2>1, RowsTyped DEF Spawn, Status
    <3>2. call' \in [Caller -> Call]
      BY <2>1, Constants DEF Spawn, Starts, StartReturns, TypeOK, Caller, Call
    <3>3. timer' \in BOOLEAN /\ spawned' \subseteq Task
      BY <2>1 DEF Spawn, Starts, StartReturns, TypeOK
    <3> QED
      BY <2>1, <3>1, <3>2, <3>3 DEF Spawn, TypeOK, server, tools
  <2>2. CASE Cancel(t)
    <3>1. row' \in [Task -> Row]
      BY <2>2, RowsTyped DEF Cancel, Status
    <3> QED
      BY <2>2, <3>1 DEF Cancel, TypeOK, tools
  <2>3. CASE Continue(t)
    BY <2>3, Constants DEF Continue, TypeOK, server
  <2>4. CASE Continued(t)
    <3>1. asked[t].sid \in Session \cup {NoSession}
      BY DEF TypeOK, Row
    <3>2. row' \in [Task -> Row]
      <4>1. row' = row \/ row' = MarkedRunning(t, asked[t].sid)
        BY <2>4 DEF Continued
      <4> QED
        BY <3>1, <4>1, RowsTyped DEF TypeOK
    <3>3. busy' \subseteq Session
      <4>1. asked[t].sid \in Session
        BY <2>4, <3>1 DEF Continued, AskInv, TaskInv
      <4>2. busy' = busy \/ busy' = busy \cup {asked[t].sid}
        BY <2>4 DEF Continued
      <4> QED
        BY <4>1, <4>2 DEF TypeOK
    <3>4. asked' \in [Task -> Row]
      BY <2>4, Constants DEF Continued, TypeOK
    <3> QED
      BY <2>4, <3>2, <3>3, <3>4 DEF Continued, TypeOK
  <2>5. CASE RefreshLite(t)
    BY <2>5 DEF RefreshLite, TypeOK, server
  <2>6. CASE Refreshed(t)
    <3>1. row' \in [Task -> Row]
      BY <2>6, RowsTyped DEF Refreshed
    <3> QED
      BY <2>6, <3>1 DEF Refreshed, TypeOK, server
  <2> QED
    BY <1>1, <2>1, <2>2, <2>3, <2>4, <2>5, <2>6 DEF Tools, LiteTools, BgTools
<1>2. ASSUME NEW c \in Caller, Start(c) PROVE TypeOK'
  <2>0. call[c] \in Call /\ (call[c].pc # "none" => call[c].task \in Task)
    BY DEF TypeOK, TaskInv, CallInv
  <2>1. CASE SessionCreated(c)
    <3>1. created + 1 \in Session /\ created + 1 \in 0..MaxSessions
      BY <2>1, Constants DEF SessionCreated, TypeOK, Session
    <3>2. row' \in [Task -> Row]
      BY <2>0, <2>1, <3>1, RowsTyped DEF SessionCreated
    <3>3. call' \in [Caller -> Call]
      BY <2>1, <3>1 DEF SessionCreated, TypeOK, Call
    <3> QED
      BY <2>1, <3>1, <3>2, <3>3 DEF SessionCreated, TypeOK, tools
  <2>2. ASSUME StartReturns(c)
        PROVE  call' \in [Caller -> Call] /\ timer' \in BOOLEAN /\ spawned' \subseteq Task
    BY <2>2, Constants DEF StartReturns, TypeOK
  <2>3. CASE StartFails(c)
    <3>1. row' \in [Task -> Row]
      BY <2>0, <2>3, RowsTyped DEF StartFails
    <3> QED
      BY <2>2, <2>3, <3>1 DEF StartFails, TypeOK, server, tools
  <2>4. CASE Prompted(c)
    <3>1. busy' \subseteq Session
      BY <2>0, <2>4 DEF Prompted, TypeOK, Call, PromptInv, TaskInv
    <3> QED
      BY <2>2, <2>4, <3>1 DEF Prompted, TypeOK, tools
  <2> QED
    BY <1>2, <2>1, <2>3, <2>4 DEF Start
<1>3. ASSUME NEW p \in Poll, Cycles(p) PROVE TypeOK'
  <2>0. poll[p] \in Cycle /\ p \in Caller
    BY DEF TypeOK, Caller
  <2>1. CASE PollFires(p)
    <3>1. \A S \in DrainPending : [NoCycle EXCEPT !.pc = "drain", !.tasks = S] \in Cycle
      BY Constants DEF DrainPending, Startable, WithStatus, Cycle
    <3> QED
      BY <2>1, <3>1 DEF PollFires, TypeOK, server, tools
  <2>2. CASE PollStarts(p)
    <3>1. poll' \in [Poll -> Cycle]
      BY <2>0, <2>2 DEF PollStarts, TypeOK, Cycle
    <3>2. call' \in [Caller -> Call]
      <4>1. PICK t \in poll[p].tasks : call' = call \/ Starts(p, t)
        BY <2>2 DEF PollStarts
      <4>2. [pc |-> "create", task |-> t, sid |-> NoSession] \in Call
        BY <2>0 DEF Call, Cycle
      <4> QED
        BY <2>0, <4>1, <4>2 DEF TypeOK, Starts
    <3> QED
      BY <2>2, <3>1, <3>2 DEF PollStarts, TypeOK, server, tools
  <2>3. CASE PollAsksStatus(p)
    <3>1. [t \in Task |-> IF row[t].st = "running" THEN row[t].sid ELSE NoSession]
            \in [Task -> Session \cup {NoSession}]
      BY DEF TypeOK, Row
    <3>2. poll' \in [Poll -> Cycle]
      BY <2>3, <3>1, Constants DEF PollAsksStatus, TypeOK, Cycle, WithStatus
    <3> QED
      BY <2>3, <3>2 DEF PollAsksStatus, TypeOK, server, tools
  <2>4. CASE PollGotStatus(p)
    <3>1. {poll[p].sids[t] : t \in poll[p].tasks} \ busy \subseteq Session
      BY <2>0, <2>4 DEF TypeOK, Cycle, TaskInv, SidsInv, PollGotStatus
    <3>2. PICK I \in SUBSET Session :
            poll' = [poll EXCEPT ![p].pc = "check", ![p].idle = I]
      BY <2>4, <3>1 DEF PollGotStatus
    <3>3. poll' \in [Poll -> Cycle]
      BY <2>0, <3>2 DEF TypeOK, Cycle
    <3> QED
      BY <2>4, <3>3 DEF PollGotStatus, TypeOK, server, tools
  <2>5. CASE PollCompletes(p)
    <3>1. PICK t \in poll[p].tasks :
            /\ poll' = [poll EXCEPT ![p].tasks = @ \ {t}]
            /\ row' = MarkedCompleted(t)
            /\ tracked' = tracked \ {t}
      BY <2>5 DEF PollCompletes
    <3>2. row' \in [Task -> Row]
      BY <2>0, <3>1, RowsTyped DEF Cycle
    <3>3. poll' \in [Poll -> Cycle]
      BY <2>0, <3>1 DEF TypeOK, Cycle
    <3> QED
      BY <2>5, <3>1, <3>2, <3>3 DEF PollCompletes, TypeOK, server, tools
  <2>6. CASE PollWaits(p)
    <3>1. PICK t \in poll[p].tasks :
            /\ poll' = [poll EXCEPT ![p].tasks = @ \ {t}]
            /\ tracked' \in {tracked, tracked \cup {t}}
      BY <2>6 DEF PollWaits
    <3>2. t \in Task
      BY <2>0 DEF Cycle
    <3>3. poll' \in [Poll -> Cycle]
      BY <2>0, <3>1 DEF TypeOK, Cycle
    <3> QED
      BY <2>6, <3>1, <3>2, <3>3 DEF PollWaits, TypeOK, server, tools
  <2>7. CASE PollEnds(p)
    BY <2>7, Constants DEF PollEnds, TypeOK, server, tools
  <2> QED
    BY <1>3, <2>1, <2>2, <2>3, <2>4, <2>5, <2>6, <2>7 DEF Cycles
<1>4. ASSUME NEW s \in Session, TurnEnds(s) PROVE TypeOK'
  BY <1>4 DEF TurnEnds, TypeOK, tools
<1>5. CASE Restart
  <2>1. row' \in [Task -> Row]
    <3>1. "cancelled" \in Status
      BY DEF Status
    <3>2. row \in [Task -> Row]
      BY DEF TypeOK
    <3>3. \A t \in Task : [row EXCEPT ![t].st = "cancelled"] \in [Task -> Row]
      BY <3>1, RowsTyped
    <3>4. \A t \in Task : [row[t] EXCEPT !.st = "cancelled"] \in Row
      BY <3>1, <3>2 DEF Row
    <3>5. [t \in Task |-> IF row[t].st = "pending" THEN [row[t] EXCEPT !.st = "cancelled"]
                          ELSE row[t]] \in [Task -> Row]
      BY <3>2, <3>4
    <3> QED
      BY <1>5, <3>2, <3>3, <3>5 DEF Restart, Shutdown, WithStatus
  <2>2. /\ call' \in [Caller -> Call] /\ poll' \in [Poll -> Cycle]
        /\ asked' \in [Task -> Row]
    BY <1>5, Constants DEF Restart
  <2>3. /\ mode' \in {"full", "lite"} /\ created' \in 0..MaxSessions
        /\ continues' \in Nat /\ restarts' \in Nat
    BY <1>5 DEF Restart, TypeOK
  <2>4. /\ spawned' = {} /\ timer' = FALSE /\ tracked' = {}
        /\ refreshed' = {} /\ busy' = {}
    BY <1>5 DEF Restart
  <2> QED
    BY <2>1, <2>2, <2>3, <2>4 DEF TypeOK
<1>6. CASE UNCHANGED vars
  BY <1>6 DEF vars, TypeOK, server, tools
<1> QED
  BY <1>1, <1>2, <1>3, <1>4, <1>5, <1>6 DEF Next

-----------------------------------------------------------------------------
(* The life of a task *)

(* What a step does to the row of a task.                                  *)
RowMoves(t) ==
  /\ row'[t].st # row[t].st => row'[t].st \in Changes[row[t].st]
  /\ Known(t) => Known(t)'
  /\ Begun(t) => Begun(t)'
  /\ row'[t].st = "running" => row'[t].sid # NoSession

(* A change of one row, to a status it may change to.                      *)
LEMMA OneRow ==
  ASSUME TypeOK, TaskInv, NEW t \in Task, NEW s \in Status,
         row' = [row EXCEPT ![t].st = s], s # "running", s # "none",
         s = "pending" => row[t].st = "none",
         s # row[t].st => s \in Changes[row[t].st]
  PROVE  \A u \in Task : RowMoves(u)
<1>1. row \in [Task -> Row]
  BY DEF TypeOK
<1>2. \A u \in Task : row'[u] = IF u = t THEN [row[t] EXCEPT !.st = s] ELSE row[u]
  BY <1>1
<1>3. row'[t].st = s
  BY <1>1, <1>2 DEF Row
<1>4. \A u \in Task \ {t} : row'[u] = row[u]
  BY <1>2
<1> QED
  BY <1>3, <1>4 DEF RowMoves, Known, Begun, TaskInv, RowInv

LEMMA SameRows ==
  ASSUME TaskInv, row' = row
  PROVE  \A u \in Task : RowMoves(u)
  BY DEF RowMoves, Known, Begun, TaskInv, RowInv

LEMMA RunningRow ==
  ASSUME TypeOK, TaskInv, NEW t \in Task, NEW sid \in Session,
         row' = MarkedRunning(t, sid)
  PROVE  /\ \A u \in Task : RowMoves(u)
         /\ Known(t) => Begun(t)'
<1>1. row \in [Task -> Row]
  BY DEF TypeOK
<1>2. CASE row[t].st \in {"pending", "completed", "error"}
  <2>1. row' = [row EXCEPT ![t] = [st |-> "running", sid |-> sid]]
    BY <1>2 DEF MarkedRunning
  <2>2. row'[t] = [st |-> "running", sid |-> sid]
    BY <1>1, <2>1
  <2>3. \A u \in Task \ {t} : row'[u] = row[u]
    BY <1>1, <2>1
  <2>4. sid # NoSession
    BY DEF Session, NoSession
  <2>5. "running" \in Changes[row[t].st]
    BY <1>2 DEF Changes
  <2> QED
    BY <2>2, <2>3, <2>4, <2>5 DEF RowMoves, Known, Begun, TaskInv, RowInv
<1>3. CASE row[t].st \notin {"pending", "completed", "error"}
  BY <1>3, SameRows DEF MarkedRunning, Known, Begun
<1> QED
  BY <1>2, <1>3

LEMMA ChangesOf ==
  /\ "pending" \in Changes["none"]
  /\ "cancelled" \in Changes["pending"]
  /\ "cancelled" \in Changes["running"]
  /\ "completed" \in Changes["running"]
  BY DEF Changes

LEMMA CompletedRow ==
  ASSUME TypeOK, TaskInv, NEW t \in Task, Begun(t), row' = MarkedCompleted(t)
  PROVE  \A u \in Task : RowMoves(u)
<1>1. CASE row[t].st = "running"
  <2>1. row' = [row EXCEPT ![t].st = "completed"]
    BY <1>1 DEF MarkedCompleted
  <2>2. "completed" \in Changes[row[t].st]
    BY <1>1, ChangesOf
  <2> QED
    BY <2>1, <2>2, OneRow DEF Status
<1>2. CASE row[t].st # "running"
  BY <1>2, SameRows DEF MarkedCompleted, Begun
<1> QED
  BY <1>1, <1>2

LEMMA StepMoves ==
  ASSUME TypeOK, TaskInv, [Next]_vars
  PROVE  \A u \in Task : RowMoves(u)
<1>1. ASSUME NEW t \in Task, Tools(t) PROVE \A u \in Task : RowMoves(u)
  <2>1. CASE Spawn(t)
    <3>1. row' = [row EXCEPT ![t].st = "pending"] /\ row[t].st = "none"
      BY <2>1 DEF Spawn
    <3>2. "pending" \in Changes[row[t].st]
      BY <3>1, ChangesOf
    <3> QED
      BY <3>1, <3>2, OneRow DEF Status
  <2>2. CASE Cancel(t)
    <3>1. row' = [row EXCEPT ![t].st = "cancelled"] /\ row[t].st \in {"pending", "running"}
      BY <2>2 DEF Cancel
    <3>2. "cancelled" \in Changes[row[t].st]
      BY <3>1, ChangesOf
    <3> QED
      BY <3>1, <3>2, OneRow DEF Status
  <2>3. CASE Continue(t) \/ RefreshLite(t)
    BY <2>3, SameRows DEF Continue, RefreshLite
  <2>4. CASE Continued(t)
    <3>1. asked[t].sid \in Session
      BY <2>4 DEF Continued, TaskInv, AskInv, TypeOK, Row
    <3>2. row' = row \/ row' = MarkedRunning(t, asked[t].sid)
      BY <2>4 DEF Continued
    <3> QED
      BY <3>1, <3>2, SameRows, RunningRow
  <2>5. CASE Refreshed(t)
    BY <2>5, CompletedRow DEF Refreshed, TaskInv, RefreshInv
  <2> QED
    BY <1>1, <2>1, <2>2, <2>3, <2>4, <2>5 DEF Tools, LiteTools, BgTools
<1>2. ASSUME NEW c \in Caller, Start(c) PROVE \A u \in Task : RowMoves(u)
  <2>1. CASE SessionCreated(c)
    <3>1. call[c].task \in Task /\ created + 1 \in Session
      BY <2>1, Constants DEF SessionCreated, TaskInv, CallInv, TypeOK, Session
    <3> QED
      BY <2>1, <3>1, RunningRow DEF SessionCreated
  <2>2. CASE StartFails(c)
    <3>1. call[c].task \in Task /\ Known(call[c].task)
      BY <2>2 DEF StartFails, TaskInv, CallInv
    <3>2. row[call[c].task].st \in Status
      BY <3>1 DEF TypeOK, Row
    <3>3. "error" # row[call[c].task].st => "error" \in Changes[row[call[c].task].st]
      BY <3>1, <3>2 DEF Changes, Status, Known
    <3> QED
      BY <2>2, <3>1, <3>3, OneRow DEF StartFails, MarkedError, Status
  <2>3. CASE Prompted(c)
    BY <2>3, SameRows DEF Prompted
  <2> QED
    BY <1>2, <2>1, <2>2, <2>3 DEF Start
<1>3. ASSUME NEW p \in Poll, Cycles(p) PROVE \A u \in Task : RowMoves(u)
  <2>1. CASE PollCompletes(p)
    <3>1. PICK t \in poll[p].tasks : row' = MarkedCompleted(t)
      BY <2>1 DEF PollCompletes
    <3>2. t \in Task /\ Begun(t)
      BY <2>1, <3>1 DEF PollCompletes, TypeOK, Cycle, TaskInv, CheckInv
    <3> QED
      BY <3>1, <3>2, CompletedRow
  <2>2. CASE ~PollCompletes(p)
    BY <1>3, <2>2, SameRows
    DEF Cycles, PollFires, PollStarts, PollAsksStatus, PollGotStatus, PollWaits, PollEnds
  <2> QED
    BY <2>1, <2>2
<1>4. ASSUME NEW s \in Session, TurnEnds(s) PROVE \A u \in Task : RowMoves(u)
  BY <1>4, SameRows DEF TurnEnds
<1>5. CASE Restart
  <2>1. CASE row' = row
    BY <2>1, SameRows
  <2>2. CASE \E t \in WithStatus("running") : row' = [row EXCEPT ![t].st = "cancelled"]
    <3>1. PICK t \in WithStatus("running") : row' = [row EXCEPT ![t].st = "cancelled"]
      BY <2>2
    <3> QED
      <4>1. t \in Task /\ "cancelled" \in Changes[row[t].st]
        BY ChangesOf DEF WithStatus
      <4> QED
        BY <3>1, <4>1, OneRow DEF Status
  <2>3. CASE row' = [t \in Task |-> IF row[t].st = "pending"
                                    THEN [row[t] EXCEPT !.st = "cancelled"] ELSE row[t]]
    <3> SUFFICES ASSUME NEW u \in Task PROVE RowMoves(u)
      OBVIOUS
    <3>1. row[u] \in Row
      BY DEF TypeOK
    <3>2. CASE row[u].st = "pending"
      <4>1. row'[u].st = "cancelled"
        BY <2>3, <3>1, <3>2 DEF Row
      <4> QED
        BY <3>2, <4>1 DEF RowMoves, Changes, Known, Begun
    <3>3. CASE row[u].st # "pending"
      BY <2>3, <3>3 DEF RowMoves, Known, Begun, TaskInv, RowInv
    <3> QED
      BY <3>2, <3>3
  <2> QED
    BY <1>5, <2>1, <2>2, <2>3 DEF Restart, Shutdown
<1>6. CASE UNCHANGED vars
  BY <1>6, SameRows DEF vars
<1> QED
  BY <1>1, <1>2, <1>3, <1>4, <1>5, <1>6 DEF Next

-----------------------------------------------------------------------------
(* The invariant *)

(* A change of rows and of nothing the invariant looks at beside them.     *)
LEMMA Kept ==
  ASSUME TypeOK, TaskInv, \A u \in Task : RowMoves(u),
         UNCHANGED <<mode, call, spawned, timer, poll>>,
         refreshed' \subseteq refreshed, asked' = asked
  PROVE  TaskInv'
<1>1. CallInv' /\ PromptInv'
  BY DEF TaskInv, CallInv, PromptInv, RowMoves, Known, Begun
<1>2. CheckInv' /\ DrainInv' /\ SidsInv'
  BY DEF TaskInv, CheckInv, DrainInv, SidsInv, RowMoves, Known, Begun, TypeOK, Cycle
<1>3. RefreshInv' /\ SpawnInv' /\ PendingIsPolled' /\ RowInv' /\ AskInv'
  BY DEF TaskInv, RefreshInv, SpawnInv, PendingIsPolled, RowInv, AskInv, RowMoves, Known,
         Begun, TypeOK
<1> QED
  BY <1>1, <1>2, <1>3 DEF TaskInv

(* startTask returns: the caller's task is no longer pending if it got as  *)
(* far as it can in lite mode.                                             *)
LEMMA ReturnKept ==
  ASSUME TypeOK, TaskInv, \A u \in Task : RowMoves(u), NEW c \in Caller,
         StartReturns(c), c \in Task => Known(c)' /\ (mode = "lite" => Begun(c)'),
         UNCHANGED <<mode, poll, asked, refreshed>>
  PROVE  TaskInv'
<1> USE DEF RowMoves, Known, Begun
<1>1. CallInv' /\ PromptInv'
  <2>1. call' = [call EXCEPT ![c] = NoCall]
    BY DEF StartReturns
  <2>2. \A d \in Caller : call'[d].pc = "none" \/ call'[d] = call[d]
    BY <2>1 DEF TypeOK, NoCall
  <2> QED
    BY <2>2 DEF TaskInv, CallInv, PromptInv
<1>2. CheckInv' /\ DrainInv' /\ SidsInv' /\ RefreshInv' /\ RowInv' /\ AskInv'
  BY DEF TaskInv, CheckInv, DrainInv, SidsInv, RefreshInv, RowInv, AskInv, TypeOK, Cycle
<1>3. SpawnInv'
  BY DEF TaskInv, SpawnInv, StartReturns, TypeOK
<1>4. PendingIsPolled'
  BY <1>3 DEF TaskInv, SpawnInv, PendingIsPolled, StartReturns, TypeOK
<1> QED
  BY <1>1, <1>2, <1>3, <1>4 DEF TaskInv

LEMMA ToolsKept ==
  ASSUME TypeOK, TaskInv, \A u \in Task : RowMoves(u), NEW t \in Task, Tools(t)
  PROVE  TaskInv'
<1>1. CASE Spawn(t)
  <2>1. row'[t].st = "pending" /\ t \in Caller
    BY <1>1 DEF Spawn, TypeOK, Row, Caller
  <2>2. CASE mode = "lite" \/ CanStart(ModelOf[t])
    <3>1. Starts(t, t) /\ UNCHANGED <<timer, spawned, mode, poll, asked, refreshed>>
      BY <1>1, <2>2 DEF Spawn, tools
    <3>2. CallInv' /\ PromptInv'
      <4>1. \A d \in Caller : call'[d] = IF d = t
              THEN [pc |-> "create", task |-> t, sid |-> NoSession] ELSE call[d]
        BY <2>1, <3>1 DEF Starts, TypeOK
      <4> QED
        BY <2>1, <4>1 DEF TaskInv, CallInv, PromptInv, RowMoves, Known, Begun
    <3>3. CheckInv' /\ DrainInv' /\ SidsInv' /\ RefreshInv' /\ RowInv' /\ AskInv'
      BY <3>1 DEF TaskInv, CheckInv, DrainInv, SidsInv, RefreshInv, RowInv, AskInv, TypeOK,
                  Cycle, RowMoves, Known, Begun
    <3>4. SpawnInv' /\ PendingIsPolled'
      BY <3>1 DEF TaskInv, SpawnInv, PendingIsPolled, TypeOK, RowMoves, Known, Begun
    <3> QED
      BY <3>2, <3>3, <3>4 DEF TaskInv
  <2>3. CASE ~(mode = "lite" \/ CanStart(ModelOf[t]))
    <3>1. StartReturns(t) /\ UNCHANGED <<mode, poll, asked, refreshed>>
      BY <1>1, <2>3 DEF Spawn, tools
    <3> QED
      BY <2>1, <2>3, <3>1, ReturnKept DEF Known
  <2> QED
    BY <2>2, <2>3
<1>2. CASE Cancel(t)
  BY <1>2, Kept DEF Cancel, tools
<1>3. CASE Continue(t)
  <2>1. \A u \in Task : asked'[u] = IF u = t THEN row[t] ELSE asked[u]
    BY <1>3 DEF Continue, TypeOK
  <2>2. AskInv'
    BY <1>3, <2>1 DEF Continue, TaskInv, AskInv
  <2> QED
    BY <1>3, <2>2 DEF Continue, TaskInv, CallInv, PromptInv, CheckInv, DrainInv, SidsInv,
                      RefreshInv, RowInv, SpawnInv, PendingIsPolled, Known, Begun
<1>4. CASE Continued(t)
  <2>1. \A u \in Task : asked'[u] = IF u = t THEN NoRow ELSE asked[u]
    BY <1>4 DEF Continued, TypeOK
  <2>2. AskInv'
    BY <2>1 DEF TaskInv, AskInv
  <2>3. UNCHANGED <<mode, call, spawned, timer, poll, refreshed>>
    BY <1>4 DEF Continued
  <2>4. CallInv' /\ PromptInv'
    BY <2>3 DEF TaskInv, CallInv, PromptInv, RowMoves, Known, Begun
  <2>5. CheckInv' /\ DrainInv' /\ SidsInv'
    BY <2>3 DEF TaskInv, CheckInv, DrainInv, SidsInv, RowMoves, Known, Begun, TypeOK, Cycle
  <2>6. RefreshInv' /\ SpawnInv' /\ PendingIsPolled' /\ RowInv'
    BY <2>3 DEF TaskInv, RefreshInv, SpawnInv, PendingIsPolled, RowInv, RowMoves, Known,
                Begun, TypeOK
  <2> QED
    BY <2>2, <2>4, <2>5, <2>6 DEF TaskInv
<1>5. CASE RefreshLite(t)
  BY <1>5 DEF RefreshLite, TaskInv, CallInv, PromptInv, CheckInv, DrainInv, SidsInv,
              RefreshInv, RowInv, AskInv, SpawnInv, PendingIsPolled, Known, Begun
<1>6. CASE Refreshed(t)
  BY <1>6, Kept DEF Refreshed
<1> QED
  BY <1>1, <1>2, <1>3, <1>4, <1>5, <1>6 DEF Tools, LiteTools, BgTools

LEMMA StartKept ==
  ASSUME TypeOK, TaskInv, \A u \in Task : RowMoves(u), NEW c \in Caller, Start(c)
  PROVE  TaskInv'
<1>0. call[c].pc # "none" /\ call[c].task \in Task /\ Known(call[c].task)
  BY DEF Start, SessionCreated, StartFails, Prompted, TaskInv, CallInv
<1>1. CASE SessionCreated(c)
  <2>1. created + 1 \in Session /\ created + 1 # NoSession
    BY <1>1, Constants DEF SessionCreated, TypeOK, Session, NoSession
  <2>2. row'[call[c].task].st \notin {"none", "pending"}
    <3>1. PICK t \in Task : t = call[c].task
      BY <1>0
    <3>2. row' = MarkedRunning(t, created + 1) /\ Known(t)
      BY <1>0, <1>1, <3>1 DEF SessionCreated
    <3>3. Begun(t)'
      BY <2>1, <3>2, RunningRow
    <3> QED
      BY <3>1, <3>3 DEF Begun
  <2>3. UNCHANGED <<mode, spawned, timer, poll, asked, refreshed>>
    BY <1>1 DEF SessionCreated, tools
  <2>4. \A d \in Caller : call'[d] = IF d = c
          THEN [call[c] EXCEPT !.pc = "prompt", !.sid = created + 1] ELSE call[d]
    BY <1>1 DEF SessionCreated, TypeOK
  <2>5. /\ call'[c].task = call[c].task /\ call'[c].sid = created + 1
        /\ \A d \in Caller \ {c} : call'[d] = call[d]
    BY <2>4 DEF TypeOK, Call
  <2>6. CallInv' /\ PromptInv'
    BY <1>0, <2>1, <2>2, <2>5 DEF TaskInv, CallInv, PromptInv, RowMoves, Known, Begun
  <2>7. CheckInv' /\ DrainInv' /\ SidsInv'
    BY <2>3 DEF TaskInv, CheckInv, DrainInv, SidsInv, RowMoves, Known, Begun, TypeOK, Cycle
  <2>8. RefreshInv' /\ SpawnInv' /\ PendingIsPolled' /\ RowInv' /\ AskInv'
    BY <2>3 DEF TaskInv, RefreshInv, SpawnInv, PendingIsPolled, RowInv, AskInv, RowMoves,
                Known, Begun, TypeOK
  <2> QED
    BY <2>6, <2>7, <2>8 DEF TaskInv
<1>2. CASE StartFails(c)
  <2>1. row'[call[c].task].st = "error"
    BY <1>0, <1>2 DEF StartFails, MarkedError, TypeOK, Row
  <2>2. c \in Task => Known(c)' /\ Begun(c)'
    BY <1>0, <2>1 DEF TaskInv, CallInv, Known, Begun
  <2> QED
    BY <1>2, <2>2, ReturnKept DEF StartFails, tools
<1>3. CASE Prompted(c)
  <2>1. Begun(call[c].task)
    BY <1>3 DEF Prompted, TaskInv, CallInv
  <2>2. c \in Task => Known(c)' /\ Begun(c)'
    BY <1>0, <1>3, <2>1 DEF Prompted, TaskInv, CallInv, Known, Begun
  <2> QED
    BY <1>3, <2>2, ReturnKept DEF Prompted, tools
<1> QED
  BY <1>1, <1>2, <1>3 DEF Start

LEMMA CyclesKept ==
  ASSUME TypeOK, TaskInv, \A u \in Task : RowMoves(u), NEW p \in Poll, Cycles(p)
  PROVE  TaskInv'
<1>0. p \in Caller /\ poll[p] \in Cycle
  BY DEF Caller, TypeOK
<1>a. ASSUME UNCHANGED <<mode, call, spawned, timer, asked, refreshed>>,
             CheckInv', DrainInv', SidsInv'
      PROVE  TaskInv'
  <2>1. CallInv' /\ PromptInv'
    BY <1>a DEF TaskInv, CallInv, PromptInv, RowMoves, Known, Begun
  <2>2. RefreshInv' /\ SpawnInv' /\ PendingIsPolled' /\ RowInv' /\ AskInv'
    BY <1>a DEF TaskInv, RefreshInv, SpawnInv, PendingIsPolled, RowInv, AskInv, RowMoves,
                Known, Begun, TypeOK
  <2> QED
    BY <1>a, <2>1, <2>2 DEF TaskInv
<1>b. ASSUME NEW c \in Cycle, poll' = [poll EXCEPT ![p] = c],
             \A t \in c.tasks : Known(t)',
             c.pc \in {"status", "check"}
               => \A t \in c.tasks : Begun(t)' /\ c.sids[t] # NoSession
      PROVE  CheckInv' /\ DrainInv' /\ SidsInv'
  <2>1. \A q \in Poll : poll'[q] = IF q = p THEN c ELSE poll[q]
    BY <1>b DEF TypeOK
  <2>2. \A q \in Poll : poll[q].tasks \subseteq Task
    BY DEF TypeOK, Cycle
  <2> QED
    BY <1>b, <2>1, <2>2 DEF TaskInv, CheckInv, DrainInv, SidsInv, RowMoves, Known, Begun
(* A task leaves the list of the cycle.                                    *)
<1>c. ASSUME NEW t \in poll[p].tasks, poll' = [poll EXCEPT ![p].tasks = @ \ {t}]
      PROVE  CheckInv' /\ DrainInv' /\ SidsInv'
  <2>1. PICK c : c = [poll[p] EXCEPT !.tasks = @ \ {t}]
    OBVIOUS
  <2>2. c \in Cycle /\ c.tasks = poll[p].tasks \ {t} /\ c.pc = poll[p].pc /\ c.sids = poll[p].sids
    BY <1>0, <2>1 DEF Cycle
  <2>3. poll' = [poll EXCEPT ![p] = c]
    BY <1>c, <2>1
  <2>4. c.tasks \subseteq Task
    BY <1>0, <2>2 DEF Cycle
  <2>5. \A u \in c.tasks : Known(u)'
    BY <2>2, <2>4 DEF TaskInv, DrainInv, RowMoves
  <2>6. c.pc \in {"status", "check"} => \A u \in c.tasks : Begun(u)' /\ c.sids[u] # NoSession
    BY <2>2, <2>4 DEF TaskInv, CheckInv, SidsInv, RowMoves
  <2> QED
    BY <1>b, <2>2, <2>3, <2>5, <2>6
<1>1. CASE PollFires(p)
  <2>1. PICK S \in DrainPending :
          poll' = [poll EXCEPT ![p] = [NoCycle EXCEPT !.pc = "drain", !.tasks = S]]
    BY <1>1 DEF PollFires
  <2>2. [NoCycle EXCEPT !.pc = "drain", !.tasks = S] \in Cycle
    BY Constants DEF DrainPending, Startable, WithStatus, Cycle
  <2>3. /\ [NoCycle EXCEPT !.pc = "drain", !.tasks = S].tasks = S
        /\ [NoCycle EXCEPT !.pc = "drain", !.tasks = S].pc = "drain"
    BY DEF NoCycle
  <2>4. \A t \in S : Known(t)'
    BY DEF DrainPending, Startable, WithStatus, RowMoves, Known
  <2>5. CheckInv' /\ DrainInv' /\ SidsInv'
    BY <1>b, <2>1, <2>2, <2>3, <2>4
  <2> QED
    BY <1>1, <1>a, <2>5 DEF PollFires, tools
<1>2. CASE PollStarts(p)
  <2>1. PICK t \in poll[p].tasks :
          /\ poll' = [poll EXCEPT ![p].tasks = @ \ {t}]
          /\ IF row[t].st = "pending" THEN Starts(p, t) ELSE UNCHANGED call
    BY <1>2 DEF PollStarts
  <2>2. CheckInv' /\ DrainInv' /\ SidsInv'
    BY <1>c, <2>1
  <2>3. CASE UNCHANGED call
    BY <1>2, <1>a, <2>2, <2>3 DEF PollStarts, tools
  <2>4. CASE row[t].st = "pending" /\ Starts(p, t)
    <3>1. t \in Task
      BY <1>0 DEF Cycle
    <3>2. \A d \in Caller : call'[d] = IF d = p
            THEN [pc |-> "create", task |-> t, sid |-> NoSession] ELSE call[d]
      BY <2>4 DEF Starts, TypeOK
    <3>3. p \notin Task
      BY BackgroundAssumption
    <3>4. CallInv' /\ PromptInv'
      BY <2>4, <3>1, <3>2, <3>3 DEF TaskInv, CallInv, PromptInv, RowMoves, Known, Begun
    <3>5. UNCHANGED <<mode, row, spawned, timer, asked, refreshed>>
      BY <1>2 DEF PollStarts, tools
    <3>6. RefreshInv' /\ SpawnInv' /\ PendingIsPolled' /\ RowInv' /\ AskInv'
      BY <3>5 DEF TaskInv, RefreshInv, SpawnInv, PendingIsPolled, RowInv, AskInv, Known, Begun
    <3> QED
      BY <2>2, <3>4, <3>6 DEF TaskInv
  <2> QED
    BY <2>1, <2>3, <2>4
<1>3. CASE PollAsksStatus(p)
  <2> DEFINE sids == [t \in Task |-> IF row[t].st = "running" THEN row[t].sid ELSE NoSession]
             c == [pc |-> "status", tasks |-> WithStatus("running"), sids |-> sids, idle |-> {}]
  <2>1. sids \in [Task -> Session \cup {NoSession}]
    BY DEF TypeOK, Row
  <2>2. c \in Cycle
    BY <2>1 DEF Cycle, WithStatus
  <2>3. poll' = [poll EXCEPT ![p] = c]
    BY <1>3 DEF PollAsksStatus
  <2>4. \A t \in WithStatus("running") : Begun(t)' /\ Known(t)' /\ sids[t] # NoSession
    BY DEF WithStatus, TaskInv, RowInv, RowMoves, Known, Begun
  <2>5. c.tasks = WithStatus("running") /\ c.sids = sids
    OBVIOUS
  <2> HIDE DEF c, sids
  <2>6. CheckInv' /\ DrainInv' /\ SidsInv'
    BY <1>b, <2>2, <2>3, <2>4, <2>5
  <2> QED
    BY <1>3, <1>a, <2>6 DEF PollAsksStatus, tools
<1>4. CASE PollGotStatus(p)
  <2>1. \A q \in Poll : poll'[q].tasks = poll[q].tasks /\ poll'[q].sids = poll[q].sids
    BY <1>4 DEF PollGotStatus, TypeOK, Cycle
  <2>2. \A q \in Poll : poll'[q].pc \in {"status", "check"} => poll[q].pc \in {"status", "check"}
    BY <1>4 DEF PollGotStatus, TypeOK, Cycle
  <2>3. UNCHANGED <<mode, row, call, spawned, timer, asked, refreshed>>
    BY <1>4 DEF PollGotStatus, tools
  <2>4. CheckInv' /\ DrainInv' /\ SidsInv'
    BY <2>1, <2>2, <2>3 DEF TaskInv, CheckInv, DrainInv, SidsInv, Known, Begun
  <2> QED
    BY <1>a, <2>3, <2>4
<1>5. CASE PollCompletes(p)
  <2>1. PICK t \in poll[p].tasks : poll' = [poll EXCEPT ![p].tasks = @ \ {t}]
    BY <1>5 DEF PollCompletes
  <2> QED
    BY <1>5, <1>a, <1>c, <2>1 DEF PollCompletes, tools
<1>6. CASE PollWaits(p)
  <2>1. PICK t \in poll[p].tasks : poll' = [poll EXCEPT ![p].tasks = @ \ {t}]
    BY <1>6 DEF PollWaits
  <2> QED
    BY <1>6, <1>a, <1>c, <2>1 DEF PollWaits, tools
<1>7. CASE PollEnds(p)
  <2>1. UNCHANGED <<mode, row, call, spawned, asked, refreshed>>
    BY <1>7 DEF PollEnds, tools
  <2>2. NoCycle \in Cycle /\ NoCycle.tasks = {} /\ NoCycle.pc = "none"
    BY Constants DEF NoCycle
  <2>3. CheckInv' /\ DrainInv' /\ SidsInv'
    BY <1>7, <1>b, <2>2 DEF PollEnds
  <2>4. PendingIsPolled'
    BY <1>7, <2>1 DEF PollEnds, TaskInv, PendingIsPolled, WithStatus, TypeOK
  <2>5. CallInv' /\ PromptInv' /\ RefreshInv' /\ SpawnInv' /\ RowInv' /\ AskInv'
    BY <2>1 DEF TaskInv, CallInv, PromptInv, RefreshInv, SpawnInv, RowInv, AskInv, Known, Begun
  <2> QED
    BY <2>3, <2>4, <2>5 DEF TaskInv
<1> QED
  BY <1>1, <1>2, <1>3, <1>4, <1>5, <1>6, <1>7 DEF Cycles

LEMMA StepKept ==
  ASSUME TypeOK, TaskInv, [Next]_vars
  PROVE  TaskInv'
<1>1. \A u \in Task : RowMoves(u)
  BY StepMoves
<1>2. ASSUME NEW s \in Session, TurnEnds(s) PROVE TaskInv'
  BY <1>1, <1>2, Kept DEF TurnEnds, tools
<1>3. CASE Restart
  <2>1. /\ \A c \in Caller : call'[c] = NoCall
        /\ \A p \in Poll : poll'[p] = NoCycle
        /\ \A t \in Task : asked'[t] = NoRow
        /\ spawned' = {} /\ refreshed' = {}
    BY <1>3 DEF Restart, NoRows
  <2>2. CallInv' /\ PromptInv' /\ CheckInv' /\ DrainInv' /\ SidsInv'
    BY <2>1 DEF CallInv, PromptInv, CheckInv, DrainInv, SidsInv, NoCall, NoCycle
  <2>3. RefreshInv' /\ SpawnInv' /\ PendingIsPolled' /\ RowInv' /\ AskInv'
    BY <1>1, <2>1 DEF RefreshInv, SpawnInv, PendingIsPolled, RowInv, AskInv, RowMoves
  <2> QED
    BY <2>2, <2>3 DEF TaskInv
<1>4. CASE UNCHANGED vars
  BY <1>1, <1>4, Kept DEF vars, tools
<1> QED
  BY <1>1, <1>2, <1>3, <1>4, ToolsKept, StartKept, CyclesKept DEF Next

-----------------------------------------------------------------------------
(* The theorems *)

LEMMA InitInv == Init => TypeOK /\ TaskInv
<1> SUFFICES ASSUME Init PROVE TypeOK /\ TaskInv
  OBVIOUS
<1>1. TypeOK
  <2>1. /\ row \in [Task -> Row] /\ asked \in [Task -> Row]
        /\ call \in [Caller -> Call] /\ poll \in [Poll -> Cycle]
    BY Constants DEF Init
  <2>2. mode \in {"full", "lite"} /\ created \in 0..MaxSessions
    BY Constants DEF Init
  <2>3. /\ spawned = {} /\ timer = FALSE /\ tracked = {} /\ busy = {}
        /\ refreshed = {} /\ continues \in Nat /\ restarts \in Nat
    BY DEF Init
  <2> QED
    BY <2>1, <2>2, <2>3 DEF TypeOK
<1>2. TaskInv
  BY DEF Init, TaskInv, CallInv, CheckInv, DrainInv, RefreshInv, AskInv, RowInv, PromptInv,
         SidsInv, SpawnInv, PendingIsPolled, NoCall, NoCycle, NoRows, NoRow, NoSession
<1> QED
  BY <1>1, <1>2

LEMMA InvHolds == Spec => [](TypeOK /\ TaskInv)
<1>1. TypeOK /\ TaskInv /\ [Next]_vars => (TypeOK /\ TaskInv)'
  BY StepTyped, StepKept
<1> QED
  BY InitInv, <1>1, PTL DEF Spec

(* Every variable keeps its type; every session prompted exists.           *)
THEOREM TasksTypeCorrect == Spec => []TypeOK
  BY InvHolds, PTL

(* However starts, checks, cancels, continuations and restarts interleave, *)
(* a task's row only takes the transitions of Changes.                     *)
THEOREM TaskLifecycle == Spec => LifecycleStep
<1>1. TypeOK /\ TaskInv /\ [Next]_vars
        => [\A t \in Task : row'[t].st # row[t].st => row'[t].st \in Changes[row[t].st]]_vars
  BY StepMoves DEF RowMoves
<1> QED
  BY InvHolds, <1>1, PTL DEF Spec, LifecycleStep

(* No end of a poll cycle leaves a task pending that nobody polls.         *)
THEOREM PendingPolled == Spec => []PendingIsPolled
<1>1. TaskInv => PendingIsPolled
  BY DEF TaskInv
<1> QED
  BY InvHolds, <1>1, PTL
=============================================================================
