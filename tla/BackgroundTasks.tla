-------------------------- MODULE BackgroundTasks --------------------------
(***************************************************************************)
(* Background agent tasks: the task table of BackgroundManager, the limits *)
(* of ConcurrencyManager, the starts and the poll loop of                  *)
(* BackgroundSpawner, and the bg_* tools that drive them.  In lite mode    *)
(* (background.enabled is false) there is no spawner: the tools start a    *)
(* task themselves and refresh its row when they are asked about it.       *)
(*                                                                         *)
(* An action is the code between two awaits.  The callers of startTask are *)
(* the bg_spawn call of each task and the poll cycles; setInterval starts  *)
(* a cycle whether or not the one before has ended.  The rows are in       *)
(* SQLite and survive a restart, everything else does not.                 *)
(***************************************************************************)
EXTENDS Naturals, FiniteSets

CONSTANTS
  Task,         \* task ids, each of one bg_spawn call
  Poll,         \* poll cycles that may be in flight at once
  Model,        \* models tasks are accounted to
  ModelOf,      \* the model of each task
  MaxConcurrent,  \* limits.maxConcurrent
  PerModelLimit,  \* limits.perModelLimit
  Modes,        \* which of "full" and "lite" the configuration may say
  MaxSessions,  \* bound: sessions the server creates
  MaxContinues, \* bound: bg_continue calls
  MaxRestarts   \* bound: restarts of the process

ASSUME BackgroundAssumption ==
  /\ Task \cap Poll = {}
  /\ IsFiniteSet(Task)
  /\ ModelOf \in [Task -> Model]
  /\ MaxConcurrent \in Nat
  /\ PerModelLimit \in Nat
  /\ Modes \subseteq {"full", "lite"}
  /\ MaxSessions \in Nat
  /\ MaxContinues \in Nat
  /\ MaxRestarts \in Nat

VARIABLES
  mode,      \* "full": there is a BackgroundSpawner; "lite": there is none
  row,       \* background_tasks: status and session_id of each task
  call,      \* startTask, for each caller: where it is, for which task
  spawned,   \* tasks whose bg_spawn call of this process has returned
  timer,     \* pollTimer is set
  poll,      \* the poll cycles
  tracked,   \* tasks with an entry in lastOutputHash
  created,   \* number of sessions the server has created: 1..created
  busy,      \* sessions that run a turn
  asked,     \* bg_continue calls in flight: the row they read
  continues, \* number of bg_continue calls
  refreshed, \* lite mode: refreshes that will mark their task completed
  restarts   \* number of restarts

server == <<created, busy>>
tools == <<asked, continues, refreshed>>
vars == <<mode, row, call, spawned, timer, poll, tracked, created, busy, asked,
          continues, refreshed, restarts>>

Session == 1..MaxSessions
NoSession == 0
Status == {"none", "pending", "running", "completed", "error", "cancelled"}
Row == [st : Status, sid : Session \cup {NoSession}]
NoRow == [st |-> "none", sid |-> NoSession]

Caller == Task \cup Poll
Call == [pc : {"none", "create", "prompt"}, task : Task \cup {"none"},
         sid : Session \cup {NoSession}]
NoCall == [pc |-> "none", task |-> "none", sid |-> NoSession]

NoRows == [t \in Task |-> NoRow]

(* tasks: to start, then to check; sids: the sessions of the tasks that    *)
(* ran when the cycle looked; idle: which of them session.status listed as *)
(* idle.                                                                   *)
Cycle == [pc : {"none", "drain", "status", "check"}, tasks : SUBSET Task,
          sids : [Task -> Session \cup {NoSession}], idle : SUBSET Session]
NoSids == [t \in Task |-> NoSession]
NoCycle == [pc |-> "none", tasks |-> {}, sids |-> NoSids, idle |-> {}]

Init ==
  /\ mode \in Modes
  /\ row = NoRows
  /\ call = [c \in Caller |-> NoCall]
  /\ spawned = {}
  /\ timer = FALSE
  /\ poll = [p \in Poll |-> NoCycle]
  /\ tracked = {}
  /\ created = 0
  /\ busy = {}
  /\ asked = NoRows
  /\ continues = 0
  /\ refreshed = {}
  /\ restarts = 0

-----------------------------------------------------------------------------
(* BackgroundManager and ConcurrencyManager *)

WithStatus(s) == {t \in Task : row[t].st = s}
CountRunning == Cardinality(WithStatus("running"))
CountRunningForModel(m) == Cardinality({t \in WithStatus("running") : ModelOf[t] = m})

MarkedRunning(t, sid) ==
  IF row[t].st \in {"pending", "completed", "error"}
  THEN [row EXCEPT ![t] = [st |-> "running", sid |-> sid]] ELSE row

(* Mistake: the status is not looked at.                                   *)
MarkedCompletedAlways(t) == [row EXCEPT ![t].st = "completed"]

MarkedCompleted(t) ==
  IF row[t].st \in {"running", "pending"} THEN [row EXCEPT ![t].st = "completed"] ELSE row

MarkedError(t) == [row EXCEPT ![t].st = "error"]

CanStart(m) == CountRunning < MaxConcurrent /\ CountRunningForModel(m) < PerModelLimit

(* Mistake: the limit is one task lower than it says.                      *)
DrainPendingOffByOne ==
  {S \in SUBSET WithStatus("pending") : CountRunning + Cardinality(S) < MaxConcurrent}

(* drainPending walks the pending tasks, oldest first (any order here): it *)
(* stops at the global limit, counting the tasks it has picked, and passes *)
(* over a model at its limit, not counting them.                           *)
Startable == {t \in WithStatus("pending") : CountRunningForModel(ModelOf[t]) < PerModelLimit}
DrainPending ==
  {S \in SUBSET Startable :
     IF CountRunning + Cardinality(Startable) <= MaxConcurrent THEN S = Startable
     ELSE IF CountRunning >= MaxConcurrent THEN S = {}
     ELSE CountRunning + Cardinality(S) = MaxConcurrent}

-----------------------------------------------------------------------------
(* startTask *)

Starts(c, t) == call' = [call EXCEPT ![c] = [pc |-> "create", task |-> t, sid |-> NoSession]]

(* startTask returns; the bg_spawn call goes on to ensurePolling.          *)
StartReturns(c) ==
  /\ call' = [call EXCEPT ![c] = NoCall]
  /\ timer' = (timer \/ (c \in Task /\ mode = "full"))
  /\ spawned' = IF c \in Task THEN spawned \cup {c} ELSE spawned

(* session.create gave a session: markRunning, which may refuse.           *)
SessionCreated(c) ==
  /\ call[c].pc = "create"
  /\ created < MaxSessions
  /\ created' = created + 1
  /\ row' = MarkedRunning(call[c].task, created + 1)
  /\ call' = [call EXCEPT ![c].pc = "prompt", ![c].sid = created + 1]
  /\ UNCHANGED <<mode, spawned, timer, poll, tracked, busy, tools, restarts>>

(* session.create failed, or no model of the chain took the prompt.        *)
StartFails(c) ==
  /\ call[c].pc # "none"
  /\ row' = MarkedError(call[c].task)
  /\ StartReturns(c)
  /\ UNCHANGED <<mode, poll, tracked, server, tools, restarts>>

Prompted(c) ==
  /\ call[c].pc = "prompt"
  /\ busy' = busy \cup {call[c].sid}
  /\ StartReturns(c)
  /\ UNCHANGED <<mode, row, poll, tracked, created, tools, restarts>>

Start(c) == SessionCreated(c) \/ StartFails(c) \/ Prompted(c)

-----------------------------------------------------------------------------
(* The bg_* tools *)

(* bg_spawn: enqueue, and start at once if the limits allow, which lite    *)
(* mode does not ask.                                                      *)
Spawn(t) ==
  /\ row[t].st = "none"
  /\ row' = [row EXCEPT ![t].st = "pending"]
  /\ IF mode = "lite" \/ CanStart(ModelOf[t])
     THEN Starts(t, t) /\ UNCHANGED <<timer, spawned>>
     ELSE StartReturns(t)
  /\ UNCHANGED <<mode, poll, tracked, server, tools, restarts>>

(* bg_cancel: the row first, then the session the row had.                 *)
Cancel(t) ==
  /\ row[t].st \in {"pending", "running"}
  /\ row' = [row EXCEPT ![t].st = "cancelled"]
  /\ busy' = busy \ {row[t].sid}
  /\ tracked' = IF mode = "full" THEN tracked \ {t} ELSE tracked
  /\ UNCHANGED <<mode, call, spawned, timer, poll, created, tools, restarts>>

(* bg_continue: a prompt to the session of the row, whatever its status;   *)
(* the row that decides below is the one read here.                        *)
Continue(t) ==
  /\ continues < MaxContinues
  /\ asked[t] = NoRow
  /\ row[t].sid # NoSession
  /\ asked' = [asked EXCEPT ![t] = row[t]]
  /\ continues' = continues + 1
  /\ UNCHANGED <<mode, row, call, spawned, timer, poll, tracked, server, refreshed, restarts>>

Continued(t) ==
  /\ asked[t] # NoRow
  /\ \/ /\ busy' = busy \cup {asked[t].sid}
        /\ row' = IF asked[t].st \in {"completed", "error"}
                  THEN MarkedRunning(t, asked[t].sid) ELSE row
     \/ UNCHANGED <<row, busy>>
  /\ asked' = [asked EXCEPT ![t] = NoRow]
  /\ UNCHANGED <<mode, call, spawned, timer, poll, tracked, created, continues,
                 refreshed, restarts>>

(* refreshLiteTask, called by bg_spawn, bg_status and bg_wait: status and  *)
(* messages, then markCompleted unless the status said busy.  A status     *)
(* call that answers with an error does not say so.                        *)
RefreshLite(t) ==
  /\ mode = "lite"
  /\ row[t].st = "running"
  /\ refreshed' = refreshed \cup {t}
  /\ UNCHANGED <<mode, row, call, spawned, timer, poll, tracked, server, asked,
                 continues, restarts>>

Refreshed(t) ==
  /\ t \in refreshed
  /\ refreshed' = refreshed \ {t}
  /\ row' = MarkedCompleted(t)
  /\ UNCHANGED <<mode, call, spawned, timer, poll, tracked, server, asked,
                 continues, restarts>>

BgTools(t) == Spawn(t) \/ Cancel(t) \/ Continue(t) \/ Continued(t)
LiteTools(t) == BgTools(t) \/ RefreshLite(t) \/ Refreshed(t)

(* Lite mode has tools of its own, without poller and limits.              *)
Tools(t) == IF mode = "lite" THEN LiteTools(t) ELSE BgTools(t)

-----------------------------------------------------------------------------
(* The poll cycle *)

PollFires(p) ==
  /\ timer
  /\ poll[p].pc = "none"
  /\ \E S \in DrainPending :
       poll' = [poll EXCEPT ![p] = [NoCycle EXCEPT !.pc = "drain", !.tasks = S]]
  /\ UNCHANGED <<mode, row, call, spawned, timer, tracked, server, tools, restarts>>

(* The next task to start; startTask passes over one no longer pending.    *)
PollStarts(p) ==
  /\ poll[p].pc = "drain"
  /\ call[p].pc = "none"
  /\ \E t \in poll[p].tasks :
       /\ poll' = [poll EXCEPT ![p].tasks = @ \ {t}]
       /\ IF row[t].st = "pending" THEN Starts(p, t) ELSE UNCHANGED call
  /\ UNCHANGED <<mode, row, spawned, timer, tracked, server, tools, restarts>>

(* All started: the running tasks of now are the ones to check.            *)
PollAsksStatus(p) ==
  /\ poll[p].pc = "drain"
  /\ call[p].pc = "none"
  /\ poll[p].tasks = {}
  /\ poll' = [poll EXCEPT ![p] =
       [pc |-> "status", tasks |-> WithStatus("running"), idle |-> {},
        sids |-> [t \in Task |-> IF row[t].st = "running" THEN row[t].sid ELSE NoSession]]]
  /\ UNCHANGED <<mode, row, call, spawned, timer, tracked, server, tools, restarts>>

(* session.status answered: it may not list an idle session, or may fail.  *)
PollGotStatus(p) ==
  /\ poll[p].pc = "status"
  /\ \E I \in {{}, {poll[p].sids[t] : t \in poll[p].tasks} \ busy} :
       poll' = [poll EXCEPT ![p].pc = "check", ![p].idle = I]
  /\ UNCHANGED <<mode, row, call, spawned, timer, tracked, server, tools, restarts>>

(* The messages of a task whose session was idle, or whose output has not  *)
(* changed for idleTimeoutMs: completed.                                   *)
PollCompletes(p) ==
  /\ poll[p].pc = "check"
  /\ \E t \in poll[p].tasks :
       /\ poll[p].sids[t] \in poll[p].idle \/ t \in tracked
       /\ poll' = [poll EXCEPT ![p].tasks = @ \ {t}]
       /\ row' = MarkedCompleted(t)
       /\ tracked' = tracked \ {t}
  /\ UNCHANGED <<mode, call, spawned, timer, server, tools, restarts>>

(* The output changed (updateSummary leaves the status alone), or did not, *)
(* but not for long enough, or the call failed.                            *)
PollWaits(p) ==
  /\ poll[p].pc = "check"
  /\ \E t \in poll[p].tasks :
       /\ poll' = [poll EXCEPT ![p].tasks = @ \ {t}]
       /\ tracked' \in {tracked} \cup
            (IF poll[p].sids[t] \in poll[p].idle THEN {} ELSE {tracked \cup {t}})
  /\ UNCHANGED <<mode, row, call, spawned, timer, server, tools, restarts>>

SomeRan(p) == poll[p].sids # NoSids

(* Mistake: the pending tasks are not counted.                             *)
PollEndsPendingIgnored(p) ==
  /\ poll[p].pc = "check"
  /\ poll[p].tasks = {}
  /\ poll' = [poll EXCEPT ![p] = NoCycle]
  /\ timer' = (timer /\ SomeRan(p))
  /\ UNCHANGED <<mode, row, call, spawned, tracked, server, tools, restarts>>

(* The end of the cycle: stop polling if nothing was running when the      *)
(* cycle looked and nothing is pending.                                    *)
PollEnds(p) ==
  /\ poll[p].pc = "check"
  /\ poll[p].tasks = {}
  /\ poll' = [poll EXCEPT ![p] = NoCycle]
  /\ timer' = (timer /\ (SomeRan(p) \/ WithStatus("pending") # {}))
  /\ UNCHANGED <<mode, row, call, spawned, tracked, server, tools, restarts>>

Cycles(p) ==
  \/ PollFires(p) \/ PollStarts(p) \/ PollAsksStatus(p) \/ PollGotStatus(p)
  \/ PollCompletes(p) \/ PollWaits(p) \/ PollEnds(p)

-----------------------------------------------------------------------------
(* The environment *)

TurnEnds(s) ==
  /\ s \in busy
  /\ busy' = busy \ {s}
  /\ UNCHANGED <<mode, row, call, spawned, timer, poll, tracked, created, tools, restarts>>

(* The process ends.  A crash leaves the rows; cleanup does not wait for   *)
(* shutdown and closes the database, so that it cancels the first running  *)
(* task only, or with none running the pending ones.                       *)
Shutdown ==
  IF mode = "lite" THEN {row}
  ELSE IF WithStatus("running") # {}
  THEN {[row EXCEPT ![t].st = "cancelled"] : t \in WithStatus("running")}
  ELSE {[t \in Task |-> IF row[t].st = "pending"
                        THEN [row[t] EXCEPT !.st = "cancelled"] ELSE row[t]]}

Restart ==
  /\ restarts < MaxRestarts
  /\ restarts' = restarts + 1
  /\ row' \in {row} \cup Shutdown
  /\ call' = [c \in Caller |-> NoCall]
  /\ poll' = [p \in Poll |-> NoCycle]
  /\ asked' = NoRows
  /\ spawned' = {}
  /\ timer' = FALSE
  /\ tracked' = {}
  /\ refreshed' = {}
  /\ busy' = {}
  /\ UNCHANGED <<mode, created, continues>>

Next ==
  \/ \E t \in Task : Tools(t)
  \/ \E c \in Caller : Start(c)
  \/ \E p \in Poll : Cycles(p)
  \/ \E s \in Session : TurnEnds(s)
  \/ Restart

Spec == Init /\ [][Next]_vars

(***************************************************************************)
(* Fairness: calls are answered, turns end, the interval fires, the checks *)
(* of a task do not all fail, and among those that can complete it one     *)
(* does.                                                                   *)
(***************************************************************************)
Fairness ==
  /\ \A c \in Caller : WF_vars(Start(c))
  /\ \A t \in Task : WF_vars(Continued(t))
  /\ \A s \in Session : WF_vars(TurnEnds(s))
  /\ \A p \in Poll :
       /\ WF_vars(PollFires(p))
       /\ WF_vars(PollStarts(p) \/ PollAsksStatus(p))
       /\ WF_vars(PollGotStatus(p))
       /\ WF_vars(PollCompletes(p) \/ PollWaits(p) \/ PollEnds(p))
       /\ \A t \in Task :
            /\ SF_vars(PollCompletes(p) /\ t \in poll[p].tasks \ poll'[p].tasks)
            /\ SF_vars(PollWaits(p) /\ t \in tracked' \ tracked)

FairSpec == Spec /\ Fairness

-----------------------------------------------------------------------------
(* Properties *)

TypeOK ==
  /\ mode \in {"full", "lite"}
  /\ row \in [Task -> Row]
  /\ call \in [Caller -> Call]
  /\ spawned \subseteq Task
  /\ timer \in BOOLEAN
  /\ poll \in [Poll -> Cycle]
  /\ tracked \subseteq Task
  /\ created \in 0..MaxSessions
  /\ busy \subseteq Session
  /\ asked \in [Task -> Row]
  /\ continues \in Nat
  /\ refreshed \subseteq Task
  /\ restarts \in Nat

(***************************************************************************)
(* The life of a task, with every late answer of a start, a check, a       *)
(* refresh and a continuation: a cancelled task never runs or completes    *)
(* any more, a task completes only from running, and only a continuation   *)
(* or a second start takes a finished task back to running.                *)
(***************************************************************************)
Changes ==
  [none      |-> {"pending"},
   pending   |-> {"running", "error", "cancelled"},
   running   |-> {"completed", "error", "cancelled"},
   completed |-> {"running", "error"},
   error     |-> {"running"},
   cancelled |-> {"error"}]

LifecycleStep ==
  [][\A t \in Task : row'[t].st # row[t].st => row'[t].st \in Changes[row[t].st]]_vars

(* A task left pending by its bg_spawn call is polled: the end of a cycle  *)
(* never stops the timer under it.                                         *)
PendingIsPolled == \A t \in spawned : row[t].st = "pending" => timer

(* A task its bg_spawn call left pending is started, or cancelled, at some *)
(* point, unless the process restarts.                                     *)
PendingLeaves ==
  \A t \in Task : t \in spawned /\ row[t].st = "pending"
                     ~> t \notin spawned \/ row[t].st # "pending"

(* A running task is completed, or fails, at some point.                   *)
RunningEnds ==
  mode = "full" => \A t \in Task : row[t].st = "running" ~> row[t].st # "running"
=============================================================================
