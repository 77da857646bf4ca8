----------------------------- MODULE LoopEngine -----------------------------
(***************************************************************************)
(* The autonomous loop engine of the plugin: one loop (one loop name) from *)
(* its launch to its end.                                                  *)
(*                                                                         *)
(* The engine is a set of JavaScript callbacks over one record in the KV   *)
(* store.  A callback runs without interruption until it awaits a call to  *)
(* the opencode server; every await is a point where the other callbacks   *)
(* run.  Hence one action per synchronous segment: a segment starts with   *)
(* the answer of the awaited call and ends at the next await.              *)
(*                                                                         *)
(*   - the phase handler, serialised per loop by withStateLock, holds a    *)
(*     snapshot h.cur of the record across its awaits;                     *)
(*   - the stall watchdog: an interval whose callbacks (Tick) await the    *)
(*     session status, then queue for the lock;                            *)
(*   - the retry timer of handlePromptError, outside the lock;             *)
(*   - user and server events that end the loop, outside the lock.         *)
(*                                                                         *)
(* Sessions live on the opencode server (srv).  A restart of the process   *)
(* loses everything in memory and keeps the KV store.                      *)
(***************************************************************************)
EXTENDS Naturals, Sequences, FiniteSets

CONSTANTS
  Session,      \* session ids the server can hand out
  NoSession,    \* "no session": not an element of Session
  Tick,         \* watchdog callbacks that may be in flight at once
  NoTick,       \* "not a watchdog callback"
  Messages,     \* the last assistant messages a turn can end with
  MaxIter,      \* maxIterations of the loop, 0 for unlimited
  MinAudits,    \* loop.minAudits
  MaxRetries,   \* MAX_RETRIES
  MaxStalls,    \* MAX_CONSECUTIVE_STALLS
  Audit,        \* the loop's audit flag
  Worktree,     \* TRUE: the loop runs in a git worktree of its own
  SlowCalls,    \* FALSE: a handler's call is answered within a stall timeout
  Interrupts,   \* which endings outside the lock may happen
  MaxQueue,     \* bound: requests waiting for the state lock
  MaxErrors,    \* bound: errorCount a server error event may still increment
  MaxRecover    \* context-window recoveries per continuation prompt

ErrorKind == {"none", "context", "model", "other"}

(***************************************************************************)
(* What the handlers tell apart in the last assistant message: does its    *)
(* text hold the completion signal, and how classifyModelError sorts its   *)
(* error (model stands for provider, overloaded and timeout).              *)
(***************************************************************************)
Message == [signal : BOOLEAN, err : ErrorKind]
NoMessage == [signal |-> FALSE, err |-> "absent"]

InterruptKind ==
  {"cancelled", "user_aborted", "worktree_failed", "shutdown", "error_max_retries"}

ASSUME ConstantsAssumption ==
  /\ NoSession \notin Session
  /\ NoTick \notin Tick
  /\ Messages \subseteq Message
  /\ MaxIter \in Nat
  /\ MinAudits \in Nat
  /\ MaxRetries \in Nat \ {0}
  /\ MaxStalls \in Nat \ {0, 1}
  /\ Audit \in BOOLEAN
  /\ Worktree \in BOOLEAN
  /\ SlowCalls \in BOOLEAN
  /\ Interrupts \subseteq InterruptKind
  /\ MaxQueue \in Nat
  /\ MaxErrors \in Nat
  /\ MaxRecover \in Nat

Reason == InterruptKind \cup
          {"completed", "max_iterations", "stall_timeout"}

(* LoopState, the fields that control the loop.  "absent": no KV entry.    *)
LoopState ==
  [st : {"absent", "active", "ended"}, sid : Session \cup {NoSession},
   iter : Nat, phase : {"coding", "auditing"}, audits : Nat, errs : Nat,
   modelFailed : BOOLEAN, reason : Reason \cup {"none"}]

NoLoop ==
  [st |-> "absent", sid |-> NoSession, iter |-> 0, phase |-> "coding",
   audits |-> 0, errs |-> 0, modelFailed |-> FALSE, reason |-> "none"]

(* A prompt to send again: the audit subtask or the continuation prompt.   *)
Retry == [kind : {"audit", "continuation"}, sid : Session]
NoRetry == [kind |-> "none", sid |-> NoSession]

(* A request for the state lock: an idle event, or a watchdog callback.    *)
Request == [sid : Session \cup {NoSession}, src : Tick \cup {NoTick}]

HandlerPc == {"none", "read", "audit", "create", "prompt", "recreate", "tail"}
HandlerState ==
  [pc : HandlerPc, cur : LoopState, sid : Session \cup {NoSession}, failed : BOOLEAN,
   recovered : Nat, why : Reason \cup {"none"}, src : Tick \cup {NoTick}]
NoHandler ==
  [pc |-> "none", cur |-> NoLoop, sid |-> NoSession, failed |-> FALSE,
   recovered |-> 0, why |-> "none", src |-> NoTick]

TickState == [pc : {"none", "status", "queued", "tail"}, snap : LoopState]
IdleTick == [pc |-> "none", snap |-> NoLoop]

VARIABLES
  kv,         \* the KV entry loop:<name>
  mapped,     \* sessions with a KV entry loop-session:<id> naming the loop
  srv,        \* the server's sessions
  findings,   \* TRUE: review findings are outstanding on the loop's branch
  queue,      \* requests waiting for the state lock, in order
  h,          \* the phase handler that holds the lock
  watch,      \* the stall watchdog interval
  tick,       \* the watchdog callbacks in flight
  timer,      \* the retry timer retryTimeouts knows
  strays,     \* retry timers still armed that retryTimeouts forgot
  resend,     \* retry callbacks whose prompt is in flight
  setup,      \* where setupLoop is
  worktree,   \* the loop's git worktree
  tails       \* terminations whose cleanup after the abort is still to run

store == <<kv, mapped>>
world == <<srv, findings>>
aftermath == <<worktree, tails>>
memory == <<queue, h, tick, resend>>
timers == <<timer, strays>>
vars == <<kv, mapped, srv, findings, queue, h, watch, tick, timer,
          strays, resend, setup, worktree, tails>>

-----------------------------------------------------------------------------
(* Sessions on the server *)

SessionRec ==
  [st : {"free", "idle", "busy", "gone"}, by : {"coder", "auditor"},
   msg : Message \cup {NoMessage}]

FreeSession == [st |-> "free", by |-> "coder", msg |-> NoMessage]
NewSession == [st |-> "idle", by |-> "coder", msg |-> NoMessage]

Free == {s \in Session : srv[s].st = "free"}

(* session.promptAsync accepted: the session runs a turn.                  *)
Accepts(s) == srv[s].st \in {"idle", "busy"}
Prompted(s, by) == [srv EXCEPT ![s].st = "busy", ![s].by = by]

(* session.abort: a running turn stops.                                    *)
Aborted(s) ==
  [x \in Session |-> IF x = s /\ srv[x].st = "busy"
                     THEN [srv[x] EXCEPT !.st = "idle"] ELSE srv[x]]

(* session.create gives s, session.delete drops the old session.           *)
Rotated(old, s) ==
  [x \in Session |-> CASE x = s   -> NewSession
                       [] x = old -> [srv[x] EXCEPT !.st = "gone"]
                       [] OTHER   -> srv[x]]

-----------------------------------------------------------------------------
(* Shared by the callbacks *)

Active == kv.st = "active"
WatchState == [on : BOOLEAN, stalls : Nat, running : BOOLEAN]
Watching == [on |-> TRUE, stalls |-> 0, running |-> FALSE]
NotWatching == [on |-> FALSE, stalls |-> 0, running |-> FALSE]

(***************************************************************************)
(* terminateLoop up to its first await.  It writes back the snapshot its   *)
(* caller hands it.  What follows the await is Cleanup.                      *)
(***************************************************************************)
Terminate(snap, why) ==
  /\ watch' = NotWatching
  /\ timer' = NoRetry
  /\ mapped' = mapped \ {snap.sid}
  /\ kv' = [snap EXCEPT !.st = "ended", !.reason = why]
  /\ srv' = Aborted(snap.sid)
  /\ tails' = tails \cup {why}
  /\ UNCHANGED <<findings, strays, worktree>>

(* commitAndCleanupWorktree: a failed commit does not keep the removal     *)
(* from running, a failed removal leaves the worktree.                     *)
Cleanup(why) ==
  /\ why \in tails
  /\ tails' = tails \ {why}
  /\ IF Worktree /\ why \in {"completed", "cancelled"} /\ worktree = "present"
     THEN worktree' \in {"present", "removed"}
     ELSE UNCHANGED worktree
  /\ UNCHANGED <<store, world, memory, watch, timers, setup>>

(* End of the handler; a watchdog callback that ran it ends with it.       *)
Release(w) ==
  /\ h' = NoHandler
  /\ IF h.src \in Tick
     THEN /\ tick' = [tick EXCEPT ![h.src] = IdleTick]
          /\ watch' = [w EXCEPT !.running = FALSE]
     ELSE /\ UNCHANGED tick
          /\ watch' = w

(* The handler ends the loop and keeps the lock until Cleanup has run.     *)
HandlerTerminates(snap, why) ==
  /\ Terminate(snap, why)
  /\ h' = [h EXCEPT !.pc = "tail", !.why = why]
  /\ UNCHANGED tick

(* retryTimeouts.set without a clearTimeout: the old timer stays armed.    *)
ArmRetry(retry) ==
  IF retry = NoRetry
  THEN UNCHANGED timers
  ELSE /\ timer' = retry
       /\ strays' = IF timer = NoRetry THEN strays ELSE strays \cup {timer}

(* handlePromptError while the loop can still be retried.                  *)
CountError(retry) ==
  /\ kv' = [kv EXCEPT !.errs = @ + 1]
  /\ ArmRetry(retry)
  /\ UNCHANGED <<mapped, findings, aftermath>>

CanRetry == kv.errs + 1 < MaxRetries

(* handlePromptError called by the phase handler.                          *)
HandlerPromptError(retry) ==
  \/ /\ ~Active
     /\ Release(watch)
     /\ UNCHANGED <<store, world, timers, aftermath>>
  \/ /\ Active /\ CanRetry
     /\ CountError(retry)
     /\ Release(watch)
     /\ UNCHANGED srv
  \/ /\ Active /\ ~CanRetry
     /\ HandlerTerminates(kv, "error_max_retries")

-----------------------------------------------------------------------------
(* Launch (setupLoop) *)

Init ==
  /\ kv = NoLoop
  /\ mapped = {}
  /\ srv = [s \in Session |-> FreeSession]
  /\ findings = FALSE
  /\ queue = <<>>
  /\ h = NoHandler
  /\ watch = NotWatching
  /\ tick = [t \in Tick |-> IdleTick]
  /\ timer = NoRetry
  /\ strays = {}
  /\ resend = {}
  /\ setup = "create"
  /\ worktree = IF Worktree THEN "present" ELSE "none"
  /\ tails = {}

(* The session is there: store the state, register the session.            *)
Launch(s) ==
  /\ setup = "create"
  /\ s \in Free
  /\ srv' = [srv EXCEPT ![s] = NewSession]
  /\ kv' = [NoLoop EXCEPT !.st = "active", !.sid = s, !.iter = 1]
  /\ mapped' = mapped \cup {s}
  /\ setup' = "prompt"
  /\ UNCHANGED <<findings, memory, watch, timers, aftermath>>

(* The first prompt was accepted: the turn runs, the watchdog starts.      *)
LaunchPrompted ==
  /\ setup = "prompt"
  /\ \E s \in Session : srv[s].st # "free" /\ srv' = Prompted(s, "coder")
  /\ watch' = Watching
  /\ setup' = "done"
  /\ UNCHANGED <<store, findings, memory, timers, aftermath>>

(* The first prompt failed: the state is deleted, the worktree removed.    *)
LaunchFailed ==
  /\ setup = "prompt"
  /\ kv' = NoLoop
  /\ setup' = "failed"
  /\ worktree' = IF Worktree THEN "removed" ELSE worktree
  /\ UNCHANGED <<mapped, world, memory, watch, timers, tails>>

-----------------------------------------------------------------------------
(* The server: turns end, turns fail *)

(***************************************************************************)
(* A turn ends with message m.  onEvent for the idle status queues a       *)
(* request for the lock when the session is registered; the event may be   *)
(* lost, which is what the watchdog is for.                                *)
(***************************************************************************)
TurnEnds(s, m) ==
  /\ srv[s].st = "busy"
  /\ srv' = [srv EXCEPT ![s].st = "idle", ![s].msg = m]
  /\ findings' \in IF srv[s].by = "auditor" THEN BOOLEAN ELSE {findings, FALSE}
  /\ \/ UNCHANGED queue
     \/ /\ s \in mapped
        /\ Len(queue) < MaxQueue
        /\ queue' = Append(queue, [sid |-> s, src |-> NoTick])
  /\ UNCHANGED <<store, h, tick, resend, watch, timers, setup, aftermath>>

(* onEvent for a session.error that is not an abort, outside the lock.     *)
SessionError(s, err) ==
  /\ srv[s].st = "busy"
  /\ s \in mapped
  /\ Active
  /\ kv.errs < MaxErrors
  /\ err = "model" => ~kv.modelFailed
  /\ kv' = [kv EXCEPT !.errs = @ + 1, !.modelFailed = (err = "model")]
  /\ UNCHANGED <<mapped, world, memory, watch, timers, setup, aftermath>>

-----------------------------------------------------------------------------
(* The phase handler *)

(***************************************************************************)
(* The lock is granted.  An idle event restarts the watchdog, a watchdog   *)
(* callback does not; an idle event of another session is stale.           *)
(***************************************************************************)
(* Mistake: the loop's end is not looked at.                               *)
StaleRequestEndIgnored(r) == r.src = NoTick /\ kv.sid # r.sid

StaleRequest(r) == ~Active \/ (r.src = NoTick /\ kv.sid # r.sid)

GrantLock ==
  /\ h.pc = "none"
  /\ queue # <<>>
  /\ queue' = Tail(queue)
  /\ LET r == Head(queue) IN
     \/ /\ StaleRequest(r)
        /\ h' = h
        /\ tick' = IF r.src \in Tick THEN [tick EXCEPT ![r.src] = IdleTick] ELSE tick
        /\ watch' = IF r.src \in Tick THEN [watch EXCEPT !.running = FALSE] ELSE watch
     \/ /\ ~StaleRequest(r)
        /\ h' = [NoHandler EXCEPT !.pc = "read", !.cur = kv, !.src = r.src]
        /\ watch' = IF r.src \in Tick THEN watch ELSE Watching
        /\ UNCHANGED tick
  /\ UNCHANGED <<store, world, resend, timers, setup, aftermath>>

(* detectAndHandleAssistantError: the snapshot with the error counted.     *)
Counted(m) == m.err \in {"context", "model"}
GivesUp(c, m) == Counted(m) /\ c.errs + 1 >= MaxRetries
WithError(c, m) ==
  IF Counted(m) THEN [c EXCEPT !.errs = @ + 1, !.modelFailed = (m.err = "model")] ELSE c

(* resetErrorCountIfNeeded                                                 *)
WithReset(c, m) ==
  IF m.err = "none" /\ c.errs > 0 THEN [c EXCEPT !.errs = 0, !.modelFailed = FALSE] ELSE c

(* checkCompletionAndTerminate                                             *)
Completes(m, audits) ==
  /\ m.signal
  /\ ~Audit \/ audits >= MinAudits
  /\ ~findings

(* The snapshot d goes back to the store only if the segment changed it.   *)
Saved(d) == IF d = h.cur THEN kv ELSE d

(* handleCodingPhase, from the answer of session.messages to the prompt.   *)
CodingStep(m) ==
  LET c == WithError(h.cur, m)
      d == WithReset(c, m)
      done == Completes(m, c.audits)
      last == MaxIter > 0 /\ d.iter >= MaxIter
  IN
  \/ /\ done
     /\ HandlerTerminates(c, "completed")
  \/ /\ ~done /\ last
     /\ HandlerTerminates(d, "max_iterations")
  \/ /\ ~done /\ ~last /\ Audit
     /\ kv' = [d EXCEPT !.phase = "auditing", !.errs = 0]
     /\ h' = [h EXCEPT !.pc = "audit", !.cur = d]
     /\ UNCHANGED <<mapped, world, tick, watch, timers, aftermath>>
  \/ /\ ~done /\ ~last /\ ~Audit
     /\ kv' = Saved(d)
     /\ h' = [h EXCEPT !.pc = "create", !.cur = d, !.failed = (m.err # "none")]
     /\ UNCHANGED <<mapped, world, tick, watch, timers, aftermath>>

(* handleAuditingPhase, likewise.                                          *)
AuditingStep(m) ==
  LET d == WithReset(WithError(h.cur, m), m)
      done == Completes(m, d.audits + 1)
      last == MaxIter > 0 /\ d.iter + 1 > MaxIter
  IN
  \/ /\ done
     /\ HandlerTerminates(d, "completed")
  \/ /\ ~done /\ last
     /\ HandlerTerminates(d, "max_iterations")
  \/ /\ ~done /\ ~last
     /\ kv' = Saved(d)
     /\ h' = [h EXCEPT !.pc = "create", !.cur = d, !.failed = (m.err # "none")]
     /\ UNCHANGED <<mapped, world, tick, watch, timers, aftermath>>

(* getLastAssistantInfo found no assistant message, or the call failed.    *)
NothingToRead ==
  /\ h.pc = "read"
  /\ Release(watch)
  /\ UNCHANGED <<store, world, queue, resend, timers, setup, aftermath>>

ReadMessage ==
  /\ h.pc = "read"
  /\ srv[h.cur.sid].msg # NoMessage
  /\ LET m == srv[h.cur.sid].msg IN
     \/ /\ GivesUp(h.cur, m)
        /\ HandlerTerminates(h.cur, "error_max_retries")
     \/ /\ ~GivesUp(h.cur, m)
        /\ IF h.cur.phase = "coding" THEN CodingStep(m) ELSE AuditingStep(m)
  /\ UNCHANGED <<queue, resend, setup>>

(* The audit prompt is accepted.                                           *)
AuditPrompted ==
  /\ h.pc = "audit"
  /\ Accepts(h.cur.sid)
  /\ srv' = Prompted(h.cur.sid, "auditor")
  /\ Release([watch EXCEPT !.stalls = 0])
  /\ UNCHANGED <<store, findings, queue, resend, timers, setup, aftermath>>

(* No candidate model took the audit prompt; a thrown error has no retry.  *)
AuditFailed ==
  /\ h.pc = "audit"
  /\ \E retry \in {[kind |-> "audit", sid |-> h.cur.sid], NoRetry} :
       HandlerPromptError(retry)
  /\ UNCHANGED <<queue, resend, setup>>

(***************************************************************************)
(* rotateAndSendContinuation: the record it writes for the next iteration, *)
(* built on the snapshot, whatever the store holds by now.                 *)
(***************************************************************************)
NextIteration(sid) ==
  [h.cur EXCEPT !.sid = sid,
                !.iter = @ + 1,
                !.errs = IF h.failed THEN @ ELSE 0,
                !.modelFailed = h.failed /\ @,
                !.phase = "coding",
                !.audits = IF h.cur.phase = "auditing" THEN @ + 1 ELSE @]

(* Mistake: the old session is not unregistered.                           *)
SessionRotatedTwoRegistered(s) ==
  /\ h.pc = "create"
  /\ s \in Free
  /\ timer' = NoRetry
  /\ mapped' = mapped \cup {s}
  /\ watch' = Watching
  /\ srv' = Rotated(h.cur.sid, s)
  /\ kv' = NextIteration(s)
  /\ h' = [h EXCEPT !.pc = "prompt", !.sid = s]
  /\ UNCHANGED <<findings, queue, tick, resend, strays, setup, aftermath>>

(* rotateSession got a session.                                            *)
SessionRotated(s) ==
  /\ h.pc = "create"
  /\ s \in Free
  /\ timer' = NoRetry
  /\ mapped' = (mapped \ {h.cur.sid}) \cup {s}
  /\ watch' = Watching
  /\ srv' = Rotated(h.cur.sid, s)
  /\ kv' = NextIteration(s)
  /\ h' = [h EXCEPT !.pc = "prompt", !.sid = s]
  /\ UNCHANGED <<findings, queue, tick, resend, strays, setup, aftermath>>

(* rotateSession failed: continue with the session there is.               *)
RotationFailed ==
  /\ h.pc = "create"
  /\ kv' = NextIteration(h.cur.sid)
  /\ h' = [h EXCEPT !.pc = "prompt", !.sid = h.cur.sid]
  /\ UNCHANGED <<mapped, world, queue, tick, resend, watch, timers, setup, aftermath>>

(* The continuation prompt is accepted.                                    *)
ContinuationPrompted ==
  /\ h.pc = "prompt"
  /\ Accepts(h.sid)
  /\ srv' = Prompted(h.sid, "coder")
  /\ Release([watch EXCEPT !.stalls = 0])
  /\ UNCHANGED <<store, findings, queue, resend, timers, setup, aftermath>>

(***************************************************************************)
(* Every attempt failed.  On an ended loop the next attempt would throw    *)
(* loop_cancelled, which HandlerPromptError ignores like any other error.  *)
(***************************************************************************)
ContinuationFailed ==
  /\ h.pc = "prompt"
  /\ \E retry \in {[kind |-> "continuation", sid |-> h.sid], NoRetry} :
       HandlerPromptError(retry)
  /\ UNCHANGED <<queue, resend, setup>>

(* Mistake: the snapshot of before the rotation is kept.                   *)
ContextOverflowStale ==
  /\ h.pc = "prompt"
  /\ Active
  /\ h.recovered < MaxRecover
  /\ h' = [h EXCEPT !.pc = "recreate", !.recovered = @ + 1]
  /\ UNCHANGED <<store, world, queue, tick, resend, watch, timers, setup, aftermath>>

(* onContextWindowError: rotate again, on a fresh snapshot of the record.  *)
ContextOverflow ==
  /\ h.pc = "prompt"
  /\ Active
  /\ h.recovered < MaxRecover
  /\ h' = [h EXCEPT !.pc = "recreate", !.cur = kv, !.recovered = @ + 1]
  /\ UNCHANGED <<store, world, queue, tick, resend, watch, timers, setup, aftermath>>

(* Mistake: the recovery counts the iteration again.                       *)
RecoveredCountsAgain(s) ==
  /\ h.pc = "recreate"
  /\ s \in Free
  /\ timer' = NoRetry
  /\ mapped' = (mapped \ {h.sid}) \cup {s}
  /\ watch' = Watching
  /\ srv' = Rotated(h.sid, s)
  /\ kv' = [h.cur EXCEPT !.sid = s, !.iter = @ + 1]
  /\ h' = [h EXCEPT !.pc = "prompt", !.sid = s]
  /\ UNCHANGED <<findings, queue, tick, resend, strays, setup, aftermath>>

Recovered(s) ==
  /\ h.pc = "recreate"
  /\ s \in Free
  /\ timer' = NoRetry
  /\ mapped' = (mapped \ {h.sid}) \cup {s}
  /\ watch' = Watching
  /\ srv' = Rotated(h.sid, s)
  /\ kv' = [h.cur EXCEPT !.sid = s]
  /\ h' = [h EXCEPT !.pc = "prompt", !.sid = s]
  /\ UNCHANGED <<findings, queue, tick, resend, strays, setup, aftermath>>

(* The next attempt first checks that the loop is still active.            *)
NotRecovered ==
  /\ h.pc = "recreate"
  /\ IF Active
     THEN /\ h' = [h EXCEPT !.pc = "prompt"]
          /\ UNCHANGED <<tick, watch>>
     ELSE Release(watch)
  /\ UNCHANGED <<store, world, queue, resend, timers, setup, aftermath>>

(* The handler that ended the loop returns once the cleanup has run.       *)
HandlerReturns ==
  /\ h.pc = "tail"
  /\ h.why \notin tails
  /\ Release(watch)
  /\ UNCHANGED <<store, world, queue, resend, timers, setup, aftermath>>

Handler ==
  \/ GrantLock
  \/ NothingToRead
  \/ ReadMessage
  \/ AuditPrompted
  \/ AuditFailed
  \/ \E s \in Session : SessionRotated(s) \/ Recovered(s)
  \/ RotationFailed
  \/ ContinuationPrompted
  \/ ContinuationFailed
  \/ ContextOverflow
  \/ NotRecovered
  \/ HandlerReturns

-----------------------------------------------------------------------------
(* The stall watchdog *)

(***************************************************************************)
(* The interval fires after a stall timeout without activity and asks for  *)
(* the session status, keeping the state it read.  Environment assumption: *)
(* a status call is answered within one stall timeout (minutes), so no two *)
(* callbacks wait for one.  Number of callbacks in flight: bound.          *)
(***************************************************************************)
WatchdogFires(t) ==
  /\ watch.on
  /\ ~watch.running
  /\ tick[t].pc = "none"
  /\ \A u \in Tick : tick[u].pc # "status"
  /\ SlowCalls \/ (h.pc \in {"none", "tail"} /\ queue = <<>>)
  /\ IF Active
     THEN /\ watch' = [watch EXCEPT !.running = TRUE]
          /\ tick' = [tick EXCEPT ![t] = [pc |-> "status", snap |-> kv]]
     ELSE /\ watch' = NotWatching
          /\ UNCHANGED tick
  /\ UNCHANGED <<store, world, queue, h, resend, timers, setup, aftermath>>

(* The session works: reset the activity timer.                            *)
SessionBusy(t) ==
  /\ tick[t].pc = "status"
  /\ srv[tick[t].snap.sid].st = "busy"
  /\ tick' = [tick EXCEPT ![t] = IdleTick]
  /\ watch' = [watch EXCEPT !.running = FALSE]
  /\ UNCHANGED <<store, world, queue, h, resend, timers, setup, aftermath>>

(* Mistake: the stall is not counted.                                      *)
StalledUncounted(t) ==
  /\ tick[t].pc = "status"
  /\ watch.stalls + 1 < MaxStalls
  /\ Len(queue) < MaxQueue
  /\ queue' = Append(queue, [sid |-> NoSession, src |-> t])
  /\ tick' = [tick EXCEPT ![t] = [pc |-> "queued", snap |-> NoLoop]]
  /\ UNCHANGED <<store, world, h, watch, resend, timers, setup, aftermath>>

(* Not busy, or the status call failed: one more stall.  Below the limit   *)
(* the callback queues for the lock, to run the phase handler itself.      *)
Stalled(t) ==
  /\ tick[t].pc = "status"
  /\ watch.stalls + 1 < MaxStalls
  /\ Len(queue) < MaxQueue
  /\ watch' = [watch EXCEPT !.stalls = @ + 1]
  /\ queue' = Append(queue, [sid |-> NoSession, src |-> t])
  /\ tick' = [tick EXCEPT ![t] = [pc |-> "queued", snap |-> NoLoop]]
  /\ UNCHANGED <<store, world, h, resend, timers, setup, aftermath>>

StallTimeout(t) ==
  /\ tick[t].pc = "status"
  /\ watch.stalls + 1 >= MaxStalls
  /\ Terminate(tick[t].snap, "stall_timeout")
  /\ tick' = [tick EXCEPT ![t] = [pc |-> "tail", snap |-> NoLoop]]
  /\ UNCHANGED <<queue, h, resend, setup>>

StallReturns(t) ==
  /\ tick[t].pc = "tail"
  /\ "stall_timeout" \notin tails
  /\ tick' = [tick EXCEPT ![t] = IdleTick]
  /\ watch' = [watch EXCEPT !.running = FALSE]
  /\ UNCHANGED <<store, world, queue, h, resend, timers, setup, aftermath>>

Watchdog(t) ==
  WatchdogFires(t) \/ SessionBusy(t) \/ Stalled(t) \/ StallTimeout(t) \/ StallReturns(t)

-----------------------------------------------------------------------------
(* The retry timer *)

Armed == strays \cup ({timer} \ {NoRetry})

(* The timeout of handlePromptError fires.  On an ended loop it forgets    *)
(* whatever timer retryTimeouts holds; else it sends the prompt again.     *)
RetryFires(r) ==
  /\ r \in Armed
  /\ strays' = (IF Active THEN strays ELSE Armed) \ {r}
  /\ timer' = IF Active /\ timer # r THEN timer ELSE NoRetry
  /\ resend' = IF Active THEN resend \cup {r} ELSE resend
  /\ UNCHANGED <<store, world, queue, h, tick, watch, setup, aftermath>>

RetryPrompted(r) ==
  /\ r \in resend
  /\ Accepts(r.sid)
  /\ srv' = Prompted(r.sid, IF r.kind = "audit" THEN "auditor" ELSE "coder")
  /\ resend' = resend \ {r}
  /\ UNCHANGED <<store, findings, queue, h, tick, watch, timers, setup, aftermath>>

(* The retry failed.  An audit retry throws and is retried again; a        *)
(* continuation retry that returns an error is not, one that throws is.    *)
RetryFailed(r) ==
  /\ r \in resend
  /\ resend' = resend \ {r}
  /\ \/ /\ ~Active
        /\ UNCHANGED <<store, world, watch, timers, aftermath>>
     \/ /\ Active /\ CanRetry
        /\ \E again \in IF r.kind = "audit" THEN {r} ELSE {r, NoRetry} : CountError(again)
        /\ UNCHANGED <<srv, watch>>
     \/ /\ "error_max_retries" \in Interrupts
        /\ Active /\ ~CanRetry
        /\ Terminate(kv, "error_max_retries")
  /\ UNCHANGED <<queue, h, tick, setup>>

Retries == \E r \in Retry : RetryFires(r) \/ RetryPrompted(r) \/ RetryFailed(r)

-----------------------------------------------------------------------------
(* Endings from outside, none of them under the lock *)

(* loop-cancel: cancelBySessionId needs the registered session, and does   *)
(* nothing (the tool still reports success) when it is not registered.     *)
Cancel ==
  /\ "cancelled" \in Interrupts
  /\ Active
  /\ kv.sid \in mapped
  /\ Terminate(kv, "cancelled")
  /\ UNCHANGED <<memory, setup>>

(* The user aborts a turn: the session stops, onEvent sees session.error.  *)
UserAbort(s) ==
  /\ "user_aborted" \in Interrupts
  /\ srv[s].st = "busy"
  /\ s \in mapped
  /\ Active
  /\ Terminate(kv, "user_aborted")
  /\ UNCHANGED <<memory, setup>>

WorktreeFailed ==
  /\ "worktree_failed" \in Interrupts
  /\ Worktree
  /\ Active
  /\ Terminate(kv, "worktree_failed")
  /\ UNCHANGED <<memory, setup>>

(***************************************************************************)
(* The process ends, by its cleanup (terminateAll, clearAllRetryTimeouts)  *)
(* or by a crash, and the plugin starts again (reconcileStale).  Session   *)
(* registrations stay in the store.                                        *)
(***************************************************************************)
ProcessRestart ==
  /\ "shutdown" \in Interrupts
  /\ setup # "create"
  /\ kv' = IF Active THEN [kv EXCEPT !.st = "ended", !.reason = "shutdown"] ELSE kv
  /\ srv' = [s \in Session |-> Aborted(s)[s]]
  /\ queue' = <<>>
  /\ h' = NoHandler
  /\ watch' = NotWatching
  /\ tick' = [t \in Tick |-> IdleTick]
  /\ timer' = NoRetry
  /\ strays' = {}
  /\ resend' = {}
  /\ setup' = "done"
  /\ tails' = {}
  /\ UNCHANGED <<mapped, findings, worktree>>

Interrupt == Cancel \/ (\E s \in Session : UserAbort(s)) \/ WorktreeFailed \/ ProcessRestart

Server ==
  \E s \in Session :
    \/ \E m \in Messages : TurnEnds(s, m)
    \/ \E err \in {"context", "model"} : SessionError(s, err)

Setup == (\E s \in Session : Launch(s)) \/ LaunchPrompted \/ LaunchFailed

Next ==
  \/ Setup
  \/ Server
  \/ Handler
  \/ \E t \in Tick : Watchdog(t)
  \/ Retries
  \/ \E why \in Reason : Cleanup(why)
  \/ Interrupt

Spec == Init /\ [][Next]_vars

(***************************************************************************)
(* Fairness: the event loop runs every ready callback, a call to the       *)
(* server is answered, turns end, timers fire.  Nothing is assumed of the  *)
(* idle events, which may all be lost.                                     *)
(***************************************************************************)
Fairness ==
  /\ WF_vars(LaunchPrompted \/ LaunchFailed)
  /\ \A s \in Session : WF_vars(\E m \in Messages : TurnEnds(s, m))
  /\ WF_vars(Handler)
  /\ \A t \in Tick : WF_vars(SessionBusy(t) \/ Stalled(t) \/ StallTimeout(t) \/ StallReturns(t))
  /\ WF_vars(\E t \in Tick : WatchdogFires(t))
  /\ WF_vars(Retries)
  /\ \A why \in Reason : WF_vars(Cleanup(why))

FairSpec == Spec /\ Fairness

-----------------------------------------------------------------------------
(* Properties *)

TypeOK ==
  /\ kv \in LoopState
  /\ mapped \subseteq Session
  /\ srv \in [Session -> SessionRec]
  /\ findings \in BOOLEAN
  /\ queue \in Seq(Request)
  /\ h \in HandlerState
  /\ watch \in WatchState
  /\ tick \in [Tick -> TickState]
  /\ timer \in Retry \cup {NoRetry}
  /\ strays \subseteq Retry
  /\ resend \subseteq Retry
  /\ setup \in {"create", "prompt", "done", "failed"}
  /\ worktree \in {"none", "present", "removed"}
  /\ tails \subseteq Reason

(***************************************************************************)
(* Only the current session drives an active loop: no other session is     *)
(* registered for it, although the handler, the retry callbacks and the    *)
(* watchdog all write back snapshots (loop.ts:491, 261, 630).  The abort   *)
(* path of onEvent relies on it: it ends the loop of whatever session the  *)
(* event names.                                                            *)
(***************************************************************************)
OnlyCurrentSessionDrives == Active => mapped \subseteq {kv.sid}

(* A loop never runs more iterations than maxIterations, whichever of the  *)
(* idle events and watchdog callbacks trigger its phases (loop.ts:793,917).*)
IterationBound == MaxIter > 0 => kv.iter <= MaxIter

(* No step of a callback takes the iteration back, although each writes    *)
(* back the record it read before its await (loop.ts:630, 709, 263).       *)
IterationNeverDrops ==
  [][Active /\ Active' => kv'.iter >= kv.iter]_vars

(* An ended loop stays ended: no callback in flight at a cancel, an abort  *)
(* or a failed worktree makes the loop active again.                       *)
EndedStaysEnded == [][kv.st = "ended" => kv'.st # "active"]_vars

(* The loop keeps its contract: LoopContract, seen through the KV entry.   *)
Contract == INSTANCE LoopContract WITH st <- kv.st, iter <- kv.iter, reason <- kv.reason
KeepsContract == Contract!Spec

(* Every loop ends.                                                        *)
LoopEnds == Active ~> ~Active
=============================================================================
