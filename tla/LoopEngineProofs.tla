-------------------------- MODULE LoopEngineProofs --------------------------
(* Theorems about the loop engine, for every value of its constants.       *)
EXTENDS LoopEngine, TLAPS

-----------------------------------------------------------------------------
(* The records of the engine *)

LEMMA Constants ==
  /\ NoLoop \in LoopState
  /\ NoRetry \notin Retry
  /\ NoHandler \in HandlerState
  /\ IdleTick \in TickState
  /\ Watching \in WatchState
  /\ NotWatching \in WatchState
  /\ FreeSession \in SessionRec
  /\ NewSession \in SessionRec
BY DEF NoLoop, LoopState, NoRetry, Retry, NoHandler, HandlerState, HandlerPc, IdleTick,
       TickState, Watching, NotWatching, WatchState, FreeSession, NewSession, SessionRec

(* The error bookkeeping of a phase changes nothing else of the record.    *)
SameLoop(d, c) ==
  /\ d \in LoopState
  /\ d.sid = c.sid /\ d.iter = c.iter /\ d.phase = c.phase /\ d.st = c.st
  /\ d.audits = c.audits

LEMMA WithErrorSame ==
  ASSUME NEW c \in LoopState, NEW m \in Message
  PROVE  SameLoop(WithError(c, m), c)
<1>1. ASSUME NEW n \in Nat, NEW b \in BOOLEAN
      PROVE  SameLoop([c EXCEPT !.errs = n, !.modelFailed = b], c)
  BY DEF LoopState, SameLoop
<1>2. c.errs + 1 \in Nat
  BY DEF LoopState
<1>3. (m.err = "model") \in BOOLEAN
  OBVIOUS
<1>4. SameLoop([c EXCEPT !.errs = c.errs + 1, !.modelFailed = (m.err = "model")], c)
  BY <1>1, <1>2, <1>3, Zenon
<1> QED
  BY <1>4, Zenon DEF WithError, SameLoop

LEMMA WithResetSame ==
  ASSUME NEW c \in LoopState, NEW m \in Message
  PROVE  SameLoop(WithReset(c, m), c)
<1>1. [c EXCEPT !.errs = 0, !.modelFailed = FALSE] \in LoopState
  BY DEF LoopState
<1> QED
  BY <1>1 DEF WithReset, SameLoop, LoopState

LEMMA BookkeepingSame ==
  ASSUME NEW c \in LoopState, NEW m \in Message
  PROVE  /\ SameLoop(WithReset(WithError(c, m), m), c)
         /\ SameLoop(WithReset(c, m), c)
         /\ SameLoop(WithError(c, m), c)
BY WithErrorSame, WithResetSame DEF SameLoop

LEMMA AbortedTyped ==
  ASSUME srv \in [Session -> SessionRec], NEW s
  PROVE  Aborted(s) \in [Session -> SessionRec]
BY DEF Aborted, SessionRec

LEMMA PromptedTyped ==
  ASSUME srv \in [Session -> SessionRec], NEW s \in Session, NEW by \in {"coder", "auditor"}
  PROVE  Prompted(s, by) \in [Session -> SessionRec]
BY DEF Prompted, SessionRec

LEMMA RotatedTyped ==
  ASSUME srv \in [Session -> SessionRec], NEW old, NEW s \in Session
  PROVE  Rotated(old, s) \in [Session -> SessionRec]
BY Constants DEF Rotated, SessionRec

-----------------------------------------------------------------------------
(* Type correctness, first of the operators the actions share *)

(* The part of TypeOK the handler, the watchdog and the timers share.      *)
WorldOK ==
  /\ kv \in LoopState
  /\ mapped \subseteq Session
  /\ srv \in [Session -> SessionRec]
  /\ findings \in BOOLEAN
  /\ watch \in WatchState
  /\ timer \in Retry \cup {NoRetry}
  /\ strays \subseteq Retry
  /\ worktree \in {"none", "present", "removed"}
  /\ tails \subseteq Reason

LEMMA TerminateTyped ==
  ASSUME TypeOK, NEW snap \in LoopState, NEW why \in Reason, Terminate(snap, why)
  PROVE  WorldOK'
<1>1. [snap EXCEPT !.st = "ended", !.reason = why] \in LoopState
  BY DEF LoopState
<1>2. Aborted(snap.sid) \in [Session -> SessionRec]
  BY AbortedTyped DEF TypeOK
<1> QED
  BY <1>1, <1>2, Constants DEF Terminate, TypeOK, WorldOK

LEMMA ReleaseTyped ==
  ASSUME TypeOK, NEW w \in WatchState, Release(w)
  PROVE  h' \in HandlerState /\ tick' \in [Tick -> TickState] /\ watch' \in WatchState
BY Constants DEF Release, TypeOK, WatchState

LEMMA CountErrorTyped ==
  ASSUME TypeOK, NEW retry \in Retry \cup {NoRetry}, CountError(retry),
         UNCHANGED <<srv, watch>>
  PROVE  WorldOK'
<1>1. [kv EXCEPT !.errs = @ + 1] \in LoopState
  <2>1. kv \in LoopState /\ kv.errs + 1 \in Nat
    BY DEF TypeOK, LoopState
  <2> QED
    BY <2>1 DEF LoopState
<1>2. timer' \in Retry \cup {NoRetry} /\ strays' \subseteq Retry
  BY DEF CountError, ArmRetry, timers, TypeOK
<1> QED
  BY <1>1, <1>2 DEF CountError, TypeOK, WorldOK, aftermath

LEMMA HandlerTerminatesTyped ==
  ASSUME TypeOK, NEW snap \in LoopState, NEW why \in Reason, HandlerTerminates(snap, why)
  PROVE  WorldOK' /\ h' \in HandlerState /\ tick' \in [Tick -> TickState]
<1>1. WorldOK'
  BY TerminateTyped DEF HandlerTerminates
<1>2. [h EXCEPT !.pc = "tail", !.why = why] \in HandlerState
  BY DEF TypeOK, HandlerState, HandlerPc
<1> QED
  BY <1>1, <1>2 DEF HandlerTerminates, TypeOK

LEMMA HandlerPromptErrorTyped ==
  ASSUME TypeOK, NEW retry \in Retry \cup {NoRetry}, HandlerPromptError(retry)
  PROVE  WorldOK' /\ h' \in HandlerState /\ tick' \in [Tick -> TickState]
<1>1. watch \in WatchState /\ kv \in LoopState /\ "error_max_retries" \in Reason
  BY DEF TypeOK, Reason, InterruptKind
<1>2. CASE ~Active /\ Release(watch) /\ UNCHANGED <<store, world, timers, aftermath>>
  BY <1>1, <1>2, ReleaseTyped DEF TypeOK, WorldOK, store, world, timers, aftermath
<1>3. CASE CountError(retry) /\ Release(watch) /\ UNCHANGED srv
  <2>1. h' \in HandlerState /\ tick' \in [Tick -> TickState] /\ watch' \in WatchState
    BY <1>1, <1>3, ReleaseTyped
  <2>2. [kv EXCEPT !.errs = @ + 1] \in LoopState
    BY DEF TypeOK, LoopState
  <2>3. timer' \in Retry \cup {NoRetry} /\ strays' \subseteq Retry
    BY <1>3 DEF CountError, ArmRetry, timers, TypeOK
  <2> QED
    BY <1>3, <2>1, <2>2, <2>3 DEF CountError, TypeOK, WorldOK, aftermath
<1>4. CASE HandlerTerminates(kv, "error_max_retries")
  BY <1>1, <1>4, HandlerTerminatesTyped
<1> QED
  BY <1>2, <1>3, <1>4 DEF HandlerPromptError

(* The first synchronous segment of a phase, and the records it goes on    *)
(* with.                                                                   *)
LEMMA PhaseTyped ==
  ASSUME TypeOK, NEW m \in Message, CodingStep(m) \/ AuditingStep(m)
  PROVE  WorldOK' /\ h' \in HandlerState /\ tick' \in [Tick -> TickState]
<1> DEFINE c == WithError(h.cur, m)
           d == WithReset(c, m)
<1>1. c \in LoopState /\ d \in LoopState
  <2>1. h.cur \in LoopState
    BY DEF TypeOK, HandlerState
  <2> QED
    BY <2>1, BookkeepingSame DEF SameLoop
<1>2. "completed" \in Reason /\ "max_iterations" \in Reason
  BY DEF Reason
<1>3. Saved(d) \in LoopState
  BY <1>1 DEF Saved, TypeOK
<1>4. [d EXCEPT !.phase = "auditing", !.errs = 0] \in LoopState
  BY <1>1 DEF LoopState
<1>5. [h EXCEPT !.pc = "audit", !.cur = d] \in HandlerState
  BY <1>1 DEF TypeOK, HandlerState, HandlerPc
<1>6. [h EXCEPT !.pc = "create", !.cur = d, !.failed = (m.err # "none")] \in HandlerState
  <2>1. ASSUME NEW b \in BOOLEAN
        PROVE  [h EXCEPT !.pc = "create", !.cur = d, !.failed = b] \in HandlerState
    BY <1>1 DEF TypeOK, HandlerState, HandlerPc
  <2>2. (m.err # "none") \in BOOLEAN
    OBVIOUS
  <2> QED
    BY <2>1, <2>2, Zenon
<1>7. CASE HandlerTerminates(c, "completed") \/ HandlerTerminates(d, "completed")
           \/ HandlerTerminates(d, "max_iterations")
  BY <1>1, <1>2, <1>7, HandlerTerminatesTyped
<1>8. CASE /\ kv' = [d EXCEPT !.phase = "auditing", !.errs = 0]
           /\ h' = [h EXCEPT !.pc = "audit", !.cur = d]
           /\ UNCHANGED <<mapped, world, tick, watch, timers, aftermath>>
  <2> HIDE DEF d
  <2> QED
    BY <1>4, <1>5, <1>8 DEF TypeOK, WorldOK, world, timers, aftermath
<1>9. CASE /\ kv' = Saved(d)
           /\ h' = [h EXCEPT !.pc = "create", !.cur = d, !.failed = (m.err # "none")]
           /\ UNCHANGED <<mapped, world, tick, watch, timers, aftermath>>
  <2> HIDE DEF d
  <2> QED
    BY <1>3, <1>6, <1>9 DEF TypeOK, WorldOK, world, timers, aftermath
<1> QED
  BY <1>7, <1>8, <1>9, Zenon DEF CodingStep, AuditingStep

LEMMA NextIterationTyped ==
  ASSUME TypeOK, NEW sid \in Session \cup {NoSession}
  PROVE  /\ NextIteration(sid) \in LoopState
         /\ NextIteration(sid).sid = sid
         /\ NextIteration(sid).iter = h.cur.iter + 1
<1>1. h.cur \in LoopState /\ h.failed \in BOOLEAN
  BY DEF TypeOK, HandlerState
<1>2. ASSUME NEW e \in Nat, NEW b \in BOOLEAN, NEW a \in Nat, NEW n \in Nat
      PROVE  [h.cur EXCEPT !.sid = sid, !.iter = n, !.errs = e, !.modelFailed = b,
                           !.phase = "coding", !.audits = a] \in LoopState
  BY <1>1 DEF LoopState
<1> DEFINE e == IF h.failed THEN h.cur.errs ELSE 0
           b == h.failed /\ h.cur.modelFailed
           a == IF h.cur.phase = "auditing" THEN h.cur.audits + 1 ELSE h.cur.audits
<1>3. e \in Nat /\ a \in Nat /\ h.cur.iter + 1 \in Nat
  BY <1>1 DEF LoopState
<1>4. b \in BOOLEAN
  OBVIOUS
<1>5. NextIteration(sid)
        = [h.cur EXCEPT !.sid = sid, !.iter = h.cur.iter + 1, !.errs = e,
                        !.modelFailed = b, !.phase = "coding", !.audits = a]
  BY DEF NextIteration
<1> HIDE DEF e, b, a
<1>6. NextIteration(sid) \in LoopState
  <2>1. [h.cur EXCEPT !.sid = sid, !.iter = h.cur.iter + 1, !.errs = e,
                      !.modelFailed = b, !.phase = "coding", !.audits = a] \in LoopState
    BY <1>2, <1>3, <1>4
  <2> QED
    BY <1>5, <2>1, Zenon
<1>7. NextIteration(sid).sid = sid /\ NextIteration(sid).iter = h.cur.iter + 1
  BY <1>1 DEF NextIteration, LoopState
<1> QED
  BY <1>6, <1>7

-----------------------------------------------------------------------------
(* Type correctness of every action *)

LEMMA SetupTyped ==
  ASSUME TypeOK, Setup
  PROVE  TypeOK'
<1>1. ASSUME NEW s \in Session, Launch(s) PROVE TypeOK'
  <2>1. [NoLoop EXCEPT !.st = "active", !.sid = s, !.iter = 1] \in LoopState
    BY Constants DEF LoopState
  <2>2. [srv EXCEPT ![s] = NewSession] \in [Session -> SessionRec]
    BY Constants DEF TypeOK
  <2> QED
    BY <1>1, <2>1, <2>2 DEF Launch, TypeOK, memory, timers, aftermath
<1>2. CASE LaunchPrompted
  <2>1. srv' \in [Session -> SessionRec]
    BY <1>2, PromptedTyped DEF LaunchPrompted, TypeOK
  <2> QED
    BY <1>2, <2>1, Constants DEF LaunchPrompted, TypeOK, store, memory, timers, aftermath
<1>3. CASE LaunchFailed
  BY <1>3, Constants DEF LaunchFailed, TypeOK, world, memory, timers
<1> QED
  BY <1>1, <1>2, <1>3 DEF Setup

LEMMA ServerTyped ==
  ASSUME TypeOK, Server
  PROVE  TypeOK'
<1>1. ASSUME NEW s \in Session, NEW m \in Messages, TurnEnds(s, m) PROVE TypeOK'
  <2>1. m \in Message
    BY ConstantsAssumption
  <2>2. srv' \in [Session -> SessionRec]
    BY <1>1, <2>1 DEF TurnEnds, TypeOK, SessionRec
  <2>3. queue' \in Seq(Request)
    <3>1. [sid |-> s, src |-> NoTick] \in Request
      BY DEF Request
    <3> QED
      BY SMTT(30), <1>1, <3>1 DEF TurnEnds, TypeOK
  <2>4. findings' \in BOOLEAN
    BY <1>1, Zenon DEF TurnEnds, TypeOK
  <2> QED
    BY <1>1, <2>2, <2>3, <2>4 DEF TurnEnds, TypeOK, store, timers, aftermath
<1>2. ASSUME NEW s \in Session, NEW err \in {"context", "model"}, SessionError(s, err)
      PROVE  TypeOK'
  <2>1. ASSUME NEW n \in Nat, NEW b \in BOOLEAN
        PROVE  [kv EXCEPT !.errs = n, !.modelFailed = b] \in LoopState
    BY DEF TypeOK, LoopState
  <2>2. kv.errs + 1 \in Nat
    BY DEF TypeOK, LoopState
  <2>3. (err = "model") \in BOOLEAN
    OBVIOUS
  <2>4. kv' \in LoopState
    BY <1>2, <2>1, <2>2, <2>3, Zenon DEF SessionError
  <2> QED
    BY <1>2, <2>4 DEF SessionError, TypeOK, world, memory, timers, aftermath
<1> QED
  BY <1>1, <1>2 DEF Server

(* The handler works on a session of the server.                           *)
SidInv ==
  /\ Active => kv.sid \in Session
  /\ h.pc \in {"read", "audit", "create"} => h.cur.sid \in Session
  /\ h.pc \in {"prompt", "recreate"} => h.sid \in Session

LEMMA HandlerTyped ==
  ASSUME TypeOK, SidInv, Handler
  PROVE  TypeOK'
<1> USE DEF TypeOK
<1>1. CASE GrantLock
  <2>1. queue' \in Seq(Request)
    BY <1>1 DEF GrantLock
  <2>2. Head(queue) \in Request
    BY <1>1 DEF GrantLock
  <2>3. [NoHandler EXCEPT !.pc = "read", !.cur = kv, !.src = Head(queue).src]
          \in HandlerState
    BY <2>2, Constants DEF HandlerState, HandlerPc, Request
  <2>4. h' \in HandlerState
    BY <1>1, <2>3 DEF GrantLock
  <2>5. [watch EXCEPT !.running = FALSE] \in WatchState
    BY DEF WatchState
  <2>6. watch' \in WatchState
    BY <1>1, <2>5, Constants, Zenon DEF GrantLock
  <2>7. tick' \in [Tick -> TickState]
    BY <1>1, Constants DEF GrantLock
  <2> QED
    BY <1>1, <2>1, <2>4, <2>6, <2>7 DEF GrantLock, store, world, timers, aftermath
<1>2. CASE NothingToRead
  BY <1>2, ReleaseTyped DEF NothingToRead, store, world, timers, aftermath
<1>3. CASE ReadMessage
  <2>1. h.cur \in LoopState /\ "error_max_retries" \in Reason
    BY DEF HandlerState, Reason, InterruptKind
  <2>2. WorldOK' /\ h' \in HandlerState /\ tick' \in [Tick -> TickState]
    <3> DEFINE m == srv[h.cur.sid].msg
    <3>1. CASE HandlerTerminates(h.cur, "error_max_retries")
      BY <2>1, <3>1, HandlerTerminatesTyped
    <3>2. CASE CodingStep(m) \/ AuditingStep(m)
      <4>1. m \in Message
        BY <1>3 DEF ReadMessage, SidInv, SessionRec
      <4> QED
        BY <3>2, <4>1, PhaseTyped
    <3> QED
      BY <1>3, <3>1, <3>2 DEF ReadMessage
  <2> QED
    BY <1>3, <2>2 DEF ReadMessage, WorldOK
<1>4. CASE AuditPrompted
  <2>1. srv' \in [Session -> SessionRec]
    BY <1>4, PromptedTyped DEF AuditPrompted, SidInv
  <2>2. [watch EXCEPT !.stalls = 0] \in WatchState
    BY DEF WatchState
  <2> QED
    BY <1>4, <2>1, <2>2, ReleaseTyped DEF AuditPrompted, store, timers, aftermath
<1>5. CASE AuditFailed
  <2>1. PICK retry \in Retry \cup {NoRetry} : HandlerPromptError(retry)
    BY <1>5 DEF AuditFailed, SidInv, Retry
  <2> QED
    BY <1>5, <2>1, HandlerPromptErrorTyped DEF AuditFailed, WorldOK
<1>6. ASSUME NEW s \in Session, SessionRotated(s) PROVE TypeOK'
  <2>1. kv' \in LoopState
    BY <1>6, NextIterationTyped DEF SessionRotated
  <2>2. srv' \in [Session -> SessionRec]
    BY <1>6, RotatedTyped DEF SessionRotated
  <2>3. h' \in HandlerState
    BY <1>6 DEF SessionRotated, HandlerState, HandlerPc
  <2> QED
    BY <1>6, <2>1, <2>2, <2>3, Constants DEF SessionRotated, aftermath
<1>7. ASSUME NEW s \in Session, Recovered(s) PROVE TypeOK'
  <2>1. kv' \in LoopState
    BY <1>7 DEF Recovered, HandlerState, LoopState
  <2>2. srv' \in [Session -> SessionRec]
    BY <1>7, RotatedTyped DEF Recovered
  <2>3. h' \in HandlerState
    BY <1>7 DEF Recovered, HandlerState, HandlerPc
  <2> QED
    BY <1>7, <2>1, <2>2, <2>3, Constants DEF Recovered, aftermath
<1>8. CASE RotationFailed
  <2>1. h.cur.sid \in Session \cup {NoSession}
    BY DEF HandlerState, LoopState
  <2>2. kv' \in LoopState
    BY <1>8, <2>1, NextIterationTyped DEF RotationFailed
  <2>3. h' \in HandlerState
    BY <1>8, <2>1 DEF RotationFailed, HandlerState, HandlerPc
  <2> QED
    BY <1>8, <2>2, <2>3 DEF RotationFailed, world, timers, aftermath
<1>9. CASE ContinuationPrompted
  <2>1. srv' \in [Session -> SessionRec]
    BY <1>9, PromptedTyped DEF ContinuationPrompted, SidInv
  <2>2. [watch EXCEPT !.stalls = 0] \in WatchState
    BY DEF WatchState
  <2> QED
    BY <1>9, <2>1, <2>2, ReleaseTyped DEF ContinuationPrompted, store, timers, aftermath
<1>10. CASE ContinuationFailed
  <2>1. PICK retry \in Retry \cup {NoRetry} : HandlerPromptError(retry)
    BY <1>10 DEF ContinuationFailed, SidInv, Retry
  <2> QED
    BY <1>10, <2>1, HandlerPromptErrorTyped DEF ContinuationFailed, WorldOK
<1>11. CASE ContextOverflow
  <2>1. ASSUME NEW n \in Nat
        PROVE  [h EXCEPT !.pc = "recreate", !.cur = kv, !.recovered = n] \in HandlerState
    BY DEF HandlerState, HandlerPc
  <2>2. h.recovered + 1 \in Nat
    BY DEF HandlerState
  <2>3. h' \in HandlerState
    BY <1>11, <2>1, <2>2, Zenon DEF ContextOverflow
  <2> QED
    BY <1>11, <2>3 DEF ContextOverflow, store, world, timers, aftermath
<1>12. CASE NotRecovered
  <2>1. CASE Active
    BY <1>12, <2>1 DEF NotRecovered, HandlerState, HandlerPc, store, world, timers, aftermath
  <2>2. CASE ~Active
    BY <1>12, <2>2, ReleaseTyped DEF NotRecovered, store, world, timers, aftermath
  <2> QED
    BY <2>1, <2>2
<1>13. CASE HandlerReturns
  BY <1>13, ReleaseTyped DEF HandlerReturns, store, world, timers, aftermath
<1> QED
  BY <1>1, <1>2, <1>3, <1>4, <1>5, <1>6, <1>7, <1>8, <1>9, <1>10, <1>11, <1>12, <1>13
  DEF Handler

LEMMA WatchdogTyped ==
  ASSUME TypeOK, NEW t \in Tick, Watchdog(t)
  PROVE  TypeOK'
<1> USE DEF TypeOK
<1>1. [watch EXCEPT !.running = FALSE] \in WatchState
      /\ [watch EXCEPT !.running = TRUE] \in WatchState
  BY DEF WatchState
<1>2. CASE WatchdogFires(t)
  <2>1. [pc |-> "status", snap |-> kv] \in TickState
    BY DEF TickState
  <2>2. tick' \in [Tick -> TickState] /\ watch' \in WatchState
    BY <1>1, <1>2, <2>1, Constants DEF WatchdogFires
  <2> QED
    BY <1>2, <2>2 DEF WatchdogFires, store, world, timers, aftermath
<1>3. CASE SessionBusy(t)
  BY <1>1, <1>3, Constants DEF SessionBusy, store, world, timers, aftermath
<1>4. CASE Stalled(t)
  <2>1. [pc |-> "queued", snap |-> NoLoop] \in TickState
    BY Constants DEF TickState
  <2>2. [sid |-> NoSession, src |-> t] \in Request
    BY DEF Request
  <2>3. watch' \in WatchState
    BY <1>4 DEF Stalled, WatchState
  <2> QED
    BY <1>4, <2>1, <2>2, <2>3 DEF Stalled, store, world, timers, aftermath
<1>5. CASE StallTimeout(t)
  <2>1. tick[t].snap \in LoopState /\ "stall_timeout" \in Reason
    BY DEF TickState, Reason
  <2>2. WorldOK'
    BY <1>5, <2>1, TerminateTyped DEF StallTimeout
  <2>3. [pc |-> "tail", snap |-> NoLoop] \in TickState
    BY Constants DEF TickState
  <2> QED
    BY <1>5, <2>2, <2>3 DEF StallTimeout, WorldOK
<1>6. CASE StallReturns(t)
  BY <1>1, <1>6, Constants DEF StallReturns, store, world, timers, aftermath
<1> QED
  BY <1>2, <1>3, <1>4, <1>5, <1>6 DEF Watchdog

LEMMA RetriesTyped ==
  ASSUME TypeOK, Retries
  PROVE  TypeOK'
<1> USE DEF TypeOK
<1> SUFFICES ASSUME NEW r \in Retry, RetryFires(r) \/ RetryPrompted(r) \/ RetryFailed(r)
             PROVE  TypeOK'
  BY DEF Retries
<1>1. CASE RetryFires(r)
  BY <1>1 DEF RetryFires, Armed, store, world, aftermath
<1>2. CASE RetryPrompted(r)
  <2>1. srv' \in [Session -> SessionRec]
    BY <1>2, PromptedTyped DEF RetryPrompted, Retry
  <2> QED
    BY <1>2, <2>1 DEF RetryPrompted, store, timers, aftermath
<1>3. CASE RetryFailed(r)
  <2>1. WorldOK'
    <3>1. CASE UNCHANGED <<store, world, watch, timers, aftermath>>
      BY <3>1 DEF WorldOK, store, world, timers, aftermath
    <3>2. ASSUME NEW again \in Retry \cup {NoRetry}, CountError(again),
                 UNCHANGED <<srv, watch>>
          PROVE  WorldOK'
      BY <3>2, CountErrorTyped
    <3>3. CASE Terminate(kv, "error_max_retries")
      BY <3>3, TerminateTyped DEF Reason, InterruptKind
    <3> QED
      BY <1>3, <3>1, <3>2, <3>3 DEF RetryFailed
  <2> QED
    BY <1>3, <2>1 DEF RetryFailed, WorldOK
<1> QED
  BY <1>1, <1>2, <1>3

LEMMA InterruptTyped ==
  ASSUME TypeOK, Interrupt
  PROVE  TypeOK'
<1>1. ASSUME NEW why \in Reason, Terminate(kv, why), UNCHANGED <<memory, setup>>
      PROVE  TypeOK'
  BY <1>1, TerminateTyped DEF TypeOK, WorldOK, memory
<1>2. "cancelled" \in Reason /\ "user_aborted" \in Reason /\ "worktree_failed" \in Reason
  BY DEF Reason, InterruptKind
<1>3. CASE ProcessRestart
  <2>1. [kv EXCEPT !.st = "ended", !.reason = "shutdown"] \in LoopState
    BY DEF TypeOK, LoopState, Reason, InterruptKind
  <2>2. srv' \in [Session -> SessionRec]
    <3>1. ASSUME NEW s \in Session PROVE Aborted(s)[s] \in SessionRec
      BY AbortedTyped DEF TypeOK
    <3> QED
      BY <1>3, <3>1 DEF ProcessRestart
  <2> QED
    BY <1>3, <2>1, <2>2, Constants DEF ProcessRestart, TypeOK
<1> QED
  BY <1>1, <1>2, <1>3 DEF Interrupt, Cancel, UserAbort, WorktreeFailed

LEMMA StepTyped ==
  ASSUME TypeOK, SidInv, [Next]_vars
  PROVE  TypeOK'
<1>1. ASSUME NEW why \in Reason, Cleanup(why) PROVE TypeOK'
  BY <1>1 DEF Cleanup, TypeOK, store, world, memory, timers
<1>2. CASE UNCHANGED vars
  BY <1>2 DEF vars, TypeOK
<1> QED
  BY <1>1, <1>2, SetupTyped, ServerTyped, HandlerTyped, WatchdogTyped, RetriesTyped,
     InterruptTyped DEF Next

-----------------------------------------------------------------------------
(* The control invariant *)

(* Whoever drives an active loop is the only registered session, and the   *)
(* session the handler is about to replace is the one that is registered.  *)
MapInv ==
  /\ setup = "create" => ~Active /\ mapped = {} /\ h.pc = "none"
  /\ Active => mapped \subseteq {kv.sid}
  /\ h.pc \in {"read", "audit", "create"} => mapped \subseteq {h.cur.sid}
  /\ h.pc \in {"prompt", "recreate"} => mapped \subseteq {h.sid}

(* The bound holds of every snapshot that can still be written back, and   *)
(* a handler on its way to the next iteration is below it.                 *)
IterInv ==
  MaxIter > 0 =>
    /\ kv.iter <= MaxIter
    /\ h.cur.iter <= MaxIter
    /\ \A t \in Tick : tick[t].snap.iter <= MaxIter
    /\ h.pc = "create" => h.cur.iter + 1 <= MaxIter

(* The snapshot of the handler is not behind an active record.             *)
FreshInv ==
  Active /\ h.pc \in {"read", "create", "recreate"} => kv.iter <= h.cur.iter

ControlInv == SidInv /\ MapInv /\ IterInv /\ FreshInv

(* What every step has to show, the action property included.              *)
Kept == ControlInv' /\ (Active /\ Active' => kv'.iter >= kv.iter)

(* What a step may do to the callbacks in flight: end them, or let the     *)
(* watchdog take a snapshot.                                               *)
TicksKept == \A t \in Tick : tick'[t].snap \in {tick[t].snap, NoLoop, kv}

LEMMA ReleaseShape ==
  ASSUME TypeOK, NEW w, Release(w)
  PROVE  h' = NoHandler /\ TicksKept
BY DEF Release, TicksKept, IdleTick, TypeOK, TickState

(* A step that leaves the session and the iteration of the record alone.   *)
LEMMA StoreKept ==
  ASSUME TypeOK, ControlInv, TicksKept,
         kv'.st = kv.st, kv'.sid = kv.sid, kv'.iter = kv.iter, mapped' = mapped,
         h' = h \/ h' = NoHandler,
         setup' = setup \/ setup' # "create"
  PROVE  Kept
<1> USE DEF ControlInv
<1>1. SidInv'
  BY DEF SidInv, NoHandler, Active
<1>2. MapInv'
  BY DEF MapInv, NoHandler, Active
<1>3. IterInv'
  BY ConstantsAssumption DEF IterInv, NoHandler, NoLoop, TicksKept
<1>4. FreshInv'
  BY DEF FreshInv, NoHandler, Active
<1>5. Active /\ Active' => kv'.iter >= kv.iter
  BY DEF TypeOK, LoopState
<1> QED
  BY <1>1, <1>2, <1>3, <1>4, <1>5 DEF Kept

(* A step that ends the loop.                                              *)
LEMMA TerminateKept ==
  ASSUME TypeOK, ControlInv, TicksKept, UNCHANGED setup,
         NEW snap \in LoopState, NEW why, Terminate(snap, why),
         MaxIter > 0 => snap.iter <= MaxIter,
         \/ h' = h
         \/ h.pc # "none" /\ h'.pc = "tail" /\ h'.cur = h.cur
  PROVE  Kept
<1> USE DEF ControlInv
<1>1. kv'.st = "ended" /\ kv'.iter = snap.iter /\ mapped' \subseteq mapped
  BY DEF Terminate, LoopState
<1>2. SidInv'
  BY <1>1 DEF SidInv, Active
<1>3. MapInv'
  BY <1>1 DEF MapInv, Active
<1>4. IterInv'
  BY <1>1, ConstantsAssumption DEF IterInv, NoLoop, TicksKept
<1>5. FreshInv' /\ ~Active'
  BY <1>1 DEF FreshInv, Active
<1> QED
  BY <1>2, <1>3, <1>4, <1>5 DEF Kept

LEMMA HandlerTerminatesKept ==
  ASSUME TypeOK, ControlInv, UNCHANGED setup, h.pc # "none",
         NEW snap \in LoopState, NEW why, HandlerTerminates(snap, why),
         MaxIter > 0 => snap.iter <= MaxIter
  PROVE  Kept
<1>1. TicksKept
  BY DEF HandlerTerminates, TicksKept
<1>2. h'.pc = "tail" /\ h'.cur = h.cur
  BY DEF HandlerTerminates, TypeOK, HandlerState
<1> QED
  BY <1>1, <1>2, TerminateKept DEF HandlerTerminates

LEMMA HandlerPromptErrorKept ==
  ASSUME TypeOK, ControlInv, UNCHANGED setup, h.pc # "none", NEW retry,
         HandlerPromptError(retry)
  PROVE  Kept
<1>1. CASE Release(watch) /\ UNCHANGED <<store, world, timers, aftermath>>
  BY <1>1, ReleaseShape, StoreKept DEF store
<1>2. CASE CountError(retry) /\ Release(watch)
  <2>1. kv'.st = kv.st /\ kv'.sid = kv.sid /\ kv'.iter = kv.iter /\ mapped' = mapped
    BY <1>2 DEF CountError, TypeOK, LoopState
  <2> QED
    BY <1>2, <2>1, ReleaseShape, StoreKept
<1>3. CASE HandlerTerminates(kv, "error_max_retries")
  BY <1>3, HandlerTerminatesKept DEF ControlInv, IterInv, TypeOK
<1> QED
  BY <1>1, <1>2, <1>3 DEF HandlerPromptError

-----------------------------------------------------------------------------
(* Every action keeps the control invariant *)

LEMMA SetupKept ==
  ASSUME TypeOK, ControlInv, Setup
  PROVE  Kept
<1>1. ASSUME NEW s \in Session, Launch(s) PROVE Kept
  <2> USE DEF ControlInv
  <2>1. /\ kv'.st = "active" /\ kv'.sid = s /\ kv'.iter = 1 /\ setup' = "prompt"
        /\ ~Active /\ mapped' = {s} /\ h.pc = "none" /\ h' = h /\ tick' = tick
    BY <1>1 DEF Launch, NoLoop, MapInv, memory
  <2>2. SidInv' /\ MapInv' /\ FreshInv'
    BY <2>1 DEF SidInv, MapInv, FreshInv, Active
  <2>3. IterInv'
    BY <2>1, ConstantsAssumption DEF IterInv
  <2> QED
    BY <2>1, <2>2, <2>3 DEF Kept
<1>2. CASE LaunchPrompted
  <2>1. TicksKept
    BY <1>2 DEF LaunchPrompted, memory, TicksKept
  <2> QED
    BY <1>2, <2>1, StoreKept DEF LaunchPrompted, store, memory
<1>3. CASE LaunchFailed
  <2> USE DEF ControlInv
  <2>1. /\ kv'.st = "absent" /\ kv'.iter = 0 /\ setup' = "failed" /\ mapped' = mapped
        /\ h' = h /\ tick' = tick
    BY <1>3 DEF LaunchFailed, NoLoop, memory
  <2>2. SidInv' /\ MapInv' /\ FreshInv' /\ ~Active'
    BY <2>1 DEF SidInv, MapInv, FreshInv, Active
  <2>3. IterInv'
    BY <2>1, ConstantsAssumption DEF IterInv
  <2> QED
    BY <2>2, <2>3 DEF Kept
<1> QED
  BY <1>1, <1>2, <1>3 DEF Setup

LEMMA ServerKept ==
  ASSUME TypeOK, ControlInv, Server
  PROVE  Kept
<1>1. ASSUME NEW s \in Session, NEW m \in Messages, TurnEnds(s, m) PROVE Kept
  BY <1>1, StoreKept DEF TurnEnds, store, TicksKept
<1>2. ASSUME NEW s \in Session, NEW err \in {"context", "model"}, SessionError(s, err)
      PROVE  Kept
  <2>1. kv'.st = kv.st /\ kv'.sid = kv.sid /\ kv'.iter = kv.iter
    BY <1>2 DEF SessionError, TypeOK, LoopState
  <2> QED
    BY <1>2, <2>1, StoreKept DEF SessionError, memory, TicksKept
<1> QED
  BY <1>1, <1>2 DEF Server

LEMMA PhaseKept ==
  ASSUME TypeOK, ControlInv, UNCHANGED setup, h.pc = "read",
         NEW m \in Message, CodingStep(m) \/ AuditingStep(m)
  PROVE  Kept
<1> DEFINE c == WithError(h.cur, m)
           d == WithReset(c, m)
<1>1. h.cur \in LoopState
  BY DEF TypeOK, HandlerState
<1>2. SameLoop(c, h.cur) /\ SameLoop(d, h.cur)
  BY <1>1, BookkeepingSame
<1>3. MaxIter > 0 => h.cur.iter <= MaxIter
  BY DEF ControlInv, IterInv
<1>4. CASE HandlerTerminates(c, "completed") \/ HandlerTerminates(d, "completed")
           \/ HandlerTerminates(d, "max_iterations")
  BY <1>2, <1>3, <1>4, HandlerTerminatesKept DEF SameLoop
<1>5. CASE /\ kv' = [d EXCEPT !.phase = "auditing", !.errs = 0]
           /\ h' = [h EXCEPT !.pc = "audit", !.cur = d]
           /\ UNCHANGED <<mapped, world, tick, watch, timers, aftermath>>
  <2> HIDE DEF d
  <2> USE DEF ControlInv
  <2>1. /\ kv'.sid = h.cur.sid /\ kv'.iter = h.cur.iter
        /\ h'.pc = "audit" /\ h'.cur.sid = h.cur.sid /\ h'.cur.iter = h.cur.iter
    BY <1>2, <1>5 DEF SameLoop, LoopState, TypeOK, HandlerState
  <2>2. SidInv' /\ MapInv' /\ FreshInv'
    BY <1>5, <2>1 DEF SidInv, MapInv, FreshInv, Active
  <2>3. IterInv'
    BY <1>5, <2>1, ConstantsAssumption DEF IterInv
  <2>4. Active /\ Active' => kv'.iter >= kv.iter
    BY <2>1 DEF FreshInv, TypeOK, LoopState, HandlerState
  <2> QED
    BY <2>2, <2>3, <2>4 DEF Kept
<1>6. CASE /\ MaxIter > 0 => h.cur.iter + 1 <= MaxIter
           /\ kv' = Saved(d)
           /\ h' = [h EXCEPT !.pc = "create", !.cur = d, !.failed = (m.err # "none")]
           /\ UNCHANGED <<mapped, world, tick, watch, timers, aftermath>>
  <2> HIDE DEF d
  <2> USE DEF ControlInv
  <2>1. /\ h'.pc = "create" /\ h'.cur.sid = h.cur.sid /\ h'.cur.iter = h.cur.iter
        /\ kv' = kv \/ (kv'.sid = h.cur.sid /\ kv'.iter = h.cur.iter)
    BY <1>2, <1>6 DEF SameLoop, TypeOK, HandlerState, Saved
  <2>2. SidInv' /\ MapInv'
    BY <1>6, <2>1 DEF SidInv, MapInv, Active
  <2>3. IterInv'
    BY <1>6, <2>1, ConstantsAssumption DEF IterInv
  <2>4. FreshInv' /\ (Active /\ Active' => kv'.iter >= kv.iter)
    BY <2>1 DEF FreshInv, TypeOK, LoopState, HandlerState, Active
  <2> QED
    BY <2>2, <2>3, <2>4 DEF Kept
<1>7. ~(MaxIter > 0 /\ d.iter >= MaxIter) => (MaxIter > 0 => h.cur.iter + 1 <= MaxIter)
  BY <1>2, ConstantsAssumption DEF SameLoop, LoopState
<1>8. ~(MaxIter > 0 /\ d.iter + 1 > MaxIter) => (MaxIter > 0 => h.cur.iter + 1 <= MaxIter)
  BY <1>2, ConstantsAssumption DEF SameLoop, LoopState
<1> QED
  BY <1>4, <1>5, <1>6, <1>7, <1>8, Zenon DEF CodingStep, AuditingStep

LEMMA HandlerKept ==
  ASSUME TypeOK, ControlInv, Handler
  PROVE  Kept
<1>1. CASE GrantLock
  <2>1. CASE h' = h
    <3>1. tick' = tick \/ \E u \in Tick : tick' = [tick EXCEPT ![u] = IdleTick]
      BY <1>1 DEF GrantLock
    <3>2. tick \in [Tick -> TickState]
      BY DEF TypeOK
    <3>3. TicksKept
      BY <3>1, <3>2, SMTT(20) DEF TicksKept, IdleTick
    <3> QED
      BY <1>1, <2>1, <3>3, StoreKept DEF GrantLock, store
  <2>2. CASE h' # h
    <3> USE DEF ControlInv
    <3>1. /\ Active /\ h'.pc = "read" /\ h'.cur = kv
          /\ UNCHANGED <<store, tick, setup>>
      BY <1>1, <2>2 DEF GrantLock, StaleRequest, NoHandler
    <3>2. SidInv' /\ MapInv'
      BY <3>1 DEF SidInv, MapInv, Active, store
    <3>3. IterInv'
      BY <3>1 DEF IterInv, store
    <3>4. FreshInv' /\ (Active /\ Active' => kv'.iter >= kv.iter)
      BY <3>1 DEF FreshInv, Active, store, TypeOK, LoopState
    <3> QED
      BY <3>2, <3>3, <3>4 DEF Kept
  <2> QED
    BY <2>1, <2>2
<1>2. CASE NothingToRead \/ HandlerReturns
  BY <1>2, ReleaseShape, StoreKept DEF NothingToRead, HandlerReturns, store
<1>3. CASE ReadMessage
  <2> DEFINE m == srv[h.cur.sid].msg
  <2>1. h.cur \in LoopState /\ (MaxIter > 0 => h.cur.iter <= MaxIter)
    BY DEF TypeOK, HandlerState, ControlInv, IterInv
  <2>2. m \in Message
    BY <1>3 DEF ReadMessage, ControlInv, SidInv, TypeOK, SessionRec
  <2>3. CASE HandlerTerminates(h.cur, "error_max_retries")
    BY <1>3, <2>1, <2>3, HandlerTerminatesKept DEF ReadMessage
  <2>4. CASE CodingStep(m) \/ AuditingStep(m)
    BY <1>3, <2>2, <2>4, PhaseKept DEF ReadMessage
  <2> QED
    BY <1>3, <2>3, <2>4 DEF ReadMessage
<1>4. CASE AuditPrompted \/ ContinuationPrompted
  <2>1. PICK w : Release(w)
    BY <1>4 DEF AuditPrompted, ContinuationPrompted
  <2> QED
    BY <1>4, <2>1, ReleaseShape, StoreKept DEF AuditPrompted, ContinuationPrompted, store
<1>5. CASE AuditFailed \/ ContinuationFailed
  BY <1>5, HandlerPromptErrorKept DEF AuditFailed, ContinuationFailed
<1>6. ASSUME NEW s \in Session, SessionRotated(s) PROVE Kept
  <2> USE DEF ControlInv
  <2>1. /\ kv'.sid = s /\ kv'.iter = h.cur.iter + 1 /\ mapped' = {s}
        /\ h'.pc = "prompt" /\ h'.sid = s /\ h'.cur = h.cur
    BY <1>6, NextIterationTyped DEF SessionRotated, MapInv, TypeOK, HandlerState
  <2>2. SidInv' /\ MapInv' /\ FreshInv'
    BY <1>6, <2>1 DEF SessionRotated, SidInv, MapInv, FreshInv, Active
  <2>3. IterInv'
    BY <1>6, <2>1, ConstantsAssumption DEF SessionRotated, IterInv
  <2>4. Active => kv'.iter >= kv.iter
    BY <1>6, <2>1 DEF SessionRotated, FreshInv, TypeOK, LoopState, HandlerState
  <2> QED
    BY <2>2, <2>3, <2>4 DEF Kept
<1>7. ASSUME NEW s \in Session, Recovered(s) PROVE Kept
  <2> USE DEF ControlInv
  <2>1. /\ kv'.sid = s /\ kv'.iter = h.cur.iter /\ mapped' = {s}
        /\ h'.pc = "prompt" /\ h'.sid = s /\ h'.cur = h.cur
    BY <1>7 DEF Recovered, MapInv, TypeOK, HandlerState, LoopState
  <2>2. SidInv' /\ MapInv' /\ FreshInv'
    BY <1>7, <2>1 DEF Recovered, SidInv, MapInv, FreshInv, Active
  <2>3. IterInv'
    BY <1>7, <2>1 DEF Recovered, IterInv
  <2>4. Active => kv'.iter >= kv.iter
    BY <1>7, <2>1 DEF Recovered, FreshInv, TypeOK, LoopState, HandlerState
  <2> QED
    BY <2>2, <2>3, <2>4 DEF Kept
<1>8. CASE RotationFailed
  <2> USE DEF ControlInv
  <2>1. h.cur.sid \in Session \cup {NoSession}
    BY DEF TypeOK, HandlerState, LoopState
  <2>2. /\ kv'.sid = h.cur.sid /\ kv'.iter = h.cur.iter + 1
        /\ h'.pc = "prompt" /\ h'.sid = h.cur.sid /\ h'.cur = h.cur
    BY <1>8, <2>1, NextIterationTyped DEF RotationFailed, TypeOK, HandlerState
  <2>3. SidInv' /\ MapInv' /\ FreshInv'
    BY <1>8, <2>2 DEF RotationFailed, SidInv, MapInv, FreshInv, Active
  <2>4. IterInv'
    BY <1>8, <2>2, ConstantsAssumption DEF RotationFailed, IterInv
  <2>5. Active => kv'.iter >= kv.iter
    BY <1>8, <2>2 DEF RotationFailed, FreshInv, TypeOK, LoopState, HandlerState
  <2> QED
    BY <2>3, <2>4, <2>5 DEF Kept
<1>9. CASE ContextOverflow
  <2> USE DEF ControlInv
  <2>1. /\ h'.pc = "recreate" /\ h'.sid = h.sid /\ h'.cur = kv /\ Active
        /\ UNCHANGED <<store, tick, setup>>
    BY <1>9 DEF ContextOverflow, TypeOK, HandlerState
  <2>2. SidInv' /\ MapInv'
    BY <1>9, <2>1 DEF ContextOverflow, SidInv, MapInv, Active, store
  <2>3. IterInv'
    BY <2>1 DEF IterInv, store
  <2>4. FreshInv' /\ (Active /\ Active' => kv'.iter >= kv.iter)
    BY <2>1 DEF FreshInv, Active, store, TypeOK, LoopState
  <2> QED
    BY <2>2, <2>3, <2>4 DEF Kept
<1>10. CASE NotRecovered
  <2>1. CASE ~Active
    BY <1>10, <2>1, ReleaseShape, StoreKept DEF NotRecovered, store
  <2>2. CASE Active
    <3> USE DEF ControlInv
    <3>1. /\ h'.pc = "prompt" /\ h'.sid = h.sid /\ h'.cur = h.cur
          /\ UNCHANGED <<store, tick, setup>>
      BY <1>10, <2>2 DEF NotRecovered, TypeOK, HandlerState
    <3>2. SidInv' /\ MapInv' /\ IterInv'
      BY <1>10, <3>1 DEF NotRecovered, SidInv, MapInv, IterInv, Active, store
    <3>3. FreshInv' /\ (Active /\ Active' => kv'.iter >= kv.iter)
      BY <3>1 DEF FreshInv, Active, store, TypeOK, LoopState
    <3> QED
      BY <3>2, <3>3 DEF Kept
  <2> QED
    BY <2>1, <2>2
<1> QED
  BY <1>1, <1>2, <1>3, <1>4, <1>5, <1>6, <1>7, <1>8, <1>9, <1>10 DEF Handler

LEMMA WatchdogKept ==
  ASSUME TypeOK, ControlInv, NEW t \in Tick, Watchdog(t)
  PROVE  Kept
<1>1. TicksKept
  BY DEF Watchdog, WatchdogFires, SessionBusy, Stalled, StallTimeout, StallReturns,
         TicksKept, TypeOK, TickState, IdleTick
<1>2. CASE StallTimeout(t)
  <2>1. tick[t].snap \in LoopState /\ (MaxIter > 0 => tick[t].snap.iter <= MaxIter)
    BY DEF TypeOK, TickState, ControlInv, IterInv
  <2> QED
    BY <1>1, <1>2, <2>1, TerminateKept DEF StallTimeout
<1>3. CASE WatchdogFires(t) \/ SessionBusy(t) \/ Stalled(t) \/ StallReturns(t)
  BY <1>1, <1>3, StoreKept DEF WatchdogFires, SessionBusy, Stalled, StallReturns, store
<1> QED
  BY <1>2, <1>3 DEF Watchdog

LEMMA RetriesKept ==
  ASSUME TypeOK, ControlInv, Retries
  PROVE  Kept
<1> SUFFICES ASSUME NEW r \in Retry, RetryFires(r) \/ RetryPrompted(r) \/ RetryFailed(r)
             PROVE  Kept
  BY DEF Retries
<1>1. TicksKept
  BY DEF RetryFires, RetryPrompted, RetryFailed, TicksKept
<1>2. CASE RetryFires(r) \/ RetryPrompted(r)
  BY <1>1, <1>2, StoreKept DEF RetryFires, RetryPrompted, store
<1>3. CASE RetryFailed(r)
  <2>1. CASE UNCHANGED store
    BY <1>1, <1>3, <2>1, StoreKept DEF RetryFailed, store
  <2>2. ASSUME NEW again, CountError(again) PROVE Kept
    <3>1. kv'.st = kv.st /\ kv'.sid = kv.sid /\ kv'.iter = kv.iter /\ mapped' = mapped
      BY <2>2 DEF CountError, TypeOK, LoopState
    <3> QED
      BY <1>1, <1>3, <3>1, StoreKept DEF RetryFailed
  <2>3. CASE Terminate(kv, "error_max_retries")
    BY <1>1, <1>3, <2>3, TerminateKept DEF RetryFailed, ControlInv, IterInv, TypeOK
  <2> QED
    BY <1>3, <2>1, <2>2, <2>3 DEF RetryFailed
<1> QED
  BY <1>2, <1>3

LEMMA InterruptKept ==
  ASSUME TypeOK, ControlInv, Interrupt
  PROVE  Kept
<1>1. ASSUME NEW why, Terminate(kv, why), UNCHANGED <<memory, setup>> PROVE Kept
  <2>1. TicksKept
    BY <1>1 DEF memory, TicksKept
  <2> QED
    BY <1>1, <2>1, TerminateKept DEF memory, ControlInv, IterInv, TypeOK
<1>2. CASE ProcessRestart
  <2> USE DEF ControlInv
  <2>1. /\ kv'.iter = kv.iter /\ ~Active' /\ mapped' = mapped
        /\ h' = NoHandler /\ setup' = "done"
        /\ \A t \in Tick : tick'[t] = IdleTick
    BY <1>2 DEF ProcessRestart, Active, TypeOK, LoopState
  <2>2. SidInv' /\ MapInv' /\ FreshInv'
    BY <2>1 DEF SidInv, MapInv, FreshInv, NoHandler
  <2>3. IterInv'
    BY <2>1, ConstantsAssumption DEF IterInv, NoHandler, NoLoop, IdleTick
  <2> QED
    BY <2>1, <2>2, <2>3 DEF Kept
<1> QED
  BY <1>1, <1>2 DEF Interrupt, Cancel, UserAbort, WorktreeFailed

LEMMA StepKept ==
  ASSUME TypeOK, ControlInv, [Next]_vars
  PROVE  Kept
<1>1. ASSUME NEW why \in Reason, Cleanup(why) PROVE Kept
  BY <1>1, StoreKept DEF Cleanup, store, memory, TicksKept
<1>2. CASE UNCHANGED vars
  BY <1>2, StoreKept DEF vars, TicksKept
<1> QED
  BY <1>1, <1>2, SetupKept, ServerKept, HandlerKept, WatchdogKept, RetriesKept,
     InterruptKept DEF Next

-----------------------------------------------------------------------------
(* The theorems *)

LEMMA InitInv == Init => TypeOK /\ ControlInv
<1> SUFFICES ASSUME Init PROVE TypeOK /\ ControlInv
  OBVIOUS
<1>1. TypeOK
  <2>1. /\ kv \in LoopState /\ mapped \subseteq Session
        /\ findings \in BOOLEAN /\ setup \in {"create", "prompt", "done", "failed"}
    BY DEF Init, NoLoop, LoopState
  <2>2. h \in HandlerState
    BY Constants DEF Init
  <2>3. srv \in [Session -> SessionRec]
    BY DEF Init, FreeSession, SessionRec
  <2>4. tick \in [Tick -> TickState]
    BY Constants DEF Init
  <2>5. queue \in Seq(Request)
    BY DEF Init
  <2>6. watch \in WatchState /\ timer \in Retry \cup {NoRetry}
    BY DEF Init, NotWatching, WatchState
  <2>7. strays \subseteq Retry /\ resend \subseteq Retry /\ tails \subseteq Reason
    BY DEF Init
  <2>8. worktree \in {"none", "present", "removed"}
    BY DEF Init
  <2> QED
    BY <2>1, <2>2, <2>3, <2>4, <2>5, <2>6, <2>7, <2>8 DEF TypeOK
<1>2. ControlInv
  BY ConstantsAssumption
  DEF Init, ControlInv, SidInv, MapInv, IterInv, FreshInv, Active, NoLoop, NoHandler, IdleTick
<1> QED
  BY <1>1, <1>2

LEMMA InvHolds == Spec => [](TypeOK /\ ControlInv)
<1>1. TypeOK /\ ControlInv /\ [Next]_vars => (TypeOK /\ ControlInv)'
  BY StepTyped, StepKept DEF ControlInv, Kept
<1> QED
  BY InitInv, <1>1, PTL DEF Spec

(* Every variable of the engine keeps its type.                            *)
THEOREM TypeCorrect == Spec => []TypeOK
  BY InvHolds, PTL

(* At no time is a session registered for an active loop other than the    *)
(* one its record names: session rotation never leaves one behind.         *)
THEOREM CurrentSessionOnly == Spec => []OnlyCurrentSessionDrives
<1>1. ControlInv => OnlyCurrentSessionDrives
  BY DEF ControlInv, MapInv, OnlyCurrentSessionDrives
<1> QED
  BY InvHolds, <1>1, PTL

(* No interleaving of handlers, watchdog callbacks, retries, interrupts    *)
(* and restarts takes a loop past maxIterations.                           *)
THEOREM IterationBounded == Spec => []IterationBound
<1>1. ControlInv => IterationBound
  BY DEF ControlInv, IterInv, IterationBound
<1> QED
  BY InvHolds, <1>1, PTL

(* No stale snapshot takes an active loop back to an earlier iteration.    *)
THEOREM IterationMonotone == Spec => IterationNeverDrops
<1>1. TypeOK /\ ControlInv /\ [Next]_vars => [Active /\ Active' => kv'.iter >= kv.iter]_vars
  BY StepKept DEF Kept
<1> QED
  BY InvHolds, <1>1, PTL DEF Spec, IterationNeverDrops

-----------------------------------------------------------------------------
(***************************************************************************)
(* The engine implements LoopContract as long as nothing ends the loop     *)
(* outside the state lock but a shutdown, and calls are answered within a  *)
(* stall timeout.  What the contract needs is that every record that is    *)
(* written back is the loop as it is: the handler works on an active loop  *)
(* whose record nobody has replaced (Undisturbed), the callback that runs  *)
(* into the stall timeout has seen the record there is (StatusCurrent),    *)
(* and nothing moves before the first prompt is answered (Beginning), so   *)
(* that it is the first iteration that is withdrawn.                       *)
(***************************************************************************)
Quiet == Interrupts \subseteq {"shutdown"} /\ ~SlowCalls

Working == h.pc \in {"read", "audit", "create", "prompt", "recreate"}
Before == setup \in {"create", "prompt"}

Beginning ==
  /\ setup = "create" => kv.st = "absent"
  /\ setup = "prompt" => kv.st = "active" /\ kv.iter = 1
  /\ Before => /\ queue = <<>> /\ h.pc = "none" /\ ~watch.on
               /\ timer = NoRetry /\ strays = {} /\ resend = {}
               /\ \A t \in Tick : tick[t].pc = "none"
               /\ \A s \in Session : srv[s].st # "busy"

Undisturbed ==
  Working => /\ Active
             /\ h.pc # "prompt" => /\ h.cur.st = "active" /\ h.cur.iter = kv.iter
                                   /\ h.cur.reason = "none"

StatusCurrent ==
  \A t \in Tick : tick[t].pc = "status" =>
    /\ \A i \in DOMAIN queue : queue[i].src \notin Tick
    /\ \A u \in Tick : tick[u].pc = "status" => u = t
    /\ watch.stalls # 0 => ~Working /\ Active /\ tick[t].snap.iter = kv.iter

QuietInv ==
  /\ Beginning /\ Undisturbed /\ StatusCurrent
  /\ kv.st # "ended" => kv.reason = "none"

ContractStep ==
  [Contract!Begin \/ Contract!Withdraw \/ Contract!Iterate \/ Contract!End]_(Contract!vars)

(* What every step has to show.                                            *)
QuietKept == QuietInv' /\ ContractStep

LEMMA Stutters ==
  ASSUME kv'.st = kv.st, kv'.iter = kv.iter, kv'.reason = kv.reason
  PROVE  ContractStep
BY DEF ContractStep, Contract!vars

(* Before the first prompt is answered nobody but setupLoop does a thing.  *)
LEMMA OnlySetup ==
  ASSUME QuietInv, Before
  PROVE  ~Server /\ ~Handler /\ (\A t \in Tick : ~Watchdog(t)) /\ ~Retries
<1> USE DEF QuietInv, Beginning
<1>1. ~Server
  BY DEF Server, TurnEnds, SessionError
<1>2. ~Handler
  BY DEF Handler, GrantLock, NothingToRead, ReadMessage, AuditPrompted, AuditFailed,
         SessionRotated, Recovered, RotationFailed, ContinuationPrompted,
         ContinuationFailed, ContextOverflow, NotRecovered, HandlerReturns
<1>3. \A t \in Tick : ~Watchdog(t)
  BY DEF Watchdog, WatchdogFires, SessionBusy, Stalled, StallTimeout, StallReturns
<1>4. ~Retries
  <2>1. Armed = {}
    BY DEF Armed
  <2> QED
    BY <2>1 DEF Retries, RetryFires, RetryPrompted, RetryFailed
<1> QED
  BY <1>1, <1>2, <1>3, <1>4

(* A step neither starts a watchdog callback, nor queues one, nor counts a *)
(* stall.                                                                  *)
NoNewTick == \A i \in DOMAIN queue' :
                queue'[i].src \in Tick => \E j \in DOMAIN queue : queue[j].src \in Tick
WatchStill ==
  /\ \A t \in Tick : tick'[t] = tick[t] \/ tick'[t].pc # "status"
  /\ NoNewTick
  /\ watch'.stalls \in {watch.stalls, 0}

(* A step after the start that leaves the record as far as the contract    *)
(* sees it.                                                                *)
LEMMA SameRecord ==
  ASSUME TypeOK, QuietInv, ~Before, ~Before', WatchStill,
         kv'.st = kv.st, kv'.iter = kv.iter, kv'.reason = kv.reason,
         h' = h \/ h'.pc \in {"none", "tail"}
  PROVE  QuietKept
<1> USE DEF QuietInv
<1>1. ContractStep
  BY Stutters
<1>2. Beginning'
  BY DEF Beginning, Before
<1>3. Working' => Working /\ h' = h
  BY DEF Working
<1>4. Undisturbed'
  BY <1>3 DEF Undisturbed, Active
<1>5. StatusCurrent'
  BY <1>3 DEF StatusCurrent, WatchStill, NoNewTick, Active
<1> QED
  BY <1>1, <1>2, <1>4, <1>5 DEF QuietKept

(* The loop ends: by its handler, or by the watchdog while none works.     *)
LEMMA EndsKept ==
  ASSUME TypeOK, QuietInv, ~Before, ~Before', Active,
         NEW snap \in LoopState, NEW why \in Reason, Terminate(snap, why),
         snap.iter = kv.iter, h'.pc \notin {"read", "audit", "create", "prompt", "recreate"},
         \A t \in Tick : tick'[t] = tick[t] \/ tick'[t].pc # "status", UNCHANGED queue
  PROVE  QuietKept
<1> USE DEF QuietInv
<1>1. kv'.st = "ended" /\ kv'.iter = kv.iter /\ kv'.reason = why /\ watch'.stalls = 0
  BY DEF Terminate, NotWatching, LoopState
<1>2. ContractStep
  BY <1>1 DEF ContractStep, Contract!End, Active
<1>3. Beginning' /\ Undisturbed'
  BY DEF Beginning, Before, Undisturbed, Working
<1>4. StatusCurrent'
  BY <1>1 DEF StatusCurrent
<1> QED
  BY <1>1, <1>2, <1>3, <1>4 DEF QuietKept

LEMMA SetupQuiet ==
  ASSUME TypeOK, QuietInv, Setup
  PROVE  QuietKept
<1> USE DEF QuietInv
<1>1. ASSUME NEW s \in Session, Launch(s) PROVE QuietKept
  <2>1. /\ setup = "create" /\ setup' = "prompt" /\ kv.st = "absent" /\ kv.reason = "none"
        /\ kv'.st = "active" /\ kv'.iter = 1 /\ kv'.reason = "none"
        /\ UNCHANGED <<queue, h, watch, tick, timer, strays, resend>>
    BY <1>1 DEF Launch, Beginning, NoLoop, memory, timers
  <2>2. \A x \in Session : srv'[x].st # "busy"
    BY <1>1, <2>1 DEF Launch, Beginning, Before, NewSession, TypeOK
  <2>3. Beginning'
    BY <2>1, <2>2 DEF Beginning, Before
  <2>4. Undisturbed' /\ StatusCurrent'
    BY <2>1 DEF Beginning, Before, Undisturbed, Working, StatusCurrent
  <2>5. ContractStep
    BY <2>1 DEF ContractStep, Contract!Begin
  <2> QED
    BY <2>1, <2>3, <2>4, <2>5 DEF QuietKept
<1>2. CASE LaunchPrompted
  <2>1. /\ setup = "prompt" /\ setup' = "done" /\ h.pc = "none"
        /\ UNCHANGED <<kv, queue, h, tick>> /\ \A t \in Tick : tick[t].pc = "none"
    BY <1>2 DEF LaunchPrompted, Beginning, Before, store, memory
  <2>2. ContractStep
    BY <2>1, Stutters
  <2>3. Beginning' /\ Undisturbed' /\ StatusCurrent'
    BY <2>1 DEF Beginning, Before, Undisturbed, Working, StatusCurrent
  <2> QED
    BY <2>1, <2>2, <2>3 DEF QuietKept
<1>3. CASE LaunchFailed
  <2>1. /\ setup = "prompt" /\ setup' = "failed" /\ h.pc = "none"
        /\ kv.st = "active" /\ kv.iter = 1 /\ kv.reason = "none"
        /\ kv'.st = "absent" /\ kv'.iter = 0 /\ kv'.reason = "none"
        /\ UNCHANGED <<queue, h, tick>> /\ \A t \in Tick : tick[t].pc = "none"
    BY <1>3 DEF LaunchFailed, Beginning, Before, NoLoop, memory
  <2>2. ContractStep
    BY <2>1 DEF ContractStep, Contract!Withdraw
  <2>3. Beginning' /\ Undisturbed' /\ StatusCurrent'
    BY <2>1 DEF Beginning, Before, Undisturbed, Working, StatusCurrent
  <2> QED
    BY <2>1, <2>2, <2>3 DEF QuietKept
<1> QED
  BY <1>1, <1>2, <1>3 DEF Setup

LEMMA ServerQuiet ==
  ASSUME TypeOK, QuietInv, Server
  PROVE  QuietKept
<1> ~Before
  BY OnlySetup
<1>1. ASSUME NEW s \in Session, NEW m \in Messages, TurnEnds(s, m) PROVE QuietKept
  <2>1. UNCHANGED <<kv, h, tick, watch, setup>>
    BY <1>1 DEF TurnEnds, store
  <2>2. NoNewTick
    <3> USE DEF NoNewTick
    <3>1. CASE UNCHANGED queue
      BY <3>1
    <3>2. ASSUME NEW r, r.src = NoTick, queue' = Append(queue, r) PROVE NoNewTick
      <4>1. /\ DOMAIN queue = 1 .. Len(queue) /\ DOMAIN queue' = 1 .. Len(queue) + 1
            /\ Len(queue) \in Nat
            /\ \A i \in DOMAIN queue : queue'[i] = queue[i]
            /\ queue'[Len(queue) + 1] = r
        BY <3>2 DEF TypeOK
      <4> QED
        BY <3>2, <4>1, ConstantsAssumption
    <3> QED
      BY <1>1, <3>1, <3>2 DEF TurnEnds
  <2> QED
    BY <2>1, <2>2, SameRecord DEF WatchStill, Before
<1>2. ASSUME NEW s \in Session, NEW err \in {"context", "model"}, SessionError(s, err)
      PROVE  QuietKept
  <2>1. kv'.st = kv.st /\ kv'.iter = kv.iter /\ kv'.reason = kv.reason
    BY <1>2 DEF SessionError, TypeOK, LoopState
  <2> QED
    BY <1>2, <2>1, SameRecord DEF SessionError, memory, WatchStill, NoNewTick, Before
<1> QED
  BY <1>1, <1>2 DEF Server

LEMMA ReleaseStill ==
  ASSUME TypeOK, NEW w, Release(w), w.stalls \in {watch.stalls, 0}, w \in WatchState,
         UNCHANGED queue
  PROVE  WatchStill /\ h'.pc = "none"
BY DEF Release, WatchStill, NoNewTick, NoHandler, IdleTick, WatchState, TypeOK

LEMMA HandlerEndsQuiet ==
  ASSUME TypeOK, QuietInv, ~Before, ~Before', Active, UNCHANGED queue,
         NEW snap \in LoopState, NEW why \in Reason, HandlerTerminates(snap, why),
         snap.iter = kv.iter
  PROVE  QuietKept
<1>1. h'.pc = "tail" /\ tick' = tick
  BY DEF HandlerTerminates, TypeOK, HandlerState
<1> QED
  BY <1>1, EndsKept DEF HandlerTerminates

LEMMA PromptErrorQuiet ==
  ASSUME TypeOK, QuietInv, ~Before, ~Before', UNCHANGED queue, NEW retry,
         HandlerPromptError(retry)
  PROVE  QuietKept
<1>1. watch \in WatchState /\ kv \in LoopState
  BY DEF TypeOK
<1>2. CASE Release(watch) /\ UNCHANGED <<store, world, timers, aftermath>>
  BY <1>1, <1>2, ReleaseStill, SameRecord DEF store
<1>3. CASE CountError(retry) /\ Release(watch)
  <2>1. kv'.st = kv.st /\ kv'.iter = kv.iter /\ kv'.reason = kv.reason
    BY <1>1, <1>3 DEF CountError, LoopState
  <2> QED
    BY <1>1, <1>3, <2>1, ReleaseStill, SameRecord
<1>4. CASE Active /\ HandlerTerminates(kv, "error_max_retries")
  BY <1>1, <1>4, HandlerEndsQuiet DEF Reason, InterruptKind
<1> QED
  BY <1>2, <1>3, <1>4 DEF HandlerPromptError

(* A handler goes on: no stall counts while it works.                      *)
LEMMA WorksOn ==
  ASSUME TypeOK, QuietInv, ~Before, ~Before', Working, UNCHANGED <<queue, tick>>,
         watch'.stalls \in {watch.stalls, 0}, kv'.reason = "none", Undisturbed'
  PROVE  QuietInv'
<1>1. Beginning'
  BY DEF Beginning, Before
<1>2. StatusCurrent'
  BY DEF QuietInv, StatusCurrent
<1> QED
  BY <1>1, <1>2 DEF QuietInv

LEMMA PhaseQuiet ==
  ASSUME TypeOK, QuietInv, ~Before, ~Before', UNCHANGED queue, h.pc = "read",
         NEW m \in Message, CodingStep(m) \/ AuditingStep(m)
  PROVE  QuietKept
<1> DEFINE c == WithError(h.cur, m)
           d == WithReset(c, m)
<1>1. h.cur \in LoopState
  BY DEF TypeOK, HandlerState
<1>2. SameLoop(c, h.cur) /\ SameLoop(d, h.cur)
  BY <1>1, BookkeepingSame
<1>3. c.reason = h.cur.reason /\ d.reason = h.cur.reason
  BY <1>1 DEF WithError, WithReset, LoopState
<1>4. /\ Working /\ Active /\ kv.iter = h.cur.iter /\ kv.reason = "none"
      /\ h.cur.st = "active" /\ h.cur.reason = "none"
  BY DEF QuietInv, Undisturbed, Working, Active
<1>5. CASE HandlerTerminates(c, "completed") \/ HandlerTerminates(d, "completed")
           \/ HandlerTerminates(d, "max_iterations")
  BY <1>2, <1>4, <1>5, HandlerEndsQuiet DEF SameLoop, Reason
<1> HIDE DEF c, d
<1>6. CASE /\ kv' = [d EXCEPT !.phase = "auditing", !.errs = 0]
           /\ h' = [h EXCEPT !.pc = "audit", !.cur = d]
           /\ UNCHANGED <<mapped, world, tick, watch, timers, aftermath>>
  <2>1. /\ kv'.st = "active" /\ kv'.iter = kv.iter /\ kv'.reason = "none"
        /\ h'.pc = "audit" /\ h'.cur = d
    BY <1>2, <1>3, <1>4, <1>6 DEF SameLoop, LoopState, TypeOK, HandlerState
  <2>2. ContractStep
    BY <1>4, <2>1, Stutters DEF Active
  <2>3. Undisturbed'
    BY <1>2, <1>3, <1>4, <2>1 DEF Undisturbed, Active, SameLoop
  <2> QED
    BY <1>4, <1>6, <2>1, <2>2, <2>3, WorksOn DEF QuietKept
<1>7. CASE /\ kv' = Saved(d)
           /\ h' = [h EXCEPT !.pc = "create", !.cur = d, !.failed = (m.err # "none")]
           /\ UNCHANGED <<mapped, world, tick, watch, timers, aftermath>>
  <2>1. /\ kv'.st = "active" /\ kv'.iter = kv.iter /\ kv'.reason = "none"
    BY <1>2, <1>3, <1>4, <1>7 DEF Saved, SameLoop, Active
  <2>2. h'.pc = "create" /\ h'.cur = d
    BY <1>7 DEF TypeOK, HandlerState
  <2>3. ContractStep
    BY <1>4, <2>1, Stutters DEF Active
  <2>4. Undisturbed'
    BY <1>2, <1>3, <1>4, <2>1, <2>2 DEF Undisturbed, Active, SameLoop
  <2> QED
    BY <1>4, <1>7, <2>1, <2>3, <2>4, WorksOn DEF QuietKept
<1> QED
  BY <1>5, <1>6, <1>7, Zenon DEF CodingStep, AuditingStep, c, d

(* The step to the next iteration, with a new session or without.          *)
LEMMA IteratesQuiet ==
  ASSUME TypeOK, ControlInv, QuietInv, ~Before, ~Before', h.pc = "create",
         UNCHANGED <<queue, tick>>, watch'.stalls \in {watch.stalls, 0},
         NEW s \in Session \cup {NoSession}, kv' = NextIteration(s), h'.pc = "prompt"
  PROVE  QuietKept
<1>1. /\ Working /\ Active /\ h.cur.st = "active" /\ h.cur.iter = kv.iter
      /\ h.cur.reason = "none" /\ kv.reason = "none"
  BY DEF QuietInv, Undisturbed, Working, Active
<1>2. kv'.st = "active" /\ kv'.iter = kv.iter + 1 /\ kv'.reason = "none"
  <2>1. h.cur \in LoopState
    BY DEF TypeOK, HandlerState
  <2> QED
    BY ZenonT(30), <1>1, <2>1, NextIterationTyped DEF NextIteration, LoopState
<1>3. MaxIter = 0 \/ kv.iter < MaxIter
  BY <1>1, ConstantsAssumption DEF ControlInv, IterInv, TypeOK, LoopState
<1>4. ContractStep
  BY <1>1, <1>2, <1>3 DEF ContractStep, Contract!Iterate, Active
<1>5. Undisturbed'
  BY <1>2 DEF Undisturbed, Active
<1> QED
  BY <1>1, <1>2, <1>4, <1>5, WorksOn DEF QuietKept

(* The lock is granted.                                                    *)
LEMMA GrantQuiet ==
  ASSUME TypeOK, QuietInv, ~Before, GrantLock
  PROVE  QuietKept
<1>1. /\ ~Before' /\ UNCHANGED kv /\ h.pc = "none"
  BY DEF GrantLock, Before, store
<1>2. /\ queue \in Seq(Request) /\ queue # <<>> /\ queue' = Tail(queue)
      /\ Head(queue) = queue[1] /\ 1 \in DOMAIN queue
  BY DEF GrantLock, TypeOK
<1>3. \A i \in DOMAIN queue' : i + 1 \in DOMAIN queue /\ queue'[i] = queue[i + 1]
  BY <1>2
<1>4. NoNewTick
  BY <1>3 DEF NoNewTick
<1>5. CASE StaleRequest(Head(queue)) /\ h' = h
  <2>1. WatchStill
    BY <1>4, <1>5 DEF GrantLock, WatchStill, TypeOK, IdleTick, Watching, WatchState
  <2> QED
    BY <1>1, <1>5, <2>1, SameRecord
<1>6. CASE ~StaleRequest(Head(queue)) /\ h' = [NoHandler EXCEPT !.pc = "read", !.cur = kv,
                                                                !.src = Head(queue).src]
  <2>1. Active /\ kv.reason = "none" /\ h'.pc = "read" /\ h'.cur = kv
    BY <1>6 DEF StaleRequest, NoHandler, QuietInv, Active
  <2>2. Beginning' /\ Undisturbed'
    BY <1>1, <2>1 DEF Beginning, Before, Undisturbed, Active
  <2>3. UNCHANGED tick /\ (Head(queue).src \notin Tick => watch'.stalls = 0)
    BY <1>2, <1>6 DEF GrantLock, Watching, NoHandler
  <2>4. StatusCurrent'
    <3>1. ASSUME NEW t \in Tick, tick[t].pc = "status"
          PROVE  watch'.stalls = 0 /\ \A i \in DOMAIN queue' : queue'[i].src \notin Tick
      BY <1>2, <1>3, <2>3, <3>1 DEF QuietInv, StatusCurrent
    <3> QED
      BY <2>3, <3>1 DEF QuietInv, StatusCurrent
  <2>5. ContractStep
    BY <1>1, Stutters
  <2> QED
    BY <1>1, <2>1, <2>2, <2>4, <2>5 DEF QuietKept, QuietInv
<1> QED
  BY <1>5, <1>6, Zenon DEF GrantLock

LEMMA HandlerQuiet ==
  ASSUME TypeOK, ControlInv, QuietInv, Handler
  PROVE  QuietKept
<1> ~Before
  BY OnlySetup
<1>1. CASE GrantLock
  BY <1>1, GrantQuiet
<1>2. CASE NothingToRead \/ HandlerReturns
  <2>1. /\ ~Before' /\ UNCHANGED <<kv, queue>> /\ Release(watch) /\ watch \in WatchState
    BY <1>2 DEF NothingToRead, HandlerReturns, store, Before, TypeOK
  <2> QED
    BY <2>1, ReleaseStill, SameRecord
<1>3. CASE ReadMessage
  <2> DEFINE m == srv[h.cur.sid].msg
  <2>1. /\ ~Before' /\ UNCHANGED queue /\ h.pc = "read"
    BY <1>3 DEF ReadMessage, Before
  <2>2. m \in Message
    BY <1>3 DEF ReadMessage, ControlInv, SidInv, TypeOK, SessionRec
  <2>3. CASE HandlerTerminates(h.cur, "error_max_retries")
    <3>1. h.cur \in LoopState /\ h.cur.iter = kv.iter /\ Active
      BY <2>1 DEF TypeOK, HandlerState, QuietInv, Undisturbed, Working
    <3> QED
      BY <2>1, <2>3, <3>1, HandlerEndsQuiet DEF Reason, InterruptKind
  <2>4. CASE CodingStep(m) \/ AuditingStep(m)
    BY <2>1, <2>2, <2>4, PhaseQuiet
  <2> QED
    BY <1>3, <2>3, <2>4 DEF ReadMessage
<1>4. CASE AuditPrompted \/ ContinuationPrompted
  <2> DEFINE w == [watch EXCEPT !.stalls = 0]
  <2>1. /\ ~Before' /\ UNCHANGED <<kv, queue>> /\ Release(w)
    BY <1>4 DEF AuditPrompted, ContinuationPrompted, store, Before
  <2>2. w \in WatchState /\ w.stalls = 0
    BY DEF TypeOK, WatchState
  <2> HIDE DEF w
  <2> QED
    BY <2>1, <2>2, ReleaseStill, SameRecord
<1>5. CASE AuditFailed \/ ContinuationFailed
  <2>1. ~Before' /\ UNCHANGED queue /\ \E retry : HandlerPromptError(retry)
    BY <1>5 DEF AuditFailed, ContinuationFailed, Before
  <2> QED
    BY <2>1, PromptErrorQuiet
<1>6. ASSUME NEW s \in Session, SessionRotated(s) PROVE QuietKept
  <2>1. h'.pc = "prompt" /\ watch'.stalls = 0
    BY <1>6 DEF SessionRotated, TypeOK, HandlerState, Watching
  <2> QED
    BY <1>6, <2>1, IteratesQuiet DEF SessionRotated, Before
<1>7. CASE RotationFailed
  <2>1. h'.pc = "prompt" /\ h.cur.sid \in Session \cup {NoSession}
    BY <1>7 DEF RotationFailed, TypeOK, HandlerState, LoopState
  <2> QED
    BY <1>7, <2>1, IteratesQuiet DEF RotationFailed, Before
<1>8. ASSUME NEW s \in Session, Recovered(s) PROVE QuietKept
  <2>1. /\ h.cur \in LoopState /\ h.pc = "recreate" /\ Working /\ Active
        /\ h.cur.st = "active" /\ h.cur.iter = kv.iter
        /\ h.cur.reason = "none" /\ kv.reason = "none"
    BY <1>8 DEF Recovered, TypeOK, HandlerState, QuietInv, Undisturbed, Working, Active
  <2>2. /\ kv'.st = "active" /\ kv'.iter = kv.iter /\ kv'.reason = "none"
        /\ h'.pc = "prompt" /\ watch'.stalls = 0
    BY <1>8, <2>1 DEF Recovered, LoopState, TypeOK, HandlerState, Watching
  <2>3. ContractStep /\ Undisturbed'
    BY <2>1, <2>2, Stutters DEF Undisturbed, Active
  <2> QED
    BY <1>8, <2>1, <2>2, <2>3, WorksOn DEF Recovered, QuietKept, Before
<1>9. CASE ContextOverflow
  <2>1. /\ ~Before' /\ UNCHANGED <<kv, queue, tick, watch>> /\ Working /\ Active
        /\ h'.pc = "recreate" /\ h'.cur = kv /\ kv.reason = "none"
    BY <1>9 DEF ContextOverflow, store, Before, TypeOK, HandlerState, Working, QuietInv, Active
  <2>2. ContractStep /\ Undisturbed'
    BY <2>1, Stutters DEF Undisturbed, Active
  <2> QED
    BY <2>1, <2>2, WorksOn DEF QuietKept
<1>10. CASE NotRecovered
  <2>1. /\ ~Before' /\ UNCHANGED <<kv, queue>> /\ Working /\ watch \in WatchState
    BY <1>10 DEF NotRecovered, store, Before, Working, TypeOK
  <2>2. CASE ~Active
    BY <1>10, <2>1, <2>2, ReleaseStill, SameRecord DEF NotRecovered
  <2>3. CASE Active
    <3>1. /\ h'.pc = "prompt" /\ UNCHANGED <<tick, watch>> /\ kv.reason = "none"
      BY <1>10, <2>3 DEF NotRecovered, TypeOK, HandlerState, QuietInv, Active
    <3>2. ContractStep /\ Undisturbed'
      BY <2>1, <2>3, <3>1, Stutters DEF Undisturbed, Active
    <3> QED
      BY <2>1, <3>1, <3>2, WorksOn DEF QuietKept
  <2> QED
    BY <2>2, <2>3
<1> QED
  BY <1>1, <1>2, <1>3, <1>4, <1>5, <1>6, <1>7, <1>8, <1>9, <1>10 DEF Handler

LEMMA WatchdogQuiet ==
  ASSUME TypeOK, QuietInv, Quiet, NEW t \in Tick, Watchdog(t)
  PROVE  QuietKept
<1> ~Before
  BY OnlySetup
<1>1. /\ ~Before' /\ UNCHANGED h
  BY DEF Watchdog, WatchdogFires, SessionBusy, Stalled, StallTimeout, StallReturns, Before
<1>2. tick \in [Tick -> TickState] /\ watch.stalls \in Nat
  BY DEF TypeOK, WatchState
<1>3. CASE WatchdogFires(t)
  <2>1. UNCHANGED <<kv, queue>>
    BY <1>3 DEF WatchdogFires, store
  <2>2. CASE ~Active
    BY <1>1, <1>3, <2>1, <2>2, SameRecord DEF WatchdogFires, WatchStill, NoNewTick, NotWatching
  <2>3. CASE Active
    <3>1. /\ queue = <<>> /\ ~Working /\ watch'.stalls = watch.stalls
          /\ \A u \in Tick : tick[u].pc # "status"
          /\ tick' = [tick EXCEPT ![t] = [pc |-> "status", snap |-> kv]]
      BY <1>3, <2>3 DEF WatchdogFires, Quiet, Working, TypeOK, WatchState
    <3>2. StatusCurrent'
      BY <1>1, <1>2, <2>1, <2>3, <3>1 DEF StatusCurrent, Working, Active
    <3>3. Beginning' /\ Undisturbed' /\ ContractStep
      BY <1>1, <2>1, Stutters DEF Beginning, Before, Undisturbed, Working, Active, QuietInv
    <3> QED
      BY <2>1, <3>2, <3>3 DEF QuietKept, QuietInv
  <2> QED
    BY <2>2, <2>3
<1>4. CASE SessionBusy(t) \/ StallReturns(t)
  <2>1. /\ UNCHANGED <<kv, queue>> /\ watch'.stalls = watch.stalls
        /\ \A u \in Tick : tick'[u] = tick[u] \/ tick'[u].pc # "status"
    BY <1>2, <1>4 DEF SessionBusy, StallReturns, store, IdleTick, TypeOK, WatchState
  <2> QED
    BY <1>1, <2>1, SameRecord DEF WatchStill, NoNewTick
<1>5. CASE Stalled(t)
  <2>1. \A u \in Tick : tick'[u].pc # "status"
    BY <1>2, <1>5 DEF Stalled, QuietInv, StatusCurrent
  <2>2. UNCHANGED kv
    BY <1>5 DEF Stalled, store
  <2>3. StatusCurrent'
    BY <2>1 DEF StatusCurrent
  <2>4. Beginning' /\ Undisturbed' /\ ContractStep
    BY <1>1, <2>2, Stutters DEF Beginning, Before, Undisturbed, Working, Active, QuietInv
  <2> QED
    BY <2>2, <2>3, <2>4 DEF QuietKept, QuietInv
<1>6. CASE StallTimeout(t)
  <2>1. watch.stalls # 0
    BY <1>2, <1>6, ConstantsAssumption DEF StallTimeout
  <2>2. ~Working /\ Active /\ tick[t].snap.iter = kv.iter
    BY <1>6, <2>1 DEF StallTimeout, QuietInv, StatusCurrent
  <2>3. /\ tick[t].snap \in LoopState /\ Terminate(tick[t].snap, "stall_timeout")
        /\ UNCHANGED queue /\ \A u \in Tick : tick'[u] = tick[u] \/ tick'[u].pc # "status"
    BY <1>2, <1>6 DEF StallTimeout, TickState
  <2> QED
    BY <1>1, <2>2, <2>3, EndsKept DEF Working, Reason
<1> QED
  BY <1>3, <1>4, <1>5, <1>6 DEF Watchdog

LEMMA RetriesQuiet ==
  ASSUME TypeOK, QuietInv, Quiet, Retries
  PROVE  QuietKept
<1> ~Before
  BY OnlySetup
<1> SUFFICES ASSUME NEW r \in Retry, RetryFires(r) \/ RetryPrompted(r) \/ RetryFailed(r)
             PROVE  QuietKept
  BY DEF Retries
<1>1. UNCHANGED <<queue, h, tick, setup>>
  BY DEF RetryFires, RetryPrompted, RetryFailed
<1>2. UNCHANGED watch /\ kv'.st = kv.st /\ kv'.iter = kv.iter /\ kv'.reason = kv.reason
  <2>1. CASE RetryFires(r) \/ RetryPrompted(r)
    BY <2>1 DEF RetryFires, RetryPrompted, store
  <2>2. CASE RetryFailed(r)
    <3>1. ASSUME NEW again, CountError(again)
          PROVE  kv'.st = kv.st /\ kv'.iter = kv.iter /\ kv'.reason = kv.reason
      BY <3>1 DEF CountError, TypeOK, LoopState
    <3> QED
      BY <2>2, <3>1 DEF RetryFailed, Quiet, store
  <2> QED
    BY <2>1, <2>2
<1> QED
  BY <1>1, <1>2, SameRecord DEF WatchStill, NoNewTick, Before

LEMMA InterruptQuiet ==
  ASSUME TypeOK, QuietInv, Quiet, Interrupt
  PROVE  QuietKept
<1>1. ProcessRestart
  BY DEF Interrupt, Quiet, Cancel, UserAbort, WorktreeFailed
<1>2. /\ h'.pc = "none" /\ setup' = "done" /\ \A t \in Tick : tick'[t].pc = "none"
  BY <1>1 DEF ProcessRestart, NoHandler, IdleTick
<1>3. Beginning' /\ Undisturbed' /\ StatusCurrent'
  BY <1>2 DEF Beginning, Before, Undisturbed, Working, StatusCurrent
<1>4. /\ kv'.st # "ended" => kv'.reason = "none"
      /\ ContractStep
  <2>1. CASE Active
    <3>1. kv'.st = "ended" /\ kv'.iter = kv.iter /\ kv'.reason = "shutdown"
      BY <1>1, <2>1 DEF ProcessRestart, TypeOK, LoopState
    <3> QED
      BY <2>1, <3>1 DEF ContractStep, Contract!End, Active, Reason, InterruptKind
  <2>2. CASE ~Active
    BY <1>1, <2>2, Stutters DEF ProcessRestart, QuietInv
  <2> QED
    BY <2>1, <2>2
<1> QED
  BY <1>3, <1>4 DEF QuietKept, QuietInv

LEMMA StepQuiet ==
  ASSUME TypeOK, ControlInv, QuietInv, Quiet, [Next]_vars
  PROVE  QuietKept
<1>1. CASE UNCHANGED <<kv, queue, h, watch, tick, timer, strays, resend, setup, srv>>
  <2>1. Beginning' /\ Undisturbed' /\ StatusCurrent'
    BY <1>1 DEF QuietInv, Beginning, Before, Undisturbed, StatusCurrent, Working, Active
  <2> QED
    BY <1>1, <2>1, Stutters DEF QuietKept, QuietInv
<1>2. ASSUME NEW why \in Reason, Cleanup(why) PROVE QuietKept
  BY <1>1, <1>2 DEF Cleanup, store, world, memory, timers
<1>3. CASE UNCHANGED vars
  BY <1>1, <1>3 DEF vars
<1> QED
  BY <1>2, <1>3, SetupQuiet, ServerQuiet, HandlerQuiet, WatchdogQuiet, RetriesQuiet,
     InterruptQuiet DEF Next

(***************************************************************************)
(* Whatever the limits, the messages, the retries and the lost events: as  *)
(* long as nothing but a shutdown ends the loop outside the state lock, a  *)
(* loop begins once, runs one iteration at a time and at most              *)
(* maxIterations, and ends for good (hooks/loop.ts).                       *)
(***************************************************************************)
THEOREM ImplementsContract ==
  ASSUME Quiet
  PROVE  Spec => KeepsContract
<1>1. Init => Contract!Init /\ QuietInv
  BY DEF Init, Contract!Init, QuietInv, Beginning, Undisturbed, StatusCurrent, Working,
         Before, NoLoop, NoHandler, NotWatching, IdleTick, FreeSession
<1>2. TypeOK /\ ControlInv /\ QuietInv /\ [Next]_vars => QuietInv'
  BY StepQuiet DEF QuietKept
<1>3. TypeOK /\ ControlInv /\ QuietInv /\ [Next]_vars
        => [Contract!Begin \/ Contract!Withdraw \/ Contract!Iterate \/ Contract!End]_(Contract!vars)
  BY StepQuiet DEF QuietKept, ContractStep
<1>4. Spec => Contract!Spec
  BY InvHolds, <1>1, <1>2, <1>3, PTL DEF Spec, Contract!Spec
<1> QED
  BY <1>4 DEF KeepsContract
=============================================================================
