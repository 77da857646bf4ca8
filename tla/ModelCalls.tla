----------------------------- MODULE ModelCalls -----------------------------
(***************************************************************************)
(* A prompt is sent through retryWithModelFallback                         *)
(* (src/src/utils/model-fallback.ts): the configured model and then its    *)
(* fallbacks are tried, each a few times, and at last the prompt is sent   *)
(* with no model at all.  With a recovery manager every attempt goes       *)
(* through withRecovery (src/src/runtime/session-recovery.ts), which has   *)
(* retry counters of its own for a full context window, a timeout and an   *)
(* overloaded provider.  The module follows one such call; the answers of  *)
(* the server, the outcome of a compaction and whether the caller gave a   *)
(* recovery manager and a compaction callback are chosen by the            *)
(* environment.                                                            *)
(***************************************************************************)
EXTENDS Naturals

CONSTANTS MaxCandidates,  \* longest chain of models a caller configures
          MaxRetries,     \* attempts per candidate (options.maxRetries)
          MaxContext,     \* SessionRecoveryPolicy.maxContextRetries
          MaxTimeout,     \* SessionRecoveryPolicy.maxTimeoutRetries
          MaxOverload     \* SessionRecoveryPolicy.maxOverloadRetries

ASSUME CallAssumption ==
  /\ MaxCandidates \in Nat /\ MaxRetries \in Nat \ {0}
  /\ MaxContext \in Nat /\ MaxTimeout \in Nat /\ MaxOverload \in Nat

VARIABLES call,         \* the running retryWithModelFallback
          sends,        \* prompts sent so far
          compactions   \* compactions asked for, per candidate

callVars == <<call, sends, compactions>>

CallErrorKind == {"context_window", "timeout", "overloaded", "provider", "unknown"}

\* What the code is waiting for: nothing yet, a prompt sent with a candidate,
\* the compaction callback, a backoff, the prompt sent without a model, or
\* nothing any more.
CallPc == {"idle", "calling", "compacting", "sleeping", "plain", "done"}

CallState ==
  [pc : CallPc, managed : BOOLEAN, hook : BOOLEAN, chain : 0 .. MaxCandidates,
   candidate : Nat, attempt : 1 .. MaxRetries, recovered : BOOLEAN,
   context : 0 .. MaxContext, timeout : 0 .. MaxTimeout, overload : 0 .. MaxOverload,
   ok : BOOLEAN]

NoCall ==
  [pc |-> "idle", managed |-> FALSE, hook |-> FALSE, chain |-> 0,
   candidate |-> 0, attempt |-> 1, recovered |-> FALSE,
   context |-> 0, timeout |-> 0, overload |-> 0, ok |-> FALSE]

CallInit == /\ call = NoCall
            /\ sends = 0
            /\ compactions = [c \in 1 .. MaxCandidates |-> 0]

\* A fresh withRecovery: its counters are locals of one attempt.
Fresh(c) == [c EXCEPT !.context = 0, !.timeout = 0, !.overload = 0]

\* The prompt goes out with the candidate (or with no model).
Send(c) == call' = c /\ sends' = sends + 1

(***************************************************************************)
(* retryWithModelFallback is called.  Without any candidate the prompt is  *)
(* sent once, without a model.                                             *)
(***************************************************************************)
BeginCall(managed, hook, n) ==
  /\ call.pc = "idle"
  /\ \/ n = 0 /\ Send([NoCall EXCEPT !.pc = "plain", !.managed = managed, !.hook = hook])
     \/ n > 0 /\ Send([NoCall EXCEPT !.pc = "calling", !.managed = managed, !.hook = hook,
                                     !.chain = n, !.candidate = 1])
  /\ UNCHANGED compactions

\* The answer carries no error: the call returns it.
CallSucceeds ==
  /\ call.pc \in {"calling", "plain"}
  /\ call' = [call EXCEPT !.pc = "done", !.ok = TRUE]
  /\ UNCHANGED <<sends, compactions>>

\* The attempt of candidate c failed for good: the next attempt, the next
\* candidate with a compaction of its own, or the prompt without a model.
AttemptFailed(c) ==
  \/ /\ c.attempt < MaxRetries
     /\ Send([Fresh(c) EXCEPT !.pc = "calling", !.attempt = c.attempt + 1])
  \/ /\ c.attempt = MaxRetries /\ c.candidate < c.chain
     /\ Send([Fresh(c) EXCEPT !.pc = "calling", !.candidate = c.candidate + 1,
                              !.attempt = 1, !.recovered = FALSE])
  \/ /\ c.attempt = MaxRetries /\ c.candidate = c.chain
     /\ Send([Fresh(c) EXCEPT !.pc = "plain"])

\* The callback is asked for a compaction of the current candidate.
Compact(c) ==
  /\ call' = c
  /\ compactions' = [compactions EXCEPT ![c.candidate] = @ + 1]
  /\ UNCHANGED sends

\* A defect to check the property with: it is not looked at whether the
\* candidate has been compacted.
UnmanagedFailsAgain(kind) ==
  LET compacts == kind = "context_window" /\ call.hook
  IN  /\ call.pc = "calling" /\ ~call.managed
      /\ \/ /\ compacts
            /\ Compact([call EXCEPT !.pc = "compacting", !.recovered = TRUE])
         \/ /\ ~compacts
            /\ AttemptFailed(call)
            /\ UNCHANGED compactions

(***************************************************************************)
(* An error without a recovery manager: a full context window is compacted *)
(* once per candidate if the caller gave a callback, any other error fails *)
(* the attempt.                                                            *)
(***************************************************************************)
UnmanagedFails(kind) ==
  LET compacts == kind = "context_window" /\ call.hook /\ ~call.recovered
  IN  /\ call.pc = "calling" /\ ~call.managed
      /\ \/ /\ compacts
            /\ Compact([call EXCEPT !.pc = "compacting", !.recovered = TRUE])
         \/ /\ ~compacts
            /\ AttemptFailed(call)
            /\ UNCHANGED compactions

(***************************************************************************)
(* withRecovery's switch for a full context window.  The wrapper of the    *)
(* callback answers "not recovered" without compacting when the candidate  *)
(* has been compacted already.                                             *)
(***************************************************************************)
ContextOverflow ==
  LET counted == [call EXCEPT !.context = @ + 1]
  IN  /\ call.pc = "calling" /\ call.managed
      /\ \/ /\ call.context < MaxContext /\ ~call.hook
            /\ Send(counted)
            /\ UNCHANGED compactions
         \/ /\ call.context < MaxContext /\ call.hook /\ ~call.recovered
            /\ Compact([counted EXCEPT !.pc = "compacting", !.recovered = TRUE])
         \/ /\ call.context < MaxContext => call.hook /\ call.recovered
            /\ AttemptFailed(call)
            /\ UNCHANGED compactions

\* The two transient errors: a backoff and the same prompt again, until the
\* counter of the kind is used up.
TransientError(kind) ==
  /\ call.pc = "calling" /\ call.managed
  /\ UNCHANGED compactions
  /\ \/ /\ kind = "timeout" /\ call.timeout < MaxTimeout
        /\ call' = [call EXCEPT !.pc = "sleeping", !.timeout = @ + 1]
        /\ UNCHANGED sends
     \/ /\ kind = "overloaded" /\ call.overload < MaxOverload
        /\ call' = [call EXCEPT !.pc = "sleeping", !.overload = @ + 1]
        /\ UNCHANGED sends
     \/ /\ kind = "timeout" => call.timeout = MaxTimeout
        /\ kind = "overloaded" => call.overload = MaxOverload
        /\ AttemptFailed(call)

\* A provider error or an unknown one is left to the chain of models.
ProviderError ==
  /\ call.pc = "calling" /\ call.managed
  /\ AttemptFailed(call)
  /\ UNCHANGED compactions

ManagedFails(kind) ==
  \/ kind = "context_window" /\ ContextOverflow
  \/ kind \in {"timeout", "overloaded"} /\ TransientError(kind)
  \/ kind \in {"provider", "unknown"} /\ ProviderError

\* The backoff is over: withRecovery calls the model again.
BackoffEnds ==
  /\ call.pc = "sleeping"
  /\ Send([call EXCEPT !.pc = "calling"])
  /\ UNCHANGED compactions

(***************************************************************************)
(* The compaction ends.  Recovered: withRecovery calls again, the loop     *)
(* without a manager goes to its next attempt.  Not recovered, or the      *)
(* callback threw: the attempt has failed.                                 *)
(***************************************************************************)
CompactionEnds(recovered) ==
  /\ call.pc = "compacting"
  /\ UNCHANGED compactions
  /\ \/ /\ call.managed /\ recovered
        /\ Send([call EXCEPT !.pc = "calling"])
     \/ /\ call.managed => ~recovered
        /\ AttemptFailed(call)

\* The prompt without a model failed: its error is the result.
PlainFails ==
  /\ call.pc = "plain"
  /\ call' = [call EXCEPT !.pc = "done"]
  /\ UNCHANGED <<sends, compactions>>

\* The result is the caller's; the next call starts from nothing.
CallReturns ==
  /\ call.pc = "done"
  /\ call' = NoCall
  /\ sends' = 0
  /\ compactions' = [c \in 1 .. MaxCandidates |-> 0]

CallNext ==
  \/ \E managed, hook \in BOOLEAN, n \in 0 .. MaxCandidates : BeginCall(managed, hook, n)
  \/ CallSucceeds
  \/ \E kind \in CallErrorKind : UnmanagedFails(kind) \/ ManagedFails(kind)
  \/ BackoffEnds
  \/ \E recovered \in BOOLEAN : CompactionEnds(recovered)
  \/ PlainFails
  \/ CallReturns

CallSpec == CallInit /\ [][CallNext]_callVars

-----------------------------------------------------------------------------
\* The state of a call has the types the code gives it.
CallTypeOK ==
  /\ call \in CallState
  /\ call.candidate <= call.chain
  /\ sends \in Nat
  /\ compactions \in [1 .. MaxCandidates -> Nat]

\* Prompts one attempt may send, and one candidate.
PerAttempt == 1 + MaxContext + MaxTimeout + MaxOverload
PerCandidate == MaxRetries * PerAttempt

(***************************************************************************)
(* The three retry counters, the attempts and the chain of models nest: a  *)
(* provider that keeps failing, in whatever order the kinds of errors      *)
(* come, is sent at most PerCandidate prompts per configured model and one *)
(* without a model; and no model's context is compacted twice              *)
(* (model-fallback.ts:117-211, session-recovery.ts:98-205).                *)
(***************************************************************************)
CallsBounded ==
  /\ sends <= call.chain * PerCandidate + 1
  /\ \A c \in 1 .. MaxCandidates : compactions[c] <= 1
=============================================================================
