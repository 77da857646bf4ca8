-------------------------- MODULE ModelCallsProofs --------------------------
(***************************************************************************)
(* CallsBounded holds for every chain of models and every setting of the   *)
(* retry counters.  It is not inductive: how many prompts have been sent   *)
(* says nothing of how many may follow.  The invariant CallInv ties them   *)
(* to the position of the call: the candidates left behind have used       *)
(* PerCandidate prompts each, the attempts left behind PerAttempt each,    *)
(* and the running attempt as many as its counters say.                    *)
(***************************************************************************)
EXTENDS ModelCalls, Sessions, ToolHooks, Harness, ToolCalls, Integers,
        FiniteSetTheorems, SequenceTheorems, WellFoundedInduction, TLAPS

\* Prompts the candidates and attempts before the current one may have sent.
Before(c) == (c.candidate - 1) * PerCandidate + (c.attempt - 1) * PerAttempt

\* Retries that withRecovery has counted in the current attempt.
Counted(c) == c.context + c.timeout + c.overload

\* The prompts sent, by what the call waits for.
SendsInv ==
  /\ call.pc = "idle" => sends = 0 /\ call = NoCall
  /\ call.pc = "calling" => sends <= Before(call) + Counted(call) + 1
  /\ call.pc = "sleeping" => call.managed /\ sends <= Before(call) + Counted(call)
  /\ call.pc = "compacting" =>
       sends <= Before(call) + Counted(call) + (IF call.managed THEN 0 ELSE 1)
  /\ call.pc \in {"plain", "done"} => sends <= call.chain * PerCandidate + 1
  /\ call.pc \in {"calling", "sleeping", "compacting"} => call.candidate >= 1

\* A candidate not reached has not been compacted, the current one exactly
\* when the call remembers it.
CompactionsInv ==
  \A c \in 1 .. MaxCandidates :
    /\ compactions[c] <= 1
    /\ c > call.candidate => compactions[c] = 0
    /\ c = call.candidate /\ ~call.recovered => compactions[c] = 0

CallInv == CallTypeOK /\ SendsInv /\ CompactionsInv

-----------------------------------------------------------------------------
(* Arithmetic *)

LEMMA Distributes ==
  ASSUME NEW a \in Int, NEW k \in Int
  PROVE  (a + 1) * k = a * k + k
  OBVIOUS

LEMMA MonotoneProduct ==
  ASSUME NEW a \in Nat, NEW b \in Nat, NEW k \in Nat, a <= b
  PROVE  a * k <= b * k
<1>1. b - a \in Nat
  OBVIOUS
<1>2. (b - a) * k \in Nat
  BY <1>1
<1>3. b * k = a * k + (b - a) * k
  OBVIOUS
<1>4. a * k \in Nat /\ b * k \in Nat
  OBVIOUS
<1> QED
  BY <1>2, <1>3, <1>4

LEMMA LimitsTyped ==
  /\ PerAttempt \in Nat /\ PerAttempt >= 1
  /\ PerCandidate \in Nat
  /\ PerCandidate = (MaxRetries - 1) * PerAttempt + PerAttempt
<1>1. PerAttempt \in Nat /\ PerAttempt >= 1
  BY CallAssumption DEF PerAttempt
<1>2. MaxRetries - 1 \in Nat /\ MaxRetries \in Nat
  BY CallAssumption
<1>3. PerCandidate = (MaxRetries - 1) * PerAttempt + PerAttempt
  BY <1>1, <1>2, Distributes, MaxRetries = (MaxRetries - 1) + 1 DEF PerCandidate
<1>4. PerCandidate \in Nat
  BY <1>1, <1>2 DEF PerCandidate
<1> QED
  BY <1>1, <1>3, <1>4

LEMMA BeforeTyped ==
  ASSUME NEW c \in CallState, c.candidate >= 1
  PROVE  /\ Before(c) \in Nat
         /\ (c.candidate - 1) * PerCandidate \in Nat
         /\ (c.attempt - 1) * PerAttempt \in Nat
<1>1. c.candidate - 1 \in Nat /\ c.attempt - 1 \in Nat
  BY CallAssumption DEF CallState
<1> QED
  BY <1>1, LimitsTyped DEF Before

LEMMA CountedBounded ==
  ASSUME NEW c \in CallState
  PROVE  Counted(c) \in Nat /\ Counted(c) + 1 <= PerAttempt
  BY CallAssumption DEF CallState, Counted, PerAttempt

-----------------------------------------------------------------------------
(* The next attempt, the next candidate or the prompt without a model *)

LEMMA AttemptFailedTyped ==
  ASSUME CallTypeOK, NEW c \in CallState, c.candidate <= c.chain, AttemptFailed(c)
  PROVE  call' \in CallState /\ call'.candidate <= call'.chain /\ sends' \in Nat
<1>1. sends' \in Nat
  BY DEF AttemptFailed, Send, CallTypeOK
<1>2. Fresh(c) \in CallState /\ Fresh(c).candidate = c.candidate /\ Fresh(c).chain = c.chain
  <2>1. 0 \in 0 .. MaxContext /\ 0 \in 0 .. MaxTimeout /\ 0 \in 0 .. MaxOverload
    BY CallAssumption
  <2> DEFINE d == [c EXCEPT !.context = 0]
             e == [d EXCEPT !.timeout = 0]
  <2>3. d \in CallState /\ d.candidate = c.candidate /\ d.chain = c.chain
    BY <2>1 DEF CallState
  <2>4. e \in CallState /\ e.candidate = c.candidate /\ e.chain = c.chain
    BY <2>1, <2>3 DEF CallState
  <2>5. Fresh(c) = [e EXCEPT !.overload = 0]
    BY DEF Fresh
  <2> HIDE DEF d, e
  <2> QED
    BY <2>1, <2>4, <2>5 DEF CallState
<1>3. CASE c.attempt < MaxRetries /\ Send([Fresh(c) EXCEPT !.pc = "calling", !.attempt = c.attempt + 1])
  <2>1. c.attempt + 1 \in 1 .. MaxRetries
    BY <1>3, CallAssumption DEF CallState
  <2> QED
    BY <1>1, <1>2, <1>3, <2>1 DEF Send, CallState, CallPc
<1>4. CASE /\ c.attempt = MaxRetries /\ c.candidate < c.chain
           /\ Send([Fresh(c) EXCEPT !.pc = "calling", !.candidate = c.candidate + 1,
                                    !.attempt = 1, !.recovered = FALSE])
  <2>1. c.candidate + 1 \in Nat /\ 1 \in 1 .. MaxRetries /\ c.candidate + 1 <= c.chain
    BY <1>4, CallAssumption DEF CallState
  <2> QED
    BY <1>1, <1>2, <1>4, <2>1 DEF Send, CallState, CallPc
<1>5. CASE Send([Fresh(c) EXCEPT !.pc = "plain"])
  BY <1>1, <1>2, <1>5 DEF Send, CallState, CallPc
<1> QED
  BY <1>3, <1>4, <1>5 DEF AttemptFailed

LEMMA AttemptFailedSends ==
  ASSUME CallTypeOK, NEW c \in CallState, c.candidate >= 1, c.candidate <= c.chain,
         sends <= Before(c) + PerAttempt, AttemptFailed(c)
  PROVE  SendsInv'
<1>0. sends \in Nat /\ Before(c) \in Nat /\ c.candidate \in Nat /\ c.attempt \in Nat
  <2>1. c.candidate \in Nat /\ c.attempt \in Nat
    BY CallAssumption DEF CallState
  <2> QED
    BY <2>1, BeforeTyped DEF CallTypeOK
<1>1. CASE c.attempt < MaxRetries /\ Send([Fresh(c) EXCEPT !.pc = "calling", !.attempt = c.attempt + 1])
  <2>1. /\ call'.pc = "calling" /\ call'.candidate = c.candidate /\ call'.attempt = c.attempt + 1
        /\ Counted(call') = 0 /\ sends' = sends + 1
    BY <1>1 DEF Send, Fresh, Counted, CallState
  <2>2. Before(call') = Before(c) + PerAttempt
    <3>1. c.attempt * PerAttempt = (c.attempt - 1) * PerAttempt + PerAttempt
      BY <1>0, LimitsTyped, Distributes, c.attempt - 1 \in Int, c.attempt = (c.attempt - 1) + 1
    <3>2. Before(call') = (c.candidate - 1) * PerCandidate + c.attempt * PerAttempt
      BY <2>1, <1>0 DEF Before
    <3>3. /\ (c.candidate - 1) * PerCandidate \in Nat
          /\ (c.attempt - 1) * PerAttempt \in Nat
      BY BeforeTyped
    <3> QED
      BY <3>1, <3>2, <3>3, LimitsTyped DEF Before
  <2> QED
    BY <2>1, <2>2, <1>0, LimitsTyped DEF SendsInv
<1>2. CASE /\ c.attempt = MaxRetries /\ c.candidate < c.chain
           /\ Send([Fresh(c) EXCEPT !.pc = "calling", !.candidate = c.candidate + 1,
                                    !.attempt = 1, !.recovered = FALSE])
  <2>1. /\ call'.pc = "calling" /\ call'.candidate = c.candidate + 1 /\ call'.attempt = 1
        /\ Counted(call') = 0 /\ sends' = sends + 1
    BY <1>2 DEF Send, Fresh, Counted, CallState
  <2>2. Before(call') = Before(c) + PerAttempt
    <3>1. c.candidate * PerCandidate = (c.candidate - 1) * PerCandidate + PerCandidate
      BY <1>0, LimitsTyped, Distributes, c.candidate - 1 \in Int, c.candidate = (c.candidate - 1) + 1
    <3>2. Before(call') = c.candidate * PerCandidate + 0 * PerAttempt
      BY <2>1, <1>0 DEF Before
    <3>3. Before(c) = (c.candidate - 1) * PerCandidate + (MaxRetries - 1) * PerAttempt
      BY <1>2 DEF Before
    <3>4. 0 * PerAttempt = 0
      BY LimitsTyped
    <3>5. /\ (c.candidate - 1) * PerCandidate \in Nat
          /\ (MaxRetries - 1) * PerAttempt \in Nat
      BY <1>2, BeforeTyped
    <3> QED
      BY <3>1, <3>2, <3>3, <3>4, <3>5, LimitsTyped
  <2> QED
    BY <2>1, <2>2, <1>0, LimitsTyped DEF SendsInv
<1>3. CASE /\ c.attempt = MaxRetries /\ c.candidate = c.chain
           /\ Send([Fresh(c) EXCEPT !.pc = "plain"])
  <2>1. call'.pc = "plain" /\ call'.chain = c.candidate /\ sends' = sends + 1
    BY <1>3 DEF Send, Fresh, CallState
  <2>2. c.candidate * PerCandidate = Before(c) + PerAttempt
    <3>1. c.candidate * PerCandidate = (c.candidate - 1) * PerCandidate + PerCandidate
      BY <1>0, LimitsTyped, Distributes, c.candidate - 1 \in Int, c.candidate = (c.candidate - 1) + 1
    <3>2. Before(c) = (c.candidate - 1) * PerCandidate + (MaxRetries - 1) * PerAttempt
      BY <1>3 DEF Before
    <3>3. /\ (c.candidate - 1) * PerCandidate \in Nat
          /\ (MaxRetries - 1) * PerAttempt \in Nat
      BY <1>3, BeforeTyped
    <3> QED
      BY <3>1, <3>2, <3>3, LimitsTyped
  <2> QED
    BY <2>1, <2>2, <1>0, LimitsTyped DEF SendsInv
<1> QED
  BY <1>1, <1>2, <1>3 DEF AttemptFailed

-----------------------------------------------------------------------------
(* Type correctness *)

LEMMA CallInitTyped == CallInit => CallTypeOK
  BY CallAssumption DEF CallInit, CallTypeOK, CallState, CallPc, NoCall

LEMMA CallStepTyped ==
  ASSUME CallTypeOK, [CallNext]_callVars
  PROVE  CallTypeOK'
<1>0. call \in CallState /\ call.candidate <= call.chain /\ sends \in Nat
  BY DEF CallTypeOK
<1>1. ASSUME AttemptFailed(call) PROVE call' \in CallState /\ call'.candidate <= call'.chain /\ sends' \in Nat
  BY <1>0, <1>1, AttemptFailedTyped
<1>2. compactions' \in [1 .. MaxCandidates -> Nat]
  <2>1. \/ UNCHANGED compactions
        \/ compactions' = [c \in 1 .. MaxCandidates |-> 0]
        \/ \E i : compactions' = [compactions EXCEPT ![i] = @ + 1]
    <3>1. ASSUME NEW c, Compact(c) PROVE \E i : compactions' = [compactions EXCEPT ![i] = @ + 1]
      BY <3>1 DEF Compact
    <3> QED
      BY <3>1, Zenon
      DEF CallNext, callVars, BeginCall, CallSucceeds, UnmanagedFails, ManagedFails, ContextOverflow,
          TransientError, ProviderError, BackoffEnds, CompactionEnds, PlainFails, CallReturns
  <2>2. ASSUME NEW i, compactions' = [compactions EXCEPT ![i] = @ + 1]
        PROVE  compactions' \in [1 .. MaxCandidates -> Nat]
    <3>1. \A j \in 1 .. MaxCandidates : compactions'[j] \in Nat
      BY <2>2 DEF CallTypeOK
    <3> QED
      BY <2>2, <3>1 DEF CallTypeOK
  <2> QED
    BY <2>1, <2>2 DEF CallTypeOK
<1>3. call' \in CallState /\ call'.candidate <= call'.chain /\ sends' \in Nat
  <2>1. ASSUME NEW managed \in BOOLEAN, NEW hook \in BOOLEAN, NEW n \in 0 .. MaxCandidates,
               BeginCall(managed, hook, n)
        PROVE  call' \in CallState /\ call'.candidate <= call'.chain /\ sends' \in Nat
    <3>1. NoCall \in CallState /\ NoCall.candidate = 0 /\ NoCall.chain = 0
      BY CallAssumption DEF NoCall, CallState, CallPc
    <3> DEFINE plain == [NoCall EXCEPT !.pc = "plain", !.managed = managed, !.hook = hook]
               first == [NoCall EXCEPT !.pc = "calling", !.managed = managed, !.hook = hook,
                                       !.chain = n, !.candidate = 1]
    <3>2. \/ call' = plain /\ sends' = sends + 1
          \/ n > 0 /\ call' = first /\ sends' = sends + 1
      BY <2>1, Zenon DEF BeginCall, Send
    <3>3. plain \in CallState /\ plain.candidate = 0 /\ plain.chain = 0
      BY <3>1 DEF CallState, CallPc
    <3>4. first \in CallState /\ first.candidate = 1 /\ first.chain = n
      BY <3>1 DEF CallState, CallPc
    <3> HIDE DEF plain, first
    <3> QED
      BY <1>0, <3>2, <3>3, <3>4, CallAssumption
  <2>2. ASSUME CallSucceeds \/ PlainFails
        PROVE  call' \in CallState /\ call'.candidate <= call'.chain /\ sends' \in Nat
    BY <1>0, <2>2 DEF CallSucceeds, PlainFails, CallState, CallPc
  <2>3. ASSUME NEW kind \in CallErrorKind, UnmanagedFails(kind)
        PROVE  call' \in CallState /\ call'.candidate <= call'.chain /\ sends' \in Nat
    <3>1. CASE Compact([call EXCEPT !.pc = "compacting", !.recovered = TRUE])
      BY <1>0, <3>1 DEF Compact, CallState, CallPc
    <3> QED
      BY <1>1, <2>3, <3>1 DEF UnmanagedFails
  <2>4. ASSUME ContextOverflow
        PROVE  call' \in CallState /\ call'.candidate <= call'.chain /\ sends' \in Nat
    <3> DEFINE counted == [call EXCEPT !.context = @ + 1]
    <3>1. ASSUME call.context < MaxContext
          PROVE  counted \in CallState /\ counted.candidate = call.candidate /\ counted.chain = call.chain
      <4>1. call.context + 1 \in 0 .. MaxContext
        BY <1>0, <3>1, CallAssumption DEF CallState
      <4> QED
        BY <1>0, <4>1 DEF CallState
    <3> HIDE DEF counted
    <3>2. CASE call.context < MaxContext /\ Send(counted)
      BY <1>0, <3>1, <3>2 DEF Send
    <3>3. CASE call.context < MaxContext /\ Compact([counted EXCEPT !.pc = "compacting", !.recovered = TRUE])
      BY <1>0, <3>1, <3>3 DEF Compact, CallState, CallPc
    <3> QED
      BY <1>1, <2>4, <3>2, <3>3 DEF ContextOverflow, counted
  <2>5. ASSUME NEW kind \in CallErrorKind, TransientError(kind)
        PROVE  call' \in CallState /\ call'.candidate <= call'.chain /\ sends' \in Nat
    <3>1. CASE /\ call.timeout < MaxTimeout
               /\ call' = [call EXCEPT !.pc = "sleeping", !.timeout = @ + 1]
               /\ UNCHANGED sends
      <4>1. call.timeout + 1 \in 0 .. MaxTimeout
        BY <1>0, <3>1, CallAssumption DEF CallState
      <4> QED
        BY <1>0, <3>1, <4>1 DEF CallState, CallPc
    <3>2. CASE /\ call.overload < MaxOverload
               /\ call' = [call EXCEPT !.pc = "sleeping", !.overload = @ + 1]
               /\ UNCHANGED sends
      <4>1. call.overload + 1 \in 0 .. MaxOverload
        BY <1>0, <3>2, CallAssumption DEF CallState
      <4> QED
        BY <1>0, <3>2, <4>1 DEF CallState, CallPc
    <3> QED
      BY <1>1, <2>5, <3>1, <3>2 DEF TransientError
  <2>6. ASSUME BackoffEnds
        PROVE  call' \in CallState /\ call'.candidate <= call'.chain /\ sends' \in Nat
    BY <1>0, <2>6 DEF BackoffEnds, Send, CallState, CallPc
  <2>7. ASSUME NEW recovered \in BOOLEAN, CompactionEnds(recovered)
        PROVE  call' \in CallState /\ call'.candidate <= call'.chain /\ sends' \in Nat
    <3>1. CASE Send([call EXCEPT !.pc = "calling"])
      BY <1>0, <3>1 DEF Send, CallState, CallPc
    <3> QED
      BY <1>1, <2>7, <3>1 DEF CompactionEnds
  <2>8. ASSUME CallReturns
        PROVE  call' \in CallState /\ call'.candidate <= call'.chain /\ sends' \in Nat
    BY <2>8, CallAssumption DEF CallReturns, NoCall, CallState, CallPc
  <2>9. CASE UNCHANGED callVars
    BY <1>0, <2>9 DEF callVars
  <2> QED
    BY <1>1, <2>1, <2>2, <2>3, <2>4, <2>5, <2>6, <2>7, <2>8, <2>9
    DEF CallNext, ManagedFails, ProviderError
<1> QED
  BY <1>2, <1>3 DEF CallTypeOK

\* The state of a call always has its types.
THEOREM CallsTyped == CallSpec => []CallTypeOK
<1>1. CallTypeOK /\ [CallNext]_callVars => CallTypeOK'
  BY CallStepTyped
<1> QED
  BY CallInitTyped, <1>1, PTL DEF CallSpec

-----------------------------------------------------------------------------
(* The prompts sent *)

LEMMA SendsInvStep ==
  ASSUME CallTypeOK, SendsInv, [CallNext]_callVars
  PROVE  SendsInv'
<1>0. call \in CallState /\ call.candidate <= call.chain /\ sends \in Nat
  BY DEF CallTypeOK
<1>1. ASSUME call.pc \in {"calling", "compacting"}, AttemptFailed(call) PROVE SendsInv'
  <2>1. Before(call) \in Nat /\ call.candidate >= 1
    BY <1>0, <1>1, BeforeTyped DEF SendsInv
  <2>2. sends <= Before(call) + PerAttempt
    BY <1>0, <1>1, <2>1, CountedBounded, LimitsTyped DEF SendsInv
  <2> QED
    BY <1>0, <1>1, <2>1, <2>2, AttemptFailedSends
<1>2. ASSUME NEW managed \in BOOLEAN, NEW hook \in BOOLEAN, NEW n \in 0 .. MaxCandidates,
             BeginCall(managed, hook, n)
      PROVE  SendsInv'
  <2>1. sends' = 1 /\ call'.pc \in {"plain", "calling"} /\ call'.chain = n /\ n \in Nat
    <3>1. sends = 0 /\ n \in Nat
      BY <1>2, CallAssumption DEF BeginCall, SendsInv
    <3>2. CASE n = 0 /\ Send([NoCall EXCEPT !.pc = "plain", !.managed = managed, !.hook = hook])
      BY <3>1, <3>2 DEF Send, NoCall
    <3>3. CASE Send([NoCall EXCEPT !.pc = "calling", !.managed = managed, !.hook = hook,
                                   !.chain = n, !.candidate = 1])
      BY <3>1, <3>3 DEF Send, NoCall
    <3> QED
      BY <1>2, <3>2, <3>3 DEF BeginCall
  <2>2. n * PerCandidate \in Nat
    BY <2>1, LimitsTyped
  <2>3. CASE call'.pc = "plain"
    BY <2>1, <2>2, <2>3 DEF SendsInv
  <2>4. CASE call'.pc = "calling"
    <3>1. call'.candidate = 1 /\ call'.attempt = 1 /\ Counted(call') = 0
      <4>1. CASE Send([NoCall EXCEPT !.pc = "plain", !.managed = managed, !.hook = hook])
        BY <2>4, <4>1 DEF Send, NoCall
      <4>2. CASE Send([NoCall EXCEPT !.pc = "calling", !.managed = managed, !.hook = hook,
                                     !.chain = n, !.candidate = 1])
        BY <4>2 DEF Send, NoCall, Counted
      <4> QED
        BY <1>2, <4>1, <4>2, Zenon DEF BeginCall
    <3>2. Before(call') = 0 * PerCandidate + 0 * PerAttempt
      BY <3>1 DEF Before
    <3>3. Before(call') = 0
      BY <3>2, LimitsTyped
    <3> QED
      BY <2>1, <2>4, <3>1, <3>3 DEF SendsInv
  <2> QED
    BY <2>1, <2>3, <2>4
<1>3. ASSUME CallSucceeds \/ PlainFails PROVE SendsInv'
  <2>1. call'.pc = "done" /\ call'.chain = call.chain /\ sends' = sends
    BY <1>0, <1>3 DEF CallSucceeds, PlainFails, CallState
  <2>2. sends <= call.chain * PerCandidate + 1
    <3>1. CASE call.pc = "calling"
      <4>1. call.candidate - 1 \in Nat /\ call.candidate \in Nat /\ call.chain \in Nat
        BY <1>0, <3>1, CallAssumption DEF SendsInv, CallState
      <4>2. Before(call) + PerAttempt <= call.candidate * PerCandidate
        <5>1. call.candidate * PerCandidate = (call.candidate - 1) * PerCandidate + PerCandidate
          BY <4>1, LimitsTyped, Distributes, call.candidate = (call.candidate - 1) + 1
        <5>2. /\ call.attempt - 1 \in Nat /\ MaxRetries - 1 \in Nat
              /\ call.attempt - 1 <= MaxRetries - 1
          BY <1>0, CallAssumption DEF CallState
        <5>3. (call.attempt - 1) * PerAttempt <= (MaxRetries - 1) * PerAttempt
          BY <5>2, LimitsTyped, MonotoneProduct
        <5>4. /\ (call.candidate - 1) * PerCandidate \in Nat
              /\ (call.attempt - 1) * PerAttempt \in Nat
              /\ (MaxRetries - 1) * PerAttempt \in Nat
          BY <4>1, <5>2, LimitsTyped
        <5> QED
          BY <5>1, <5>3, <5>4, LimitsTyped DEF Before
      <4>3. call.candidate * PerCandidate <= call.chain * PerCandidate
        BY <1>0, <4>1, LimitsTyped, MonotoneProduct
      <4>4. Before(call) \in Nat /\ call.candidate * PerCandidate \in Nat /\ call.chain * PerCandidate \in Nat
        BY <1>0, <3>1, <4>1, BeforeTyped, LimitsTyped DEF SendsInv
      <4>5. sends <= Before(call) + PerAttempt
        BY <1>0, <3>1, <4>4, CountedBounded, LimitsTyped DEF SendsInv
      <4> QED
        BY <1>0, <4>2, <4>3, <4>4, <4>5, LimitsTyped
    <3>2. CASE call.pc = "plain"
      BY <3>2 DEF SendsInv
    <3> QED
      BY <1>3, <3>1, <3>2 DEF CallSucceeds, PlainFails
  <2> QED
    BY <2>1, <2>2 DEF SendsInv
<1>4. ASSUME NEW kind \in CallErrorKind, UnmanagedFails(kind) PROVE SendsInv'
  <2>1. CASE Compact([call EXCEPT !.pc = "compacting", !.recovered = TRUE])
    <3>1. /\ call'.pc = "compacting" /\ Before(call') = Before(call) /\ Counted(call') = Counted(call)
          /\ call'.managed = call.managed /\ call'.candidate = call.candidate /\ sends' = sends
      BY <1>0, <2>1 DEF Compact, Before, Counted, CallState
    <3> QED
      BY <1>4, <3>1 DEF SendsInv, UnmanagedFails
  <2> QED
    BY <1>1, <1>4, <2>1 DEF UnmanagedFails
<1>5. ASSUME ContextOverflow PROVE SendsInv'
  <2>0. Counted(call) \in Nat /\ Before(call) \in Nat
    BY <1>0, <1>5, BeforeTyped, CountedBounded DEF SendsInv, ContextOverflow
  <2>1. CASE Send([call EXCEPT !.context = @ + 1])
    <3>1. /\ call'.pc = "calling" /\ Before(call') = Before(call) /\ Counted(call') = Counted(call) + 1
          /\ call'.candidate = call.candidate /\ sends' = sends + 1
      BY <1>0, <1>5, <2>1 DEF ContextOverflow, Send, Before, Counted, CallState
    <3> QED
      BY <1>0, <1>5, <2>0, <3>1 DEF SendsInv, ContextOverflow
  <2>2. CASE Compact([[call EXCEPT !.context = @ + 1] EXCEPT !.pc = "compacting", !.recovered = TRUE])
    <3>1. /\ call'.pc = "compacting" /\ Before(call') = Before(call) /\ Counted(call') = Counted(call) + 1
          /\ call'.managed = call.managed /\ call'.candidate = call.candidate /\ sends' = sends
      BY <1>0, <2>2 DEF Compact, Before, Counted, CallState
    <3> QED
      BY <1>0, <1>5, <2>0, <3>1 DEF SendsInv, ContextOverflow
  <2> QED
    BY <1>1, <1>5, <2>1, <2>2 DEF ContextOverflow
<1>6. ASSUME NEW kind \in CallErrorKind, TransientError(kind) PROVE SendsInv'
  <2>0. Counted(call) \in Nat /\ Before(call) \in Nat
    BY <1>0, <1>6, BeforeTyped, CountedBounded DEF SendsInv, TransientError
  <2>1. CASE /\ \/ call' = [call EXCEPT !.pc = "sleeping", !.timeout = @ + 1]
                \/ call' = [call EXCEPT !.pc = "sleeping", !.overload = @ + 1]
             /\ UNCHANGED sends
    <3>1. /\ call'.pc = "sleeping" /\ Before(call') = Before(call) /\ Counted(call') = Counted(call) + 1
          /\ call'.managed = call.managed /\ call'.candidate = call.candidate /\ sends' = sends
      <4>1. CASE call' = [call EXCEPT !.pc = "sleeping", !.timeout = @ + 1]
        BY <1>0, <2>1, <4>1, CallAssumption DEF Before, Counted, CallState
      <4>2. CASE call' = [call EXCEPT !.pc = "sleeping", !.overload = @ + 1]
        BY <1>0, <2>1, <4>2, CallAssumption DEF Before, Counted, CallState
      <4> QED
        BY <2>1, <4>1, <4>2
    <3> QED
      BY <1>0, <1>6, <2>0, <3>1 DEF SendsInv, TransientError
  <2> QED
    BY <1>1, <1>6, <2>1 DEF TransientError
<1>7. ASSUME ProviderError PROVE SendsInv'
  BY <1>1, <1>7 DEF ProviderError
<1>8. ASSUME BackoffEnds \/ \E recovered \in BOOLEAN : CompactionEnds(recovered) PROVE SendsInv'
  <2>0. Counted(call) \in Nat /\ Before(call) \in Nat
    BY <1>0, <1>8, BeforeTyped, CountedBounded DEF SendsInv, BackoffEnds, CompactionEnds
  <2>1. CASE call.managed /\ call.pc \in {"sleeping", "compacting"} /\ Send([call EXCEPT !.pc = "calling"])
    <3>1. /\ call'.pc = "calling" /\ Before(call') = Before(call) /\ Counted(call') = Counted(call)
          /\ call'.candidate = call.candidate /\ sends' = sends + 1
      BY <1>0, <2>1 DEF Send, Before, Counted, CallState
    <3> QED
      BY <1>0, <2>0, <2>1, <3>1 DEF SendsInv
  <2> QED
    BY <1>1, <1>8, <2>1 DEF BackoffEnds, CompactionEnds, SendsInv
<1>9. ASSUME CallReturns PROVE SendsInv'
  BY <1>9 DEF CallReturns, NoCall, SendsInv
<1>10. CASE UNCHANGED callVars
  BY <1>10 DEF callVars, SendsInv, Before, Counted
<1> QED
  BY <1>2, <1>3, <1>4, <1>5, <1>6, <1>7, <1>8, <1>9, <1>10 DEF CallNext, ManagedFails

-----------------------------------------------------------------------------
(* The compactions asked for *)

\* What CompactionsInv says of the compactions m and the call c.
Once(m, c) ==
  \A k \in 1 .. MaxCandidates :
    /\ m[k] <= 1
    /\ k > c.candidate => m[k] = 0
    /\ k = c.candidate /\ ~c.recovered => m[k] = 0

LEMMA OnceMoves ==
  ASSUME CallTypeOK, Once(compactions, call), UNCHANGED compactions,
         call'.candidate \in Nat,
         \/ call'.candidate = call.candidate /\ call'.recovered = call.recovered
         \/ call'.candidate = call.candidate + 1
  PROVE  Once(compactions', call')
<1>1. call.candidate \in Nat
  BY DEF CallTypeOK, CallState
<1> QED
  BY <1>1 DEF Once

LEMMA OnceFailed ==
  ASSUME CallTypeOK, Once(compactions, call), UNCHANGED compactions,
         NEW c \in CallState, c.candidate = call.candidate, c.recovered = call.recovered,
         AttemptFailed(c)
  PROVE  Once(compactions', call')
<1>1. CASE Send([Fresh(c) EXCEPT !.pc = "calling", !.attempt = c.attempt + 1])
  BY <1>1, OnceMoves DEF Send, Fresh, CallState
<1>2. CASE Send([Fresh(c) EXCEPT !.pc = "calling", !.candidate = c.candidate + 1,
                                 !.attempt = 1, !.recovered = FALSE])
  BY <1>2, OnceMoves DEF Send, Fresh, CallState
<1>3. CASE Send([Fresh(c) EXCEPT !.pc = "plain"])
  BY <1>3, OnceMoves DEF Send, Fresh, CallState
<1> QED
  BY <1>1, <1>2, <1>3 DEF AttemptFailed

LEMMA OnceCompacts ==
  ASSUME CallTypeOK, Once(compactions, call), ~call.recovered,
         NEW c, c.candidate = call.candidate, c.recovered = TRUE, Compact(c)
  PROVE  Once(compactions', call')
<1>1. /\ call' = c /\ call.candidate \in Nat
      /\ compactions \in [1 .. MaxCandidates -> Nat]
      /\ compactions' = [compactions EXCEPT ![call.candidate] = @ + 1]
  BY DEF Compact, CallTypeOK, CallState
<1>2. SUFFICES ASSUME NEW k \in 1 .. MaxCandidates
               PROVE  compactions'[k] <= 1 /\ (k > call.candidate => compactions'[k] = 0)
  BY <1>1 DEF Once
<1>3. CASE k = call.candidate
  BY <1>1, <1>3 DEF Once
<1>4. CASE k # call.candidate
  BY <1>1, <1>4 DEF Once
<1> QED
  BY <1>3, <1>4

LEMMA CompactionsInvStep ==
  ASSUME CallTypeOK, SendsInv, CompactionsInv, [CallNext]_callVars
  PROVE  CompactionsInv'
<1>0. /\ call \in CallState /\ call.candidate \in Nat
      /\ Once(compactions, call)
      /\ CompactionsInv' <=> Once(compactions', call')
  BY DEF CallTypeOK, CallState, CompactionsInv, Once
<1>1. ASSUME UNCHANGED compactions, AttemptFailed(call) PROVE Once(compactions', call')
  BY <1>0, <1>1, OnceFailed
<1>2. ASSUME UNCHANGED compactions, call'.candidate = call.candidate, call'.recovered = call.recovered
      PROVE  Once(compactions', call')
  BY <1>0, <1>2, OnceMoves
<1>3. ASSUME NEW managed \in BOOLEAN, NEW hook \in BOOLEAN, NEW n \in 0 .. MaxCandidates,
             BeginCall(managed, hook, n)
      PROVE  Once(compactions', call')
  <2>1. call.candidate = 0 /\ call.recovered = FALSE /\ UNCHANGED compactions
    BY <1>3 DEF BeginCall, SendsInv, NoCall
  <2>2. \A k \in 1 .. MaxCandidates : compactions[k] = 0
    BY <1>0, <2>1, CallAssumption DEF Once
  <2> QED
    BY <2>1, <2>2 DEF Once
<1>4. ASSUME CallSucceeds \/ PlainFails \/ BackoffEnds PROVE Once(compactions', call')
  BY <1>0, <1>2, <1>4 DEF CallSucceeds, PlainFails, BackoffEnds, Send, CallState
<1>5. ASSUME NEW kind \in CallErrorKind, UnmanagedFails(kind) PROVE Once(compactions', call')
  <2>1. CASE ~call.recovered /\ Compact([call EXCEPT !.pc = "compacting", !.recovered = TRUE])
    BY <1>0, <2>1, OnceCompacts DEF CallState
  <2> QED
    BY <1>1, <1>5, <2>1 DEF UnmanagedFails
<1>6. ASSUME ContextOverflow PROVE Once(compactions', call')
  <2>1. CASE Send([call EXCEPT !.context = @ + 1]) /\ UNCHANGED compactions
    BY <1>0, <1>2, <2>1 DEF Send, CallState
  <2>2. CASE /\ ~call.recovered
             /\ Compact([[call EXCEPT !.context = @ + 1] EXCEPT !.pc = "compacting", !.recovered = TRUE])
    BY <1>0, <2>2, OnceCompacts DEF CallState
  <2> QED
    BY <1>1, <1>6, <2>1, <2>2 DEF ContextOverflow
<1>7. ASSUME NEW kind \in CallErrorKind, TransientError(kind) PROVE Once(compactions', call')
  <2>1. CASE call' = [call EXCEPT !.pc = "sleeping", !.timeout = @ + 1] /\ UNCHANGED compactions
    BY <1>0, <1>2, <2>1 DEF CallState
  <2>2. CASE call' = [call EXCEPT !.pc = "sleeping", !.overload = @ + 1] /\ UNCHANGED compactions
    BY <1>0, <1>2, <2>2 DEF CallState
  <2> QED
    BY <1>1, <1>7, <2>1, <2>2 DEF TransientError
<1>8. ASSUME NEW recovered \in BOOLEAN, CompactionEnds(recovered) PROVE Once(compactions', call')
  <2>1. CASE Send([call EXCEPT !.pc = "calling"]) /\ UNCHANGED compactions
    BY <1>0, <1>2, <2>1 DEF Send, CallState
  <2> QED
    BY <1>1, <1>8, <2>1 DEF CompactionEnds
<1>9. ASSUME CallReturns PROVE Once(compactions', call')
  BY <1>9 DEF CallReturns, Once
<1>10. CASE UNCHANGED callVars
  BY <1>0, <1>10 DEF callVars
<1> QED
  BY <1>0, <1>1, <1>3, <1>4, <1>5, <1>6, <1>7, <1>8, <1>9, <1>10
  DEF CallNext, ManagedFails, ProviderError

-----------------------------------------------------------------------------
LEMMA CallInvInit == CallInit => CallInv
  BY CallInitTyped DEF CallInit, CallInv, SendsInv, CompactionsInv, NoCall

LEMMA CallInvStep ==
  ASSUME CallInv, [CallNext]_callVars
  PROVE  CallInv'
  BY CallStepTyped, SendsInvStep, CompactionsInvStep DEF CallInv

LEMMA CallInvBounds ==
  ASSUME CallInv
  PROVE  CallsBounded
<1>0. call \in CallState /\ call.candidate <= call.chain /\ sends \in Nat
  BY DEF CallInv, CallTypeOK
<1>1. call.chain \in Nat /\ call.candidate \in Nat /\ call.chain * PerCandidate \in Nat
  BY <1>0, LimitsTyped, CallAssumption DEF CallState
<1>2. sends <= call.chain * PerCandidate + 1
  <2>1. CASE call.pc \in {"calling", "sleeping", "compacting"}
    <3>0. call.candidate - 1 \in Nat /\ Before(call) \in Nat
      BY <1>0, <1>1, <2>1, BeforeTyped DEF CallInv, SendsInv
    <3>1. sends <= Before(call) + PerAttempt
      BY <1>0, <2>1, <3>0, CountedBounded, LimitsTyped DEF CallInv, SendsInv
    <3>2. Before(call) + PerAttempt <= call.candidate * PerCandidate
      <4>1. call.candidate * PerCandidate = (call.candidate - 1) * PerCandidate + PerCandidate
        <5>1. call.candidate = (call.candidate - 1) + 1
          BY <1>1
        <5>2. ((call.candidate - 1) + 1) * PerCandidate
                = (call.candidate - 1) * PerCandidate + PerCandidate
          BY <3>0, LimitsTyped, Distributes
        <5> QED
          BY <5>1, <5>2
      <4>2. /\ call.attempt - 1 \in Nat /\ MaxRetries - 1 \in Nat
            /\ call.attempt - 1 <= MaxRetries - 1
        BY <1>0, CallAssumption DEF CallState
      <4>3. (call.attempt - 1) * PerAttempt <= (MaxRetries - 1) * PerAttempt
        BY <4>2, LimitsTyped, MonotoneProduct
      <4>4. /\ (call.candidate - 1) * PerCandidate \in Nat
            /\ (call.attempt - 1) * PerAttempt \in Nat
            /\ (MaxRetries - 1) * PerAttempt \in Nat
        BY <3>0, <4>2, LimitsTyped
      <4> QED
        BY <4>1, <4>3, <4>4, LimitsTyped DEF Before
    <3>3. call.candidate * PerCandidate <= call.chain * PerCandidate
      BY <1>0, <1>1, LimitsTyped, MonotoneProduct
    <3>4. call.candidate * PerCandidate \in Nat
      BY <1>1, LimitsTyped
    <3> QED
      BY <1>0, <1>1, <3>0, <3>1, <3>2, <3>3, <3>4, LimitsTyped
  <2>2. CASE call.pc = "idle"
    BY <1>1, <2>2 DEF CallInv, SendsInv
  <2>3. CASE call.pc \in {"plain", "done"}
    BY <2>3 DEF CallInv, SendsInv
  <2> QED
    BY <1>0, <2>1, <2>2, <2>3 DEF CallState, CallPc
<1> QED
  BY <1>2 DEF CallsBounded, CallInv, CompactionsInv

\* Whatever errors the server answers and in whatever order, a call sends a
\* bounded number of prompts and compacts for a model at most once.
THEOREM CallsAreBounded == CallSpec => []CallsBounded
<1>1. CallInv /\ [CallNext]_callVars => CallInv'
  BY CallInvStep
<1>2. CallInv => CallsBounded
  BY CallInvBounds
<1> QED
  BY CallInvInit, <1>1, <1>2, PTL DEF CallSpec

-----------------------------------------------------------------------------
(***************************************************************************)
(* RetriedOnce holds for every number of messages. It is not inductive: a  *)
(* text is sent again by a retry that was scheduled earlier. The invariant *)
(* RetryInv counts, for each text, the retries sent and the retries still  *)
(* waiting against the messages that are marked as retried: every retry is *)
(* paid for by a mark, and a mark is made once.                            *)
(***************************************************************************)
\* Of the messages with one text: the retries, those a retry waits for, and
\* those that count as retried.
Retries(text) == {m \in Messages : messages[m].text = text /\ messages[m].by = "retry"}
Awaited(text) == {m \in Messages : messages[m].text = text /\ backoff[m] > 0}
MarkedRetried(text) == {m \in Messages : messages[m].text = text /\ m \in retried}

Spent(text) == Cardinality(Retries(text)) + Cardinality(Awaited(text)) <= Cardinality(MarkedRetried(text))

Sent == {m \in Messages : messages[m].by # "nobody"}

\* The messages are numbered in the order of arrival and have a text.
Numbered ==
  /\ Newest \in 0 .. MaxMessages
  /\ \A m \in Messages : m \in Sent <=> m <= Newest
  /\ \A m \in Sent : messages[m].text \in Messages

\* A retry waits only for a message that is marked, and for each of them once.
Backoffs ==
  /\ backoff \in [Messages -> {0, 1}]
  /\ \A m \in Messages : backoff[m] = 1 => m \in retried

RetryInv ==
  /\ SessionsTypeOK
  /\ asked \in [pc : {"idle", "prompting", "polling", "reading"}, attempt : Nat, continued : BOOLEAN, text : 0 .. MaxMessages]
  /\ budget \in [turns : Nat, failures : Nat]
  /\ Numbered /\ Backoffs
  /\ \A text \in Messages : Spent(text)

LEMMA MessagesFinite == ASSUME NEW S, S \subseteq Messages
                        PROVE  IsFiniteSet(S) /\ Cardinality(S) \in Nat
<1>1. IsFiniteSet(Messages)
  BY SessionsAssumption, FS_Interval DEF Messages
<1> QED
  BY <1>1, FS_Subset, FS_CardinalityType

LEMMA SpentFinite ==
  ASSUME NEW text
  PROVE  /\ IsFiniteSet(Retries(text)) /\ IsFiniteSet(Awaited(text)) /\ IsFiniteSet(MarkedRetried(text))
         /\ Cardinality(Retries(text)) \in Nat /\ Cardinality(Awaited(text)) \in Nat
         /\ Cardinality(MarkedRetried(text)) \in Nat
BY MessagesFinite DEF Retries, Awaited, MarkedRetried

\* A message that is not sent yet belongs to none of the sets.
LEMMA UnsentUnspent ==
  ASSUME RetryInv, NEW n \in Messages, n = Newest + 1, NEW text
  PROVE  n \notin Sent /\ n \notin retried /\ backoff[n] = 0
         /\ n \notin Retries(text) /\ n \notin Awaited(text) /\ n \notin MarkedRetried(text)
<1>1. n \notin Sent
  BY DEF RetryInv, Numbered
<1>2. n \notin retried
  BY DEF RetryInv, SessionsTypeOK, Numbered
<1>3. backoff[n] = 0
  BY <1>2 DEF RetryInv, Backoffs
<1> QED
  BY <1>1, <1>2, <1>3 DEF Sent, Retries, Awaited, MarkedRetried

\* A prompt is the next message; and the types it leaves.
LEMMA PromptSends ==
  ASSUME RetryInv, NEW by \in {"user", "tool", "retry"}, NEW text \in 0 .. MaxMessages, Prompt(by, text)
  PROVE  /\ Newest + 1 \in Messages /\ Newest' = Newest + 1
         /\ Numbered'
         /\ messages' \in [Messages -> [by : {"nobody", "user", "tool", "retry"}, text : 0 .. MaxMessages]]
         /\ \A m \in Messages : m # Newest + 1 => messages'[m] = messages[m]
         /\ messages'[Newest + 1] = [by |-> by, text |-> IF text = 0 THEN Newest + 1 ELSE text]
         /\ budget' \in [turns : Nat, failures : Nat] /\ budget'.turns = Newest' /\ snapshot'.state = budget'
         /\ turn' \in [busy : BOOLEAN, answer : 0 .. Newest']
<1> DEFINE n == Newest + 1
           new == [by |-> by, text |-> IF text = 0 THEN n ELSE text]
<1>1. n \in Messages /\ messages' = [messages EXCEPT ![n] = new]
      /\ turn' = [turn EXCEPT !.busy = TRUE]
      /\ budget' = [budget EXCEPT !.turns = @ + 1] /\ snapshot'.state = budget'
  BY DEF Prompt, Recorded
<1>2. new \in [by : {"nobody", "user", "tool", "retry"}, text : 0 .. MaxMessages]
      /\ new.by = by /\ new.text \in Messages
  BY <1>1, SessionsAssumption DEF Messages
<1> HIDE DEF new
<1>3. messages' \in [Messages -> [by : {"nobody", "user", "tool", "retry"}, text : 0 .. MaxMessages]]
      /\ messages'[n] = new /\ \A m \in Messages : m # n => messages'[m] = messages[m]
  BY <1>1, <1>2 DEF RetryInv, SessionsTypeOK
<1>4. Sent' = Sent \cup {n}
  BY <1>1, <1>2, <1>3 DEF Sent
<1>5. n \notin Sent
  BY <1>1, UnsentUnspent
<1>6. Newest = Cardinality(Sent) /\ Newest' = Cardinality(Sent') /\ Newest \in Nat
  BY DEF Newest, Sent, RetryInv, Numbered
<1>7. IsFiniteSet(Sent)
  BY MessagesFinite DEF Sent
<1>8. Newest' = n
  BY <1>4, <1>5, <1>6, <1>7, FS_AddElement
<1>9. Numbered'
  <2>1. Newest' \in 0 .. MaxMessages
    BY <1>1, <1>8, SessionsAssumption DEF Messages
  <2>2. ASSUME NEW m \in Messages PROVE m \in Sent' <=> m <= n
    <3>1. m \in Nat /\ (m \in Sent <=> m <= Newest)
      BY DEF RetryInv, Numbered, Messages
    <3> QED
      BY <1>4, <1>6, <3>1
  <2>3. \A m \in Sent' : messages'[m].text \in Messages
    BY <1>2, <1>3, <1>4 DEF RetryInv, Numbered, Sent
  <2> QED
    BY <1>8, <2>1, <2>2, <2>3 DEF Numbered
<1>10. budget' \in [turns : Nat, failures : Nat] /\ budget'.turns = n
  BY <1>1 DEF RetryInv, SessionsTypeOK
<1>11. turn' \in [busy : BOOLEAN, answer : 0 .. n]
  <2>1. turn \in [busy : BOOLEAN, answer : 0 .. Newest] /\ 0 .. Newest \subseteq 0 .. n
    BY <1>6 DEF RetryInv, SessionsTypeOK
  <2>2. turn.answer \in 0 .. n
    BY <2>1
  <2> QED
    BY <1>1, <2>1, <2>2
<1> QED
  BY <1>1, <1>3, <1>8, <1>9, <1>10, <1>11 DEF new

\* A prompt of anybody but the hook leaves the sets as they are.
LEMMA OtherPrompts ==
  ASSUME RetryInv, NEW by \in {"user", "tool"}, NEW text \in 0 .. MaxMessages, Prompt(by, text),
         UNCHANGED retryVars,
         asked' \in [pc : {"idle", "prompting", "polling", "reading"}, attempt : Nat, continued : BOOLEAN, text : 0 .. MaxMessages]
  PROVE  RetryInv'
<1> DEFINE n == Newest + 1
<1>1. /\ n \in Messages /\ Newest' = n /\ Numbered'
      /\ messages' \in [Messages -> [by : {"nobody", "user", "tool", "retry"}, text : 0 .. MaxMessages]]
      /\ \A k \in Messages : k # n => messages'[k] = messages[k]
      /\ messages'[n] = [by |-> by, text |-> IF text = 0 THEN n ELSE text]
      /\ budget' \in [turns : Nat, failures : Nat] /\ budget'.turns = Newest' /\ snapshot'.state = budget'
      /\ turn' \in [busy : BOOLEAN, answer : 0 .. Newest']
  BY PromptSends
<1>2. UNCHANGED <<errors, seen, retried, backoff>>
  BY DEF retryVars
<1>3. n \notin retried /\ backoff[n] = 0
  BY <1>1, UnsentUnspent
<1>4. SessionsTypeOK'
  BY <1>1, <1>2 DEF SessionsTypeOK, RetryInv, Numbered
<1>5. Backoffs'
  BY <1>2 DEF Backoffs, RetryInv
<1>6. ASSUME NEW t \in Messages PROVE Spent(t)'
  <2>1. n \notin Retries(t)
    BY <1>1, UnsentUnspent
  <2>2. Retries(t)' = Retries(t)
    <3>1. messages'[n].by # "retry"
      BY <1>1
    <3> QED
      BY <1>1, <2>1, <3>1 DEF Retries
  <2>3. Awaited(t)' = Awaited(t)
    BY <1>1, <1>2, <1>3 DEF Awaited
  <2>4. MarkedRetried(t)' = MarkedRetried(t)
    BY <1>1, <1>2, <1>3 DEF MarkedRetried
  <2> QED
    BY <2>2, <2>3, <2>4 DEF Spent, RetryInv
<1> QED
  BY <1>1, <1>4, <1>5, <1>6 DEF RetryInv

\* What leaves the messages alone.
LEMMA NoPrompt ==
  ASSUME RetryInv, UNCHANGED messages
  PROVE  Newest' = Newest /\ Numbered'
BY DEF RetryInv, Numbered, Newest, Sent

\* What leaves the sets alone as well.
LEMMA SetsStay ==
  ASSUME RetryInv, UNCHANGED <<messages, retried, backoff>>
  PROVE  Newest' = Newest /\ Numbered' /\ Backoffs' /\ \A t \in Messages : Spent(t)'
<1>1. Newest' = Newest /\ Numbered'
  BY NoPrompt
<1>2. Backoffs'
  BY DEF RetryInv, Backoffs
<1>3. ASSUME NEW t \in Messages PROVE Spent(t)'
  BY DEF RetryInv, Spent, Retries, Awaited, MarkedRetried
<1> QED
  BY <1>1, <1>2, <1>3

\* The event marks the message and its retry begins to wait.
LEMMA EventMarks ==
  ASSUME RetryInv, NEW error \in ErrorNames, ErrorEvent(error)
  PROVE  RetryInv'
<1>1. Newest' = Newest /\ Numbered'
  BY NoPrompt DEF ErrorEvent, promptVars
<1>2. errors' \in [ErrorNames -> 0 .. MaxErrors]
  BY SessionsAssumption DEF RetryInv, SessionsTypeOK, ErrorEvent
<1>3. CASE UNCHANGED <<retried, backoff>>
  <2>1. UNCHANGED <<messages, retried, backoff>>
    BY <1>3 DEF ErrorEvent, promptVars
  <2> QED
    BY <1>2, <2>1, SetsStay DEF RetryInv, SessionsTypeOK, ErrorEvent, promptVars
<1>4. CASE /\ seen \notin retried \cup {0}
           /\ retried' = retried \cup {seen} /\ backoff' = [backoff EXCEPT ![seen] = @ + 1]
  <2>1. seen \in 1 .. Newest /\ seen \in Messages
    BY <1>4, SessionsAssumption DEF RetryInv, SessionsTypeOK, Numbered, Messages
  <2>2. backoff[seen] = 0
    BY <1>4, <2>1 DEF RetryInv, Backoffs
  <2>3. backoff' = [backoff EXCEPT ![seen] = 1]
    BY <1>4, <2>1, <2>2 DEF RetryInv, Backoffs
  <2>4. Backoffs'
    BY <1>4, <2>1, <2>3 DEF RetryInv, Backoffs
  <2>5. SessionsTypeOK'
    BY <1>1, <1>2, <1>4, <2>1 DEF RetryInv, SessionsTypeOK, ErrorEvent, promptVars
  <2>6. ASSUME NEW t \in Messages PROVE Spent(t)'
    <3>1. Retries(t)' = Retries(t) /\ messages' = messages
      BY DEF ErrorEvent, promptVars, Retries
    <3>2. CASE messages[seen].text # t
      <4>1. Awaited(t)' = Awaited(t) /\ MarkedRetried(t)' = MarkedRetried(t)
        BY <1>4, <2>1, <2>3, <3>1, <3>2 DEF Awaited, MarkedRetried, RetryInv, Backoffs
      <4> QED
        BY <3>1, <4>1 DEF Spent, RetryInv
    <3>3. CASE messages[seen].text = t
      <4>1. seen \notin Awaited(t) /\ seen \notin MarkedRetried(t)
        BY <1>4, <2>2 DEF Awaited, MarkedRetried
      <4>2. Awaited(t)' = Awaited(t) \cup {seen}
        BY <2>1, <2>3, <3>1, <3>3 DEF Awaited, RetryInv, Backoffs
      <4>3. MarkedRetried(t)' = MarkedRetried(t) \cup {seen}
        BY <1>4, <2>1, <3>1, <3>3 DEF MarkedRetried
      <4>4. Cardinality(Awaited(t)') = Cardinality(Awaited(t)) + 1
            /\ Cardinality(MarkedRetried(t)') = Cardinality(MarkedRetried(t)) + 1
        BY <4>1, <4>2, <4>3, SpentFinite, FS_AddElement
      <4> QED
        BY <3>1, <4>4, SpentFinite DEF Spent, RetryInv
    <3> QED
      BY <3>2, <3>3
  <2> QED
    BY <1>1, <2>4, <2>5, <2>6 DEF RetryInv, ErrorEvent, promptVars
<1> QED
  BY <1>3, <1>4 DEF ErrorEvent

\* The backoff of a message ends.
LEMMA RetryWaitEnds ==
  ASSUME RetryInv, NEW m \in Messages, backoff[m] > 0, backoff' = [backoff EXCEPT ![m] = @ - 1]
  PROVE  backoff' = [backoff EXCEPT ![m] = 0] /\ backoff[m] = 1 /\ m \in retried /\ m \in Sent
<1>1. backoff[m] = 1
  BY DEF RetryInv, Backoffs
<1>2. m \in retried
  BY <1>1 DEF RetryInv, Backoffs
<1>3. m <= Newest
  BY <1>2 DEF RetryInv, SessionsTypeOK, Numbered
<1> QED
  BY <1>1, <1>2, <1>3 DEF RetryInv, Backoffs, Numbered

\* One more retry, and one less that waits.
LEMMA RetryMoves ==
  ASSUME RetryInv, NEW m \in Messages, RetrySent(m)
  PROVE  RetryInv'
<1> DEFINE n == Newest + 1
<1>1. backoff[m] > 0 /\ backoff' = [backoff EXCEPT ![m] = @ - 1] /\ Prompt("retry", messages[m].text)
      /\ UNCHANGED <<errors, seen, retried, asked>>
  BY DEF RetrySent
<1>2. backoff' = [backoff EXCEPT ![m] = 0] /\ backoff[m] = 1 /\ m \in Sent
  BY <1>1, RetryWaitEnds
<1>3. messages[m].text \in Messages /\ messages[m].text \in 0 .. MaxMessages /\ messages[m].text # 0
  BY <1>2, SessionsAssumption DEF RetryInv, Numbered, Messages
<1>4. /\ n \in Messages /\ Newest' = n /\ Numbered'
      /\ messages' \in [Messages -> [by : {"nobody", "user", "tool", "retry"}, text : 0 .. MaxMessages]]
      /\ \A k \in Messages : k # n => messages'[k] = messages[k]
      /\ messages'[n] = [by |-> "retry", text |-> messages[m].text]
      /\ budget' \in [turns : Nat, failures : Nat] /\ budget'.turns = Newest' /\ snapshot'.state = budget'
      /\ turn' \in [busy : BOOLEAN, answer : 0 .. Newest']
  BY <1>1, <1>3, PromptSends
<1>5. n \notin Sent /\ n \notin retried /\ backoff[n] = 0 /\ m # n
  BY <1>2, <1>4, UnsentUnspent
<1>6. SessionsTypeOK'
  BY <1>1, <1>4 DEF SessionsTypeOK, RetryInv, Numbered
<1>7. Backoffs'
  BY <1>1, <1>2 DEF RetryInv, Backoffs
<1>8. ASSUME NEW t \in Messages PROVE Spent(t)'
  <2>1. n \notin Retries(t) /\ n \notin Awaited(t) /\ n \notin MarkedRetried(t)
    BY <1>4, UnsentUnspent
  <2>2. MarkedRetried(t)' = MarkedRetried(t)
    BY <1>1, <1>4, <1>5 DEF MarkedRetried
  <2>3. Awaited(t)' = Awaited(t) \ {m}
    BY <1>2, <1>4, <1>5 DEF Awaited, RetryInv, Backoffs
  <2>4. CASE messages[m].text # t
    <3>1. Retries(t)' = Retries(t)
      BY <1>4, <2>1, <2>4 DEF Retries
    <3>2. Awaited(t)' = Awaited(t)
      BY <2>3, <2>4 DEF Awaited
    <3> QED
      BY <2>2, <3>1, <3>2 DEF Spent, RetryInv
  <2>5. CASE messages[m].text = t
    <3>1. Retries(t)' = Retries(t) \cup {n}
      BY <1>4, <2>1, <2>5 DEF Retries
    <3>2. m \in Awaited(t)
      BY <1>2, <2>5 DEF Awaited
    <3>3. Cardinality(Retries(t)') = Cardinality(Retries(t)) + 1
      BY <2>1, <3>1, SpentFinite, FS_AddElement
    <3>4. Cardinality(Awaited(t)') = Cardinality(Awaited(t)) - 1
      BY <2>3, <3>2, SpentFinite, FS_RemoveElement
    <3> QED
      BY <2>2, <3>3, <3>4, SpentFinite DEF Spent, RetryInv
  <2> QED
    BY <2>4, <2>5
<1> QED
  BY <1>1, <1>4, <1>6, <1>7, <1>8 DEF RetryInv

LEMMA RefusalFrees ==
  ASSUME RetryInv, NEW m \in Messages, RetryRefused(m)
  PROVE  RetryInv'
<1>1. Newest' = Newest /\ Numbered'
  BY NoPrompt DEF RetryRefused, promptVars
<1>2. backoff' = [backoff EXCEPT ![m] = 0] /\ backoff[m] = 1
  BY RetryWaitEnds DEF RetryRefused
<1>3. Backoffs'
  BY <1>2 DEF RetryInv, Backoffs, RetryRefused
<1>4. ASSUME NEW t \in Messages PROVE Spent(t)'
  <2>1. Retries(t)' = Retries(t) /\ MarkedRetried(t)' = MarkedRetried(t)
    BY DEF RetryRefused, promptVars, Retries, MarkedRetried
  <2>2. Awaited(t)' = Awaited(t) \ {m}
    BY <1>2 DEF RetryRefused, promptVars, Awaited, RetryInv, Backoffs
  <2>3. Cardinality(Awaited(t)') <= Cardinality(Awaited(t)) /\ Cardinality(Awaited(t)') \in Nat
    BY <2>2, SpentFinite, FS_RemoveElement, FS_Subset, FS_CardinalityType
  <2> QED
    BY <2>1, <2>3, SpentFinite DEF Spent, RetryInv
<1> QED
  BY <1>1, <1>3, <1>4 DEF RetryInv, SessionsTypeOK, RetryRefused, promptVars

LEMMA SessionsStep ==
  ASSUME RetryInv, [SessionsNext]_sessionVars
  PROVE  RetryInv'
<1> DEFINE AskTyped == asked' \in [pc : {"idle", "prompting", "polling", "reading"}, attempt : Nat, continued : BOOLEAN, text : 0 .. MaxMessages]
<1>0. asked \in [pc : {"idle", "prompting", "polling", "reading"}, attempt : Nat, continued : BOOLEAN, text : 0 .. MaxMessages]
  BY DEF RetryInv
<1>1. CASE UserPrompts
  BY <1>1, <1>0, OtherPrompts, SessionsAssumption DEF UserPrompts
<1>2. CASE Transforms
  <2>1. SessionsTypeOK'
    BY <1>2, SetsStay DEF Transforms, RetryInv, SessionsTypeOK, promptVars, Numbered
  <2> QED
    BY <1>2, <2>1, SetsStay DEF Transforms, RetryInv, promptVars
<1>3. CASE ToolFails
  <2>1. budget' = [budget EXCEPT !.failures = @ + 1] /\ snapshot'.state = budget'
    BY <1>3 DEF ToolFails, Recorded
  <2> QED
    BY <1>3, <2>1, SetsStay DEF ToolFails, RetryInv, SessionsTypeOK, retryVars
<1>4. ASSUME NEW answered \in BOOLEAN, TurnIsOver(answered) PROVE RetryInv'
  <2>1. turn' \in [busy : BOOLEAN, answer : 0 .. Newest]
    BY <1>4 DEF TurnIsOver, RetryInv, SessionsTypeOK, Numbered
  <2> QED
    BY <1>4, <2>1, SetsStay DEF TurnIsOver, RetryInv, SessionsTypeOK, retryVars
<1>5. ASSUME NEW error \in ErrorNames, NEW copies \in {1, 2}, TurnFails(error, copies) PROVE RetryInv'
  <2>1. errors' \in [ErrorNames -> 0 .. MaxErrors]
    BY <1>5, SessionsAssumption DEF TurnFails, RetryInv, SessionsTypeOK
  <2>2. turn' \in [busy : BOOLEAN, answer : 0 .. Newest]
    BY <1>5 DEF TurnFails, RetryInv, SessionsTypeOK
  <2> QED
    BY <1>5, <2>1, <2>2, SetsStay DEF TurnFails, RetryInv, SessionsTypeOK
<1>6. ASSUME NEW error \in ErrorNames, ErrorEvent(error) PROVE RetryInv'
  BY <1>6, EventMarks
<1>7. ASSUME NEW m \in Messages, RetrySent(m) \/ RetryRefused(m) PROVE RetryInv'
  BY <1>7, RetryMoves, RefusalFrees
<1>8. CASE AskInBackground
  BY <1>8, <1>0, OtherPrompts, SessionsAssumption DEF AskInBackground
<1>9. CASE AskPrompts
  <2>1. asked.text \in 0 .. MaxMessages /\ Prompt("tool", asked.text) /\ UNCHANGED retryVars
        /\ asked' = [asked EXCEPT !.pc = "polling", !.text = IF @ = 0 THEN Newest + 1 ELSE @]
    BY <1>9, <1>0 DEF AskPrompts
  <2>2. Newest + 1 \in 0 .. MaxMessages
    BY <2>1, SessionsAssumption DEF Prompt, Messages
  <2>3. AskTyped
    BY <1>0, <2>1, <2>2
  <2> QED
    BY <2>1, <2>3, OtherPrompts
<1>10. ASSUME UNCHANGED <<promptVars, retryVars>>, AskTyped PROVE RetryInv'
  BY <1>10, SetsStay DEF promptVars, retryVars, RetryInv, SessionsTypeOK
<1>11. NoAsk \in [pc : {"idle", "prompting", "polling", "reading"}, attempt : Nat, continued : BOOLEAN, text : 0 .. MaxMessages]
  BY SessionsAssumption DEF NoAsk
<1>12. NextModel(asked) \in [pc : {"idle", "prompting", "polling", "reading"}, attempt : Nat, continued : BOOLEAN, text : 0 .. MaxMessages]
  <2>1. CASE asked.attempt < MaxFallbacks
    <3>1. NextModel(asked) = [asked EXCEPT !.pc = "prompting", !.attempt = @ + 1]
      BY <2>1 DEF NextModel
    <3>2. asked.attempt + 1 \in Nat
      BY <1>0
    <3> QED
      BY <1>0, <3>1, <3>2
  <2>2. CASE ~(asked.attempt < MaxFallbacks)
    BY <1>11, <2>2 DEF NextModel
  <2> QED
    BY <2>1, <2>2
<1>13. ASSUME NEW b \in BOOLEAN, AskBegins(b) PROVE RetryInv'
  <2>1. AskTyped
    BY <1>11, <1>13 DEF AskBegins
  <2> QED
    BY <1>10, <1>13, <2>1 DEF AskBegins
<1>14. ASSUME NEW b \in BOOLEAN, AskPolled(b) PROVE RetryInv'
  <2>1. AskTyped
    BY <1>0, <1>14 DEF AskPolled
  <2> QED
    BY <1>10, <1>14, <2>1 DEF AskPolled
<1>15. CASE AskRefused \/ AskReads \/ AskThrows
  <2>1. AskTyped
    BY <1>11, <1>12, <1>15 DEF AskRefused, AskReads, AskThrows
  <2> QED
    BY <1>10, <1>15, <2>1 DEF AskRefused, AskReads, AskThrows
<1>16. CASE UNCHANGED sessionVars
  <2>1. AskTyped
    BY <1>0, <1>16 DEF sessionVars
  <2> QED
    BY <1>10, <1>16, <2>1 DEF sessionVars, promptVars, retryVars
<1> QED
  BY <1>1, <1>2, <1>3, <1>4, <1>5, <1>6, <1>7, <1>8, <1>9, <1>13, <1>14, <1>15, <1>16 DEF SessionsNext

LEMMA SessionsBegin ==
  ASSUME SessionsInit PROVE RetryInv
<1>1. Sent = {} /\ \A t \in Messages : Retries(t) = {} /\ Awaited(t) = {} /\ MarkedRetried(t) = {}
  BY DEF SessionsInit, NoMessage, Sent, Retries, Awaited, MarkedRetried
<1>2. Newest = 0
  BY <1>1, FS_EmptySet DEF Newest, Sent
<1>3. Numbered
  BY <1>1, <1>2, SessionsAssumption DEF Numbered, Messages
<1>4. Backoffs
  BY DEF SessionsInit, Backoffs
<1>5. \A t \in Messages : Spent(t)
  BY <1>1, FS_EmptySet DEF Spent
<1>6. SessionsTypeOK
  BY <1>2, SessionsAssumption DEF SessionsInit, SessionsTypeOK, NoMessage, NoBudget
<1> QED
  BY <1>3, <1>4, <1>5, <1>6, SessionsAssumption DEF RetryInv, SessionsInit, NoAsk, NoBudget

(***************************************************************************)
(* A message is sent again at most once, and does not wait to be sent a    *)
(* second time (hooks/session-retry.ts), however often its error is        *)
(* delivered and whatever is sent and forgotten meanwhile.                 *)
(***************************************************************************)
THEOREM PromptsRetriedOnce == SessionsSpec => [](SessionsTypeOK /\ RetriedOnce)
<1>1. SessionsInit => RetryInv
  BY SessionsBegin
<1>2. RetryInv /\ [SessionsNext]_sessionVars => RetryInv'
  BY SessionsStep
<1>3. RetryInv => SessionsTypeOK /\ RetriedOnce
  <2> SUFFICES ASSUME RetryInv, NEW t \in Messages
               PROVE  LET with == {m \in Messages : messages[m].text = t}
                          retries == {m \in with : messages[m].by = "retry"}
                      IN  Cardinality(retries) + Cardinality({m \in with : backoff[m] > 0})
                            <= Cardinality(with \cap retried)
    BY DEF RetriedOnce, RetryInv
  <2> DEFINE with == {m \in Messages : messages[m].text = t}
  <2>1. {m \in with : messages[m].by = "retry"} = Retries(t)
    BY DEF Retries
  <2>2. {m \in with : backoff[m] > 0} = Awaited(t)
    BY DEF Awaited
  <2>3. with \cap retried = MarkedRetried(t)
    BY DEF MarkedRetried
  <2> QED
    BY <2>1, <2>2, <2>3 DEF RetryInv, Spent
<1> QED
  BY <1>1, <1>2, <1>3, PTL DEF SessionsSpec

-----------------------------------------------------------------------------
(***************************************************************************)
(* RunsWhereShown holds for every set of tool calls. It is not inductive:  *)
(* what the after hook shows is decided when the before hook rewrites the  *)
(* arguments. The invariant PipeInv says of every call, by where it stands,*)
(* what has run already, what its arguments have become, and that one of   *)
(* the two maps holds its result until it is too old.                      *)
(***************************************************************************)
CallRecord ==
  [pc : {"free", "asked", "boxing", "echoing", "ready", "after", "ended"}, tool : Tools,
   args : {"own", "echo", "noop"}, boxed : BOOLEAN, late : BOOLEAN,
   ran : SUBSET {"host", "box"}, text : Sources, part : {"whole", "cut", "preview"}]

\* What the maps may hold of a call.
ResultsOK(c) ==
  /\ boxResults[c] \in {"nobody", "box", "none", "echo", "refusal", "failure"}
  /\ hostResults[c] \in {"nobody", "search", "none", "failure"}

Unanswered(c) == boxResults[c] = "nobody" /\ hostResults[c] = "nobody" /\ ~toolCall[c].late

\* A neutralised tool has its result in the map its after hook looks into,
\* until it is five minutes old.
NoopAnswered(c) ==
  toolCall[c].args = "noop" /\ ~toolCall[c].late =>
    \/ toolCall[c].tool \in Shell /\ boxResults[c] # "nobody"
    \/ toolCall[c].tool = "search" /\ hostResults[c] # "nobody"

\* A command the sandbox took is not left to the builtin tool.
ShellAnswered(c) == toolCall[c].tool \in Shell /\ toolCall[c].boxed => toolCall[c].args = "noop"

BoxRan(c) == boxResults[c] = "box" => "box" \in toolCall[c].ran

CallOK(c) ==
  /\ ResultsOK(c)
  /\ toolCall[c].pc \in {"free", "asked"} =>
       /\ Unanswered(c)
       /\ toolCall[c].ran = {} /\ ~toolCall[c].boxed /\ toolCall[c].args # "noop"
  /\ toolCall[c].pc = "asked" /\ toolCall[c].args = "echo" => toolCall[c].tool \in Shell
  /\ toolCall[c].pc \in {"boxing", "echoing"} =>
       /\ Unanswered(c)
       /\ toolCall[c].ran = {} /\ ShellAnswered(c)
       /\ toolCall[c].boxed /\ toolCall[c].tool \in Boxable
       /\ toolCall[c].args = "noop" => toolCall[c].tool \in Shell
  /\ toolCall[c].pc = "echoing" => toolCall[c].tool \in Shell
  /\ toolCall[c].pc = "ready" =>
       /\ "host" \notin toolCall[c].ran
       /\ ~toolCall[c].boxed => toolCall[c].ran = {}
  /\ toolCall[c].pc \in {"ready", "after"} =>
       /\ NoopAnswered(c) /\ ShellAnswered(c) /\ BoxRan(c)
  /\ toolCall[c].pc = "after" =>
       /\ toolCall[c].text = IF toolCall[c].args = "own" THEN "host" ELSE toolCall[c].args
       /\ toolCall[c].args = "own" => "host" \in toolCall[c].ran
       /\ toolCall[c].args # "own" => "host" \notin toolCall[c].ran
       /\ ~toolCall[c].boxed => "box" \notin toolCall[c].ran
  /\ toolCall[c].pc = "ended" =>
       /\ toolCall[c].tool \notin Shell
       /\ toolCall[c].text \in {"host", "box"} => toolCall[c].text \in toolCall[c].ran
       /\ toolCall[c].text = "noop" => toolCall[c].late

PipeInv == PipeTypeOK /\ \A c \in ToolCallIds : CallOK(c)

\* A result of another call is dropped only when it is old.
Kept(d) ==
  /\ boxResults'[d] = boxResults[d] \/ (toolCall[d].late /\ boxResults'[d] = "nobody")
  /\ hostResults'[d] = hostResults[d] \/ (toolCall[d].late /\ hostResults'[d] = "nobody")

\* A step of one call leaves the others alone.
LEMMA OneCall ==
  ASSUME PipeInv, NEW c \in ToolCallIds, NEW new \in CallRecord,
         toolCall' = [toolCall EXCEPT ![c] = new],
         \A d \in ToolCallIds : d # c => Kept(d),
         loop' \in {"none", "plain", "boxed"}, box' \in {"off", "on", "dead"},
         boxResults' \in [ToolCallIds -> Sources], hostResults' \in [ToolCallIds -> Sources],
         CallOK(c)'
  PROVE  PipeInv'
<1>1. PipeTypeOK'
  BY DEF PipeInv, PipeTypeOK, CallRecord
<1>2. ASSUME NEW d \in ToolCallIds, d # c PROVE CallOK(d)'
  <2>1. toolCall'[d] = toolCall[d] /\ Kept(d)
    BY <1>2 DEF PipeInv, PipeTypeOK
  <2>2. CallOK(d)
    BY DEF PipeInv
  <2> QED
    BY <2>1, <2>2 DEF Kept, CallOK, ResultsOK, Unanswered, NoopAnswered, ShellAnswered, BoxRan
<1> QED
  BY <1>1, <1>2 DEF PipeInv

\* The loop, its container and its plugin change.
LEMMA SameCalls ==
  ASSUME PipeInv, UNCHANGED <<toolCall, resultVars>>,
         loop' \in {"none", "plain", "boxed"}, box' \in {"off", "on", "dead"}
  PROVE  PipeInv'
<1>1. PipeTypeOK'
  BY DEF PipeInv, PipeTypeOK, resultVars
<1>2. ASSUME NEW d \in ToolCallIds PROVE CallOK(d)'
  BY DEF PipeInv, CallOK, ResultsOK, Unanswered, NoopAnswered, ShellAnswered, BoxRan, resultVars
<1> QED
  BY <1>1, <1>2 DEF PipeInv

\* A call ends without its after hooks, with a text that tells so.
LEMMA EndedTyped ==
  ASSUME PipeInv, NEW c \in ToolCallIds, NEW said \in Sources, NEW part \in {"whole", "cut", "preview"}
  PROVE  /\ Ended(c, said, part) \in CallRecord
         /\ Ended(c, said, part).pc = "ended" /\ Ended(c, said, part).tool = "other"
         /\ Ended(c, said, part).text = said
         /\ Ended(c, said, part).ran = toolCall[c].ran \cap {said}
         /\ Ended(c, said, part).late = (toolCall[c].late /\ said = "noop")
<1>1. toolCall[c].ran \cap {said} \in SUBSET {"host", "box"}
  BY DEF PipeInv, PipeTypeOK
<1>2. NoToolCall \in CallRecord /\ NoToolCall.tool = "other"
  BY DEF NoToolCall, CallRecord, Tools, Boxable, Shell, Sources
<1>3. (toolCall[c].late /\ said = "noop") \in BOOLEAN
  BY DEF PipeInv, PipeTypeOK
<1> QED
  BY <1>1, <1>2, <1>3 DEF Ended, CallRecord

LEMMA Thrown ==
  ASSUME PipeInv, NEW c \in ToolCallIds, NEW said \in {"refusal", "failure"},
         toolCall' = Throws(c, said), UNCHANGED <<loopOfCalls, resultVars>>
  PROVE  PipeInv'
<1> DEFINE new == Ended(c, said, "whole")
<1>1. said \in Sources
  BY DEF Sources
<1>2. new \in CallRecord /\ new.pc = "ended" /\ new.tool = "other" /\ new.text = said
  BY <1>1, EndedTyped
<1>3. toolCall' = [toolCall EXCEPT ![c] = new]
  BY DEF Throws
<1> HIDE DEF new
<1>4. toolCall'[c] = new
  BY <1>3 DEF PipeInv, PipeTypeOK
<1>5. CallOK(c)'
  BY <1>2, <1>4 DEF PipeInv, CallOK, ResultsOK, resultVars, Shell
<1> QED
  BY <1>2, <1>3, <1>5, OneCall DEF Kept, PipeInv, PipeTypeOK, loopOfCalls, resultVars

LEMMA Typed ==
  ASSUME PipeInv, NEW c \in ToolCallIds
  PROVE  toolCall[c] \in CallRecord /\ CallOK(c) /\ boxResults[c] \in Sources /\ hostResults[c] \in Sources
BY DEF PipeInv, PipeTypeOK, CallRecord

\* What a call and its results are while its after hooks are to come.
Fits(new, b, h) ==
  /\ b \in {"nobody", "box", "none", "echo", "refusal", "failure"}
  /\ h \in {"nobody", "search", "none", "failure"}
  /\ new.pc \in {"asked", "boxing", "echoing"} =>
       /\ b = "nobody" /\ h = "nobody" /\ ~new.late /\ new.ran = {}
  /\ new.pc = "asked" => ~new.boxed /\ new.args # "noop"
  /\ new.pc = "asked" /\ new.args = "echo" => new.tool \in Shell
  /\ new.pc \in {"boxing", "echoing"} =>
       /\ new.boxed /\ new.tool \in Boxable
       /\ new.args = "noop" => new.tool \in Shell
  /\ new.pc = "echoing" => new.tool \in Shell
  /\ new.pc = "ready" =>
       /\ "host" \notin new.ran
       /\ ~new.boxed => new.ran = {}
       /\ b = "box" => "box" \in new.ran
       /\ new.args = "noop" /\ ~new.late =>
            \/ new.tool \in Shell /\ b # "nobody"
            \/ new.tool = "search" /\ h # "nobody"
  /\ new.tool \in Shell /\ new.boxed => new.args = "noop"
  /\ new.pc \in {"asked", "boxing", "echoing", "ready"}

\* Every step of a call to which no after hook belongs.
LEMMA BeforeSame ==
  ASSUME PipeInv, NEW c \in ToolCallIds, NEW new \in CallRecord,
         toolCall' = [toolCall EXCEPT ![c] = new], UNCHANGED loopOfCalls,
         NEW b \in Sources, NEW h \in Sources,
         boxResults' = [boxResults EXCEPT ![c] = b], hostResults' = [hostResults EXCEPT ![c] = h],
         Fits(new, b, h)
  PROVE  PipeInv'
<1>1. toolCall'[c] = new /\ boxResults'[c] = b /\ hostResults'[c] = h
  BY DEF PipeInv, PipeTypeOK
<1>2. CallOK(c)'
  BY <1>1 DEF Fits, CallOK, ResultsOK, Unanswered, NoopAnswered, ShellAnswered, BoxRan
<1> QED
  BY <1>2, OneCall DEF Kept, PipeInv, PipeTypeOK, loopOfCalls

\* A call that is not over yet may change as before; its maps stay.
LEMMA Same ==
  ASSUME PipeInv, NEW c \in ToolCallIds
  PROVE  /\ boxResults = [boxResults EXCEPT ![c] = boxResults[c]]
         /\ hostResults = [hostResults EXCEPT ![c] = hostResults[c]]
BY DEF PipeInv, PipeTypeOK

LEMMA BeginsStep ==
  ASSUME PipeInv, NEW c \in ToolCallIds, NEW tool \in Tools, NEW command \in ShellCommands,
         NEW list \in {"none", "some"}, CallBegins(c, tool, command, list)
  PROVE  PipeInv'
<1> DEFINE args == IF tool \in Shell /\ ~ShellAllows(command, list) THEN "echo" ELSE "own"
           new == [toolCall[c] EXCEPT !.pc = "asked", !.tool = tool, !.args = args]
<1>0. args \in {"own", "echo"} /\ (args = "echo" => tool \in Shell)
  OBVIOUS
<1>1. toolCall[c].pc = "free" /\ toolCall' = [toolCall EXCEPT ![c] = new] /\ UNCHANGED <<loopOfCalls, resultVars>>
  BY Typed DEF CallBegins, CallRecord, PipeInv, PipeTypeOK
<1> HIDE DEF args
<1>2. toolCall[c] \in CallRecord /\ Unanswered(c) /\ toolCall[c].ran = {} /\ ~toolCall[c].boxed
  BY <1>1, Typed DEF CallOK
<1>3. new \in CallRecord /\ new.pc = "asked" /\ new.args # "noop" /\ new.ran = {} /\ ~new.boxed /\ ~new.late
      /\ (new.args = "echo" => new.tool \in Shell)
  BY <1>0, <1>2 DEF CallRecord, Unanswered
<1> HIDE DEF new
<1>4. "nobody" \in Sources
  BY DEF Sources
<1>5. boxResults' = [boxResults EXCEPT ![c] = "nobody"] /\ hostResults' = [hostResults EXCEPT ![c] = "nobody"]
  BY <1>1, <1>2, Same DEF Unanswered, resultVars
<1> QED
  BY <1>1, <1>3, <1>4, <1>5, BeforeSame DEF Fits

LEMMA SearchStep ==
  ASSUME PipeInv, NEW c \in ToolCallIds, NEW answer \in RipgrepAnswers, HostSearches(c, answer)
  PROVE  PipeInv'
<1> DEFINE new == [toolCall[c] EXCEPT !.pc = "ready", !.args = "noop"]
<1>1. /\ toolCall[c].pc = "asked" /\ toolCall[c].tool = "search"
      /\ toolCall' = [toolCall EXCEPT ![c] = new] /\ UNCHANGED <<loopOfCalls, boxResults>>
      /\ hostResults' = [hostResults EXCEPT ![c] = answer]
  BY Typed DEF HostSearches, CallRecord, PipeInv, PipeTypeOK
<1>2. toolCall[c] \in CallRecord /\ Unanswered(c) /\ toolCall[c].ran = {} /\ ~toolCall[c].boxed
  BY <1>1, Typed DEF CallOK
<1>3. /\ new \in CallRecord /\ new.pc = "ready" /\ new.args = "noop" /\ new.ran = {} /\ ~new.boxed
      /\ new.tool = "search"
  BY <1>1, <1>2 DEF CallRecord, Unanswered
<1> HIDE DEF new
<1>4. "nobody" \in Sources /\ answer \in Sources /\ answer \in {"search", "none", "failure"}
  BY DEF Sources, RipgrepAnswers
<1>5. boxResults' = [boxResults EXCEPT ![c] = "nobody"]
  BY <1>1, <1>2, Same DEF Unanswered
<1> QED
  BY <1>1, <1>3, <1>4, <1>5, BeforeSame DEF Fits

LEMMA TakesStep ==
  ASSUME PipeInv, NEW c \in ToolCallIds, BoxTakes(c)
  PROVE  PipeInv'
<1> DEFINE refused == toolCall[c].tool = "push" /\ toolCall[c].args = "own"
           sent == IF toolCall[c].args = "echo" THEN "echoing" ELSE "boxing"
           pc == IF refused THEN "ready" ELSE sent
           args == IF toolCall[c].tool \in Shell THEN "noop" ELSE "own"
           new == [toolCall[c] EXCEPT !.boxed = TRUE, !.pc = pc, !.args = args]
           b == IF refused THEN "refusal" ELSE "nobody"
<1>1. /\ toolCall[c].pc = "asked" /\ toolCall[c].tool \in Boxable
      /\ toolCall' = [toolCall EXCEPT ![c] = new] /\ UNCHANGED <<loopOfCalls, hostResults>>
      /\ boxResults' = IF refused THEN [boxResults EXCEPT ![c] = "refusal"] ELSE boxResults
  BY Typed DEF BoxTakes, CallRecord, PipeInv, PipeTypeOK
<1>2. toolCall[c] \in CallRecord /\ Unanswered(c) /\ toolCall[c].ran = {}
  BY <1>1, Typed DEF CallOK
<1>3. pc \in {"ready", "boxing", "echoing"} /\ args \in {"noop", "own"} /\ b \in {"nobody", "refusal"}
      /\ (args = "noop" <=> toolCall[c].tool \in Shell)
      /\ (pc = "ready" => refused /\ b = "refusal" /\ toolCall[c].tool \in Shell)
      /\ (pc # "ready" => ~refused /\ b = "nobody")
  BY DEF Shell
<1>4. pc = "echoing" => toolCall[c].tool \in Shell
  <2>1. toolCall[c].args = "echo" => toolCall[c].tool \in Shell
    BY <1>1, Typed DEF CallOK
  <2> QED
    BY <2>1
<1>5. boxResults' = [boxResults EXCEPT ![c] = b] /\ hostResults' = [hostResults EXCEPT ![c] = "nobody"]
  BY <1>1, <1>2, Same DEF Unanswered
<1> HIDE DEF pc, args, b, refused
<1>6. /\ new \in CallRecord /\ new.pc = pc /\ new.args = args /\ new.ran = {} /\ new.boxed
      /\ new.tool = toolCall[c].tool /\ ~new.late
  BY <1>1, <1>2, <1>3 DEF CallRecord, Unanswered
<1> HIDE DEF new
<1>7. "nobody" \in Sources /\ b \in Sources
  BY <1>3 DEF Sources
<1>8. Fits(new, b, "nobody")
  BY <1>1, <1>3, <1>4, <1>6 DEF Fits
<1> QED
  BY <1>1, <1>5, <1>6, <1>7, <1>8, BeforeSame

LEMMA NobodyStep ==
  ASSUME PipeInv, NEW c \in ToolCallIds, NobodyTakes(c)
  PROVE  PipeInv'
<1> DEFINE new == [toolCall[c] EXCEPT !.pc = "ready"]
<1>1. /\ toolCall[c].pc = "asked"
      /\ toolCall' = [toolCall EXCEPT ![c] = new] /\ UNCHANGED <<loopOfCalls, resultVars>>
  BY Typed DEF NobodyTakes, CallGoes, CallRecord, PipeInv, PipeTypeOK
<1>2. /\ toolCall[c] \in CallRecord /\ Unanswered(c) /\ toolCall[c].ran = {} /\ ~toolCall[c].boxed
      /\ toolCall[c].args # "noop"
  BY <1>1, Typed DEF CallOK
<1>3. /\ new \in CallRecord /\ new.pc = "ready" /\ new.args # "noop" /\ new.ran = {} /\ ~new.boxed
  BY <1>2 DEF CallRecord
<1> HIDE DEF new
<1>4. "nobody" \in Sources
  BY DEF Sources
<1>5. boxResults' = [boxResults EXCEPT ![c] = "nobody"] /\ hostResults' = [hostResults EXCEPT ![c] = "nobody"]
  BY <1>1, <1>2, Same DEF Unanswered, resultVars
<1> QED
  BY <1>1, <1>3, <1>4, <1>5, BeforeSame DEF Fits

\* docker exec is over: the call has its result, and may have run.
LEMMA ExecStep ==
  ASSUME PipeInv, NEW c \in ToolCallIds, toolCall[c].pc \in {"boxing", "echoing"},
         NEW ran \in {{}, {"box"}}, NEW b \in {"box", "none", "echo", "failure"},
         b = "box" => ran = {"box"},
         toolCall' = [toolCall EXCEPT ![c].pc = "ready", ![c].ran = @ \cup ran],
         boxResults' = [boxResults EXCEPT ![c] = b],
         UNCHANGED <<loopOfCalls, hostResults>>
  PROVE  PipeInv'
<1> DEFINE new == [toolCall[c] EXCEPT !.pc = "ready", !.ran = ran]
<1>1. /\ toolCall[c] \in CallRecord /\ Unanswered(c) /\ toolCall[c].ran = {} /\ toolCall[c].boxed
      /\ (toolCall[c].tool \in Shell => toolCall[c].args = "noop")
      /\ (toolCall[c].args = "noop" => toolCall[c].tool \in Shell)
  BY Typed DEF CallOK, ShellAnswered
<1>2. toolCall' = [toolCall EXCEPT ![c] = new]
  BY <1>1 DEF PipeInv, PipeTypeOK, CallRecord
<1>3. /\ new \in CallRecord /\ new.pc = "ready" /\ new.ran = ran /\ new.boxed
      /\ new.tool = toolCall[c].tool /\ new.args = toolCall[c].args
  BY <1>1 DEF CallRecord
<1> HIDE DEF new
<1>4. "nobody" \in Sources /\ b \in Sources
  BY DEF Sources
<1>5. hostResults' = [hostResults EXCEPT ![c] = "nobody"]
  BY <1>1, Same DEF Unanswered
<1>6. Fits(new, b, "nobody")
  BY <1>1, <1>3 DEF Fits
<1> QED
  BY <1>2, <1>3, <1>4, <1>5, <1>6, BeforeSame

LEMMA RanNothing ==
  ASSUME PipeInv, NEW c \in ToolCallIds
  PROVE  CallGoes(c, "ready") = [toolCall EXCEPT ![c].pc = "ready", ![c].ran = @ \cup {}]
BY DEF CallGoes, PipeInv, PipeTypeOK

LEMMA RunsStep ==
  ASSUME PipeInv, NEW c \in ToolCallIds, NEW inTime \in BOOLEAN, BoxRuns(c, inTime)
  PROVE  PipeInv'
<1>1. CASE toolCall[c].pc = "boxing"
  <2>1. /\ toolCall' = [toolCall EXCEPT ![c].pc = "ready", ![c].ran = @ \cup {"box"}]
        /\ \E b \in {"box", "failure"} : boxResults' = [boxResults EXCEPT ![c] = b]
    BY <1>1 DEF BoxRuns
  <2> QED
    BY <1>1, <2>1, ExecStep DEF BoxRuns
<1>2. CASE toolCall[c].pc = "echoing"
  <2>1. toolCall' = [toolCall EXCEPT ![c].pc = "ready", ![c].ran = @]
    BY <1>2 DEF BoxRuns
  <2>2. \E b \in {"echo", "failure"} : boxResults' = [boxResults EXCEPT ![c] = b]
    BY <1>2 DEF BoxRuns
  <2>3. toolCall' = [toolCall EXCEPT ![c].pc = "ready", ![c].ran = @ \cup {}]
    BY <2>1 DEF PipeInv, PipeTypeOK
  <2> QED
    BY <1>2, <2>2, <2>3, ExecStep DEF BoxRuns
<1> QED
  BY <1>1, <1>2 DEF BoxRuns

LEMMA SearchesStep ==
  ASSUME PipeInv, NEW c \in ToolCallIds, NEW printed \in BOOLEAN, BoxSearches(c, printed)
  PROVE  PipeInv'
<1>1. \E b \in {"box", "none"} : boxResults' = [boxResults EXCEPT ![c] = b]
  BY DEF BoxSearches
<1> QED
  BY <1>1, ExecStep DEF BoxSearches

LEMMA ExecFailsStep ==
  ASSUME PipeInv, NEW c \in ToolCallIds, BoxExecFails(c)
  PROVE  PipeInv'
<1>1. \E b \in {"failure", "none"} : boxResults' = [boxResults EXCEPT ![c] = b]
  BY DEF BoxExecFails
<1> QED
  BY <1>1, ExecStep, RanNothing DEF BoxExecFails

LEMMA ToolStep ==
  ASSUME PipeInv, NEW c \in ToolCallIds, ToolRuns(c)
  PROVE  PipeInv'
<1> DEFINE own == toolCall[c].args = "own"
           ran == IF own THEN toolCall[c].ran \cup {"host"} ELSE toolCall[c].ran
           text == IF own THEN "host" ELSE toolCall[c].args
           new == [toolCall[c] EXCEPT !.pc = "after", !.ran = ran, !.text = text]
<1>1. /\ toolCall[c].pc = "ready"
      /\ toolCall' = [toolCall EXCEPT ![c] = new] /\ UNCHANGED <<loopOfCalls, resultVars>>
  BY Typed DEF ToolRuns, CallRecord, PipeInv, PipeTypeOK
<1>2. /\ toolCall[c] \in CallRecord /\ CallOK(c) /\ "host" \notin toolCall[c].ran
      /\ (~toolCall[c].boxed => toolCall[c].ran = {})
      /\ NoopAnswered(c) /\ ShellAnswered(c) /\ BoxRan(c) /\ ResultsOK(c)
  BY <1>1, Typed DEF CallOK
<1>3. ran \in SUBSET {"host", "box"} /\ text \in Sources /\ toolCall[c].ran \subseteq ran
      /\ (own <=> "host" \in ran) /\ ("box" \in ran <=> "box" \in toolCall[c].ran)
  BY <1>2 DEF CallRecord, Sources
<1> HIDE DEF ran
<1>4. /\ new \in CallRecord /\ new.pc = "after" /\ new.ran = ran /\ new.text = text
      /\ new.boxed = toolCall[c].boxed /\ new.late = toolCall[c].late
      /\ new.tool = toolCall[c].tool /\ new.args = toolCall[c].args
  BY <1>2, <1>3 DEF CallRecord
<1> HIDE DEF new, text
<1>5. toolCall'[c] = new /\ boxResults' = boxResults /\ hostResults' = hostResults
  BY <1>1 DEF PipeInv, PipeTypeOK, resultVars
<1>6. NoopAnswered(c)' /\ ShellAnswered(c)' /\ ResultsOK(c)'
  BY <1>2, <1>4, <1>5 DEF NoopAnswered, ShellAnswered, ResultsOK
<1>7. BoxRan(c)'
  BY <1>2, <1>3, <1>4, <1>5 DEF BoxRan
<1>8. text = IF new.args = "own" THEN "host" ELSE new.args
  BY <1>4 DEF text
<1>9. CallOK(c)'
  BY <1>2, <1>3, <1>4, <1>5, <1>6, <1>7, <1>8 DEF CallOK
<1> QED
  BY <1>1, <1>4, <1>9, OneCall DEF Kept, PipeInv, PipeTypeOK, loopOfCalls, resultVars

\* An archived text is read again or expires: the call is over.
LEMMA PartStep ==
  ASSUME PipeInv, NEW c \in ToolCallIds, NEW part \in {"whole", "cut"},
         toolCall' = [toolCall EXCEPT ![c].part = part], UNCHANGED <<loopOfCalls, resultVars>>
  PROVE  PipeInv'
<1> DEFINE new == [toolCall[c] EXCEPT !.part = part]
<1>1. toolCall' = [toolCall EXCEPT ![c] = new] /\ toolCall[c] \in CallRecord /\ CallOK(c)
  BY Typed DEF PipeInv, PipeTypeOK
<1>2. /\ new \in CallRecord /\ new.pc = toolCall[c].pc /\ new.ran = toolCall[c].ran
      /\ new.text = toolCall[c].text /\ new.boxed = toolCall[c].boxed
      /\ new.late = toolCall[c].late /\ new.tool = toolCall[c].tool /\ new.args = toolCall[c].args
  BY <1>1 DEF CallRecord
<1> HIDE DEF new
<1>3. toolCall'[c] = new /\ boxResults' = boxResults /\ hostResults' = hostResults
  BY <1>1 DEF PipeInv, PipeTypeOK, resultVars
<1>4. CallOK(c)'
  BY <1>1, <1>2, <1>3 DEF CallOK, ResultsOK, Unanswered, NoopAnswered, ShellAnswered, BoxRan
<1> QED
  BY <1>1, <1>2, <1>4, OneCall DEF Kept, PipeInv, PipeTypeOK, loopOfCalls, resultVars

LEMMA AfterStep ==
  ASSUME PipeInv, NEW c \in ToolCallIds, NEW size \in {"small", "wide", "large"}, AfterHooks(c, size)
  PROVE  PipeInv'
<1> DEFINE tool == toolCall[c].tool
           own == toolCall[c].text
           boxText == IF tool \in Boxable THEN Taken(boxResults, c, own) ELSE own
           hostText == IF tool = "search" THEN Taken(hostResults, c, boxText) ELSE boxText
           said == IF tool = "blocked" /\ loop # "none" THEN "refusal" ELSE hostText
           part == CASE Archived(size) -> "preview" [] Clipped(tool, size) -> "cut" [] OTHER -> "whole"
           new == Ended(c, said, part)
<1>1. /\ toolCall[c].pc = "after" /\ toolCall' = [toolCall EXCEPT ![c] = new] /\ UNCHANGED loopOfCalls
      /\ boxResults' = IF tool \in Boxable THEN Swept(boxResults, c) ELSE boxResults
      /\ hostResults' = IF tool = "search" THEN Swept(hostResults, c) ELSE hostResults
  BY DEF AfterHooks
<1>2. /\ toolCall[c] \in CallRecord /\ ResultsOK(c) /\ NoopAnswered(c) /\ BoxRan(c)
      /\ own = (IF toolCall[c].args = "own" THEN "host" ELSE toolCall[c].args)
      /\ (toolCall[c].args = "own" => "host" \in toolCall[c].ran)
  BY <1>1, Typed DEF CallOK
<1>3. /\ boxResults' \in [ToolCallIds -> Sources] /\ hostResults' \in [ToolCallIds -> Sources]
      /\ boxResults'[c] \in {"nobody", boxResults[c]} /\ hostResults'[c] \in {"nobody", hostResults[c]}
      /\ \A d \in ToolCallIds : d # c => Kept(d)
  BY <1>1 DEF Swept, Kept, PipeInv, PipeTypeOK, Sources
<1>4. part \in {"whole", "cut", "preview"}
  OBVIOUS
<1>5. /\ own \in {"host", "echo", "noop"}
      /\ (own = "host" => "host" \in toolCall[c].ran)
      /\ (own = "noop" /\ ~toolCall[c].late =>
            \/ tool \in Shell /\ boxResults[c] # "nobody"
            \/ tool = "search" /\ hostResults[c] # "nobody")
  BY <1>2 DEF NoopAnswered, CallRecord
<1> HIDE DEF own
<1>6. /\ boxText \in {own, boxResults[c]} /\ boxText # "nobody"
      /\ (tool \in Shell /\ boxResults[c] # "nobody" /\ ~toolCall[c].late => boxText = boxResults[c])
  BY <1>2, <1>5 DEF Taken, Boxable
<1> HIDE DEF boxText
<1>7. /\ hostText \in {boxText, hostResults[c]} /\ hostText # "nobody"
      /\ (tool = "search" /\ hostResults[c] # "nobody" /\ ~toolCall[c].late => hostText = hostResults[c])
      /\ (tool # "search" => hostText = boxText)
  BY <1>6 DEF Taken
<1> HIDE DEF hostText
<1>8. said \in Sources
  BY <1>2, <1>5, <1>6, <1>7 DEF Sources, ResultsOK
<1>9. said \in {"host", "box"} => said \in toolCall[c].ran
  BY <1>2, <1>5, <1>6, <1>7 DEF ResultsOK, BoxRan
<1>10. said = "noop" => toolCall[c].late
  <2> SUFFICES ASSUME said = "noop", ~toolCall[c].late PROVE FALSE
    BY <1>2 DEF CallRecord
  <2>1. hostText = "noop" /\ boxText = "noop" /\ own = "noop"
    BY <1>2, <1>5, <1>6, <1>7 DEF ResultsOK
  <2> QED
    BY <1>2, <1>5, <1>6, <1>7, <2>1 DEF ResultsOK, Shell
<1> HIDE DEF said, part
<1>11. /\ new \in CallRecord /\ new.pc = "ended" /\ new.tool = "other" /\ new.text = said
       /\ new.ran = toolCall[c].ran \cap {said} /\ new.late = (toolCall[c].late /\ said = "noop")
  BY <1>4, <1>8, EndedTyped
<1> HIDE DEF new
<1>12. toolCall'[c] = new
  BY <1>1 DEF PipeInv, PipeTypeOK
<1>13. CallOK(c)'
  <2>1. ResultsOK(c)'
    BY <1>2, <1>3 DEF ResultsOK
  <2>2. new.text \in {"host", "box"} => new.text \in new.ran
    BY <1>9, <1>11
  <2>3. new.text = "noop" => new.late
    BY <1>10, <1>11
  <2> QED
    BY <1>11, <1>12, <2>1, <2>2, <2>3 DEF CallOK, Shell
<1> QED
  BY <1>1, <1>3, <1>11, <1>13, OneCall DEF PipeInv, PipeTypeOK, loopOfCalls

LEMMA RestartStep ==
  ASSUME PipeInv, PipeRestarts
  PROVE  PipeInv'
<1>1. /\ toolCall' = [c \in ToolCallIds |->
            IF toolCall[c].pc \in {"free", "ended"} THEN toolCall[c] ELSE Ended(c, "failure", "whole")]
      /\ boxResults' = [c \in ToolCallIds |-> "nobody"] /\ hostResults' = [c \in ToolCallIds |-> "nobody"]
      /\ box' = "off" /\ loop' = loop
  BY DEF PipeRestarts
<1>2. ASSUME NEW c \in ToolCallIds PROVE toolCall'[c] \in CallRecord /\ CallOK(c)'
  <2>0. boxResults'[c] = "nobody" /\ hostResults'[c] = "nobody"
    BY <1>1
  <2>1. CASE toolCall[c].pc \in {"free", "ended"}
    <3>1. toolCall'[c] = toolCall[c]
      BY <1>1, <2>1
    <3>2. toolCall[c] \in CallRecord /\ CallOK(c)
      BY Typed
    <3> QED
      BY <2>0, <2>1, <3>1, <3>2 DEF CallOK, ResultsOK, Unanswered
  <2>2. CASE toolCall[c].pc \notin {"free", "ended"}
    <3> DEFINE new == Ended(c, "failure", "whole")
    <3>1. toolCall'[c] = new
      BY <1>1, <2>2
    <3>2. new \in CallRecord /\ new.pc = "ended" /\ new.tool = "other" /\ new.text = "failure"
      BY EndedTyped DEF Sources
    <3> HIDE DEF new
    <3> QED
      BY <2>0, <3>1, <3>2 DEF CallOK, ResultsOK, Shell
  <2> QED
    BY <2>1, <2>2
<1>3. PipeTypeOK'
  BY <1>1, <1>2 DEF PipeInv, PipeTypeOK, CallRecord, Sources
<1> QED
  BY <1>2, <1>3 DEF PipeInv

LEMMA TimeStep ==
  ASSUME PipeInv, TimePasses
  PROVE  PipeInv'
<1>1. /\ toolCall' = [c \in ToolCallIds |->
            [toolCall[c] EXCEPT !.late = (@ \/ toolCall[c].pc = "ready" \/ HasResult(c))]]
      /\ UNCHANGED <<loop, box, boxResults, hostResults>>
      /\ \A c \in ToolCallIds : toolCall[c].pc \in {"free", "ready", "ended"}
  BY DEF TimePasses, loopOfCalls, resultVars
<1>2. ASSUME NEW c \in ToolCallIds PROVE toolCall'[c] \in CallRecord /\ CallOK(c)'
  <2> DEFINE late == (toolCall[c].late \/ toolCall[c].pc = "ready" \/ HasResult(c))
             new == [toolCall[c] EXCEPT !.late = late]
  <2>1. toolCall[c] \in CallRecord /\ CallOK(c)
    BY Typed
  <2>2. late \in BOOLEAN
    OBVIOUS
  <2>3. (toolCall[c].late => late) /\ (toolCall[c].pc = "ready" => late)
        /\ (toolCall[c].pc = "free" => ~late)
    BY <2>1 DEF CallOK, Unanswered, HasResult
  <2>4. toolCall'[c] = new
    BY <1>1
  <2> HIDE DEF late
  <2>5. /\ new \in CallRecord /\ new.pc = toolCall[c].pc /\ new.ran = toolCall[c].ran
        /\ new.text = toolCall[c].text /\ new.boxed = toolCall[c].boxed
        /\ new.late = late /\ new.tool = toolCall[c].tool /\ new.args = toolCall[c].args
    BY <2>1, <2>2 DEF CallRecord
  <2> HIDE DEF new
  <2>6. CallOK(c)'
    BY <1>1, <2>1, <2>3, <2>4, <2>5 DEF CallOK, ResultsOK, Unanswered, NoopAnswered, ShellAnswered, BoxRan
  <2> QED
    BY <2>4, <2>5, <2>6
<1>3. PipeTypeOK'
  <2>1. toolCall' = [c \in ToolCallIds |-> toolCall'[c]]
    BY <1>1
  <2>2. toolCall' \in [ToolCallIds -> CallRecord]
    BY <1>2, <2>1
  <2> QED
    BY <1>1, <2>2 DEF PipeInv, PipeTypeOK, CallRecord
<1> QED
  BY <1>2, <1>3 DEF PipeInv

LEMMA PipeStep ==
  ASSUME PipeInv, [PipeNext]_pipeVars
  PROVE  PipeInv'
<1>1. ASSUME NEW kind \in {"plain", "boxed"}, LoopBegins(kind) PROVE PipeInv'
  BY <1>1, SameCalls DEF LoopBegins
<1>2. CASE LoopStops \/ BoxRemoved \/ BoxDies \/ BoxRestored
  BY <1>2, SameCalls DEF LoopStops, BoxRemoved, BoxDies, BoxRestored, PipeInv, PipeTypeOK
<1>3. CASE PipeRestarts \/ TimePasses
  BY <1>3, RestartStep, TimeStep
<1>4. ASSUME NEW c \in ToolCallIds, LoopBlocks(c) \/ PushDenied(c) \/ ToolThrows(c) PROVE PipeInv'
  BY <1>4, Thrown DEF LoopBlocks, PushDenied, ToolThrows
<1>5. ASSUME NEW c \in ToolCallIds, Expand(c) \/ ArchiveExpires(c) PROVE PipeInv'
  BY <1>5, PartStep DEF Expand, ArchiveExpires
<1>6. CASE UNCHANGED pipeVars
  BY <1>6, SameCalls DEF pipeVars, resultVars, PipeInv, PipeTypeOK
<1> QED
  BY <1>1, <1>2, <1>3, <1>4, <1>5, <1>6, BeginsStep, SearchStep, TakesStep, NobodyStep, RunsStep,
     SearchesStep, ExecFailsStep, ToolStep, AfterStep DEF PipeNext

(***************************************************************************)
(* A command runs where its result comes from (hooks/sandbox-tools.ts,     *)
(* hooks/host-tools.ts): none runs twice, one the sandbox took never runs  *)
(* on the host, and what is shown as the result of a call is what that call*)
(* ran, unless it waited for five minutes.                                 *)
(***************************************************************************)
THEOREM ResultsAreOfRuns == PipeSpec => [](PipeTypeOK /\ RunsWhereShown)
<1>1. PipeInit => PipeInv
  <2> SUFFICES ASSUME PipeInit PROVE PipeInv
    OBVIOUS
  <2>1. NoToolCall \in CallRecord
    BY DEF NoToolCall, CallRecord, Tools, Boxable, Shell, Sources
  <2>2. PipeTypeOK
    BY <2>1 DEF PipeInit, PipeTypeOK, CallRecord, Sources
  <2>3. \A c \in ToolCallIds : CallOK(c)
    BY DEF PipeInit, CallOK, ResultsOK, Unanswered, NoToolCall
  <2> QED
    BY <2>2, <2>3 DEF PipeInv
<1>2. PipeInv /\ [PipeNext]_pipeVars => PipeInv'
  BY PipeStep
<1>3. PipeInv => PipeTypeOK /\ RunsWhereShown
  <2> SUFFICES ASSUME PipeInv, NEW c \in ToolCallIds
               PROVE  /\ toolCall[c].tool \in Shell =>
                           /\ toolCall[c].ran # {"host", "box"}
                           /\ toolCall[c].boxed => "host" \notin toolCall[c].ran
                      /\ toolCall[c].pc = "ended" =>
                           /\ toolCall[c].text \in {"host", "box"} => toolCall[c].text \in toolCall[c].ran
                           /\ toolCall[c].text = "noop" => toolCall[c].late
    BY DEF RunsWhereShown, PipeInv
  <2>1. toolCall[c] \in CallRecord /\ CallOK(c)
    BY Typed
  <2> QED
    BY <2>1 DEF CallOK, CallRecord, ShellAnswered
<1> QED
  BY <1>1, <1>2, <1>3, PTL DEF PipeSpec

-----------------------------------------------------------------------------
(***************************************************************************)
(* The reminders.  The detector counts how often the last calls follow one *)
(* another, block by block, in what it remembers; a loop is a pattern that *)
(* every call repeats, in all the calls there were.  The two agree because *)
(* blocks that equal the last one are blocks that equal the next one, and  *)
(* because what is forgotten is beyond the reach of any loop.              *)
(***************************************************************************)

LEMMA Product ==
  ASSUME NEW m \in Nat, NEW n \in Nat, NEW p \in Nat \ {0}
  PROVE  /\ m * p \in Nat /\ (m + 1) * p = m * p + p /\ m * p = p * m
         /\ m <= n => m * p <= n * p
         /\ m * p < n * p => m < n
         /\ m <= n \div p <=> m * p <= n
         /\ n \div p \in Nat /\ n % p \in 0 .. p - 1 /\ n = ((n \div p) * p) + (n % p)
<1>1. m * p \in Nat /\ (m + 1) * p = m * p + p /\ m * p = p * m
  OBVIOUS
<1>2. m <= n => m * p <= n * p
  OBVIOUS
<1>3. m * p < n * p => m < n
  OBVIOUS
<1>4. m <= n \div p <=> m * p <= n
  OBVIOUS
<1>5. n \div p \in Nat /\ n % p \in 0 .. p - 1 /\ n = (p * (n \div p)) + (n % p)
  OBVIOUS
<1> QED
  BY <1>1, <1>2, <1>3, <1>4, <1>5

LEMMA Greatest ==
  ASSUME NEW n \in Nat, NEW K \in SUBSET (1 .. n), K # {}
  PROVE  \E m \in K : \A k \in K : k <= m
<1> DEFINE T == {t \in Nat : \A k \in K : k <= t}
<1>1. n \in T
  OBVIOUS
<1>2. PICK t \in T : \A y \in T : ~(<<y, t>> \in OpToRel(<, Nat))
  BY <1>1, NatLessThanWellFounded, WFMin
<1>3. t \in Nat /\ (\A k \in K : k <= t) /\ \A y \in T : ~(y < t)
  BY <1>2 DEF OpToRel
<1>4. t \in K
  <2>1. SUFFICES ASSUME t \notin K PROVE FALSE
    OBVIOUS
  <2>2. PICK k \in K : TRUE
    OBVIOUS
  <2>3. t - 1 \in Nat /\ \A x \in K : x <= t - 1
    BY <1>3, <2>1, <2>2
  <2> QED
    BY <1>3, <2>3
<1> QED
  BY <1>3, <1>4

\* The last p calls follow one another Threshold times.
Repeated(list, p) ==
  \A j \in 0 .. Threshold - 1 : \A i \in 0 .. p - 1 :
    list[Len(list) - j * p - i] = list[Len(list) - i]

\* Counting to the end and counting to the threshold come to the same.
LEMMA CountReaches ==
  ASSUME NEW list \in Seq(Signatures), NEW p \in Nat \ {0}
  PROVE  Repetitions(list, p) >= Threshold
           <=> p * Threshold <= Len(list) /\ Repeated(list, p)
<1> USE HarnessAssumption
<1> DEFINE Alike(k) == \A i \in 0 .. p - 1 : list[Len(list) - k * p - i] = list[Len(list) - i]
           counts == {k \in 1 .. Len(list) \div p : \A j \in 0 .. k - 1 : Alike(j)}
<1>0. Len(list) \in Nat /\ Threshold \in Nat
  OBVIOUS
<1>1. CASE Len(list) < 2 * p
  <2>1. Repetitions(list, p) = 0
    BY <1>1 DEF Repetitions
  <2>2. 2 * p <= p * Threshold
    BY Product
  <2> QED
    BY <1>0, <1>1, <2>1, <2>2
<1>2. CASE ~(Len(list) < 2 * p)
  <2>1. Repetitions(list, p) = CHOOSE k \in counts : \A other \in counts : other <= k
    BY <1>2, Zenon DEF Repetitions
  <2>2. 1 \in 1 .. Len(list) \div p
    <3>1. 1 * p <= Len(list)
      BY <1>0, <1>2
    <3>2. 1 <= Len(list) \div p /\ Len(list) \div p \in Nat
      BY <1>0, <3>1, Product
    <3> QED
      BY <3>2
  <2>3. Alike(0)
    <3>1. 0 * p = 0
      OBVIOUS
    <3> QED
      BY <1>0, <3>1
  <2>4. 1 \in counts
    <3>1. \A j \in 0 .. 1 - 1 : j = 0
      OBVIOUS
    <3> HIDE DEF Alike
    <3> QED
      BY <2>2, <2>3, <3>1
  <2>5. Len(list) \div p \in Nat /\ counts \subseteq 1 .. Len(list) \div p
    BY <1>0, Product
  <2> HIDE DEF counts
  <2>6. PICK m \in counts : \A k \in counts : k <= m
    BY <2>4, <2>5, Greatest
  <2>7. PICK c \in counts : c = Repetitions(list, p) /\ \A k \in counts : k <= c
    BY <2>1, <2>6
  <2>8. Repetitions(list, p) >= Threshold <=> Threshold \in counts
    <3>1. CASE Threshold \in counts
      BY <2>5, <2>7, <3>1
    <3>2. ASSUME c >= Threshold PROVE Threshold \in counts
      <4>1. c \in 1 .. Len(list) \div p /\ \A j \in 0 .. c - 1 : Alike(j)
        BY DEF counts
      <4> HIDE DEF Alike
      <4>2. Threshold \in 1 .. Len(list) \div p /\ \A j \in 0 .. Threshold - 1 : j \in 0 .. c - 1
        BY <2>5, <3>2, <4>1
      <4> QED
        BY <4>1, <4>2 DEF counts
    <3>3. c \in Nat
      BY <2>5
    <3> QED
      BY <2>7, <3>1, <3>2, <3>3
  <2>9. Threshold \in counts <=> p * Threshold <= Len(list) /\ Repeated(list, p)
    <3>1. Threshold \in 1 .. Len(list) \div p <=> p * Threshold <= Len(list)
      <4>1. Threshold <= Len(list) \div p <=> Threshold * p <= Len(list)
        BY <1>0, Product
      <4>2. Threshold * p = p * Threshold
        BY <1>0, Product
      <4> QED
        BY <4>1, <4>2, <2>5
    <3> QED
      BY <3>1 DEF counts, Repeated
  <2> QED
    BY <2>8, <2>9
<1> QED
  BY <1>1, <1>2

\* Blocks that all equal the last one each equal the next one, and conversely.
LEMMA BlocksFollow ==
  ASSUME NEW list \in Seq(Signatures), NEW p \in Nat \ {0}, p * Threshold <= Len(list)
  PROVE  Repeated(list, p) <=>
           \A i \in 0 .. p * (Threshold - 1) - 1 : list[Len(list) - i] = list[Len(list) - i - p]
<1> USE HarnessAssumption
<1> DEFINE L == Len(list)
<1>0. L \in Nat /\ Threshold \in Nat /\ Threshold - 1 \in Nat
  OBVIOUS
<1>m. p * (Threshold - 1) = (Threshold - 1) * p /\ (Threshold - 1) * p \in Nat
  BY <1>0, Product
<1> HIDE DEF L
<1>1. ASSUME Repeated(list, p), NEW i \in 0 .. p * (Threshold - 1) - 1
      PROVE  list[L - i] = list[L - i - p]
  <2> DEFINE j == i \div p
             r == i % p
  <2>1. i \in Nat /\ j \in Nat /\ r \in 0 .. p - 1 /\ i = (j * p) + r /\ i < (Threshold - 1) * p
    <3>1. i \in Nat /\ i < (Threshold - 1) * p
      BY <1>m
    <3>2. j \in Nat /\ r \in 0 .. p - 1 /\ i = (j * p) + r
      BY <3>1, Product
    <3> QED
      BY <3>1, <3>2
  <2>2. j * p \in Nat /\ j * p < (Threshold - 1) * p /\ (j + 1) * p = j * p + p
    BY <2>1, Product
  <2> HIDE DEF j, r
  <2>3. j < Threshold - 1
    BY <1>0, <2>1, <2>2, Product
  <2>4. j \in 0 .. Threshold - 1 /\ j + 1 \in 0 .. Threshold - 1
    BY <1>0, <2>1, <2>3
  <2>5. list[L - j * p - r] = list[L - r] /\ list[L - (j + 1) * p - r] = list[L - r]
    BY <1>1, <2>1, <2>4 DEF Repeated, L
  <2>6. L - j * p - r = L - i /\ L - (j + 1) * p - r = L - i - p
    BY <1>0, <2>1, <2>2
  <2> QED
    BY <2>5, <2>6
<1>2. ASSUME \A i \in 0 .. p * (Threshold - 1) - 1 : list[L - i] = list[L - i - p]
      PROVE  Repeated(list, p)
  <2> DEFINE Alike(j) == \A i \in 0 .. p - 1 : list[L - j * p - i] = list[L - i]
             Bad == {j \in 0 .. Threshold - 1 : ~Alike(j)}
  <2>1. SUFFICES ASSUME Bad # {} PROVE FALSE
    BY DEF Repeated, L
  <2>2. PICK j \in Bad : \A k \in Bad : ~(<<k, j>> \in OpToRel(<, Nat))
    <3>1. Bad \subseteq Nat
      BY <1>0
    <3> HIDE DEF Bad
    <3> QED
      BY <2>1, <3>1, NatLessThanWellFounded, WFMin
  <2>3. j \in 0 .. Threshold - 1 /\ ~Alike(j)
    OBVIOUS
  <2>4. j # 0
    <3>1. 0 * p = 0
      OBVIOUS
    <3>2. Alike(0)
      BY <1>0, <3>1
    <3> QED
      BY <2>3, <3>2
  <2>5. j - 1 \in 0 .. Threshold - 1 /\ j - 1 \in Nat /\ j - 1 < j /\ (j - 1) + 1 = j
    BY <1>0, <2>3, <2>4
  <2>6. Alike(j - 1)
    <3>1. j - 1 \notin Bad
      <4> HIDE DEF Bad
      <4>1. SUFFICES ASSUME j - 1 \in Bad PROVE FALSE
        OBVIOUS
      <4>2. <<j - 1, j>> \notin OpToRel(<, Nat)
        BY <2>2, <4>1
      <4> QED
        BY <2>3, <2>5, <4>2 DEF OpToRel
    <3> HIDE DEF Alike
    <3> QED
      BY <2>5, <3>1
  <2>7. (j - 1) * p \in Nat /\ j * p = (j - 1) * p + p /\ j * p <= (Threshold - 1) * p
    <3>1. j \in Nat /\ j <= Threshold - 1
      BY <1>0, <2>3
    <3>2. (j - 1) * p \in Nat /\ ((j - 1) + 1) * p = (j - 1) * p + p
      BY <1>0, <2>5, Product
    <3>3. j * p <= (Threshold - 1) * p
      BY <1>0, <3>1, Product
    <3> QED
      BY <2>5, <3>2, <3>3
  <2>8. ASSUME NEW i \in 0 .. p - 1 PROVE list[L - j * p - i] = list[L - i]
    <3> DEFINE q == (j - 1) * p + i
    <3>1. q \in 0 .. p * (Threshold - 1) - 1
      BY <1>m, <2>7
    <3>2. list[L - q] = list[L - q - p]
      BY <1>2, <3>1
    <3>3. L - q - p = L - j * p - i /\ L - q = L - (j - 1) * p - i
      BY <1>0, <2>7
    <3>4. list[L - (j - 1) * p - i] = list[L - i]
      BY <2>6
    <3> QED
      BY <3>2, <3>3, <3>4
  <2> QED
    BY <2>3, <2>8
<1> QED
  BY <1>1, <1>2 DEF L

\* list is what is remembered of calls: the last ones, up to Cap.
Remembers(list, calls) ==
  /\ list \in Seq(Signatures) /\ calls \in Seq(Signatures)
  /\ Len(list) = IF Len(calls) <= Cap THEN Len(calls) ELSE Cap
  /\ \A i \in 0 .. Len(list) - 1 : list[Len(list) - i] = calls[Len(calls) - i]

\* The detector finds in what is remembered the loops of all the calls.
LEMMA DetectsLoops ==
  ASSUME NEW list, NEW made, Remembers(list, made)
  PROVE  Detected(list) <=> Loops(made)
<1> USE HarnessAssumption
<1>0. /\ list \in Seq(Signatures) /\ made \in Seq(Signatures) /\ Len(list) \in Nat /\ Len(made) \in Nat
      /\ Len(list) = IF Len(made) <= Cap THEN Len(made) ELSE Cap
      /\ \A i \in 0 .. Len(list) - 1 : list[Len(list) - i] = made[Len(made) - i]
      /\ Len(list) <= Len(made) /\ Threshold - 1 \in Nat
  BY DEF Remembers
<1>1. ASSUME NEW p \in Nat \ {0}
      PROVE  /\ p * Threshold <= Len(list) <=> p * Threshold <= Len(made) /\ p * Threshold <= Cap
             /\ p * Threshold <= Len(list) =>
                  /\ Len(list) >= Threshold /\ p \in 1 .. Len(list) - 1 /\ p \in 1 .. Len(made)
                  /\ (\A i \in 0 .. p * (Threshold - 1) - 1 : list[Len(list) - i] = list[Len(list) - i - p])
                       <=> (\A i \in 0 .. p * (Threshold - 1) - 1 :
                              made[Len(made) - i] = made[Len(made) - i - p])
  <2>1. /\ p * Threshold \in Nat /\ p * (Threshold - 1) \in Nat
        /\ p * Threshold = p * (Threshold - 1) + p
    <3>1. /\ Threshold * p = p * Threshold /\ Threshold * p \in Nat
          /\ (Threshold - 1) * p = p * (Threshold - 1) /\ (Threshold - 1) * p \in Nat
          /\ ((Threshold - 1) + 1) * p = (Threshold - 1) * p + p
      BY <1>0, Product
    <3>2. (Threshold - 1) + 1 = Threshold
      BY <1>0
    <3> QED
      BY <3>1, <3>2
  <2>2. p <= p * (Threshold - 1) /\ Threshold <= p * Threshold
    <3>1. 1 * p <= (Threshold - 1) * p /\ (Threshold - 1) * p = p * (Threshold - 1)
      BY <1>0, Product
    <3>2. 1 * Threshold <= p * Threshold
      BY <1>0, Product
    <3> QED
      BY <3>1, <3>2
  <2>3. p * Threshold <= Len(list) <=> p * Threshold <= Len(made) /\ p * Threshold <= Cap
    <3> DEFINE x == p * Threshold
    <3>1. x \in Nat /\ Cap \in Nat
      BY <2>1
    <3> HIDE DEF x
    <3>2. x <= Len(list) <=> x <= Len(made) /\ x <= Cap
      BY <1>0, <3>1
    <3> QED
      BY <3>2 DEF x
  <2>4. ASSUME p * Threshold <= Len(list)
        PROVE  Len(list) >= Threshold /\ p \in 1 .. Len(list) - 1 /\ p \in 1 .. Len(made)
    BY SMTT(30), <1>0, <2>1, <2>2, <2>4
  <2>5. ASSUME p * Threshold <= Len(list), NEW i \in 0 .. p * (Threshold - 1) - 1
        PROVE  /\ list[Len(list) - i] = made[Len(made) - i]
               /\ list[Len(list) - i - p] = made[Len(made) - i - p]
    <3>1. i \in 0 .. Len(list) - 1 /\ i + p \in 0 .. Len(list) - 1
      BY <1>0, <2>1, <2>5
    <3>2. list[Len(list) - (i + p)] = made[Len(made) - (i + p)]
      BY <1>0, <3>1
    <3>3. Len(list) - (i + p) = Len(list) - i - p /\ Len(made) - (i + p) = Len(made) - i - p
      BY <1>0, <3>1
    <3> QED
      BY <1>0, <3>1, <3>2, <3>3
  <2> QED
    BY <2>3, <2>4, <2>5
<1>2. ASSUME NEW p \in Nat \ {0}
      PROVE  Repetitions(list, p) >= Threshold <=>
               /\ p * Threshold <= Len(list)
               /\ \A i \in 0 .. p * (Threshold - 1) - 1 : list[Len(list) - i] = list[Len(list) - i - p]
  BY <1>0, CountReaches, BlocksFollow
<1>3. ASSUME Detected(list) PROVE Loops(made)
  <2>1. PICK p \in 1 .. Len(list) - 1 : Repetitions(list, p) >= Threshold
    BY <1>3 DEF Detected
  <2>2. p \in Nat \ {0}
    OBVIOUS
  <2> QED
    BY <1>1, <1>2, <2>1, <2>2 DEF Loops
<1>4. ASSUME Loops(made) PROVE Detected(list)
  <2>1. PICK p \in 1 .. Len(made) :
          /\ p * Threshold <= Len(made) /\ p * Threshold <= Cap
          /\ \A i \in 0 .. p * (Threshold - 1) - 1 : made[Len(made) - i] = made[Len(made) - i - p]
    BY <1>4 DEF Loops
  <2>2. p \in Nat \ {0}
    OBVIOUS
  <2> QED
    BY <1>1, <1>2, <2>1, <2>2 DEF Detected
<1> QED
  BY <1>3, <1>4

LEMMA Recording ==
  ASSUME NEW list, NEW made, Remembers(list, made), NEW signature \in Signatures
  PROVE  Remembers(Record(list, signature), Append(made, signature))
<1> USE HarnessAssumption
<1> DEFINE longer == Append(list, signature)
           after == Append(made, signature)
<1>1. /\ list \in Seq(Signatures) /\ made \in Seq(Signatures) /\ Len(list) \in Nat /\ Len(made) \in Nat
      /\ Len(list) = IF Len(made) <= Cap THEN Len(made) ELSE Cap
      /\ \A i \in 0 .. Len(list) - 1 : list[Len(list) - i] = made[Len(made) - i]
  BY DEF Remembers
<1>2. /\ longer \in Seq(Signatures) /\ Len(longer) = Len(list) + 1 /\ longer[Len(list) + 1] = signature
      /\ \A i \in 1 .. Len(list) : longer[i] = list[i]
  BY <1>1, AppendProperties
<1>3. /\ after \in Seq(Signatures) /\ Len(after) = Len(made) + 1 /\ after[Len(made) + 1] = signature
      /\ \A i \in 1 .. Len(made) : after[i] = made[i]
  BY <1>1, AppendProperties
<1>4. Record(list, signature) = IF Len(longer) > Cap THEN Tail(longer) ELSE longer
  BY DEF Record
<1> HIDE DEF longer, after
<1>5. ASSUME NEW i \in 0 .. Len(longer) - 1
      PROVE  longer[Len(longer) - i] = after[Len(after) - i]
  <2>1. CASE i = 0
    BY <1>1, <1>2, <1>3, <2>1
  <2>2. CASE i # 0
    <3>1. /\ i - 1 \in 0 .. Len(list) - 1
          /\ Len(longer) - i = Len(list) - (i - 1) /\ Len(after) - i = Len(made) - (i - 1)
          /\ Len(list) - (i - 1) \in 1 .. Len(list) /\ Len(made) - (i - 1) \in 1 .. Len(made)
      BY <1>1, <1>2, <1>3, <2>2
    <3> QED
      BY <1>1, <1>2, <1>3, <3>1
  <2> QED
    BY <2>1, <2>2
<1>6. CASE Len(longer) > Cap
  <2>1. longer # <<>>
    BY <1>1, <1>2
  <2>2. /\ Tail(longer) \in Seq(Signatures) /\ Len(Tail(longer)) = Len(longer) - 1
        /\ \A i \in 1 .. Len(Tail(longer)) : Tail(longer)[i] = longer[i + 1]
    BY <1>2, <2>1, HeadTailProperties
  <2>3. ASSUME NEW i \in 0 .. Len(Tail(longer)) - 1
        PROVE  Tail(longer)[Len(Tail(longer)) - i] = after[Len(after) - i]
    <3>1. /\ i \in 0 .. Len(longer) - 1 /\ Len(Tail(longer)) - i \in 1 .. Len(Tail(longer))
          /\ (Len(Tail(longer)) - i) + 1 = Len(longer) - i
      BY <1>1, <1>2, <2>2
    <3> QED
      BY <1>5, <2>2, <3>1
  <2>4. Len(Tail(longer)) = IF Len(after) <= Cap THEN Len(after) ELSE Cap
    BY <1>1, <1>2, <1>3, <1>6, <2>2
  <2> QED
    BY <1>3, <1>4, <1>6, <2>2, <2>3, <2>4 DEF Remembers, after
<1>7. CASE ~(Len(longer) > Cap)
  <2>1. Len(longer) = IF Len(after) <= Cap THEN Len(after) ELSE Cap
    BY <1>1, <1>2, <1>3, <1>7
  <2> QED
    BY <1>2, <1>3, <1>4, <1>5, <1>7, <2>1 DEF Remembers, after
<1> QED
  BY <1>6, <1>7

-----------------------------------------------------------------------------
(***************************************************************************)
(* LoopsWarned says when the agent has been warned; HarnessInv adds what   *)
(* is remembered, and that the list that keeps a reminder from being       *)
(* repeated is the one the TUI was handed last.                            *)
(***************************************************************************)
Looped(made) == \E n \in 1 .. Len(made) : Loops(SubSeq(made, 1, n))

HarnessInv ==
  /\ Remembers(perSession, history)
  /\ alreadyWarned \in BOOLEAN /\ (alreadyWarned <=> Looped(history))
  /\ reminders = (IF alreadyWarned THEN 1 ELSE 0)
  /\ reminderKey = told /\ (idle /\ Open(todos) # {} => told = Open(todos))

LEMMA NothingLooped == Remembers(<<>>, <<>>) /\ ~Looped(<<>>)
<1>1. <<>> \in Seq(Signatures) /\ Len(<<>>) = 0
  OBVIOUS
<1>2. Remembers(<<>>, <<>>)
  BY <1>1, HarnessAssumption DEF Remembers
<1>3. \A n \in 1 .. Len(<<>>) : FALSE
  BY <1>1
<1> QED
  BY <1>2, <1>3 DEF Looped

LEMMA LoopedWithCall ==
  ASSUME NEW made \in Seq(Signatures), NEW signature \in Signatures
  PROVE  Looped(Append(made, signature)) <=> Looped(made) \/ Loops(Append(made, signature))
<1> DEFINE after == Append(made, signature)
<1>1. /\ after \in Seq(Signatures) /\ Len(after) = Len(made) + 1 /\ Len(made) \in Nat
      /\ \A i \in 1 .. Len(made) : after[i] = made[i]
  BY AppendProperties
<1> HIDE DEF after
<1>2. SubSeq(after, 1, Len(after)) = after
  BY <1>1, SubSeqFull
<1>3. ASSUME NEW n \in 1 .. Len(made) PROVE SubSeq(after, 1, n) = SubSeq(made, 1, n)
  <2>1. /\ SubSeq(after, 1, n) \in Seq(Signatures) /\ SubSeq(made, 1, n) \in Seq(Signatures)
        /\ Len(SubSeq(after, 1, n)) = n /\ Len(SubSeq(made, 1, n)) = n
        /\ \A i \in 1 .. n : SubSeq(after, 1, n)[i] = SubSeq(made, 1, n)[i]
    BY <1>1
  <2> QED
    BY <2>1, SeqEqual
<1>4. \A n \in 1 .. Len(after) : n \in 1 .. Len(made) \/ n = Len(after)
  BY <1>1
<1>5. Len(after) \in 1 .. Len(after) /\ \A n \in 1 .. Len(made) : n \in 1 .. Len(after)
  BY <1>1
<1> QED
  BY <1>2, <1>3, <1>4, <1>5 DEF Looped, after

\* The agent has its one reminder of a loop exactly if its calls have ended in one,
\* however long ago the first of them were forgotten, and an idle session with open
\* todos has been reminded of just these.
THEOREM LoopsAreWarnedOf == HarnessSpec => []LoopsWarned
<1>1. HarnessInit => HarnessInv
  BY NothingLooped DEF HarnessInit, HarnessInv
<1>2. HarnessInv /\ [HarnessNext]_harnessVars => HarnessInv'
  <2> SUFFICES ASSUME HarnessInv, [HarnessNext]_harnessVars PROVE HarnessInv'
    OBVIOUS
  <2>1. ASSUME NEW signature \in Signatures, ToolBefore(signature) PROVE HarnessInv'
    <3>1. /\ perSession' = Record(perSession, signature) /\ history' = Append(history, signature)
          /\ alreadyWarned' = (alreadyWarned \/ (Detected(perSession') /\ ~alreadyWarned))
          /\ reminders' = IF Detected(perSession') /\ ~alreadyWarned THEN reminders + 1 ELSE reminders
          /\ idle' = FALSE /\ UNCHANGED <<todos, reminderKey, told>>
      BY <2>1 DEF ToolBefore, todoVars
    <3>2. Remembers(perSession, history) /\ history \in Seq(Signatures)
      BY DEF HarnessInv, Remembers
    <3>3. Remembers(perSession', history')
      BY <3>1, <3>2, Recording
    <3>4. Detected(perSession') <=> Loops(history')
      BY <3>3, DetectsLoops
    <3>5. Looped(history') <=> Looped(history) \/ Loops(history')
      BY <3>1, <3>2, LoopedWithCall
    <3>6. alreadyWarned' \in BOOLEAN /\ (alreadyWarned' <=> Looped(history'))
      BY <3>1, <3>4, <3>5 DEF HarnessInv
    <3>7. reminders' = IF alreadyWarned' THEN 1 ELSE 0
      <4>1. alreadyWarned \in BOOLEAN /\ reminders = IF alreadyWarned THEN 1 ELSE 0
        BY DEF HarnessInv
      <4>2. CASE alreadyWarned
        <5>1. alreadyWarned' /\ reminders' = reminders
          BY <3>1, <4>2
        <5> QED
          BY <4>1, <4>2, <5>1
      <4>3. CASE ~alreadyWarned /\ Detected(perSession')
        <5>1. reminders' = reminders + 1 /\ reminders = 0
          BY <3>1, <4>1, <4>3
        <5>2. alreadyWarned'
          BY <3>1, <4>3
        <5> QED
          BY <5>1, <5>2
      <4>4. CASE ~alreadyWarned /\ ~Detected(perSession')
        <5>1. reminders' = reminders /\ reminders = 0
          BY <3>1, <4>1, <4>4
        <5>2. ~alreadyWarned'
          BY <3>1, <4>4
        <5> QED
          BY <5>1, <5>2
      <4> QED
        BY <4>2, <4>3, <4>4
    <3> QED
      BY <3>1, <3>3, <3>6, <3>7 DEF HarnessInv
  <2>2. ASSUME NEW list, TodosUpdated(list) PROVE HarnessInv'
    BY <2>2 DEF TodosUpdated, loopVars, HarnessInv
  <2>3. CASE SessionIdle
    BY <2>3 DEF SessionIdle, loopVars, HarnessInv
  <2>4. CASE SessionReset
    BY <2>4, NothingLooped DEF SessionReset, HarnessInv
  <2>5. CASE UNCHANGED harnessVars
    BY <2>5 DEF harnessVars, HarnessInv, Open
  <2> QED
    BY <2>1, <2>2, <2>3, <2>4, <2>5 DEF HarnessNext
<1>3. HarnessInv => LoopsWarned
  BY DEF HarnessInv, LoopsWarned, Looped
<1> QED
  BY <1>1, <1>2, <1>3, PTL DEF HarnessSpec
-----------------------------------------------------------------------------
(***************************************************************************)
(* RepliesSuffice, the first half of ReadsReplay, is not inductive: it     *)
(* says nothing of a read before its reply.  ToolsInv follows the reads.   *)
(* While nothing is blurred one read runs at a time, the cache is what the *)
(* session was shown unless that read has carried it ahead, and a cached   *)
(* text with the time of the file is the text of the file.                 *)
(***************************************************************************)
\* What the cache has is what the session was shown last.
InStep == cache # NotCached => cache.text = shown /\ shown.part = "whole"

\* A read, where the state is not blurred.
ReadFits(c) ==
  LET r == reads[c]
  IN  /\ r.pc \in {"stat", "diff"} => r.base = cache /\ cache # NotCached
      /\ r.pc = "after" => r.text.version = disk.version
      /\ r.pc = "pending" =>
           /\ r.reply \in {"unchanged", "diff"} /\ r.base.text = shown /\ shown.part = "whole"
           /\ r.reply = "diff" => cache.text = r.text /\ r.text.part = "whole"

\* The cache may be ahead of what was shown: the builtin tool runs, or a diff
\* waits.
Ahead == \E c \in 1 .. MaxReads : \/ reads[c].pc \in {"builtin", "after"}
                                  \/ reads[c].pc = "pending" /\ reads[c].reply = "diff"

\* At most one read is under way.
OneRead == \A c, d \in 1 .. MaxReads : c # d => reads[c].pc = "free" \/ reads[d].pc = "free"

\* What the cache has from this very write is what the write wrote.
Current == cache # NotCached /\ cache.mtime = disk.mtime => cache.text.version = disk.version

ClearInv ==
  ~blurred => OneRead /\ (\A c \in 1 .. MaxReads : ReadFits(c)) /\ (Ahead \/ InStep) /\ Current

\* A read asks for lines of the file, and gets some when it gets any.
ReadsLines(r) ==
  r.part # "nothing" /\ (r.pc = "after" => r.text.version # 0 /\ r.text.part # "nothing")

\* Times of remembered texts are not ahead of the file.
ToolsInv ==
  /\ ToolsTypeOK
  /\ cache.mtime <= disk.mtime
  /\ \A c \in 1 .. MaxReads : reads[c].mtime <= disk.mtime /\ ReadsLines(reads[c])
  /\ ClearInv

\* The reads of ToolsTypeOK.
ReadRec == [pc : {"free", "stat", "diff", "builtin", "pending", "after"},
            part : Parts, text : Text, mtime : 0 .. MaxWrites, base : Cached,
            reply : {"text", "unchanged", "diff"}]

\* The reads that may run.
Slots == 1 .. MaxReads

\* The texts of the actions are texts.
LEMMA TextTyped ==
  /\ NoText \in Text /\ NotCached \in Cached /\ NotCached.mtime = 0 /\ NotCached.text = NoText /\ NoText.version = 0
  /\ \A v \in 0 .. MaxVersions : Whole(v) \in Text /\ Whole(v).version = v /\ Whole(v).part = "whole"
<1>1. 0 \in 0 .. MaxVersions /\ 0 \in 0 .. MaxWrites
  BY ToolAssumption
<1>2. NoText \in Text /\ NoText.version = 0
  BY <1>1 DEF NoText, Text, Parts
<1>3. NotCached \in Cached /\ NotCached.mtime = 0 /\ NotCached.text = NoText
  BY <1>1, <1>2 DEF NotCached, Cached
<1> QED
  BY <1>2, <1>3 DEF Whole, Text, Parts

\* The read that is none.
LEMMA NoReadTyped ==
  NoRead \in ReadRec /\ NoRead.pc = "free" /\ NoRead.mtime = 0 /\ ReadsLines(NoRead)
<1>1. 0 \in 0 .. MaxWrites
  BY ToolAssumption
<1> QED
  BY <1>1, TextTyped DEF NoRead, ReadRec, Parts, ReadsLines

\* The states of a read that an action makes.
Began(part, base, pc) == [NoRead EXCEPT !.part = part, !.base = base, !.pc = pc]

\* A read that begins,
LEMMA BeganTyped ==
  ASSUME NEW part \in {"whole", "part"}, NEW base \in Cached, NEW pc \in {"builtin", "stat"}
  PROVE  /\ Began(part, base, pc) \in ReadRec /\ Began(part, base, pc).pc = pc
         /\ Began(part, base, pc).base = base /\ Began(part, base, pc).mtime = 0
         /\ ReadsLines(Began(part, base, pc))
BY NoReadTyped DEF ReadRec, NoRead, Began, Parts, ReadsLines

\* one that is left to the tool,
LEMMA BuiltinTyped ==
  ASSUME NEW c, reads[c] \in ReadRec, ReadsLines(reads[c])
  PROVE  Builtin(c) \in ReadRec /\ Builtin(c).pc = "builtin" /\ Builtin(c).mtime = 0 /\ ReadsLines(Builtin(c))
BY NoReadTyped DEF ReadRec, NoRead, Builtin, ReadsLines

\* one whose reply waits,
LEMMA PendingTyped ==
  ASSUME NEW c, reads[c] \in ReadRec, NEW reply \in {"unchanged", "diff"}, NEW text \in Text
  PROVE  /\ Pending(c, reply, text) \in ReadRec /\ Pending(c, reply, text).pc = "pending"
         /\ Pending(c, reply, text).mtime = 0 /\ Pending(c, reply, text).reply = reply
         /\ Pending(c, reply, text).text = text /\ Pending(c, reply, text).base.text = reads[c].base.text
         /\ ReadsLines(Pending(c, reply, text))
<1> DEFINE base == [NotCached EXCEPT !.text = reads[c].base.text]
<1>1. NotCached \in [text : Text, mtime : 0 .. MaxWrites] /\ reads[c].base.text \in Text
  BY TextTyped DEF ReadRec, Cached
<1>2. base \in Cached /\ base.text = reads[c].base.text
  BY <1>1 DEF Cached
<1> HIDE DEF base
<1> DEFINE p == [NoRead EXCEPT !.pc = "pending", !.reply = reply, !.text = text, !.base = base]
<1>3. /\ NoRead.part = "whole" /\ NoRead.mtime = 0 /\ NoRead.base = NotCached
      /\ NoRead = [pc |-> "free", part |-> "whole", text |-> NoText, mtime |-> 0, base |-> NotCached, reply |-> "text"]
  BY DEF NoRead
<1>4. p \in ReadRec
  BY <1>2, NoReadTyped DEF ReadRec
<1>5. /\ p.pc = "pending" /\ p.mtime = 0 /\ p.reply = reply /\ p.text = text /\ p.base = base
      /\ p.part = "whole"
  BY <1>3
<1>6. Pending(c, reply, text) = p
  BY <1>3 DEF Pending, base
<1> HIDE DEF p
<1> QED
  BY <1>2, <1>4, <1>5, <1>6 DEF ReadsLines

\* one that compares,
Compares(old, mtime) == [old EXCEPT !.pc = "diff", !.mtime = mtime]

LEMMA ComparesTyped ==
  ASSUME NEW old \in ReadRec, ReadsLines(old), NEW mtime \in 0 .. MaxWrites
  PROVE  /\ Compares(old, mtime) \in ReadRec /\ Compares(old, mtime).pc = "diff"
         /\ Compares(old, mtime).mtime = mtime /\ Compares(old, mtime).base = old.base
         /\ ReadsLines(Compares(old, mtime))
BY DEF ReadRec, Compares, ReadsLines

\* and one that has run.
Ran(text) == [NoRead EXCEPT !.pc = "after", !.text = text]

LEMMA RanTyped ==
  ASSUME NEW text \in Text, text.version # 0, text.part # "nothing"
  PROVE  /\ Ran(text) \in ReadRec /\ Ran(text).pc = "after" /\ Ran(text).mtime = 0 /\ Ran(text).text = text
         /\ ReadsLines(Ran(text))
BY NoReadTyped DEF ReadRec, NoRead, Ran, ReadsLines

\* A read that makes the cache ahead.
Leads(r) == r.pc \in {"builtin", "after"} \/ (r.pc = "pending" /\ r.reply = "diff")

\* No other read is under way.
OthersFree(c) == \A d \in Slots : d # c => reads[d].pc = "free"

\* A read takes a step and the file stays.
LEMMA ReadSteps ==
  ASSUME ToolsInv, NEW c \in Slots, NEW r \in ReadRec, reads' = [reads EXCEPT ![c] = r],
         UNCHANGED <<disk, patch, copy>>, cache' \in Cached, cache'.mtime <= disk.mtime,
         shown' \in Text, blurred' \in BOOLEAN, r.mtime <= disk.mtime,
         ReadsLines(r),
         ~blurred' =>
           /\ OthersFree(c) /\ (Leads(r) \/ InStep') /\ Current'
           /\ r.pc \in {"stat", "diff"} => r.base = cache' /\ cache' # NotCached
           /\ r.pc = "after" => r.text.version = disk.version
           /\ r.pc = "pending" =>
                /\ r.reply \in {"unchanged", "diff"} /\ r.base.text = shown' /\ shown'.part = "whole"
                /\ r.reply = "diff" => cache'.text = r.text /\ r.text.part = "whole"
  PROVE  ToolsInv'
<1>1. reads \in [Slots -> ReadRec] /\ reads' \in [Slots -> ReadRec] /\ reads'[c] = r
      /\ \A d \in Slots : d # c => reads'[d] = reads[d]
  BY DEF ToolsInv, ToolsTypeOK, ReadRec, Slots
<1>2. ToolsTypeOK'
  BY <1>1 DEF ToolsInv, ToolsTypeOK, ReadRec, Slots
<1>3. \A d \in Slots : reads'[d].mtime <= disk'.mtime /\ ReadsLines(reads'[d])
  BY <1>1 DEF ToolsInv, Slots
<1>4. ASSUME ~blurred' PROVE (OneRead /\ (\A d \in 1 .. MaxReads : ReadFits(d)) /\ (Ahead \/ InStep) /\ Current)'
  <2>1. \A d \in Slots : d # c => reads'[d].pc = "free"
    BY <1>1, <1>4 DEF OthersFree
  <2>2. OneRead'
    BY <2>1 DEF OneRead, Slots
  <2>3. \A d \in Slots : ReadFits(d)'
    <3>1. ReadFits(c)'
      BY <1>1, <1>4 DEF ReadFits
    <3>2. \A d \in Slots : d # c => ReadFits(d)'
      BY <2>1 DEF ReadFits
    <3> QED
      BY <3>1, <3>2
  <2>4. Leads(r) => Ahead'
    BY <1>1 DEF Leads, Ahead, Slots
  <2> QED
    BY <1>4, <2>2, <2>3, <2>4 DEF Slots
<1> QED
  BY <1>2, <1>3, <1>4 DEF ToolsInv, ClearInv, Slots

\* What is known of a read that is under way.
LEMMA Knows ==
  ASSUME ToolsInv, NEW c \in Slots
  PROVE  /\ reads[c] \in ReadRec /\ reads[c].mtime <= disk.mtime /\ cache \in Cached /\ shown \in Text
         /\ cache.mtime <= disk.mtime /\ blurred \in BOOLEAN
         /\ disk.version \in 0 .. MaxVersions /\ disk.mtime \in 0 .. MaxWrites
         /\ ReadsLines(reads[c])
         /\ ~blurred => Current /\ (Ahead \/ InStep) /\ ReadFits(c)
         /\ ~blurred /\ reads[c].pc # "free" => OthersFree(c) /\ (Ahead => Leads(reads[c]))
<1>1. reads \in [Slots -> ReadRec]
  BY DEF ToolsInv, ToolsTypeOK, ReadRec, Slots
<1>2. ~blurred /\ reads[c].pc # "free" => OthersFree(c)
  BY DEF ToolsInv, ClearInv, OneRead, OthersFree, Slots
<1>3. OthersFree(c) /\ Ahead => Leads(reads[c])
  BY DEF OthersFree, Ahead, Leads, Slots
<1> QED
  BY <1>1, <1>2, <1>3 DEF ToolsInv, ToolsTypeOK, ClearInv, Slots

\* A read that begins finds the state in step, or none of it counts.
LEMMA ReadBeginsStep ==
  ASSUME ToolsInv, NEW c \in Slots, NEW part \in {"whole", "part"}, NEW evicted \in BOOLEAN,
         ReadBegins(c, part, evicted)
  PROVE  ToolsInv'
<1> DEFINE found == IF evicted THEN NotCached ELSE cache
           r == [NoRead EXCEPT !.part = part, !.base = found,
                     !.pc = IF found = NotCached THEN "builtin" ELSE "stat"]
<1>1. /\ reads[c].pc = "free" /\ cache' = found /\ reads' = [reads EXCEPT ![c] = r]
      /\ blurred' = (blurred \/ ~Alone(c)) /\ UNCHANGED <<disk, shown, patch, copy>>
  BY DEF ReadBegins
<1>2. found \in Cached /\ found.mtime <= disk.mtime /\ part \in Parts
  <2>1. 0 <= disk.mtime
    BY Knows
  <2> QED
    BY <2>1, Knows, TextTyped DEF Parts
<1> DEFINE pc == IF found = NotCached THEN "builtin" ELSE "stat"
<1>3. r \in ReadRec /\ r.pc = pc /\ r.base = found /\ r.mtime = 0 /\ pc \in {"builtin", "stat"} /\ ReadsLines(r)
  <2>1. pc \in {"builtin", "stat"}
    OBVIOUS
  <2> HIDE DEF found, pc
  <2>2. Began(part, found, pc) = r
    BY DEF pc, Began
  <2> HIDE DEF r
  <2> QED
    BY <1>2, <2>1, <2>2, BeganTyped
<1>4. ASSUME ~blurred' PROVE OthersFree(c) /\ InStep' /\ Current' /\ cache' = found
  <2>1. ~blurred /\ Alone(c)
    BY <1>1, <1>4
  <2>2. \A d \in Slots : reads[d].pc = "free"
    BY <1>1, <2>1 DEF Alone, Slots
  <2>3. OthersFree(c) /\ ~Ahead
    BY <2>2 DEF OthersFree, Ahead, Slots
  <2>4. InStep /\ Current
    BY <2>1, <2>3, Knows
  <2>5. InStep' /\ Current'
    BY <1>1, <2>4 DEF InStep, Current
  <2> QED
    BY <1>1, <2>3, <2>5
<1>5. 0 <= disk.mtime /\ shown \in Text /\ blurred' \in BOOLEAN
  BY <1>1, Knows
<1>6. (r.pc = "builtin" => Leads(r)) /\ (pc = "stat" => found # NotCached)
  BY DEF Leads
<1> HIDE DEF found, r, pc
<1> QED
  BY <1>1, <1>2, <1>3, <1>4, <1>5, <1>6, ReadSteps

\* The same time is the same write, so the reply "unchanged" is of the text shown.
LEMMA ReadStatsStep ==
  ASSUME ToolsInv, NEW c \in Slots, ReadStats(c)
  PROVE  ToolsInv'
<1> DEFINE r == reads[c]
<1>1. /\ r.pc = "stat" /\ UNCHANGED <<disk, cache, shown, blurred, patch, copy>>
      /\ \/ disk.version = 0 /\ reads' = [reads EXCEPT ![c] = Builtin(c)]
         \/ disk.mtime = r.base.mtime /\ reads' = [reads EXCEPT ![c] = Pending(c, "unchanged", NoText)]
         \/ reads' = [reads EXCEPT ![c] = Compares(r, disk.mtime)]
  BY DEF ReadStats, Compares
<1>2. /\ r \in ReadRec /\ ReadsLines(r) /\ cache \in Cached /\ shown \in Text /\ blurred \in BOOLEAN
      /\ disk.mtime \in 0 .. MaxWrites /\ cache.mtime <= disk.mtime /\ 0 <= disk.mtime /\ disk.mtime <= disk.mtime
  BY Knows
<1>3. ASSUME ~blurred'
      PROVE  /\ OthersFree(c) /\ InStep /\ InStep' /\ Current'
             /\ r.base = cache /\ cache # NotCached
  <2>1. ~blurred /\ OthersFree(c) /\ (Ahead => Leads(r)) /\ Current /\ (Ahead \/ InStep) /\ ReadFits(c)
    BY <1>1, <1>3, Knows
  <2>2. InStep
    BY <1>1, <2>1 DEF Leads
  <2> QED
    BY <1>1, <2>1, <2>2 DEF InStep, Current, ReadFits
<1> HIDE DEF r
<1>4. CASE reads' = [reads EXCEPT ![c] = Builtin(c)]
  <2>1. Builtin(c) \in ReadRec /\ Builtin(c).pc = "builtin" /\ Builtin(c).mtime = 0 /\ ReadsLines(Builtin(c))
    BY <1>2, BuiltinTyped DEF r
  <2> QED
    BY <1>1, <1>2, <1>3, <1>4, <2>1, ReadSteps
<1>5. CASE reads' = [reads EXCEPT ![c] = Pending(c, "unchanged", NoText)]
  <2> DEFINE p == Pending(c, "unchanged", NoText)
  <2>1. p \in ReadRec /\ p.pc = "pending" /\ p.mtime = 0 /\ p.reply = "unchanged" /\ p.base.text = r.base.text /\ ReadsLines(p)
    BY <1>2, TextTyped, PendingTyped DEF r
  <2>2. ~blurred' => p.base.text = shown' /\ shown'.part = "whole"
    BY <1>1, <1>3, <2>1 DEF InStep
  <2> HIDE DEF p
  <2> QED
    BY <1>1, <1>2, <1>3, <1>5, <2>1, <2>2, ReadSteps DEF p
<1>6. CASE reads' = [reads EXCEPT ![c] = Compares(r, disk.mtime)]
  <2> DEFINE p == Compares(r, disk.mtime)
  <2>1. p \in ReadRec /\ p.pc = "diff" /\ p.mtime = disk.mtime /\ p.base = r.base /\ ReadsLines(p)
    BY <1>2, ComparesTyped
  <2> HIDE DEF p
  <2> QED
    BY <1>1, <1>2, <1>3, <1>6, <2>1, ReadSteps DEF p
<1> QED
  BY <1>1, <1>4, <1>5, <1>6

\* A diff starts from the text shown; the cache runs ahead of it.
LEMMA ReadDiffsStep ==
  ASSUME ToolsInv, NEW c \in Slots, NEW small \in BOOLEAN, ReadDiffs(c, small)
  PROVE  ToolsInv'
<1> DEFINE r == reads[c]
           now == Whole(disk.version)
           fresh == [text |-> now, mtime |-> r.mtime]
<1>1. /\ r.pc = "diff" /\ UNCHANGED <<disk, shown, blurred, patch, copy>>
      /\ cache' = fresh /\ disk.version # 0
      /\ \/ reads' = [reads EXCEPT ![c] = Builtin(c)]
         \/ reads' = [reads EXCEPT ![c] = Pending(c, "diff", now)]
  BY DEF ReadDiffs
<1>2. /\ r \in ReadRec /\ ReadsLines(r) /\ cache \in Cached /\ shown \in Text /\ blurred \in BOOLEAN
      /\ disk.mtime \in 0 .. MaxWrites /\ r.mtime <= disk.mtime /\ 0 <= disk.mtime
      /\ disk.version \in 0 .. MaxVersions
  BY Knows
<1>3. now \in Text /\ now.version = disk.version /\ now.part = "whole"
  BY <1>2, TextTyped
<1>4. fresh \in Cached /\ fresh.text = now /\ fresh.mtime = r.mtime
  BY <1>2, <1>3 DEF Cached, ReadRec
<1>5. ASSUME ~blurred'
      PROVE  /\ OthersFree(c) /\ InStep /\ Current' /\ r.base = cache /\ cache # NotCached
  <2>1. ~blurred /\ OthersFree(c) /\ (Ahead => Leads(r)) /\ Current /\ (Ahead \/ InStep) /\ ReadFits(c)
    BY <1>1, <1>5, Knows
  <2>2. InStep
    BY <1>1, <2>1 DEF Leads
  <2>3. Current'
    BY <1>1, <1>3, <1>4 DEF Current
  <2> QED
    BY <1>1, <2>1, <2>2, <2>3 DEF ReadFits
<1>6. CASE reads' = [reads EXCEPT ![c] = Builtin(c)]
  <2>1. Builtin(c) \in ReadRec /\ Builtin(c).pc = "builtin" /\ Builtin(c).mtime = 0 /\ ReadsLines(Builtin(c)) /\ Leads(Builtin(c))
    BY <1>2, BuiltinTyped DEF Leads
  <2> HIDE DEF r, now, fresh
  <2> QED
    BY <1>1, <1>2, <1>4, <1>5, <1>6, <2>1, ReadSteps
<1>7. CASE reads' = [reads EXCEPT ![c] = Pending(c, "diff", now)]
  <2> DEFINE p == Pending(c, "diff", now)
  <2>1. /\ p \in ReadRec /\ p.pc = "pending" /\ p.mtime = 0 /\ p.reply = "diff" /\ p.text = now
        /\ p.base.text = r.base.text /\ ReadsLines(p)
    BY <1>2, <1>3, PendingTyped
  <2>2. ~blurred' => p.base.text = shown' /\ shown'.part = "whole"
    BY <1>1, <1>5, <2>1 DEF InStep
  <2>3. Leads(p)
    BY <2>1 DEF Leads
  <2> HIDE DEF p, r, now, fresh
  <2>4. cache'.text = p.text /\ p.text.part = "whole"
    BY <1>1, <1>3, <1>4, <2>1
  <2>5. reads' = [reads EXCEPT ![c] = p]
    BY <1>7 DEF p
  <2> QED
    BY <1>1, <1>2, <1>4, <1>5, <2>1, <2>2, <2>3, <2>4, <2>5, ReadSteps
<1> QED
  BY <1>1, <1>6, <1>7

\* The file went away.
LEMMA ReadDiffFailsStep ==
  ASSUME ToolsInv, NEW c \in Slots, ReadDiffFails(c)
  PROVE  ToolsInv'
<1>1. /\ reads[c].pc = "diff" /\ UNCHANGED <<disk, cache, shown, blurred, patch, copy>>
      /\ reads' = [reads EXCEPT ![c] = Builtin(c)]
  BY DEF ReadDiffFails
<1>2. /\ reads[c] \in ReadRec /\ ReadsLines(reads[c]) /\ cache \in Cached /\ shown \in Text /\ blurred \in BOOLEAN
      /\ cache.mtime <= disk.mtime /\ 0 <= disk.mtime
      /\ ~blurred => OthersFree(c) /\ Current
  BY <1>1, Knows
<1>3. Builtin(c) \in ReadRec /\ Builtin(c).pc = "builtin" /\ Builtin(c).mtime = 0 /\ ReadsLines(Builtin(c)) /\ Leads(Builtin(c))
  BY <1>2, BuiltinTyped DEF Leads
<1>4. Current => Current'
  BY <1>1 DEF Current
<1> QED
  BY <1>1, <1>2, <1>3, <1>4, ReadSteps

\* What the tool reads is what the file holds.
LEMMA ReadRunsStep ==
  ASSUME ToolsInv, NEW c \in Slots, NEW preview \in BOOLEAN, ReadRuns(c, preview)
  PROVE  ToolsInv'
<1> DEFINE text == [version |-> disk.version, part |-> IF preview THEN "part" ELSE reads[c].part]
<1>1. /\ reads[c].pc = "builtin" /\ disk.version # 0 /\ UNCHANGED <<disk, cache, shown, blurred, patch, copy>>
      /\ reads' = [reads EXCEPT ![c] = Ran(text)]
  BY DEF ReadRuns, Ran
<1>2. /\ reads[c] \in ReadRec /\ ReadsLines(reads[c]) /\ cache \in Cached /\ shown \in Text /\ blurred \in BOOLEAN
      /\ cache.mtime <= disk.mtime /\ 0 <= disk.mtime /\ disk.version \in 0 .. MaxVersions
      /\ ~blurred => OthersFree(c) /\ Current
  BY <1>1, Knows
<1>3. text \in Text /\ text.version = disk.version /\ text.part # "nothing"
  BY <1>2 DEF Text, Parts, ReadRec, ReadsLines
<1> HIDE DEF text
<1>4. Ran(text) \in ReadRec /\ Ran(text).pc = "after" /\ Ran(text).mtime = 0 /\ Ran(text).text = text /\ ReadsLines(Ran(text)) /\ Leads(Ran(text))
  BY <1>1, <1>3, RanTyped DEF Leads
<1>5. Current => Current'
  BY <1>1 DEF Current
<1> QED
  BY <1>1, <1>2, <1>3, <1>4, <1>5, ReadSteps

\* A tool that fails after a large diff leaves the cache ahead: blurred.
LEMMA ReadThrowsStep ==
  ASSUME ToolsInv, NEW c \in Slots, ReadThrows(c)
  PROVE  ToolsInv'
<1>1. /\ reads[c].pc = "builtin" /\ UNCHANGED <<disk, cache, shown, patch, copy>>
      /\ reads' = [reads EXCEPT ![c] = NoRead] /\ blurred' = (blurred \/ cache # NotCached)
  BY DEF ReadThrows
<1>2. /\ reads[c] \in ReadRec /\ ReadsLines(reads[c]) /\ cache \in Cached /\ shown \in Text
      /\ cache.mtime <= disk.mtime /\ 0 <= disk.mtime
      /\ ~blurred => OthersFree(c)
  BY <1>1, Knows
<1>4. blurred' \in BOOLEAN /\ (~blurred' => ~blurred /\ cache = NotCached)
  BY <1>1
<1>3. ~blurred' => InStep' /\ Current'
  BY <1>1, <1>4 DEF InStep, Current
<1> QED
  BY <1>1, <1>2, <1>3, <1>4, NoReadTyped, ReadSteps

\* With the diff the session has caught up.
LEMMA ReadRepliedStep ==
  ASSUME ToolsInv, NEW c \in Slots, ReadReplied(c)
  PROVE  ToolsInv'
<1> DEFINE r == reads[c]
<1>1. /\ r.pc = "pending" /\ UNCHANGED <<disk, cache, blurred, patch, copy>>
      /\ shown' = (IF r.reply = "diff" THEN r.text ELSE shown)
      /\ reads' = [reads EXCEPT ![c] = NoRead]
  BY DEF ReadReplied
<1>2. /\ r \in ReadRec /\ ReadsLines(r) /\ cache \in Cached /\ shown \in Text /\ blurred \in BOOLEAN
      /\ cache.mtime <= disk.mtime /\ 0 <= disk.mtime
      /\ ~blurred => OthersFree(c) /\ (Ahead => Leads(r)) /\ Current /\ (Ahead \/ InStep) /\ ReadFits(c)
  BY <1>1, Knows
<1>3. shown' \in Text
  BY <1>1, <1>2 DEF ReadRec
<1>4. ASSUME ~blurred' PROVE OthersFree(c) /\ InStep' /\ Current'
  <2>1. OthersFree(c) /\ (Ahead => Leads(r)) /\ Current /\ (Ahead \/ InStep) /\ ReadFits(c)
    BY <1>1, <1>2, <1>4
  <2>2. Current'
    BY <1>1, <2>1 DEF Current
  <2>3. CASE r.reply = "diff"
    <3>1. cache.text = r.text /\ r.text.part = "whole"
      BY <1>1, <2>1, <2>3 DEF ReadFits
    <3> QED
      BY <1>1, <2>1, <2>2, <2>3, <3>1 DEF InStep
  <2>4. CASE r.reply # "diff"
    <3>1. InStep
      BY <1>1, <2>1, <2>4 DEF Leads
    <3> QED
      BY <1>1, <2>1, <2>2, <2>4, <3>1 DEF InStep
  <2> QED
    BY <2>3, <2>4
<1> HIDE DEF r
<1> QED
  BY <1>1, <1>2, <1>3, <1>4, NoReadTyped, ReadSteps

\* So it has with the output of the tool, if it is whole and as new as its time.
LEMMA ReadRememberedStep ==
  ASSUME ToolsInv, NEW c \in Slots, ReadRemembered(c)
  PROVE  ToolsInv'
<1> DEFINE text == reads[c].text
           fresh == [text |-> text, mtime |-> disk.mtime]
<1>1. /\ reads[c].pc = "after" /\ shown' = text /\ UNCHANGED <<disk, patch, copy>>
      /\ cache' = (IF disk.version = 0 THEN cache ELSE fresh)
      /\ reads' = [reads EXCEPT ![c] = NoRead]
      /\ blurred' = (\/ text.part = "part" \/ ~Alone(c)
                     \/ blurred /\ text.version # disk.version
                     \/ disk.version = 0 /\ cache # NotCached)
  BY DEF ReadRemembered
<1>2. /\ reads[c] \in ReadRec /\ ReadsLines(reads[c]) /\ cache \in Cached /\ blurred \in BOOLEAN
      /\ cache.mtime <= disk.mtime /\ 0 <= disk.mtime /\ disk.mtime \in 0 .. MaxWrites
      /\ text.version # 0 /\ text.part # "nothing" /\ (~blurred => ReadFits(c))
  BY <1>1, Knows DEF ReadsLines
<1>3. text \in Text /\ fresh \in Cached /\ fresh.text = text /\ fresh.mtime = disk.mtime
  BY <1>2 DEF ReadRec, Cached
<1>4. cache' \in Cached /\ cache'.mtime <= disk.mtime /\ shown' \in Text /\ blurred' \in BOOLEAN
  BY <1>1, <1>2, <1>3
<1>5. ASSUME ~blurred' PROVE OthersFree(c) /\ InStep' /\ Current'
  <2>1. Alone(c) /\ text.part # "part" /\ text.version = disk.version
    BY <1>1, <1>2, <1>5 DEF ReadFits
  <2>2. OthersFree(c)
    BY <2>1 DEF OthersFree, Alone, Slots
  <2>3. cache' = fresh
    BY <1>1, <1>2, <2>1
  <2>4. text.part = "whole"
    BY <1>2, <1>3, <2>1 DEF Text, Parts
  <2> QED
    BY <1>1, <1>3, <2>1, <2>2, <2>3, <2>4 DEF InStep, Current
<1> HIDE DEF text, fresh
<1> QED
  BY <1>1, <1>2, <1>4, <1>5, NoReadTyped, ReadSteps

\* Whoever writes the file.
LEMMA WrittenKeeps ==
  ASSUME ToolsInv, NEW v \in 0 .. MaxVersions, Written(v),
         patch' \in [pc : {"free", "copied", "anchored", "compared"}, base : 0 .. MaxVersions],
         copy' \in 0 .. MaxVersions
  PROVE  ToolsInv'
<1>1. /\ disk.mtime < MaxWrites /\ disk' = [version |-> v, mtime |-> disk.mtime + 1]
      /\ blurred' = (blurred \/ \E c \in 1 .. MaxReads : reads[c].pc = "after")
      /\ UNCHANGED <<cache, shown, reads>>
  BY DEF Written
<1>2. disk.mtime \in 0 .. MaxWrites /\ MaxWrites \in Nat
  BY ToolAssumption DEF ToolsInv, ToolsTypeOK
<1>3. disk' \in [version : 0 .. MaxVersions, mtime : 0 .. MaxWrites] /\ disk'.mtime = disk.mtime + 1
  BY <1>1, <1>2
<1>4. ToolsTypeOK'
  BY <1>1, <1>3 DEF ToolsInv, ToolsTypeOK
<1>5. \A x \in 0 .. MaxWrites : x <= disk.mtime => x <= disk'.mtime /\ x # disk'.mtime
  BY <1>2, <1>3
<1>6. cache.mtime \in 0 .. MaxWrites /\ \A c \in 1 .. MaxReads : reads[c].mtime \in 0 .. MaxWrites
  BY DEF ToolsInv, ToolsTypeOK, Cached
<1>7. cache'.mtime <= disk'.mtime /\ cache'.mtime # disk'.mtime
  BY <1>1, <1>5, <1>6 DEF ToolsInv
<1>8. \A c \in 1 .. MaxReads : reads'[c].mtime <= disk'.mtime /\ ReadsLines(reads'[c])
  BY <1>1, <1>5, <1>6 DEF ToolsInv
<1>9. ASSUME ~blurred' PROVE (OneRead /\ (\A c \in 1 .. MaxReads : ReadFits(c)) /\ (Ahead \/ InStep) /\ Current)'
  <2>1. ~blurred /\ \A c \in 1 .. MaxReads : reads[c].pc # "after"
    BY <1>1, <1>9
  <2>2. OneRead /\ (\A c \in 1 .. MaxReads : ReadFits(c)) /\ (Ahead \/ InStep)
    BY <2>1 DEF ToolsInv, ClearInv
  <2>3. OneRead' /\ (Ahead \/ InStep)'
    BY <1>1, <2>2 DEF OneRead, Ahead, InStep
  <2>4. \A c \in 1 .. MaxReads : ReadFits(c)'
    BY <1>1, <2>1, <2>2 DEF ReadFits
  <2> QED
    BY <1>7, <2>3, <2>4 DEF Current
<1> QED
  BY <1>4, <1>7, <1>8, <1>9 DEF ToolsInv, ClearInv

\* Only the patch tool or the harness moves.
LEMMA PatchKeeps ==
  ASSUME ToolsInv, UNCHANGED <<disk, readVars>>,
         patch' \in [pc : {"free", "copied", "anchored", "compared"}, base : 0 .. MaxVersions],
         copy' \in 0 .. MaxVersions
  PROVE  ToolsInv'
<1>1. ToolsTypeOK'
  BY DEF ToolsInv, ToolsTypeOK, readVars
<1>2. \A c \in 1 .. MaxReads : ReadFits(c)' <=> ReadFits(c)
  BY DEF ReadFits, readVars
<1>3. ClearInv'
  BY <1>2 DEF ToolsInv, ClearInv, OneRead, Ahead, InStep, Current, readVars
<1> QED
  BY <1>1, <1>3 DEF ToolsInv, readVars

\* Every action of the module.
LEMMA ToolsStep == ToolsInv /\ [ToolsNext]_toolVars => ToolsInv'
<1> SUFFICES ASSUME ToolsInv, [ToolsNext]_toolVars PROVE ToolsInv'
  OBVIOUS
<1>1. /\ patch \in [pc : {"free", "copied", "anchored", "compared"}, base : 0 .. MaxVersions]
      /\ copy \in 0 .. MaxVersions /\ disk.version \in 0 .. MaxVersions /\ 0 \in 0 .. MaxVersions
  BY ToolAssumption DEF ToolsInv, ToolsTypeOK
<1>2. NoPatch \in [pc : {"free", "copied", "anchored", "compared"}, base : 0 .. MaxVersions]
  BY <1>1 DEF NoPatch
<1>3. ASSUME NEW v \in 0 .. MaxVersions, Edited(v) PROVE ToolsInv'
  BY <1>1, <1>3, WrittenKeeps DEF Edited
<1>4. ASSUME NEW c \in Slots, NEW part \in {"whole", "part"}, NEW evicted \in BOOLEAN, ReadBegins(c, part, evicted)
      PROVE  ToolsInv'
  BY <1>4, ReadBeginsStep
<1>5. ASSUME NEW c \in Slots,
             ReadStats(c) \/ ReadDiffFails(c) \/ ReadThrows(c) \/ ReadReplied(c) \/ ReadRemembered(c)
      PROVE  ToolsInv'
  BY <1>5, ReadStatsStep, ReadDiffFailsStep, ReadThrowsStep, ReadRepliedStep, ReadRememberedStep
<1>6. ASSUME NEW c \in Slots, NEW b \in BOOLEAN, ReadDiffs(c, b) \/ ReadRuns(c, b) PROVE ToolsInv'
  BY <1>6, ReadDiffsStep, ReadRunsStep
<1>7. ASSUME PatchBegins PROVE ToolsInv'
  <2>1. [pc |-> "copied", base |-> 0] \in [pc : {"free", "copied", "anchored", "compared"}, base : 0 .. MaxVersions]
    BY <1>1
  <2> QED
    BY <1>1, <1>7, <2>1, PatchKeeps DEF PatchBegins
<1>8. ASSUME NEW matches \in BOOLEAN, PatchReads(matches) PROVE ToolsInv'
  <2>1. [pc |-> "anchored", base |-> disk.version] \in [pc : {"free", "copied", "anchored", "compared"}, base : 0 .. MaxVersions]
    BY <1>1
  <2> QED
    BY <1>1, <1>2, <1>8, <2>1, PatchKeeps DEF PatchReads
<1>9. ASSUME PatchCompares \/ PatchFails PROVE ToolsInv'
  <2>1. [patch EXCEPT !.pc = "compared"] \in [pc : {"free", "copied", "anchored", "compared"}, base : 0 .. MaxVersions]
    BY <1>1
  <2> QED
    BY <1>1, <1>2, <1>9, <2>1, PatchKeeps DEF PatchCompares, PatchFails
<1>10. ASSUME NEW v \in Versions, PatchRenames(v) PROVE ToolsInv'
  <2>1. v \in 0 .. MaxVersions
    BY ToolAssumption DEF Versions
  <2> QED
    BY <1>1, <1>2, <1>10, <2>1, WrittenKeeps DEF PatchRenames
<1>11. ASSUME Undo PROVE ToolsInv'
  BY <1>1, <1>11, WrittenKeeps DEF Undo
<1>12. ASSUME UNCHANGED toolVars PROVE ToolsInv'
  BY <1>1, <1>12, PatchKeeps DEF toolVars, readVars
<1> QED
  BY <1>3, <1>4, <1>5, <1>6, <1>7, <1>8, <1>9, <1>10, <1>11, <1>12 DEF ToolsNext, Slots

\* The first state.
LEMMA ToolsInitInv == ToolsInit => ToolsInv
<1> SUFFICES ASSUME ToolsInit PROVE ToolsInv
  OBVIOUS
<1>1. /\ disk = [version |-> 1, mtime |-> 0] /\ cache = NotCached /\ shown = NoText
      /\ reads = [c \in 1 .. MaxReads |-> NoRead] /\ blurred = FALSE /\ patch = NoPatch /\ copy = 0
  BY DEF ToolsInit
<1>2. 0 \in 0 .. MaxVersions /\ 1 \in 0 .. MaxVersions /\ 0 \in 0 .. MaxWrites
  BY ToolAssumption
<1>3. ToolsTypeOK
  BY <1>1, <1>2, TextTyped, NoReadTyped DEF ToolsTypeOK, NoPatch, ReadRec
<1>4. \A c \in 1 .. MaxReads : reads[c].pc = "free" /\ reads[c].mtime = 0 /\ ReadsLines(reads[c])
  BY <1>1, NoReadTyped
<1>5. cache.mtime = 0 /\ disk.mtime = 0
  BY <1>1, TextTyped
<1>6. OneRead /\ (\A c \in 1 .. MaxReads : ReadFits(c)) /\ InStep /\ Current
  BY <1>1, <1>4 DEF OneRead, ReadFits, InStep, Current
<1> QED
  BY <1>3, <1>4, <1>5, <1>6 DEF ToolsInv, ClearInv

\* A stat that finds the time remembered finds the very text remembered.
UnchangedIsTrue ==
  \A c \in 1 .. MaxReads :
    reads[c].pc = "stat" /\ ~blurred /\ disk.version # 0 /\ disk.mtime = reads[c].base.mtime =>
      reads[c].base.text = Whole(disk.version)

(***************************************************************************)
(* What a read of a known file is answered with suffices (delta-read.ts),  *)
(* for any number of reads, writes and versions: "unchanged" speaks of the *)
(* text the session was shown last, all of it, a diff starts from that     *)
(* text, and a stat that finds the time remembered finds the very text     *)
(* remembered in the file, so nothing stale is called unchanged; but where *)
(* the state is blurred, as RepliesSuffice says.                           *)
(***************************************************************************)
THEOREM ShortRepliesSuffice == ToolsSpec => [](ToolsTypeOK /\ RepliesSuffice /\ UnchangedIsTrue)
<1>1. ToolsInit => ToolsInv
  BY ToolsInitInv
<1>2. ToolsInv /\ [ToolsNext]_toolVars => ToolsInv'
  BY ToolsStep
<1>3. ToolsInv => ToolsTypeOK /\ RepliesSuffice
  BY DEF ToolsInv, ClearInv, ReadFits, RepliesSuffice
<1>4. ToolsInv => UnchangedIsTrue
  <2> SUFFICES ASSUME ToolsInv, NEW c \in Slots, reads[c].pc = "stat", ~blurred, disk.mtime = reads[c].base.mtime
               PROVE  reads[c].base.text = Whole(disk.version)
    BY DEF UnchangedIsTrue, Slots
  <2>1. OthersFree(c) /\ (Ahead => Leads(reads[c])) /\ Current /\ (Ahead \/ InStep) /\ ReadFits(c) /\ cache \in Cached
    BY Knows
  <2>2. InStep /\ reads[c].base = cache /\ cache # NotCached
    BY <2>1 DEF Leads, ReadFits
  <2>3. cache.text \in Text /\ cache.text.version = disk.version /\ cache.text.part = "whole"
    BY <2>1, <2>2 DEF InStep, Current, Cached
  <2> QED
    BY <2>2, <2>3 DEF Text, Whole
<1> QED
  BY <1>1, <1>2, <1>3, <1>4, PTL DEF ToolsSpec

-----------------------------------------------------------------------------
(***************************************************************************)
(* DiffExplains, the second half of ReadsReplay, for every pair of texts   *)
(* and every DiffContext and DiffLookAhead.  Two inductions carry it.      *)
(* From the end of the texts: what EditScript writes from a place on is    *)
(* what is left of both texts (Leaves, ScriptIs).  Along the script:       *)
(* DiffInv has the entries passed in two parts, those the finished hunks   *)
(* tell of (Explained) and those of the open hunk, or kept lines only.     *)
(* Explained says that the hunks follow one another, that each is a part   *)
(* of the script and begins where that part does, and that patching with   *)
(* them makes the new text of any text that begins with the old one.       *)
(***************************************************************************)
\* Every set of natural numbers has a least member.
LEMMA LeastOf ==
  ASSUME NEW T \in SUBSET Nat, T # {}
  PROVE  \E m \in T : \A y \in T : m <= y
<1>1. T \subseteq Nat
  OBVIOUS
<1>2. PICK m \in T : \A y \in T : ~(<<y, m>> \in OpToRel(<, Nat))
  BY <1>1, NatLessThanWellFounded, WFMin
<1>3. \A y \in T : ~(y < m)
  BY <1>1, <1>2 DEF OpToRel
<1> QED
  BY <1>1, <1>3

\* Induction up to n over the members of a set.
LEMMA Inducts ==
  ASSUME NEW n \in Nat, NEW T, 0 \in T, \A k \in 0 .. n - 1 : k \in T => k + 1 \in T
  PROVE  \A k \in 0 .. n : k \in T
<1> DEFINE Bad == {k \in 0 .. n : k \notin T}
<1>1. SUFFICES ASSUME Bad # {} PROVE FALSE
  OBVIOUS
<1>2. Bad \in SUBSET Nat
  OBVIOUS
<1>3. PICK m \in Bad : \A y \in Bad : m <= y
  <2> HIDE DEF Bad
  <2> QED
    BY <1>1, <1>2, LeastOf
<1>4. m # 0 /\ m - 1 \in 0 .. n - 1 /\ ~(m <= m - 1)
  OBVIOUS
<1>5. m - 1 \in T
  BY <1>3, <1>4
<1>6. m - 1 + 1 = m
  BY <1>4
<1> QED
  BY <1>4, <1>5, <1>6

\* Induction over the sequences, for the members of a set.
LEMMA SeqInducts ==
  ASSUME NEW S, NEW T, <<>> \in T, \A q \in Seq(S) : \A e \in S : q \in T => Append(q, e) \in T
  PROVE  Seq(S) \subseteq T
<1> SUFFICES ASSUME NEW r \in Seq(S) PROVE r \in T
  OBVIOUS
<1> DEFINE U == {k \in 0 .. Len(r) : \A q \in Seq(S) : Len(q) = k => q \in T}
<1>1. Len(r) \in Nat
  OBVIOUS
<1>2. 0 \in U
  <2>1. ASSUME NEW q \in Seq(S), Len(q) = 0 PROVE q \in T
    <3>1. q = <<>>
      BY <2>1, EmptySeq
    <3> QED
      BY <3>1
  <2> QED
    BY <1>1, <2>1
<1>3. ASSUME NEW k \in 0 .. Len(r) - 1, k \in U PROVE k + 1 \in U
  <2>1. ASSUME NEW q \in Seq(S), Len(q) = k + 1 PROVE q \in T
    <3>1. q # <<>>
      BY <2>1, EmptySeq
    <3>2. PICK p \in Seq(S), e \in S : q = Append(p, e)
      BY <3>1, SequenceEmptyOrAppend
    <3>3. Len(p) = k
      BY <2>1, <3>2, AppendProperties
    <3> QED
      BY <1>3, <3>2, <3>3
  <2> QED
    BY <1>1, <2>1
<1>4. \A k \in 0 .. Len(r) : k \in U
  <2> HIDE DEF U
  <2> QED
    BY <1>1, <1>2, <1>3, Inducts
<1> QED
  BY <1>1, <1>4

Signs == {" ", "+", "-"}
Entry == [sign : Signs, line : DiffLines]

\* One entry after the other,
LeftBy(f, n, sign, lines) ==
  \A k \in 1 .. n : f[k] = IF lines[k].sign = sign THEN f[k - 1] ELSE Append(f[k - 1], lines[k])

\* what is left of the first k entries, for each k.
LeftOf(f, sign, lines) ==
  /\ f \in [0 .. Len(lines) -> Seq(Entry)]
  /\ f[0] = <<>>
  /\ LeftBy(f, Len(lines), sign, lines)

\* There is such a function,
LEMMA SomethingIsLeft ==
  ASSUME NEW sign, NEW lines \in Seq(Entry)
  PROVE  \E f : LeftOf(f, sign, lines)
<1> DEFINE T == {q \in Seq(Entry) : \E f : LeftOf(f, sign, q)}
<1>1. <<>> \in T
  <2> DEFINE f == [k \in 0 .. 0 |-> <<>>]
  <2>1. Len(<<>>) = 0 /\ <<>> \in Seq(Entry)
    BY EmptySeq
  <2>2. LeftOf(f, sign, <<>>)
    BY <2>1 DEF LeftOf, LeftBy
  <2> QED
    BY <2>1, <2>2
<1>2. ASSUME NEW q \in Seq(Entry), NEW e \in Entry, q \in T PROVE Append(q, e) \in T
  <2>1. PICK f : LeftOf(f, sign, q)
    BY <1>2
  <2> DEFINE n == Len(q)
             last == IF e.sign = sign THEN f[n] ELSE Append(f[n], e)
             g == [k \in 0 .. n + 1 |-> IF k = n + 1 THEN last ELSE f[k]]
  <2>2. n \in Nat /\ Append(q, e) \in Seq(Entry) /\ Len(Append(q, e)) = n + 1
    BY AppendProperties
  <2>3. f \in [0 .. n -> Seq(Entry)] /\ f[0] = <<>>
    BY <2>1 DEF LeftOf, LeftBy
  <2>4. last \in Seq(Entry)
    BY <2>2, <2>3, AppendProperties
  <2>5. g \in [0 .. n + 1 -> Seq(Entry)] /\ g[0] = <<>>
    <3> HIDE DEF last
    <3> QED
      BY <2>2, <2>3, <2>4
  <2>6. ASSUME NEW k \in 1 .. n
        PROVE  g[k] = IF Append(q, e)[k].sign = sign THEN g[k - 1] ELSE Append(g[k - 1], Append(q, e)[k])
    <3>1. g[k] = f[k] /\ g[k - 1] = f[k - 1]
      BY <2>2
    <3>2. Append(q, e)[k] = q[k]
      BY <2>2, AppendProperties
    <3> QED
      BY <2>1, <3>1, <3>2 DEF LeftOf, LeftBy
  <2>7. g[n + 1] = last /\ g[n + 1 - 1] = f[n] /\ Append(q, e)[n + 1] = e
    BY <2>2, AppendProperties
  <2>8. LeftOf(g, sign, Append(q, e))
    <3>1. ASSUME NEW k \in 1 .. n + 1
          PROVE  g[k] = IF Append(q, e)[k].sign = sign THEN g[k - 1] ELSE Append(g[k - 1], Append(q, e)[k])
      <4>1. k = n + 1 \/ k \in 1 .. n
        BY <2>2
      <4>2. CASE k = n + 1
        <5>1. g[k] = last /\ g[k - 1] = f[n] /\ Append(q, e)[k] = e
          BY <2>7, <4>2
        <5> HIDE DEF g, n
        <5> QED
          BY <5>1
      <4> QED
        BY <2>6, <4>1, <4>2
    <3>2. 1 .. Len(Append(q, e)) = 1 .. n + 1 /\ 0 .. Len(Append(q, e)) = 0 .. n + 1
      BY <2>2
    <3> HIDE DEF g, n
    <3> QED
      BY <2>5, <3>1, <3>2 DEF LeftOf, LeftBy
  <2> QED
    BY <2>2, <2>8
<1>3. Seq(Entry) \subseteq T
  <2> HIDE DEF T
  <2> QED
    BY <1>1, <1>2, SeqInducts
<1> QED
  BY <1>3

\* only one,
LEMMA OneIsLeft ==
  ASSUME NEW sign, NEW lines \in Seq(Entry), NEW n \in 0 .. Len(lines), NEW f, NEW g,
         f[0] = g[0], LeftBy(f, n, sign, lines), LeftBy(g, n, sign, lines)
  PROVE  f[n] = g[n]
<1> DEFINE T == {k \in 0 .. n : f[k] = g[k]}
<1>1. 0 \in T
  OBVIOUS
<1>0. n \in Nat
  OBVIOUS
<1>2. ASSUME NEW k \in 0 .. n - 1, k \in T PROVE k + 1 \in T
  <2>1. k + 1 \in 1 .. n /\ k + 1 - 1 = k
    OBVIOUS
  <2> QED
    BY <1>2, <2>1 DEF LeftBy
<1>3. \A k \in 0 .. n : k \in T
  <2> HIDE DEF T
  <2> QED
    BY <1>0, <1>1, <1>2, Inducts
<1> QED
  BY <1>0, <1>3

\* and Without is its last value.
LEMMA WithoutIs ==
  ASSUME NEW sign, NEW lines \in Seq(Entry), NEW f, LeftOf(f, sign, lines)
  PROVE  Without(sign, lines) = f[Len(lines)]
<1> DEFINE Is(g) == g = [k \in 0 .. Len(lines) |->
                     IF k = 0 THEN <<>>
                     ELSE IF lines[k].sign = sign THEN g[k - 1] ELSE Append(g[k - 1], lines[k])]
           Rest[k \in 0 .. Len(lines)] ==
             IF k = 0 THEN <<>>
             ELSE IF lines[k].sign = sign THEN Rest[k - 1] ELSE Append(Rest[k - 1], lines[k])
<1>0. Len(lines) \in Nat
  OBVIOUS
<1>1. Is(f)
  <2>1. f \in [0 .. Len(lines) -> Seq(Entry)]
    BY DEF LeftOf, LeftBy
  <2>2. ASSUME NEW k \in 0 .. Len(lines)
        PROVE  f[k] = IF k = 0 THEN <<>>
                      ELSE IF lines[k].sign = sign THEN f[k - 1] ELSE Append(f[k - 1], lines[k])
    <3>1. k = 0 \/ k \in 1 .. Len(lines)
      BY <1>0
    <3>2. CASE k = 0
      BY <3>2 DEF LeftOf, LeftBy
    <3>3. CASE k \in 1 .. Len(lines)
      <4>1. k # 0
        BY <1>0, <3>3
      <4> QED
        BY <3>3, <4>1 DEF LeftOf, LeftBy
    <3> QED
      BY <3>1, <3>2, <3>3
  <2> QED
    BY <2>1, <2>2, Zenon
<1>2. Is(Rest)
  BY <1>1
<1>3. Without(sign, lines) = Rest[Len(lines)]
  BY DEF Without
<1> HIDE DEF Rest
<1>4. \A k \in 0 .. Len(lines) :
         Rest[k] = IF k = 0 THEN <<>>
                   ELSE IF lines[k].sign = sign THEN Rest[k - 1] ELSE Append(Rest[k - 1], lines[k])
  BY <1>2, Zenon
<1>5. f[0] = Rest[0]
  BY <1>0, <1>4 DEF LeftOf, LeftBy
<1>6. ASSUME NEW k \in 1 .. Len(lines)
      PROVE  Rest[k] = IF lines[k].sign = sign THEN Rest[k - 1] ELSE Append(Rest[k - 1], lines[k])
  <2>1. k \in 0 .. Len(lines) /\ k # 0
    BY <1>0
  <2> QED
    BY <1>4, <2>1
<1> HIDE DEF Is
<1>7. Rest[Len(lines)] = f[Len(lines)]
  <2>1. Len(lines) \in 0 .. Len(lines)
    BY <1>0
  <2>2. \A k \in 1 .. Len(lines) : f[k] = IF lines[k].sign = sign THEN f[k - 1] ELSE Append(f[k - 1], lines[k])
    BY DEF LeftOf, LeftBy
  <2>3. LeftBy(f, Len(lines), sign, lines) /\ LeftBy(Rest, Len(lines), sign, lines)
    BY <1>6, <2>2 DEF LeftBy
  <2> QED
    BY ZenonT(30), <1>5, <2>1, <2>3, OneIsLeft
<1> QED
  BY <1>3, <1>7

\* So it goes by its last entry.
LEMMA WithoutLast ==
  ASSUME NEW sign
  PROVE  /\ Without(sign, <<>>) = <<>>
         /\ \A q \in Seq(Entry) :
              /\ Without(sign, q) \in Seq(Entry)
              /\ \A e \in Entry : Without(sign, Append(q, e)) =
                   IF e.sign = sign THEN Without(sign, q) ELSE Append(Without(sign, q), e)
<1>1. Without(sign, <<>>) = <<>>
  <2>1. <<>> \in Seq(Entry) /\ Len(<<>>) = 0
    BY EmptySeq
  <2>2. PICK f : LeftOf(f, sign, <<>>)
    BY <2>1, SomethingIsLeft
  <2>3. Without(sign, <<>>) = f[0]
    BY <2>1, <2>2, WithoutIs
  <2> QED
    BY <2>2, <2>3 DEF LeftOf, LeftBy
<1>2. ASSUME NEW q \in Seq(Entry) PROVE Without(sign, q) \in Seq(Entry)
  <2>1. PICK f : LeftOf(f, sign, q)
    BY SomethingIsLeft
  <2>2. Without(sign, q) = f[Len(q)]
    BY <2>1, WithoutIs
  <2>3. Len(q) \in 0 .. Len(q)
    OBVIOUS
  <2> QED
    BY <2>1, <2>2, <2>3 DEF LeftOf, LeftBy
<1>3. ASSUME NEW q \in Seq(Entry), NEW e \in Entry
      PROVE  Without(sign, Append(q, e)) = IF e.sign = sign THEN Without(sign, q) ELSE Append(Without(sign, q), e)
  <2> DEFINE r == Append(q, e)
             n == Len(q)
  <2>1. n \in Nat /\ r \in Seq(Entry) /\ Len(r) = n + 1 /\ r[n + 1] = e /\ \A k \in 1 .. n : r[k] = q[k]
    BY AppendProperties
  <2>2. PICK f : LeftOf(f, sign, q)
    BY SomethingIsLeft
  <2>3. PICK g : LeftOf(g, sign, r)
    BY <2>1, SomethingIsLeft
  <2>4. Without(sign, q) = f[n] /\ Without(sign, r) = g[n + 1]
    BY <2>1, <2>2, <2>3, WithoutIs
  <2> HIDE DEF r
  <2>5. n + 1 \in 1 .. n + 1 /\ n + 1 - 1 = n /\ n \in 0 .. Len(q)
    BY <2>1
  <2>6. g[n + 1] = IF e.sign = sign THEN g[n] ELSE Append(g[n], e)
    BY <2>1, <2>3, <2>5 DEF LeftOf, LeftBy
  <2>7. f[n] = g[n]
    <3>1. f[0] = g[0]
      BY <2>2, <2>3 DEF LeftOf, LeftBy
    <3>2. \A k \in 1 .. n : f[k] = IF q[k].sign = sign THEN f[k - 1] ELSE Append(f[k - 1], q[k])
      BY <2>2 DEF LeftOf, LeftBy
    <3>3. \A k \in 1 .. n : g[k] = IF q[k].sign = sign THEN g[k - 1] ELSE Append(g[k - 1], q[k])
      <4>1. ASSUME NEW k \in 1 .. n PROVE k \in 1 .. Len(r) /\ r[k] = q[k]
        BY <2>1
      <4>2. \A k \in 1 .. Len(r) : g[k] = IF r[k].sign = sign THEN g[k - 1] ELSE Append(g[k - 1], r[k])
        BY <2>3 DEF LeftOf, LeftBy
      <4> QED
        BY <4>1, <4>2
    <3> HIDE DEF n
    <3>4. LeftBy(f, n, sign, q) /\ LeftBy(g, n, sign, q)
      BY <3>2, <3>3 DEF LeftBy
    <3> QED
      BY <2>5, <3>1, <3>4, OneIsLeft
  <2> QED
    BY <2>4, <2>6, <2>7 DEF r
<1> QED
  BY <1>1, <1>2, <1>3

\* The lines of a text among the entries: those without the other's sign.
Side(sign, lines) == LinesOf(Without(sign, lines))

LEMMA LinesOfIs ==
  ASSUME NEW q \in Seq(Entry)
  PROVE  /\ LinesOf(q) \in Seq(DiffLines) /\ Len(LinesOf(q)) = Len(q)
         /\ \A i \in 1 .. Len(q) : LinesOf(q)[i] = q[i].line
         /\ \A e \in Entry : LinesOf(Append(q, e)) = Append(LinesOf(q), e.line)
<1>1. ASSUME NEW r \in Seq(Entry)
      PROVE  /\ LinesOf(r) \in Seq(DiffLines) /\ Len(LinesOf(r)) = Len(r)
             /\ \A i \in 1 .. Len(r) : LinesOf(r)[i] = r[i].line
  <2>1. DOMAIN r = 1 .. Len(r) /\ Len(r) \in Nat /\ \A i \in 1 .. Len(r) : r[i] \in Entry
    BY LenProperties, ElementOfSeq
  <2>2. LinesOf(r) = [i \in 1 .. Len(r) |-> r[i].line]
    BY <2>1 DEF LinesOf
  <2>3. \A i \in 1 .. Len(r) : r[i].line \in DiffLines
    BY <2>1 DEF Entry
  <2> QED
    BY <2>1, <2>2, <2>3
<1>2. ASSUME NEW e \in Entry PROVE LinesOf(Append(q, e)) = Append(LinesOf(q), e.line)
  <2>1. Append(q, e) \in Seq(Entry) /\ Len(Append(q, e)) = Len(q) + 1 /\ Len(q) \in Nat
        /\ Append(q, e)[Len(q) + 1] = e /\ \A i \in 1 .. Len(q) : Append(q, e)[i] = q[i]
    BY AppendProperties
  <2>2. e.line \in DiffLines
    BY DEF Entry
  <2> DEFINE s == LinesOf(q)
             t == LinesOf(Append(q, e))
  <2>3. s \in Seq(DiffLines) /\ Len(s) = Len(q) /\ \A i \in 1 .. Len(q) : s[i] = q[i].line
    BY <1>1
  <2>4. t \in Seq(DiffLines) /\ Len(t) = Len(q) + 1 /\ \A i \in 1 .. Len(q) + 1 : t[i] = Append(q, e)[i].line
    BY <1>1, <2>1
  <2> HIDE DEF s, t
  <2> DEFINE u == Append(s, e.line)
  <2>5. u \in Seq(DiffLines) /\ Len(u) = Len(q) + 1 /\ u[Len(q) + 1] = e.line /\ \A i \in 1 .. Len(q) : u[i] = s[i]
    BY <2>2, <2>3, AppendProperties
  <2> HIDE DEF u
  <2>6. \A i \in 1 .. Len(q) + 1 : t[i] = u[i]
    <3>1. t[Len(q) + 1] = u[Len(q) + 1]
      BY <2>1, <2>4, <2>5
    <3>2. \A i \in 1 .. Len(q) : t[i] = u[i]
      BY <2>1, <2>3, <2>4, <2>5
    <3> QED
      BY <2>1, <3>1, <3>2
  <2>7. t = u
    BY <2>4, <2>5, <2>6, SeqEqual
  <2> QED
    BY <2>7 DEF s, t, u
<1> QED
  BY <1>1, <1>2

LEMMA SideLast ==
  ASSUME NEW sign
  PROVE  /\ Side(sign, <<>>) = <<>>
         /\ \A q \in Seq(Entry) :
              /\ Side(sign, q) \in Seq(DiffLines) /\ Len(Side(sign, q)) = Len(Without(sign, q))
              /\ \A e \in Entry : Side(sign, Append(q, e)) =
                   IF e.sign = sign THEN Side(sign, q) ELSE Append(Side(sign, q), e.line)
<1>1. Side(sign, <<>>) = <<>>
  <2>1. <<>> \in Seq(Entry) /\ Len(<<>>) = 0
    BY EmptySeq
  <2>2. LinesOf(<<>>) \in Seq(DiffLines) /\ Len(LinesOf(<<>>)) = 0
    BY <2>1, LinesOfIs
  <2>3. LinesOf(<<>>) = <<>>
    BY <2>2, EmptySeq
  <2> QED
    BY <2>3, WithoutLast DEF Side
<1>2. ASSUME NEW q \in Seq(Entry)
      PROVE  Side(sign, q) \in Seq(DiffLines) /\ Len(Side(sign, q)) = Len(Without(sign, q))
  BY WithoutLast, LinesOfIs DEF Side
<1>3. ASSUME NEW q \in Seq(Entry), NEW e \in Entry
      PROVE  Side(sign, Append(q, e)) = IF e.sign = sign THEN Side(sign, q) ELSE Append(Side(sign, q), e.line)
  <2> DEFINE w == Without(sign, q)
  <2>1. w \in Seq(Entry) /\ Without(sign, Append(q, e)) = IF e.sign = sign THEN w ELSE Append(w, e)
    BY WithoutLast
  <2> HIDE DEF w
  <2>2. LinesOf(Append(w, e)) = Append(LinesOf(w), e.line)
    BY <2>1, LinesOfIs
  <2>3. Side(sign, q) = LinesOf(w)
    BY DEF Side, w
  <2> QED
    BY <2>1, <2>2, <2>3 DEF Side
<1> QED
  BY <1>1, <1>2, <1>3

LEMMA ConcatAppend ==
  ASSUME NEW S, NEW q \in Seq(S), NEW r \in Seq(S), NEW e \in S
  PROVE  q \o Append(r, e) = Append(q \o r, e)
<1>1. Append(r, e) = r \o <<e>> /\ q \o r \in Seq(S) /\ <<e>> \in Seq(S)
  BY AppendIsConcat, ConcatProperties
<1>2. Append(q \o r, e) = (q \o r) \o <<e>>
  BY <1>1, AppendIsConcat
<1> QED
  BY <1>1, <1>2, ConcatAssociative

LEMMA SideConcat ==
  ASSUME NEW sign, NEW q \in Seq(Entry), NEW r \in Seq(Entry)
  PROVE  Side(sign, q \o r) = Side(sign, q) \o Side(sign, r)
<1> DEFINE T == {p \in Seq(Entry) : Side(sign, q \o p) = Side(sign, q) \o Side(sign, p)}
<1>1. <<>> \in T
  <2>1. <<>> \in Seq(Entry) /\ q \o <<>> = q /\ Side(sign, q) \in Seq(DiffLines) /\ Side(sign, <<>>) = <<>>
    BY EmptySeq, ConcatEmptySeq, SideLast
  <2>2. Side(sign, q) \o <<>> = Side(sign, q)
    BY <2>1, ConcatEmptySeq
  <2> QED
    BY <2>1, <2>2
<1>2. ASSUME NEW p \in Seq(Entry), NEW e \in Entry, p \in T PROVE Append(p, e) \in T
  <2>1. Append(p, e) \in Seq(Entry) /\ q \o p \in Seq(Entry) /\ q \o Append(p, e) = Append(q \o p, e)
    BY AppendProperties, ConcatProperties, ConcatAppend
  <2>2. Side(sign, Append(q \o p, e)) =
          IF e.sign = sign THEN Side(sign, q \o p) ELSE Append(Side(sign, q \o p), e.line)
    <3> DEFINE r1 == q \o p
    <3>1. r1 \in Seq(Entry)
      BY <2>1
    <3> HIDE DEF r1
    <3>2. Side(sign, Append(r1, e)) = IF e.sign = sign THEN Side(sign, r1) ELSE Append(Side(sign, r1), e.line)
      BY ZenonT(30), <3>1, SideLast
    <3> QED
      BY <3>2 DEF r1
  <2>3. Side(sign, Append(p, e)) = IF e.sign = sign THEN Side(sign, p) ELSE Append(Side(sign, p), e.line)
    BY SideLast
  <2>4. Side(sign, q \o p) = Side(sign, q) \o Side(sign, p)
    BY <1>2
  <2>5. Side(sign, q) \in Seq(DiffLines) /\ Side(sign, p) \in Seq(DiffLines) /\ e.line \in DiffLines
    BY SideLast DEF Entry
  <2>6. Side(sign, q) \o Append(Side(sign, p), e.line) = Append(Side(sign, q) \o Side(sign, p), e.line)
    BY <2>5, ConcatAppend
  <2>7. Side(sign, q \o Append(p, e)) = Side(sign, q) \o Side(sign, Append(p, e))
    BY <2>1, <2>2, <2>3, <2>4, <2>6
  <2> QED
    BY <2>1, <2>7
<1>3. Seq(Entry) \subseteq T
  <2> HIDE DEF T
  <2> QED
    BY <1>1, <1>2, SeqInducts
<1> QED
  BY <1>3

\* Entries of one sign are all of a text or none of it.
LEMMA SideOfOne ==
  ASSUME NEW sign, NEW other, NEW q \in Seq(Entry), \A i \in 1 .. Len(q) : q[i].sign = sign
  PROVE  Side(other, q) = IF other = sign THEN <<>> ELSE LinesOf(q)
<1> DEFINE T == {p \in Seq(Entry) : (\A i \in 1 .. Len(p) : p[i].sign = sign) =>
                    Side(other, p) = IF other = sign THEN <<>> ELSE LinesOf(p)}
<1>1. <<>> \in T
  <2>1. <<>> \in Seq(Entry) /\ Len(<<>>) = 0 /\ Side(other, <<>>) = <<>>
    BY EmptySeq, SideLast
  <2>2. LinesOf(<<>>) = <<>>
    <3>1. LinesOf(<<>>) \in Seq(DiffLines) /\ Len(LinesOf(<<>>)) = 0
      BY <2>1, LinesOfIs
    <3> QED
      BY <3>1, EmptySeq
  <2> QED
    BY <2>1, <2>2
<1>2. ASSUME NEW p \in Seq(Entry), NEW e \in Entry, p \in T PROVE Append(p, e) \in T
  <2> SUFFICES ASSUME \A i \in 1 .. Len(Append(p, e)) : Append(p, e)[i].sign = sign
               PROVE  Side(other, Append(p, e)) = IF other = sign THEN <<>> ELSE LinesOf(Append(p, e))
    BY AppendProperties
  <2>1. Len(Append(p, e)) = Len(p) + 1 /\ Len(p) \in Nat
        /\ Append(p, e)[Len(p) + 1] = e /\ \A i \in 1 .. Len(p) : Append(p, e)[i] = p[i]
    BY AppendProperties
  <2>2. e.sign = sign
    BY <2>1
  <2>3. ASSUME NEW i \in 1 .. Len(p) PROVE p[i].sign = sign
    <3>1. i \in 1 .. Len(Append(p, e)) /\ Append(p, e)[i] = p[i]
      BY <2>1
    <3> QED
      BY <3>1
  <2>4. Side(other, p) = IF other = sign THEN <<>> ELSE LinesOf(p)
    BY <1>2, <2>3
  <2>5. Side(other, Append(p, e)) = IF e.sign = other THEN Side(other, p) ELSE Append(Side(other, p), e.line)
    BY ZenonT(30), SideLast
  <2>6. LinesOf(Append(p, e)) = Append(LinesOf(p), e.line)
    BY LinesOfIs
  <2> QED
    BY <2>2, <2>4, <2>5, <2>6
<1>3. Seq(Entry) \subseteq T
  <2> HIDE DEF T
  <2> QED
    BY <1>1, <1>2, SeqInducts
<1> QED
  BY <1>3

\* Lines with a sign are those of a text.
MarkedAs(sign, text, a, b) ==
  /\ Marked(sign, text, a, b) \in Seq(Entry)
  /\ Side("+", Marked(sign, text, a, b)) = IF "+" = sign THEN <<>> ELSE SubSeq(text, a, b)
  /\ Side("-", Marked(sign, text, a, b)) = IF "-" = sign THEN <<>> ELSE SubSeq(text, a, b)

LEMMA MarkedIs ==
  ASSUME NEW sign \in Signs, NEW text \in Seq(DiffLines), NEW a \in 1 .. Len(text) + 1, NEW b \in a - 1 .. Len(text)
  PROVE  MarkedAs(sign, text, a, b)
<1> DEFINE n == b - a + 1
           q == Marked(sign, text, a, b)
           s == SubSeq(text, a, b)
<1>1. Len(text) \in Nat /\ n \in Nat /\ \A i \in 1 .. n : a + i - 1 \in 1 .. Len(text) /\ text[a + i - 1] \in DiffLines
  BY ElementOfSeq
<1>2. q = [i \in 1 .. n |-> [sign |-> sign, line |-> text[a + i - 1]]]
  BY DEF Marked
<1>3. q \in Seq(Entry) /\ Len(q) = n /\ \A i \in 1 .. n : q[i] = [sign |-> sign, line |-> text[a + i - 1]]
  <2>1. \A i \in 1 .. n : [sign |-> sign, line |-> text[a + i - 1]] \in Entry
    BY <1>1 DEF Entry
  <2> HIDE DEF n
  <2>2. q \in [1 .. n -> Entry]
    BY <1>2, <2>1, Zenon
  <2>3. q \in Seq(Entry) /\ Len(q) = n
    BY <1>1, <2>2
  <2>4. \A i \in 1 .. n : q[i] = [sign |-> sign, line |-> text[a + i - 1]]
    BY <1>2, Zenon
  <2> QED
    BY <2>3, <2>4
<1> HIDE DEF q
<1>4. s \in Seq(DiffLines) /\ Len(s) = n /\ \A i \in 1 .. n : s[i] = text[a + i - 1]
  <2>1. a \in Int /\ b \in Int
    BY <1>1
  <2>2. \A i \in a .. b : text[i] \in DiffLines
    BY <1>1, ElementOfSeq
  <2>3. (IF a <= b THEN b - a + 1 ELSE 0) = n
    BY <1>1
  <2>4. /\ s \in Seq(DiffLines)
        /\ Len(s) = IF a <= b THEN b - a + 1 ELSE 0
        /\ \A i \in 1 .. b - a + 1 : s[i] = text[a + i - 1]
    BY <2>1, <2>2, SubSeqProperties
  <2> QED
    BY <2>3, <2>4
<1> HIDE DEF s
<1>5. LinesOf(q) = s
  <2>1. LinesOf(q) \in Seq(DiffLines) /\ Len(LinesOf(q)) = n /\ \A i \in 1 .. n : LinesOf(q)[i] = q[i].line
    BY <1>3, LinesOfIs
  <2> HIDE DEF n
  <2>2. ASSUME NEW i \in 1 .. n PROVE LinesOf(q)[i] = s[i]
    <3>1. q[i] = [sign |-> sign, line |-> text[a + i - 1]] /\ LinesOf(q)[i] = q[i].line /\ s[i] = text[a + i - 1]
      BY <1>3, <1>4, <2>1
    <3>2. q[i].line = text[a + i - 1]
      BY <3>1
    <3> QED
      BY <3>1, <3>2
  <2> QED
    BY <1>4, <2>1, <2>2, SeqEqual
<1>6. \A i \in 1 .. Len(q) : q[i].sign = sign
  BY <1>3
<1>7. Side("+", q) = (IF "+" = sign THEN <<>> ELSE s) /\ Side("-", q) = IF "-" = sign THEN <<>> ELSE s
  BY ZenonT(30), <1>3, <1>5, <1>6, SideOfOne
<1> QED
  BY <1>3, <1>7 DEF q, s, MarkedAs

LEMMA FoundAheadIs ==
  ASSUME NEW text \in Seq(DiffLines), NEW line, NEW from \in Nat \ {0}
  PROVE  /\ FoundAhead(line, text, from) # 0 => FoundAhead(line, text, from) \in from .. Len(text)
         /\ from <= Len(text) /\ text[from] = line => FoundAhead(line, text, from) = from
         /\ FoundAhead(line, text, from) # 0 => text[FoundAhead(line, text, from)] = line
<1> DEFINE ahead == {i \in from .. from + DiffLookAhead - 1 : i <= Len(text) /\ text[i] = line}
           found == CHOOSE i \in ahead : \A j \in ahead : i <= j
<1>1. FoundAhead(line, text, from) = IF ahead = {} THEN 0 ELSE found
  BY DEF FoundAhead
<1>2. Len(text) \in Nat /\ DiffLookAhead \in Nat \ {0}
  BY DiffAssumption
<1>3. ahead \in SUBSET Nat
  BY <1>2
<1>4. ASSUME ahead # {} PROVE found \in ahead /\ \A j \in ahead : found <= j
  <2> HIDE DEF ahead
  <2>1. \E i \in ahead : \A j \in ahead : i <= j
    BY <1>3, <1>4, LeastOf
  <2> QED
    BY <2>1
<1>5. ahead # {} => found \in from .. Len(text) /\ text[found] = line
  <2> HIDE DEF found
  <2> QED
    BY <1>2, <1>4
<1>6. from <= Len(text) /\ text[from] = line => ahead # {} /\ found = from
  <2> SUFFICES ASSUME from <= Len(text), text[from] = line PROVE ahead # {} /\ found = from
    OBVIOUS
  <2>1. from \in ahead
    BY <1>2
  <2>2. found \in ahead /\ found <= from
    BY <1>4, <2>1
  <2>3. found \in from .. from + DiffLookAhead - 1
    <3> HIDE DEF found
    <3> QED
      BY <2>2
  <2> HIDE DEF found
  <2> QED
    BY <1>2, <2>1, <2>2, <2>3
<1> HIDE DEF ahead, found
<1> QED
  BY <1>1, <1>5, <1>6

\* A step of the pass writes down what it goes over, and goes on.
Passed(old, new, o, n, pass) ==
  \E x \in o .. Len(old) + 1, y \in n .. Len(new) + 1 :
    /\ pass.next = <<x, y>> /\ x + y > o + n
    /\ pass.lines \in Seq(Entry)
    /\ Side("+", pass.lines) = SubSeq(old, o, x - 1)
    /\ Side("-", pass.lines) = SubSeq(new, n, y - 1)

LEMMA PassIs ==
  ASSUME NEW old \in Seq(DiffLines), NEW new \in Seq(DiffLines),
         NEW o \in 1 .. Len(old) + 1, NEW n \in 1 .. Len(new) + 1,
         ~(o = Len(old) + 1 /\ n = Len(new) + 1)
  PROVE  Passed(old, new, o, n, Pass(old, new, o, n))
<1> DEFINE oldLeft == o <= Len(old)
           newLeft == n <= Len(new)
           inNew == IF oldLeft THEN FoundAhead(old[o], new, n) ELSE 0
           inOld == IF newLeft THEN FoundAhead(new[n], old, o) ELSE 0
           oldNext == IF oldLeft THEN o + 1 ELSE o
           newNext == IF newLeft THEN n + 1 ELSE n
           pass == Pass(old, new, o, n)
<1>1. Len(old) \in Nat /\ Len(new) \in Nat /\ o \in Nat \ {0} /\ n \in Nat \ {0}
  OBVIOUS
<1>2. " " \in Signs /\ "+" \in Signs /\ "-" \in Signs
  BY DEF Signs
<1>3. oldLeft =>
        /\ inNew # 0 => inNew \in n .. Len(new)
        /\ newLeft /\ new[n] = old[o] => inNew = n
        /\ inNew # 0 => new[inNew] = old[o]
  BY <1>1, FoundAheadIs
<1>4. newLeft =>
        /\ inOld # 0 => inOld \in o .. Len(old)
        /\ inOld # 0 => old[inOld] = new[n]
  BY <1>1, FoundAheadIs
<1>5. pass = IF inNew = n THEN [lines |-> Marked(" ", old, o, o), next |-> <<o + 1, n + 1>>]
             ELSE IF inNew # 0 THEN [lines |-> Marked("+", new, n, inNew - 1), next |-> <<o, inNew>>]
             ELSE IF inOld # 0 THEN [lines |-> Marked("-", old, o, inOld - 1), next |-> <<inOld, n>>]
             ELSE [lines |-> Marked("-", old, o, oldNext - 1) \o Marked("+", new, n, newNext - 1),
                   next |-> <<oldNext, newNext>>]
  BY DEF Pass
<1>6. ~oldLeft => inNew = 0
  OBVIOUS
<1>7. ~newLeft => inOld = 0
  OBVIOUS
<1>8. SubSeq(old, o, o - 1) = <<>> /\ SubSeq(new, n, n - 1) = <<>>
  <2>1. o \in Int /\ o - 1 \in Int /\ o - 1 < o /\ n \in Int /\ n - 1 \in Int /\ n - 1 < n
    BY <1>1
  <2> QED
    BY <2>1, SubSeqEmpty
<1>9. (oldNext = o \/ oldNext = o + 1) /\ oldNext \in o .. Len(old) + 1
      /\ (newNext = n \/ newNext = n + 1) /\ newNext \in n .. Len(new) + 1 /\ oldNext + newNext > o + n
  BY <1>1
<1> HIDE DEF inNew, inOld, oldNext, newNext, pass
<1>10. CASE inNew = n
  <2>1. oldLeft /\ inNew \in n .. Len(new) /\ new[n] = old[o]
    BY <1>1, <1>3, <1>6, <1>10
  <2>2. pass.lines = Marked(" ", old, o, o) /\ pass.next = <<o + 1, n + 1>>
    BY <1>5, <1>10
  <2>3. Marked(" ", old, o, o) \in Seq(Entry) /\ Side("+", Marked(" ", old, o, o)) = SubSeq(old, o, o)
        /\ Side("-", Marked(" ", old, o, o)) = SubSeq(old, o, o)
    <3>1. o \in o - 1 .. Len(old)
      BY <1>1, <2>1
    <3>2. MarkedAs(" ", old, o, o)
      BY <1>2, <3>1, MarkedIs
    <3> QED
      BY <3>2 DEF MarkedAs
  <2>4. SubSeq(old, o, o) = SubSeq(new, n, n)
    <3>1. o \in 1 .. Len(old) /\ n \in 1 .. Len(new)
      BY <1>1, <1>10, <2>1
    <3>2. SubSeq(old, o, o) = <<old[o]>> \o SubSeq(old, o + 1, o) /\ SubSeq(new, n, n) = <<new[n]>> \o SubSeq(new, n + 1, n)
      <4>1. o \in o .. Len(old) /\ n \in n .. Len(new)
        BY <1>1, <3>1
      <4> QED
        BY <3>1, <4>1, SubSeqRecursiveFirst
    <3>3. SubSeq(old, o + 1, o) = <<>> /\ SubSeq(new, n + 1, n) = <<>>
      BY <1>1, SubSeqEmpty
    <3> QED
      BY <2>1, <3>2, <3>3
  <2>5. o + 1 \in o .. Len(old) + 1 /\ n + 1 \in n .. Len(new) + 1 /\ o + 1 + (n + 1) > o + n
        /\ o + 1 - 1 = o /\ n + 1 - 1 = n
    BY <1>1, <1>10, <2>1
  <2>6. Passed(old, new, o, n, pass)
    <3> DEFINE x == o + 1
               y == n + 1
    <3>1. x \in o .. Len(old) + 1 /\ y \in n .. Len(new) + 1 /\ x + y > o + n
      BY <1>1, <2>5
    <3>2. x - 1 = o /\ y - 1 = n
      BY <1>1
    <3>3. pass.next = <<x, y>>
      BY <2>2
    <3> HIDE DEF x, y
    <3> QED
      BY <2>2, <2>3, <2>4, <3>1, <3>2, <3>3 DEF Passed
  <2> QED
    BY <2>6 DEF pass
<1>11. CASE inNew # n /\ inNew # 0
  <2>1. inNew \in n + 1 .. Len(new)
    BY <1>1, <1>3, <1>6, <1>11
  <2>2. pass.lines = Marked("+", new, n, inNew - 1) /\ pass.next = <<o, inNew>>
    BY <1>5, <1>11
  <2>3. pass.lines \in Seq(Entry) /\ Side("+", pass.lines) = <<>> /\ Side("-", pass.lines) = SubSeq(new, n, inNew - 1)
    <3>1. inNew - 1 \in n - 1 .. Len(new)
      BY <1>1, <2>1
    <3>2. MarkedAs("+", new, n, inNew - 1)
      BY <1>2, <3>1, MarkedIs
    <3> QED
      BY <2>2, <3>2 DEF MarkedAs
  <2>4. o \in o .. Len(old) + 1 /\ inNew \in n .. Len(new) + 1 /\ o + inNew > o + n
    BY <1>1, <2>1
  <2>5. Passed(old, new, o, n, pass)
    BY <1>8, <2>2, <2>3, <2>4 DEF Passed
  <2> QED
    BY <2>5 DEF pass
<1>12. CASE inNew = 0 /\ inNew # n /\ inOld # 0
  <2>1. inOld \in o + 1 .. Len(old)
    <3>1. newLeft /\ inOld \in o .. Len(old) /\ old[inOld] = new[n]
      BY <1>4, <1>7, <1>12
    <3>2. inOld # o
      <4> SUFFICES ASSUME inOld = o PROVE FALSE
        OBVIOUS
      <4>1. oldLeft /\ new[n] = old[o]
        BY <1>1, <3>1
      <4> QED
        BY <1>3, <1>12, <3>1, <4>1
    <3> QED
      BY <1>1, <3>1, <3>2
  <2>2. pass.lines = Marked("-", old, o, inOld - 1) /\ pass.next = <<inOld, n>>
    BY <1>5, <1>12
  <2>3. pass.lines \in Seq(Entry) /\ Side("-", pass.lines) = <<>> /\ Side("+", pass.lines) = SubSeq(old, o, inOld - 1)
    <3>1. inOld - 1 \in o - 1 .. Len(old)
      BY <1>1, <2>1
    <3>2. MarkedAs("-", old, o, inOld - 1)
      BY <1>2, <3>1, MarkedIs
    <3> QED
      BY <2>2, <3>2 DEF MarkedAs
  <2>4. n \in n .. Len(new) + 1 /\ inOld \in o .. Len(old) + 1 /\ inOld + n > o + n
    BY <1>1, <2>1
  <2>5. Passed(old, new, o, n, pass)
    BY <1>8, <2>2, <2>3, <2>4 DEF Passed
  <2> QED
    BY <2>5 DEF pass
<1>13. CASE inNew = 0 /\ inNew # n /\ inOld = 0
  <2> DEFINE gone == Marked("-", old, o, oldNext - 1)
             come == Marked("+", new, n, newNext - 1)
  <2>1. pass.lines = gone \o come /\ pass.next = <<oldNext, newNext>>
    BY <1>5, <1>13
  <2>2. gone \in Seq(Entry) /\ Side("-", gone) = <<>> /\ Side("+", gone) = SubSeq(old, o, oldNext - 1)
    <3>1. oldNext - 1 \in o - 1 .. Len(old)
      BY <1>1, <1>9
    <3>2. MarkedAs("-", old, o, oldNext - 1)
      BY <1>2, <3>1, MarkedIs
    <3> QED
      BY <3>2 DEF MarkedAs
  <2>3. come \in Seq(Entry) /\ Side("+", come) = <<>> /\ Side("-", come) = SubSeq(new, n, newNext - 1)
    <3>1. newNext - 1 \in n - 1 .. Len(new)
      BY <1>1, <1>9
    <3>2. MarkedAs("+", new, n, newNext - 1)
      BY <1>2, <3>1, MarkedIs
    <3> QED
      BY <3>2 DEF MarkedAs
  <2> HIDE DEF gone, come
  <2>4. gone \o come \in Seq(Entry) /\ Side("+", gone \o come) = Side("+", gone) \o <<>>
        /\ Side("-", gone \o come) = <<>> \o Side("-", come)
    BY <2>2, <2>3, ConcatProperties, SideConcat
  <2>5. Side("+", gone) \o <<>> = Side("+", gone) /\ <<>> \o Side("-", come) = Side("-", come)
    BY <2>2, <2>3, SideLast, ConcatEmptySeq
  <2>6. Passed(old, new, o, n, pass)
    BY <1>9, <2>1, <2>2, <2>3, <2>4, <2>5 DEF Passed
  <2> QED
    BY <2>6 DEF pass
<1> QED
  BY <1>1, <1>10, <1>11, <1>12, <1>13

\* Where the pass may stand, and how many lines are ahead of it there.
Spots(old, new) == (1 .. Len(old) + 1) \X (1 .. Len(new) + 1)
Finish(old, new) == <<Len(old) + 1, Len(new) + 1>>
LinesAhead(old, new, at) == (Len(old) + 1 - at[1]) + (Len(new) + 1 - at[2])

\* What is written from there on,
WrittenBy(f, old, new, at) ==
  IF at = Finish(old, new) THEN <<>>
  ELSE Pass(old, new, at[1], at[2]).lines \o f[Pass(old, new, at[1], at[2]).next]

\* and what the next step of it writes.
PassedAt(old, new, at, pass) ==
  /\ pass.next \in Spots(old, new) /\ LinesAhead(old, new, pass.next) < LinesAhead(old, new, at)
  /\ pass.lines \in Seq(Entry)
  /\ Side("+", pass.lines) \o SubSeq(old, pass.next[1], Len(old)) = SubSeq(old, at[1], Len(old))
  /\ Side("-", pass.lines) \o SubSeq(new, pass.next[2], Len(new)) = SubSeq(new, at[2], Len(new))

LEMMA JoinRest ==
  ASSUME NEW S, NEW text \in Seq(S), NEW a \in 1 .. Len(text) + 1, NEW x \in a .. Len(text) + 1
  PROVE  SubSeq(text, a, x - 1) \o SubSeq(text, x, Len(text)) = SubSeq(text, a, Len(text))
<1>1. a \in 1 .. Len(text) + 1 /\ x - 1 \in a - 1 .. Len(text) /\ Len(text) \in x - 1 .. Len(text) /\ x - 1 + 1 = x
  OBVIOUS
<1>2. SubSeq(text, a, x - 1) \o SubSeq(text, x - 1 + 1, Len(text)) = SubSeq(text, a, Len(text))
  BY <1>1, ConcatAdjacentSubSeq
<1> QED
  BY <1>1, <1>2

LEMMA SpotIs ==
  ASSUME NEW old \in Seq(DiffLines), NEW new \in Seq(DiffLines), NEW at \in Spots(old, new)
  PROVE  /\ at[1] \in 1 .. Len(old) + 1 /\ at[2] \in 1 .. Len(new) + 1
         /\ LinesAhead(old, new, at) \in 0 .. Len(old) + Len(new)
         /\ LinesAhead(old, new, at) = 0 => at = Finish(old, new)
         /\ at # Finish(old, new) => ~(at[1] = Len(old) + 1 /\ at[2] = Len(new) + 1)
<1>1. PICK o \in 1 .. Len(old) + 1, n \in 1 .. Len(new) + 1 : at = <<o, n>>
  BY DEF Spots
<1>2. at[1] = o /\ at[2] = n /\ Len(old) \in Nat /\ Len(new) \in Nat
  BY <1>1
<1>3. LinesAhead(old, new, at) = (Len(old) + 1 - o) + (Len(new) + 1 - n)
  BY <1>2 DEF LinesAhead
<1>4. LinesAhead(old, new, at) \in 0 .. Len(old) + Len(new)
  BY <1>2, <1>3
<1>5. LinesAhead(old, new, at) = 0 => o = Len(old) + 1 /\ n = Len(new) + 1
  BY <1>2, <1>3
<1> QED
  BY <1>1, <1>2, <1>4, <1>5 DEF Finish

LEMMA PassAtIs ==
  ASSUME NEW old \in Seq(DiffLines), NEW new \in Seq(DiffLines), NEW at \in Spots(old, new), at # Finish(old, new)
  PROVE  PassedAt(old, new, at, Pass(old, new, at[1], at[2]))
<1> DEFINE o == at[1]
           n == at[2]
           pass == Pass(old, new, at[1], at[2])
<1>1. o \in 1 .. Len(old) + 1 /\ n \in 1 .. Len(new) + 1 /\ ~(o = Len(old) + 1 /\ n = Len(new) + 1)
  BY SpotIs
<1>2. Len(old) \in Nat /\ Len(new) \in Nat
  OBVIOUS
<1>3. Passed(old, new, o, n, pass)
  BY <1>1, PassIs
<1> HIDE DEF pass
<1>4. PICK x \in o .. Len(old) + 1, y \in n .. Len(new) + 1 :
        /\ pass.next = <<x, y>> /\ x + y > o + n
        /\ pass.lines \in Seq(Entry)
        /\ Side("+", pass.lines) = SubSeq(old, o, x - 1)
        /\ Side("-", pass.lines) = SubSeq(new, n, y - 1)
  BY <1>3 DEF Passed
<1>5. x \in 1 .. Len(old) + 1 /\ y \in 1 .. Len(new) + 1 /\ pass.next[1] = x /\ pass.next[2] = y
  BY <1>1, <1>4
<1>6. pass.next \in Spots(old, new)
  BY <1>4, <1>5 DEF Spots
<1>7. LinesAhead(old, new, pass.next) < LinesAhead(old, new, at)
  <2>1. LinesAhead(old, new, pass.next) = (Len(old) + 1 - x) + (Len(new) + 1 - y)
        /\ LinesAhead(old, new, at) = (Len(old) + 1 - o) + (Len(new) + 1 - n)
    BY <1>5 DEF LinesAhead
  <2> HIDE DEF o, n
  <2> QED
    BY <1>1, <1>2, <1>4, <2>1
<1>8. SubSeq(old, o, x - 1) \o SubSeq(old, x, Len(old)) = SubSeq(old, o, Len(old))
      /\ SubSeq(new, n, y - 1) \o SubSeq(new, y, Len(new)) = SubSeq(new, n, Len(new))
  <2> HIDE DEF o, n
  <2> QED
    BY <1>1, JoinRest
<1> QED
  BY <1>4, <1>5, <1>6, <1>7, <1>8 DEF PassedAt, pass

\* Some function writes the script,
LEMMA ScriptExists ==
  ASSUME NEW old \in Seq(DiffLines), NEW new \in Seq(DiffLines)
  PROVE  \E f \in [Spots(old, new) -> Seq(Entry)] :
           \A at \in Spots(old, new) : f[at] = WrittenBy(f, old, new, at)
<1> DEFINE D == Spots(old, new)
           N == Len(old) + Len(new)
           far(at) == LinesAhead(old, new, at)
           Upto(f, m) == \A at \in D : far(at) <= m => f[at] = WrittenBy(f, old, new, at)
           T == {m \in 0 .. N : \E f \in [D -> Seq(Entry)] : Upto(f, m)}
<1>1. N \in Nat /\ \A at \in D : far(at) \in 0 .. N
  BY SpotIs
<1>2. 0 \in T
  <2> DEFINE f == [at \in D |-> <<>>]
  <2>1. f \in [D -> Seq(Entry)]
    BY EmptySeq
  <2>2. ASSUME NEW at \in D, far(at) <= 0 PROVE f[at] = WrittenBy(f, old, new, at)
    <3>1. far(at) = 0
      <4> HIDE DEF D, N, far
      <4> QED
        BY <1>1, <2>2
    <3>2. at = Finish(old, new)
      BY <3>1, SpotIs
    <3> QED
      BY <3>2 DEF WrittenBy
  <2> HIDE DEF D, far, f
  <2>3. Upto(f, 0)
    BY <2>2
  <2> HIDE DEF Upto
  <2> QED
    BY <1>1, <2>1, <2>3
<1>3. ASSUME NEW m \in 0 .. N - 1, m \in T PROVE m + 1 \in T
  <2>1. PICK f \in [D -> Seq(Entry)] : Upto(f, m)
    BY <1>3
  <2> DEFINE g == [at \in D |-> IF far(at) = m + 1 THEN WrittenBy(f, old, new, at) ELSE f[at]]
             pass(at) == Pass(old, new, at[1], at[2])
  <2>2. ASSUME NEW at \in D, at # Finish(old, new)
        PROVE  /\ pass(at).next \in D /\ far(pass(at).next) < far(at) /\ pass(at).lines \in Seq(Entry)
               /\ pass(at).lines \o f[pass(at).next] \in Seq(Entry)
    <3>1. pass(at).next \in D /\ far(pass(at).next) < far(at) /\ pass(at).lines \in Seq(Entry)
      BY <2>2, PassAtIs DEF PassedAt
    <3> HIDE DEF D, far, pass
    <3> QED
      BY <3>1, ConcatProperties
  <2>3. ASSUME NEW at \in D PROVE WrittenBy(f, old, new, at) \in Seq(Entry)
    <3>1. CASE at = Finish(old, new)
      BY <3>1, EmptySeq DEF WrittenBy
    <3>2. CASE at # Finish(old, new)
      <4> HIDE DEF D
      <4> QED
        BY <2>2, <3>2 DEF WrittenBy
    <3> QED
      BY <3>1, <3>2
  <2>4. g \in [D -> Seq(Entry)]
    <3> HIDE DEF D, far
    <3> QED
      BY <2>3
  <2>5. ASSUME NEW at \in D, far(at) <= m + 1 PROVE g[at] = WrittenBy(g, old, new, at)
    <3>1. WrittenBy(g, old, new, at) = WrittenBy(f, old, new, at)
      <4>1. CASE at = Finish(old, new)
        BY <4>1 DEF WrittenBy
      <4>2. CASE at # Finish(old, new)
        <5> DEFINE p == pass(at).next
        <5>1. p \in D /\ far(p) < far(at)
          BY <2>2, <4>2
        <5>2. far(p) # m + 1
          <6> HIDE DEF p, D, far, N
          <6> QED
            BY <1>1, <2>5, <5>1
        <5>3. g[p] = f[p]
          <6> HIDE DEF p, D, far
          <6> QED
            BY <5>1, <5>2
        <5> HIDE DEF g
        <5> QED
          BY <4>2, <5>3 DEF WrittenBy
      <4> QED
        BY <4>1, <4>2
    <3>2. CASE far(at) = m + 1
      <4>1. g[at] = WrittenBy(f, old, new, at)
        <5> HIDE DEF D, far
        <5> QED
          BY <3>2
      <4> QED
        BY <3>1, <4>1
    <3>3. CASE far(at) # m + 1
      <4>1. g[at] = f[at]
        <5> HIDE DEF D, far
        <5> QED
          BY <3>3
      <4>2. far(at) <= m
        <5> HIDE DEF D, far, N
        <5> QED
          BY <1>1, <2>5, <3>3
      <4>3. f[at] = WrittenBy(f, old, new, at)
        <5> HIDE DEF D, far
        <5> QED
          BY <2>1, <4>2
      <4> QED
        BY <3>1, <4>1, <4>3
    <3> QED
      BY <3>2, <3>3
  <2> HIDE DEF g, D, far
  <2>6. Upto(g, m + 1)
    BY <2>5
  <2>7. m + 1 \in 0 .. N
    <3> HIDE DEF N
    <3> QED
      BY <1>1
  <2> HIDE DEF Upto, N
  <2> QED
    BY <2>4, <2>6, <2>7
<1>4. \A m \in 0 .. N : m \in T
  <2> HIDE DEF T, N
  <2> QED
    BY <1>1, <1>2, <1>3, Inducts
<1>5. PICK f \in [D -> Seq(Entry)] : Upto(f, N)
  <2>1. N \in 0 .. N
    <3> HIDE DEF N
    <3> QED
      BY <1>1
  <2> HIDE DEF N, D, Upto
  <2> QED
    BY <1>4, <2>1
<1>6. \A at \in D : far(at) <= N
  <2> HIDE DEF N, D, far
  <2> QED
    BY <1>1
<1>7. \A at \in D : f[at] = WrittenBy(f, old, new, at)
  <2> HIDE DEF D, far, N
  <2> QED
    BY <1>5, <1>6
<1> QED
  BY <1>5, <1>7

\* and what such a function writes from a spot on is what is left of both texts.
Leaves(f, old, new, at) ==
  /\ f[at] \in Seq(Entry)
  /\ Side("+", f[at]) = SubSeq(old, at[1], Len(old)) /\ Side("-", f[at]) = SubSeq(new, at[2], Len(new))

LEMMA ScriptLeaves ==
  ASSUME NEW old \in Seq(DiffLines), NEW new \in Seq(DiffLines), NEW f,
         \A at \in Spots(old, new) : f[at] = WrittenBy(f, old, new, at)
  PROVE  \A at \in Spots(old, new) : Leaves(f, old, new, at)
<1> DEFINE D == Spots(old, new)
           N == Len(old) + Len(new)
           far(at) == LinesAhead(old, new, at)
           T == {m \in 0 .. N : \A at \in D : far(at) <= m => Leaves(f, old, new, at)}
<1>1. N \in Nat /\ \A at \in D : far(at) \in 0 .. N
  BY SpotIs
<1>2. ASSUME NEW at \in D, at = Finish(old, new) PROVE Leaves(f, old, new, at)
  <2>1. f[at] = <<>>
    BY <1>2 DEF WrittenBy
  <2>2. at[1] = Len(old) + 1 /\ at[2] = Len(new) + 1 /\ Len(old) \in Nat /\ Len(new) \in Nat
    BY <1>2 DEF Finish
  <2>3. SubSeq(old, Len(old) + 1, Len(old)) = <<>> /\ SubSeq(new, Len(new) + 1, Len(new)) = <<>>
    <3>1. Len(old) + 1 \in Int /\ Len(old) \in Int /\ Len(old) < Len(old) + 1
          /\ Len(new) + 1 \in Int /\ Len(new) \in Int /\ Len(new) < Len(new) + 1
      BY <2>2
    <3> QED
      BY <3>1, SubSeqEmpty
  <2> QED
    BY ZenonT(30), <2>1, <2>2, <2>3, EmptySeq, SideLast DEF Leaves
<1>3. 0 \in T
  <2>1. ASSUME NEW at \in D, far(at) <= 0 PROVE Leaves(f, old, new, at)
    <3>1. far(at) = 0
      <4> HIDE DEF D, N, far
      <4> QED
        BY <1>1, <2>1
    <3>2. at = Finish(old, new)
      BY <3>1, SpotIs
    <3> QED
      BY <1>2, <3>2
  <2> HIDE DEF D, far, N
  <2> QED
    BY <1>1, <2>1
<1>4. ASSUME NEW m \in 0 .. N - 1, m \in T PROVE m + 1 \in T
  <2>1. ASSUME NEW at \in D, far(at) <= m + 1, at # Finish(old, new) PROVE Leaves(f, old, new, at)
    <3> DEFINE pass == Pass(old, new, at[1], at[2])
               p == pass.next
    <3>1. PassedAt(old, new, at, pass)
      BY <2>1, PassAtIs
    <3>2. f[at] = pass.lines \o f[p]
      BY <2>1 DEF WrittenBy
    <3> HIDE DEF pass
    <3>3. p \in D /\ far(p) < far(at) /\ pass.lines \in Seq(Entry)
          /\ Side("+", pass.lines) \o SubSeq(old, p[1], Len(old)) = SubSeq(old, at[1], Len(old))
          /\ Side("-", pass.lines) \o SubSeq(new, p[2], Len(new)) = SubSeq(new, at[2], Len(new))
      BY <3>1 DEF PassedAt
    <3>4. far(p) <= m
      <4> HIDE DEF p, D, far, N
      <4> QED
        BY <1>1, <2>1, <3>3
    <3>5. Leaves(f, old, new, p)
      <4> HIDE DEF p, D, far, N
      <4> QED
        BY <1>4, <3>3, <3>4
    <3>6. f[p] \in Seq(Entry) /\ Side("+", f[p]) = SubSeq(old, p[1], Len(old)) /\ Side("-", f[p]) = SubSeq(new, p[2], Len(new))
      BY <3>5 DEF Leaves
    <3> DEFINE q == f[p]
               l == pass.lines
    <3> HIDE DEF p
    <3>7. l \o q \in Seq(Entry) /\ Side("+", l \o q) = Side("+", l) \o Side("+", q)
          /\ Side("-", l \o q) = Side("-", l) \o Side("-", q)
      <4>1. q \in Seq(Entry) /\ l \in Seq(Entry)
        BY <3>3, <3>6
      <4> HIDE DEF q, l
      <4> QED
        BY <4>1, ConcatProperties, SideConcat
    <3> QED
      BY <3>2, <3>3, <3>6, <3>7 DEF Leaves
  <2>2. \A at \in D : far(at) <= m + 1 => Leaves(f, old, new, at)
    <3> HIDE DEF D, far
    <3> QED
      BY <1>2, <2>1
  <2> HIDE DEF D, far, N
  <2> QED
    BY <1>1, <2>2
<1>5. \A m \in 0 .. N : m \in T
  <2> HIDE DEF T, N
  <2> QED
    BY <1>1, <1>3, <1>4, Inducts
<1>6. N \in 0 .. N /\ \A at \in D : far(at) <= N
  <2> HIDE DEF D, far, N
  <2> QED
    BY <1>1
<1> QED
  <2> HIDE DEF far, N
  <2> QED
    BY <1>5, <1>6

\* The script is both texts.
LEMMA ScriptIs ==
  ASSUME NEW old \in Seq(DiffLines), NEW new \in Seq(DiffLines)
  PROVE  /\ EditScript(old, new) \in Seq(Entry)
         /\ Side("+", EditScript(old, new)) = old /\ Side("-", EditScript(old, new)) = new
<1> DEFINE D == (1 .. Len(old) + 1) \X (1 .. Len(new) + 1)
           Is(g) == g = [at \in D |->
             IF at = <<Len(old) + 1, Len(new) + 1>> THEN <<>>
             ELSE Pass(old, new, at[1], at[2]).lines \o g[Pass(old, new, at[1], at[2]).next]]
           From[at \in D] ==
             IF at = <<Len(old) + 1, Len(new) + 1>> THEN <<>>
             ELSE Pass(old, new, at[1], at[2]).lines \o From[Pass(old, new, at[1], at[2]).next]
<1>1. PICK f \in [Spots(old, new) -> Seq(Entry)] :
        \A at \in Spots(old, new) : f[at] = WrittenBy(f, old, new, at)
  BY ScriptExists
<1>2. f \in [D -> Seq(Entry)] /\ \A at \in D : f[at] =
             IF at = <<Len(old) + 1, Len(new) + 1>> THEN <<>>
             ELSE Pass(old, new, at[1], at[2]).lines \o f[Pass(old, new, at[1], at[2]).next]
  BY <1>1 DEF Spots, WrittenBy, Finish
<1>3. Is(f)
  <2> HIDE DEF D
  <2> QED
    BY <1>2, Zenon
<1>4. Is(From)
  BY <1>3
<1>5. EditScript(old, new) = From[<<1, 1>>]
  BY DEF EditScript
<1> HIDE DEF From
<1>6. \A at \in D : From[at] =
             IF at = <<Len(old) + 1, Len(new) + 1>> THEN <<>>
             ELSE Pass(old, new, at[1], at[2]).lines \o From[Pass(old, new, at[1], at[2]).next]
  <2> HIDE DEF D
  <2> QED
    BY <1>4, Zenon
<1>7. \A at \in Spots(old, new) : From[at] = WrittenBy(From, old, new, at)
  BY <1>6 DEF Spots, WrittenBy, Finish
<1>8. Leaves(From, old, new, <<1, 1>>)
  <2>1. <<1, 1>> \in Spots(old, new)
    BY DEF Spots
  <2> QED
    BY <1>7, <2>1, ScriptLeaves
<1>9. SubSeq(old, 1, Len(old)) = old /\ SubSeq(new, 1, Len(new)) = new
  BY SubSeqFull
<1> QED
  BY <1>5, <1>8, <1>9 DEF Leaves

-----------------------------------------------------------------------------
Hunk == [oldStart : Int, newStart : Int, lines : Seq(Entry)]
DiffState == [oldLine : Int, newLine : Int, context : Seq(Entry), hunk : Hunk, hunks : Seq(Hunk)]

\* A hunk with one more line.
Grown(hunk, entry) ==
  [oldStart |-> hunk.oldStart, newStart |-> hunk.newStart, lines |-> Append(hunk.lines, entry)]

\* The hunk the lines before a change begin.
Begun(d) ==
  [oldStart |-> d.oldLine - Len(d.context), newStart |-> d.newLine - Len(d.context), lines |-> d.context]

\* The ways of a step: a kept line ends the hunk, is in it, or is held; a changed
\* line is in the hunk, or begins one.
Ends(d, entry, context, hunk, hunks) ==
  /\ entry.sign = " " /\ d.hunk.lines # <<>>
  /\ context = <<>> /\ hunk = NoHunk /\ hunks = Append(d.hunks, Grown(d.hunk, entry))
Grows(d, entry, hunk, hunks) ==
  d.hunk.lines # <<>> /\ hunk = Grown(d.hunk, entry) /\ hunks = d.hunks
Holds(d, entry, context, hunk, hunks) ==
  /\ entry.sign = " " /\ d.hunk.lines = <<>> /\ hunk = d.hunk /\ hunks = d.hunks
  /\ context = Append(d.context, entry) \/ context = Tail(Append(d.context, entry))
Begins(d, entry, hunk, hunks) ==
  d.hunk.lines = <<>> /\ hunk = Grown(Begun(d), entry) /\ hunks = d.hunks
Goes(d, entry, context, hunk, hunks) ==
  \/ Ends(d, entry, context, hunk, hunks) \/ Grows(d, entry, hunk, hunks)
  \/ Holds(d, entry, context, hunk, hunks) \/ Begins(d, entry, hunk, hunks)
Moves(d, entry, n) ==
  /\ n \in DiffState
  /\ n.oldLine = IF entry.sign = "+" THEN d.oldLine ELSE d.oldLine + 1
  /\ n.newLine = IF entry.sign = "-" THEN d.newLine ELSE d.newLine + 1
  /\ Goes(d, entry, n.context, n.hunk, n.hunks)

LEMMA DiffStepIs ==
  ASSUME NEW d \in DiffState, NEW entry \in Entry
  PROVE  Moves(d, entry, DiffStep(d, entry))
<1> DEFINE context == Append(d.context, entry)
           hunk == Append(d.hunk.lines, entry)
           grown == [d EXCEPT !.hunk.lines = Append(@, entry)]
           old1 == IF entry.sign = "+" THEN d.oldLine ELSE d.oldLine + 1
           new1 == IF entry.sign = "-" THEN d.newLine ELSE d.newLine + 1
           Next1(c, h, hs) == [oldLine |-> old1, newLine |-> new1, context |-> c, hunk |-> h, hunks |-> hs]
           n == DiffStep(d, entry)
<1>1. d.oldLine \in Int /\ d.newLine \in Int /\ d.context \in Seq(Entry) /\ d.hunk \in Hunk /\ d.hunks \in Seq(Hunk)
      /\ d.hunk.lines \in Seq(Entry) /\ d.hunk.oldStart \in Int /\ d.hunk.newStart \in Int
  BY DEF DiffState, Hunk
<1>2. context \in Seq(Entry) /\ context # <<>> /\ hunk \in Seq(Entry) /\ hunk # <<>> /\ Grown(d.hunk, entry) \in Hunk
  <2>1. context \in Seq(Entry) /\ context # <<>> /\ hunk \in Seq(Entry) /\ hunk # <<>>
    BY SMTT(30), <1>1, AppendProperties
  <2> HIDE DEF context
  <2>2. Grown(d.hunk, entry) = [oldStart |-> d.hunk.oldStart, newStart |-> d.hunk.newStart, lines |-> hunk]
    BY DEF Grown
  <2> HIDE DEF hunk
  <2> QED
    BY <1>1, <2>1, <2>2 DEF Hunk
<1>3. NoHunk \in Hunk /\ <<>> \in Seq(Entry)
  BY EmptySeq DEF NoHunk, Hunk
<1>4. Begun(d) \in Hunk /\ Grown(Begun(d), entry) \in Hunk
  <2>1. Len(d.context) \in Nat
    BY <1>1
  <2>2. Begun(d) \in Hunk
    BY <1>1, <2>1 DEF Begun, Hunk
  <2>3. Begun(d).lines = d.context
    BY DEF Begun
  <2> QED
    BY <1>1, <2>2, <2>3, AppendProperties DEF Grown, Hunk
<1>5. old1 \in Int /\ new1 \in Int
  BY <1>1
<1>6. ASSUME NEW c \in Seq(Entry), NEW h \in Hunk, NEW hs \in Seq(Hunk)
      PROVE  /\ Next1(c, h, hs) \in DiffState /\ Next1(c, h, hs).oldLine = old1 /\ Next1(c, h, hs).newLine = new1
             /\ Next1(c, h, hs).context = c /\ Next1(c, h, hs).hunk = h /\ Next1(c, h, hs).hunks = hs
  BY <1>5 DEF DiffState
<1> DEFINE written == IF entry.sign = " " THEN KeptLine(d, entry) ELSE ChangedLine(d, entry)
           Wrote(c, h, hs) == [oldLine |-> d.oldLine, newLine |-> d.newLine, context |-> c, hunk |-> h, hunks |-> hs]
<1>12. ASSUME NEW c \in Seq(Entry), NEW h \in Hunk, NEW hs \in Seq(Hunk), written = Wrote(c, h, hs),
              Goes(d, entry, c, h, hs)
       PROVE  Moves(d, entry, n)
  <2> DEFINE w == Wrote(c, h, hs)
  <2>1. n = [w EXCEPT !.oldLine = IF entry.sign = "+" THEN @ ELSE @ + 1,
                      !.newLine = IF entry.sign = "-" THEN @ ELSE @ + 1]
    BY <1>12 DEF DiffStep
  <2>2. w.oldLine = d.oldLine /\ w.newLine = d.newLine
    OBVIOUS
  <2>3. n = [w EXCEPT !.oldLine = old1, !.newLine = new1]
    <3> HIDE DEF w, n
    <3> QED
      BY <2>1, <2>2
  <2>4. n = Next1(c, h, hs)
    <3> HIDE DEF n, old1, new1
    <3> QED
      BY <2>3
  <2>5. n \in DiffState /\ n.oldLine = old1 /\ n.newLine = new1 /\ n.context = c /\ n.hunk = h /\ n.hunks = hs
    <3>1. /\ Next1(c, h, hs) \in DiffState /\ Next1(c, h, hs).oldLine = old1 /\ Next1(c, h, hs).newLine = new1
          /\ Next1(c, h, hs).context = c /\ Next1(c, h, hs).hunk = h /\ Next1(c, h, hs).hunks = hs
      BY <1>6
    <3> QED
      BY <2>4, <3>1, Zenon
  <2> HIDE DEF n
  <2> QED
    BY <1>12, <2>5 DEF Moves
<1>7. CASE entry.sign = " " /\ d.hunk.lines # <<>> /\ Len(context) >= DiffContext
  <2>1. written = Wrote(<<>>, NoHunk, Append(d.hunks, Grown(d.hunk, entry)))
    <3>1. KeptLine(d, entry) = [FlushHunk(grown) EXCEPT !.context = <<>>]
      BY <1>7 DEF KeptLine
    <3>2. grown.hunk = Grown(d.hunk, entry) /\ grown.hunk.lines # <<>> /\ grown.hunks = d.hunks
          /\ grown.oldLine = d.oldLine /\ grown.newLine = d.newLine
      BY <1>2 DEF Grown, DiffState, Hunk
    <3>3. FlushHunk(grown) = [grown EXCEPT !.hunks = Append(@, grown.hunk), !.hunk = NoHunk]
      BY <3>2 DEF FlushHunk
    <3>4. KeptLine(d, entry) = [oldLine |-> d.oldLine, newLine |-> d.newLine, context |-> <<>>, hunk |-> NoHunk,
                                hunks |-> Append(d.hunks, Grown(d.hunk, entry))]
      BY ZenonT(30), <3>1, <3>2, <3>3 DEF DiffState
    <3> QED
      BY <1>7, <3>4
  <2>2. Append(d.hunks, Grown(d.hunk, entry)) \in Seq(Hunk)
    BY <1>1, <1>2, AppendProperties
  <2>3. Goes(d, entry, <<>>, NoHunk, Append(d.hunks, Grown(d.hunk, entry)))
    <3> QED
      BY <1>3, <1>6, <1>7, <2>2 DEF Goes, Ends
  <2> HIDE DEF written, Wrote
  <2> QED
    BY <1>3, <1>12, <2>1, <2>2, <2>3
<1>8. CASE entry.sign = " " /\ d.hunk.lines # <<>> /\ ~(Len(context) >= DiffContext)
  <2>1. written = Wrote(context, Grown(d.hunk, entry), d.hunks)
    <3>1. KeptLine(d, entry) = [grown EXCEPT !.context = context]
      BY <1>8 DEF KeptLine
    <3>2. KeptLine(d, entry) = [oldLine |-> d.oldLine, newLine |-> d.newLine, context |-> context,
                                hunk |-> Grown(d.hunk, entry), hunks |-> d.hunks]
      BY <3>1 DEF DiffState, Grown, Hunk
    <3> QED
      BY <1>8, <3>2
  <2>3. Goes(d, entry, context, Grown(d.hunk, entry), d.hunks)
    <3> HIDE DEF context
    <3> QED
      BY <1>1, <1>2, <1>6, <1>8 DEF Goes, Grows
  <2> HIDE DEF written, Wrote, context
  <2> QED
    BY <1>1, <1>2, <1>12, <2>1, <2>3
<1>9. CASE entry.sign = " " /\ d.hunk.lines = <<>>
  <2> DEFINE held == IF Len(context) > DiffContext THEN Tail(context) ELSE context
  <2>1. written = Wrote(held, d.hunk, d.hunks)
    <3>1. KeptLine(d, entry) = [d EXCEPT !.context = held]
      BY <1>9 DEF KeptLine
    <3>2. KeptLine(d, entry) = [oldLine |-> d.oldLine, newLine |-> d.newLine, context |-> held,
                                hunk |-> d.hunk, hunks |-> d.hunks]
      BY <3>1 DEF DiffState
    <3> QED
      BY <1>9, <3>2
  <2>2. held \in Seq(Entry) /\ (held = context \/ held = Tail(context))
    <3> HIDE DEF context
    <3> QED
      BY <1>2, HeadTailProperties
  <2>3. Goes(d, entry, held, d.hunk, d.hunks)
    <3> HIDE DEF held
    <3> QED
      BY <1>1, <1>6, <1>9, <2>2 DEF Goes, Holds
  <2> HIDE DEF written, Wrote, held
  <2> QED
    BY <1>1, <1>12, <2>1, <2>2, <2>3
<1>10. CASE entry.sign # " " /\ d.hunk.lines # <<>>
  <2>1. written = Wrote(<<>>, Grown(d.hunk, entry), d.hunks)
    <3>1. ChangedLine(d, entry) = [d EXCEPT !.hunk = [d.hunk EXCEPT !.lines = Append(@, entry)], !.context = <<>>]
      BY <1>10 DEF ChangedLine
    <3>2. ChangedLine(d, entry) = [oldLine |-> d.oldLine, newLine |-> d.newLine, context |-> <<>>,
                                   hunk |-> Grown(d.hunk, entry), hunks |-> d.hunks]
      BY <3>1 DEF DiffState, Grown, Hunk
    <3> QED
      BY <1>10, <3>2
  <2>3. Goes(d, entry, <<>>, Grown(d.hunk, entry), d.hunks)
    <3> QED
      BY <1>1, <1>2, <1>3, <1>6, <1>10 DEF Goes, Grows
  <2> HIDE DEF written, Wrote
  <2> QED
    BY <1>1, <1>2, <1>3, <1>12, <2>1, <2>3
<1>11. CASE entry.sign # " " /\ d.hunk.lines = <<>>
  <2>1. written = Wrote(<<>>, Grown(Begun(d), entry), d.hunks)
    <3>1. ChangedLine(d, entry) = [d EXCEPT !.hunk = [Begun(d) EXCEPT !.lines = Append(@, entry)], !.context = <<>>]
      BY <1>11 DEF ChangedLine, Begun
    <3>2. [Begun(d) EXCEPT !.lines = Append(@, entry)] = Grown(Begun(d), entry)
      BY SMTT(30), <1>4 DEF Grown, Hunk
    <3>3. ChangedLine(d, entry) = [oldLine |-> d.oldLine, newLine |-> d.newLine, context |-> <<>>,
                                   hunk |-> Grown(Begun(d), entry), hunks |-> d.hunks]
      BY <3>1, <3>2 DEF DiffState
    <3> QED
      BY <1>11, <3>3
  <2>3. Goes(d, entry, <<>>, Grown(Begun(d), entry), d.hunks)
    <3> QED
      BY <1>1, <1>3, <1>4, <1>6, <1>11 DEF Goes, Begins
  <2> HIDE DEF written, Wrote
  <2> QED
    BY <1>1, <1>3, <1>4, <1>12, <2>1, <2>3
<1> QED
  BY <1>7, <1>8, <1>9, <1>10, <1>11

LEMMA FlushIs ==
  ASSUME NEW d \in DiffState
  PROVE  FlushHunk(d).hunks = IF d.hunk.lines = <<>> THEN d.hunks ELSE Append(d.hunks, d.hunk)
BY DEF FlushHunk, DiffState

\* The texts as the hunks are replaced, from the last one.
TextsBy(f, text, hunks) ==
  f = [k \in 0 .. Len(hunks) |-> IF k = 0 THEN text ELSE Replaced(f[k - 1], hunks[Len(hunks) - k + 1])]

LEMMA SameTexts ==
  ASSUME NEW hunks \in Seq(Hunk), NEW text, NEW f, NEW g, TextsBy(f, text, hunks), TextsBy(g, text, hunks)
  PROVE  f[Len(hunks)] = g[Len(hunks)]
<1> DEFINE n == Len(hunks)
           T == {k \in 0 .. n : f[k] = g[k]}
<1>1. n \in Nat
  OBVIOUS
<1> HIDE DEF n
<1>2. ASSUME NEW k \in 0 .. n
      PROVE  /\ f[k] = IF k = 0 THEN text ELSE Replaced(f[k - 1], hunks[n - k + 1])
             /\ g[k] = IF k = 0 THEN text ELSE Replaced(g[k - 1], hunks[n - k + 1])
  BY Zenon DEF TextsBy, n
<1>3. 0 \in T
  BY <1>1, <1>2
<1>4. ASSUME NEW k \in 0 .. n - 1, k \in T PROVE k + 1 \in T
  <2>1. k + 1 \in 0 .. n /\ k + 1 # 0 /\ k + 1 - 1 = k
    BY <1>1
  <2>2. f[k + 1] = Replaced(f[k], hunks[n - (k + 1) + 1]) /\ g[k + 1] = Replaced(g[k], hunks[n - (k + 1) + 1])
    BY <1>2, <2>1
  <2>3. f[k] = g[k]
    BY <1>4
  <2> QED
    BY <2>1, <2>2, <2>3
<1>5. \A k \in 0 .. n : k \in T
  <2> HIDE DEF T
  <2> QED
    BY <1>1, <1>3, <1>4, Inducts
<1>6. n \in 0 .. n
  BY <1>1
<1>7. f[n] = g[n]
  BY <1>5, <1>6
<1> QED
  BY <1>7 DEF n

\* With one more hunk at the end, that one is replaced first.
LEMMA OneMoreHunk ==
  ASSUME NEW hunks \in Seq(Hunk), NEW hunk \in Hunk, NEW text, NEW f, TextsBy(f, Replaced(text, hunk), hunks)
  PROVE  \E g : TextsBy(g, text, Append(hunks, hunk)) /\ g[Len(Append(hunks, hunk))] = f[Len(hunks)]
<1> DEFINE n == Len(hunks)
           hs == Append(hunks, hunk)
           g == [k \in 0 .. n + 1 |-> IF k = 0 THEN text ELSE f[k - 1]]
<1>1. n \in Nat /\ hs \in Seq(Hunk) /\ Len(hs) = n + 1 /\ hs[n + 1] = hunk /\ \A k \in 1 .. n : hs[k] = hunks[k]
  BY AppendProperties
<1> HIDE DEF n, hs
<1>2. \A k \in 0 .. n : f[k] = IF k = 0 THEN Replaced(text, hunk) ELSE Replaced(f[k - 1], hunks[n - k + 1])
  BY Zenon DEF TextsBy, n
<1>3. ASSUME NEW k \in 0 .. n + 1
      PROVE  g[k] = IF k = 0 THEN text ELSE Replaced(g[k - 1], hs[n + 1 - k + 1])
  <2>1. CASE k = 0
    BY <2>1
  <2>2. CASE k = 1
    <3>1. n + 1 - k + 1 = n + 1 /\ k # 0 /\ k - 1 = 0 /\ 0 \in 0 .. n + 1 /\ 0 \in 0 .. n
      BY <1>1, <2>2
    <3>2. g[k] = f[0] /\ g[k - 1] = text
      BY <3>1
    <3>3. f[0] = Replaced(text, hunk)
      BY <1>2, <3>1
    <3> HIDE DEF g
    <3> QED
      BY <1>1, <3>1, <3>2, <3>3
  <2>3. CASE k # 0 /\ k # 1
    <3>1. k - 1 \in 0 .. n /\ k - 1 # 0 /\ k - 1 \in 0 .. n + 1 /\ n + 1 - k + 1 \in 1 .. n
          /\ n - (k - 1) + 1 = n + 1 - k + 1
      BY <1>1, <2>3
    <3>2. g[k] = f[k - 1] /\ g[k - 1] = f[k - 1 - 1]
      BY <2>3, <3>1
    <3>3. f[k - 1] = Replaced(f[k - 1 - 1], hunks[n - (k - 1) + 1])
      BY <1>2, <3>1
    <3>4. hs[n + 1 - k + 1] = hunks[n + 1 - k + 1]
      BY <1>1, <3>1
    <3> HIDE DEF g
    <3> QED
      BY <2>3, <3>1, <3>2, <3>3, <3>4
  <2> QED
    BY <2>1, <2>2, <2>3
<1>4. g = [k \in 0 .. n + 1 |-> IF k = 0 THEN text ELSE Replaced(g[k - 1], hs[n + 1 - k + 1])]
  BY <1>3, Zenon
<1>5. TextsBy(g, text, hs)
  <2> HIDE DEF g
  <2> QED
    BY <1>1, <1>4 DEF TextsBy
<1>6. g[Len(hs)] = f[n]
  BY <1>1
<1> HIDE DEF g
<1> QED
  BY <1>5, <1>6 DEF hs, n

LEMMA TextsExist ==
  ASSUME NEW hunks \in Seq(Hunk)
  PROVE  \A text : \E f : TextsBy(f, text, hunks)
<1> DEFINE T == {hs \in Seq(Hunk) : \A text : \E f : TextsBy(f, text, hs)}
<1>1. <<>> \in T
  <2>1. <<>> \in Seq(Hunk) /\ Len(<<>>) = 0
    BY EmptySeq
  <2>2. ASSUME NEW text PROVE \E f : TextsBy(f, text, <<>>)
    <3> DEFINE f == [k \in 0 .. 0 |-> text]
    <3>1. \A k \in 0 .. 0 : f[k] = IF k = 0 THEN text ELSE Replaced(f[k - 1], <<>>[0 - k + 1])
      OBVIOUS
    <3>2. f = [k \in 0 .. 0 |-> IF k = 0 THEN text ELSE Replaced(f[k - 1], <<>>[0 - k + 1])]
      BY <3>1, Zenon
    <3> HIDE DEF f
    <3>3. TextsBy(f, text, <<>>)
      BY <2>1, <3>2 DEF TextsBy
    <3> QED
      BY <3>3
  <2> QED
    BY <2>1, <2>2
<1>2. ASSUME NEW hs \in Seq(Hunk), NEW h \in Hunk, hs \in T PROVE Append(hs, h) \in T
  <2>1. Append(hs, h) \in Seq(Hunk)
    BY AppendProperties
  <2>2. ASSUME NEW text PROVE \E f : TextsBy(f, text, Append(hs, h))
    <3>1. PICK f : TextsBy(f, Replaced(text, h), hs)
      BY <1>2
    <3> QED
      BY <3>1, OneMoreHunk
  <2> QED
    BY <2>1, <2>2
<1>3. Seq(Hunk) \subseteq T
  <2> HIDE DEF T
  <2> QED
    BY <1>1, <1>2, SeqInducts
<1> QED
  BY <1>3

LEMMA PatchedBy ==
  ASSUME NEW hunks \in Seq(Hunk), NEW text, NEW f, TextsBy(f, text, hunks)
  PROVE  Patched(text, hunks) = f[Len(hunks)]
<1> DEFINE Is(g) == g = [k \in 0 .. Len(hunks) |->
                          IF k = 0 THEN text ELSE Replaced(g[k - 1], hunks[Len(hunks) - k + 1])]
           Texts[k \in 0 .. Len(hunks)] ==
             IF k = 0 THEN text ELSE Replaced(Texts[k - 1], hunks[Len(hunks) - k + 1])
<1>1. Is(f)
  BY DEF TextsBy
<1>2. Is(Texts)
  BY <1>1
<1>3. Patched(text, hunks) = Texts[Len(hunks)]
  BY DEF Patched
<1> HIDE DEF Texts
<1>4. TextsBy(Texts, text, hunks)
  BY <1>2, Zenon DEF TextsBy
<1> QED
  BY <1>3, <1>4, SameTexts

\* So patching goes by the last hunk.
LEMMA PatchedLast ==
  ASSUME NEW text
  PROVE  /\ Patched(text, <<>>) = text
         /\ \A hunks \in Seq(Hunk), hunk \in Hunk :
              Patched(text, Append(hunks, hunk)) = Patched(Replaced(text, hunk), hunks)
<1>1. Patched(text, <<>>) = text
  <2>1. <<>> \in Seq(Hunk) /\ Len(<<>>) = 0
    BY EmptySeq
  <2>2. PICK f : TextsBy(f, text, <<>>)
    BY <2>1, TextsExist
  <2>3. Patched(text, <<>>) = f[0]
    BY <2>1, <2>2, PatchedBy
  <2>4. 0 \in 0 .. Len(<<>>)
    BY <2>1
  <2>5. f[0] = text
    BY <2>2, <2>4, Zenon DEF TextsBy
  <2> QED
    BY <2>3, <2>5
<1>2. ASSUME NEW hunks \in Seq(Hunk), NEW hunk \in Hunk
      PROVE  Patched(text, Append(hunks, hunk)) = Patched(Replaced(text, hunk), hunks)
  <2> DEFINE first == Replaced(text, hunk)
             hs == Append(hunks, hunk)
  <2>1. hs \in Seq(Hunk)
    BY AppendProperties
  <2>2. PICK f : TextsBy(f, first, hunks)
    BY TextsExist
  <2>3. PICK g : TextsBy(g, text, hs) /\ g[Len(hs)] = f[Len(hunks)]
    BY <2>2, OneMoreHunk
  <2> HIDE DEF first, hs
  <2>4. Patched(first, hunks) = f[Len(hunks)] /\ Patched(text, hs) = g[Len(hs)]
    BY <2>1, <2>2, <2>3, PatchedBy
  <2> QED
    BY <2>3, <2>4 DEF first, hs
<1> QED
  BY <1>1, <1>2

\* The parts of a text put together of three.
LEMMA ThreeParts ==
  ASSUME NEW S, NEW a \in Seq(S), NEW b \in Seq(S), NEW c \in Seq(S)
  PROVE  /\ (a \o b) \o c \in Seq(S) /\ Len((a \o b) \o c) = Len(a) + Len(b) + Len(c)
         /\ SubSeq((a \o b) \o c, 1, Len(a)) = a
         /\ SubSeq((a \o b) \o c, Len(a) + 1, Len(a) + Len(b)) = b
         /\ SubSeq((a \o b) \o c, Len(a) + Len(b) + 1, Len((a \o b) \o c)) = c
<1> DEFINE ab == a \o b
           t == ab \o c
           x == Len(a)
           y == Len(b)
           z == Len(c)
<1>1. x \in Nat /\ y \in Nat /\ z \in Nat
  OBVIOUS
<1>2. ab \in Seq(S) /\ Len(ab) = x + y /\ \A i \in 1 .. x + y : ab[i] = IF i <= x THEN a[i] ELSE b[i - x]
  BY ConcatProperties
<1> HIDE DEF ab
<1>3. t \in Seq(S) /\ Len(t) = x + y + z /\ \A i \in 1 .. x + y + z : t[i] = IF i <= x + y THEN ab[i] ELSE c[i - (x + y)]
  <2>1. /\ t \in Seq(S) /\ Len(t) = Len(ab) + Len(c)
        /\ \A i \in 1 .. Len(ab) + Len(c) : t[i] = IF i <= Len(ab) THEN ab[i] ELSE c[i - Len(ab)]
    <3>1. ab \in Seq(S)
      BY <1>2
    <3> QED
      BY <3>1, ConcatProperties
  <2>2. Len(ab) = x + y /\ Len(c) = z
    BY <1>2
  <2> HIDE DEF t, x, y, z
  <2> QED
    BY <2>1, <2>2
<1> HIDE DEF t
<1>4. \A i \in 1 .. x + y + z : t[i] \in S
  BY <1>3, ElementOfSeq
<1>5. SubSeq(t, 1, x) = a
  <2>1. \A i \in 1 .. x : t[i] \in S
    BY <1>1, <1>4
  <2> DEFINE u == SubSeq(t, 1, x)
  <2>2. u \in Seq(S) /\ Len(u) = (IF 1 <= x THEN x - 1 + 1 ELSE 0) /\ \A i \in 1 .. x - 1 + 1 : u[i] = t[1 + i - 1]
    BY <1>1, <2>1, SubSeqProperties
  <2> HIDE DEF u
  <2>3. Len(u) = x
    BY <1>1, <2>2
  <2>4. ASSUME NEW i \in 1 .. x PROVE u[i] = a[i]
    <3>1. i \in 1 .. x - 1 + 1 /\ 1 + i - 1 = i /\ i \in 1 .. x + y + z /\ i <= x + y /\ i \in 1 .. x + y /\ i <= x
      BY <1>1
    <3>2. u[i] = t[i] /\ t[i] = ab[i] /\ ab[i] = a[i]
      BY <1>2, <1>3, <2>2, <3>1
    <3> QED
      BY <3>2
  <2>5. u = a
    BY <2>2, <2>3, <2>4, SeqEqual
  <2> QED
    BY <2>5 DEF u
<1>6. SubSeq(t, x + 1, x + y) = b
  <2>1. \A i \in x + 1 .. x + y : t[i] \in S
    BY <1>1, <1>4
  <2> DEFINE u == SubSeq(t, x + 1, x + y)
  <2>2. u \in Seq(S) /\ Len(u) = (IF x + 1 <= x + y THEN x + y - (x + 1) + 1 ELSE 0)
        /\ \A i \in 1 .. x + y - (x + 1) + 1 : u[i] = t[x + 1 + i - 1]
    BY <1>1, <2>1, SubSeqProperties
  <2> HIDE DEF u
  <2>3. Len(u) = y
    BY <1>1, <2>2
  <2>4. ASSUME NEW i \in 1 .. y PROVE u[i] = b[i]
    <3>1. i \in 1 .. x + y - (x + 1) + 1 /\ x + 1 + i - 1 = x + i /\ x + i \in 1 .. x + y + z /\ x + i <= x + y
          /\ x + i \in 1 .. x + y /\ ~(x + i <= x) /\ x + i - x = i
      BY <1>1
    <3> HIDE DEF x, y, z
    <3>2. u[i] = t[x + i]
      BY <2>2, <3>1
    <3>3. t[x + i] = ab[x + i]
      BY <1>3, <3>1
    <3>4. ab[x + i] = b[i]
      <4>1. PICK j \in 1 .. x + y : j = x + i /\ ~(j <= x) /\ j - x = i
        BY <1>1, <3>1
      <4>2. ab[j] = b[j - x]
        BY <1>2, <4>1
      <4> QED
        BY <4>1, <4>2
    <3> QED
      BY <3>2, <3>3, <3>4
  <2>5. u = b
    BY <2>2, <2>3, <2>4, SeqEqual
  <2> QED
    BY <2>5 DEF u
<1>7. SubSeq(t, x + y + 1, x + y + z) = c
  <2>1. \A i \in x + y + 1 .. x + y + z : t[i] \in S
    BY <1>1, <1>4
  <2> DEFINE u == SubSeq(t, x + y + 1, x + y + z)
  <2>2. u \in Seq(S) /\ Len(u) = (IF x + y + 1 <= x + y + z THEN x + y + z - (x + y + 1) + 1 ELSE 0)
        /\ \A i \in 1 .. x + y + z - (x + y + 1) + 1 : u[i] = t[x + y + 1 + i - 1]
    BY <1>1, <2>1, SubSeqProperties
  <2> HIDE DEF u
  <2>3. Len(u) = z
    BY <1>1, <2>2
  <2>4. ASSUME NEW i \in 1 .. z PROVE u[i] = c[i]
    <3>1. i \in 1 .. x + y + z - (x + y + 1) + 1 /\ x + y + 1 + i - 1 = x + y + i /\ x + y + i \in 1 .. x + y + z
          /\ ~(x + y + i <= x + y) /\ x + y + i - (x + y) = i
      BY <1>1
    <3> HIDE DEF x, y, z
    <3>2. u[i] = t[x + y + i]
      BY <2>2, <3>1
    <3>3. t[x + y + i] = c[i]
      <4>1. PICK j \in 1 .. x + y + z : j = x + y + i /\ ~(j <= x + y) /\ j - (x + y) = i
        BY <1>1, <3>1
      <4>2. t[j] = c[j - (x + y)]
        BY <1>3, <4>1
      <4> QED
        BY <4>1, <4>2
    <3> QED
      BY <3>2, <3>3
  <2>5. u = c
    BY <2>2, <2>3, <2>4, SeqEqual
  <2> QED
    BY <2>5 DEF u
<1> QED
  BY <1>3, <1>5, <1>6, <1>7 DEF t, ab

\* Where a hunk is in the script.
Placed(hunk, script) ==
  \E before, after \in Seq(Entry) :
    /\ script = (before \o hunk.lines) \o after
    /\ hunk.oldStart = Len(Side("+", before)) + 1 /\ hunk.newStart = Len(Side("-", before)) + 1

\* What is patched in front of a text is, in front of more.
PatchesFront(s, t, hunks) == \A rest \in Seq(DiffLines) : Patched(s \o rest, hunks) = t \o rest

\* The hunks say what a script does to a text that begins with its old lines.
Explained(hunks, script) ==
  /\ hunks \in Seq(Hunk) /\ InOrder(hunks)
  /\ \A k \in 1 .. Len(hunks) : Placed(hunks[k], script)
  /\ PatchesFront(Side("+", script), Side("-", script), hunks)

AllKept(entries) == \A i \in 1 .. Len(entries) : entries[i].sign = " "

LEMMA PlacedFurther ==
  ASSUME NEW hunk \in Hunk, NEW script \in Seq(Entry), NEW more \in Seq(Entry), Placed(hunk, script)
  PROVE  Placed(hunk, script \o more)
<1>1. PICK before \in Seq(Entry), after \in Seq(Entry) :
        /\ script = (before \o hunk.lines) \o after
        /\ hunk.oldStart = Len(Side("+", before)) + 1 /\ hunk.newStart = Len(Side("-", before)) + 1
  BY DEF Placed
<1>2. hunk.lines \in Seq(Entry)
  BY DEF Hunk
<1>3. before \o hunk.lines \in Seq(Entry) /\ after \o more \in Seq(Entry)
  BY <1>2, ConcatProperties
<1>4. script \o more = (before \o hunk.lines) \o (after \o more)
  <2> DEFINE p == before \o hunk.lines
  <2>1. p \in Seq(Entry) /\ script = p \o after
    BY <1>1, <1>3
  <2> HIDE DEF p
  <2>2. (p \o after) \o more = p \o (after \o more)
    BY SMTT(30), <2>1, ConcatAssociative
  <2> QED
    BY <2>1, <2>2 DEF p
<1> QED
  BY <1>1, <1>3, <1>4 DEF Placed

LEMMA PatchesBefore ==
  ASSUME NEW s \in Seq(DiffLines), NEW t \in Seq(DiffLines), NEW w \in Seq(DiffLines),
         NEW hunks, PatchesFront(s, t, hunks)
  PROVE  PatchesFront(s \o w, t \o w, hunks)
<1> SUFFICES ASSUME NEW rest \in Seq(DiffLines)
             PROVE  Patched((s \o w) \o rest, hunks) = (t \o w) \o rest
  BY DEF PatchesFront
<1>1. w \o rest \in Seq(DiffLines)
  BY ConcatProperties
<1>2. (s \o w) \o rest = s \o (w \o rest)
  BY ConcatAssociative
<1>3. (t \o w) \o rest = t \o (w \o rest)
  BY SMTT(30), ConcatAssociative
<1>4. Patched(s \o (w \o rest), hunks) = t \o (w \o rest)
  BY <1>1 DEF PatchesFront
<1> QED
  BY <1>2, <1>3, <1>4

LEMMA KeptAlike ==
  ASSUME NEW kept \in Seq(Entry), AllKept(kept)
  PROVE  Side("+", kept) = Side("-", kept) /\ Len(Side("+", kept)) = Len(kept)
<1>1. Side("+", kept) = LinesOf(kept) /\ Side("-", kept) = LinesOf(kept)
  <2>1. "+" # " " /\ "-" # " "
    OBVIOUS
  <2> QED
    BY <2>1, SideOfOne DEF AllKept
<1> QED
  BY <1>1, LinesOfIs

\* Lines both texts have need no hunk.
LEMMA ExplainedKept ==
  ASSUME NEW hunks, NEW script \in Seq(Entry), NEW kept \in Seq(Entry), AllKept(kept), Explained(hunks, script)
  PROVE  Explained(hunks, script \o kept)
<1> DEFINE s == Side("+", script)
           t == Side("-", script)
           k == Side("+", kept)
           all == script \o kept
<1>1. s \in Seq(DiffLines) /\ t \in Seq(DiffLines) /\ k \in Seq(DiffLines) /\ all \in Seq(Entry)
  BY SideLast, ConcatProperties
<1>2. Side("+", all) = s \o k /\ Side("-", all) = t \o k
  BY SideConcat, KeptAlike
<1>3. hunks \in Seq(Hunk) /\ InOrder(hunks)
  BY DEF Explained
<1>4. \A i \in 1 .. Len(hunks) : Placed(hunks[i], all)
  <2> SUFFICES ASSUME NEW i \in 1 .. Len(hunks) PROVE Placed(hunks[i], all)
    OBVIOUS
  <2>1. hunks[i] \in Hunk /\ Placed(hunks[i], script)
    BY <1>3, ElementOfSeq DEF Explained
  <2> QED
    BY <2>1, PlacedFurther
<1>5. PatchesFront(Side("+", all), Side("-", all), hunks)
  <2>1. PatchesFront(s, t, hunks)
    BY DEF Explained
  <2> HIDE DEF s, t, k, all
  <2>2. PatchesFront(s \o k, t \o k, hunks)
    BY <1>1, <2>1, PatchesBefore
  <2> QED
    BY <1>2, <2>2
<1> QED
  BY <1>3, <1>4, <1>5 DEF Explained

LEMMA SidesAre ==
  ASSUME NEW l \in Seq(Entry)
  PROVE  /\ Len(OldSide(l)) = Len(Side("+", l)) /\ LinesOf(OldSide(l)) = Side("+", l) /\ OldSide(l) \in Seq(Entry)
         /\ Len(NewSide(l)) = Len(Side("-", l)) /\ LinesOf(NewSide(l)) = Side("-", l) /\ NewSide(l) \in Seq(Entry)
BY SideLast, WithoutLast DEF OldSide, NewSide, Side

LEMMA PlacedBefore ==
  ASSUME NEW hunk \in Hunk, NEW script \in Seq(Entry), Placed(hunk, script)
  PROVE  hunk.oldStart + Len(OldSide(hunk.lines)) <= Len(Side("+", script)) + 1
<1>1. PICK before \in Seq(Entry), after \in Seq(Entry) :
        script = (before \o hunk.lines) \o after /\ hunk.oldStart = Len(Side("+", before)) + 1
  BY DEF Placed
<1> DEFINE l == hunk.lines
           p == before \o l
<1>2. l \in Seq(Entry) /\ p \in Seq(Entry)
  BY ConcatProperties DEF Hunk
<1>3. Side("+", p) = Side("+", before) \o Side("+", l)
  BY <1>2, SideConcat
<1>4. Len(OldSide(l)) = Len(Side("+", l))
  BY <1>2, SidesAre
<1> HIDE DEF p, l
<1>5. Side("+", p \o after) = Side("+", p) \o Side("+", after)
  BY <1>2, SideConcat
<1>6. Side("+", p) \in Seq(DiffLines) /\ Side("+", before) \in Seq(DiffLines) /\ Side("+", l) \in Seq(DiffLines)
      /\ Side("+", after) \in Seq(DiffLines)
  BY <1>2, SideLast
<1>7. Len(Side("+", p)) = Len(Side("+", before)) + Len(Side("+", l))
  BY <1>3, <1>6, ConcatProperties
<1>8. Len(Side("+", p \o after)) = Len(Side("+", p)) + Len(Side("+", after))
  BY <1>5, <1>6, ConcatProperties
<1>9. Len(Side("+", before)) \in Nat /\ Len(Side("+", l)) \in Nat /\ Len(Side("+", after)) \in Nat
  BY <1>6
<1>10. script = p \o after
  BY <1>1 DEF p, l
<1>11. hunk.oldStart = Len(Side("+", before)) + 1 /\ Len(OldSide(hunk.lines)) = Len(Side("+", l))
  BY <1>1, <1>4 DEF l
<1> QED
  BY <1>7, <1>8, <1>9, <1>10, <1>11

\* Replacing a hunk where it begins.
LEMMA ReplacedIs ==
  ASSUME NEW hunk \in Hunk, NEW before \in Seq(DiffLines), NEW rest \in Seq(DiffLines),
         hunk.oldStart = Len(before) + 1
  PROVE  Replaced((before \o Side("+", hunk.lines)) \o rest, hunk) = (before \o Side("-", hunk.lines)) \o rest
<1> DEFINE l == hunk.lines
           o == Side("+", l)
           text == (before \o o) \o rest
<1>1. l \in Seq(Entry)
  BY DEF Hunk
<1>2. Len(OldSide(l)) = Len(o) /\ LinesOf(NewSide(l)) = Side("-", l)
  BY <1>1, SidesAre
<1>3. o \in Seq(DiffLines)
  BY <1>1, SideLast
<1> HIDE DEF o
<1>4. SubSeq(text, 1, Len(before)) = before /\ SubSeq(text, Len(before) + Len(o) + 1, Len(text)) = rest
  BY <1>3, ThreeParts
<1>5. hunk.oldStart - 1 = Len(before) /\ hunk.oldStart + Len(OldSide(l)) = Len(before) + Len(o) + 1
  <2>1. Len(before) \in Nat /\ Len(o) \in Nat
    BY <1>3
  <2> HIDE DEF l
  <2> QED
    BY <1>2, <2>1
<1>6. Replaced(text, hunk) = (SubSeq(text, 1, hunk.oldStart - 1) \o LinesOf(NewSide(l)))
                               \o SubSeq(text, hunk.oldStart + Len(OldSide(l)), Len(text))
  BY DEF Replaced
<1> HIDE DEF text, l
<1>7. Replaced(text, hunk) = (before \o Side("-", l)) \o rest
  BY <1>2, <1>4, <1>5, <1>6
<1> QED
  BY <1>7 DEF text, o, l

LEMMA ExplainedHunk ==
  ASSUME NEW hunks, NEW script \in Seq(Entry), NEW hunk \in Hunk, Explained(hunks, script),
         hunk.oldStart = Len(Side("+", script)) + 1, hunk.newStart = Len(Side("-", script)) + 1
  PROVE  Explained(Append(hunks, hunk), script \o hunk.lines)
<1> DEFINE hs == Append(hunks, hunk)
           n == Len(hunks)
           l == hunk.lines
           all == script \o l
<1>1. hunks \in Seq(Hunk) /\ n \in Nat /\ l \in Seq(Entry)
  BY DEF Explained, Hunk
<1>2. hs \in Seq(Hunk) /\ Len(hs) = n + 1 /\ hs[n + 1] = hunk /\ \A k \in 1 .. n : hs[k] = hunks[k]
  BY <1>1, AppendProperties
<1>3. \A k \in 1 .. n : hunks[k] \in Hunk /\ Placed(hunks[k], script)
  BY <1>1, ElementOfSeq DEF Explained
<1> HIDE DEF hs, n
<1>4. InOrder(hs)
  <2> SUFFICES ASSUME NEW k \in 1 .. Len(hs) - 1
               PROVE  hs[k].oldStart + Len(OldSide(hs[k].lines)) <= hs[k + 1].oldStart
    BY DEF InOrder
  <2>1. k \in 1 .. n /\ hs[k] = hunks[k]
    BY <1>1, <1>2
  <2>2. CASE k = n
    <3>1. hs[k + 1] = hunk
      BY <1>2, <2>2
    <3>2. hunks[k] \in Hunk /\ Placed(hunks[k], script)
      BY <1>3, <2>1
    <3>3. hunks[k].oldStart + Len(OldSide(hunks[k].lines)) <= Len(Side("+", script)) + 1
      BY <3>2, PlacedBefore
    <3> QED
      BY <2>1, <3>1, <3>3
  <2>3. CASE k # n
    <3>1. k \in 1 .. n - 1 /\ k + 1 \in 1 .. n
      BY <1>1, <2>1, <2>3
    <3>2. hs[k + 1] = hunks[k + 1]
      BY <1>2, <3>1
    <3>3. hunks[k].oldStart + Len(OldSide(hunks[k].lines)) <= hunks[k + 1].oldStart
      BY <3>1 DEF Explained, InOrder, n
    <3> QED
      BY <2>1, <3>2, <3>3
  <2> QED
    BY <2>2, <2>3
<1>5. \A k \in 1 .. Len(hs) : Placed(hs[k], all)
  <2>1. ASSUME NEW k \in 1 .. n PROVE Placed(hs[k], all)
    <3>1. hs[k] = hunks[k] /\ hunks[k] \in Hunk /\ Placed(hunks[k], script)
      BY <1>2, <1>3
    <3> QED
      BY <1>1, <3>1, PlacedFurther
  <2>2. Placed(hunk, all)
    <3>1. all \in Seq(Entry)
      BY <1>1, ConcatProperties
    <3>2. <<>> \in Seq(Entry) /\ all \o <<>> = all
      BY <3>1, EmptySeq, ConcatEmptySeq
    <3>3. all = (script \o l) \o <<>>
      BY <3>2
    <3> HIDE DEF all
    <3> QED
      BY <3>2, <3>3 DEF Placed
  <2>3. \A k \in 1 .. Len(hs) : k \in 1 .. n \/ k = n + 1
    BY <1>1, <1>2
  <2> HIDE DEF all
  <2> QED
    BY <1>2, <2>1, <2>2, <2>3
<1>6. ASSUME NEW rest \in Seq(DiffLines) PROVE Patched(Side("+", all) \o rest, hs) = Side("-", all) \o rest
  <2> DEFINE s == Side("+", script)
             t == Side("-", script)
             o == Side("+", l)
             w == Side("-", l)
  <2>1. s \in Seq(DiffLines) /\ t \in Seq(DiffLines) /\ o \in Seq(DiffLines) /\ w \in Seq(DiffLines)
    BY <1>1, SideLast
  <2>2. Side("+", all) = s \o o /\ Side("-", all) = t \o w
    BY <1>1, SideConcat
  <2>3. PatchesFront(s, t, hunks)
    BY DEF Explained
  <2>4. Replaced((s \o o) \o rest, hunk) = (s \o w) \o rest
    BY <2>1, ReplacedIs
  <2> HIDE DEF s, t, o, w, all, l
  <2>5. Patched((s \o o) \o rest, hs) = Patched((s \o w) \o rest, hunks)
    <3> DEFINE text == (s \o o) \o rest
    <3>1. Patched(text, Append(hunks, hunk)) = Patched(Replaced(text, hunk), hunks)
      BY <1>1, PatchedLast
    <3> QED
      BY <2>4, <3>1 DEF hs
  <2>6. PatchesFront(s \o w, t \o w, hunks)
    BY <2>1, <2>3, PatchesBefore
  <2>7. Patched((s \o w) \o rest, hunks) = (t \o w) \o rest
    BY <2>6 DEF PatchesFront
  <2> QED
    BY <2>2, <2>5, <2>7
<1> HIDE DEF all
<1>7. Explained(hs, all)
  BY <1>2, <1>4, <1>5, <1>6 DEF Explained, PatchesFront
<1> QED
  BY <1>7 DEF hs, all, l

\* After a part of the script: what was flushed is explained; the rest is the
\* lines held, or the hunk that is open.
Waits(d, script, flushed) ==
  d.hunk.lines = <<>> /\ AllKept(d.context) /\ script = flushed \o d.context
Opens(d, script, flushed) ==
  /\ d.hunk.lines # <<>> /\ script = flushed \o d.hunk.lines
  /\ d.hunk.oldStart = Len(Side("+", flushed)) + 1 /\ d.hunk.newStart = Len(Side("-", flushed)) + 1
DiffInv(d, script) ==
  /\ d \in DiffState
  /\ d.oldLine = Len(Side("+", script)) + 1 /\ d.newLine = Len(Side("-", script)) + 1
  /\ \E flushed \in Seq(Entry) :
       Explained(d.hunks, flushed) /\ (Waits(d, script, flushed) \/ Opens(d, script, flushed))

LEMMA DiffStarts == DiffInv(DiffStart, <<>>)
<1>1. <<>> \in Seq(Entry) /\ <<>> \in Seq(Hunk) /\ Len(<<>>) = 0 /\ <<>> \o <<>> = <<>>
  BY EmptySeq, ConcatEmptySeq
<1>2. DiffStart \in DiffState /\ DiffStart.hunk.lines = <<>> /\ DiffStart.context = <<>> /\ DiffStart.hunks = <<>>
      /\ DiffStart.oldLine = 1 /\ DiffStart.newLine = 1
  BY <1>1 DEF DiffStart, DiffState, NoHunk, Hunk
<1>3. Side("+", <<>>) = <<>> /\ Side("-", <<>>) = <<>>
  BY SideLast
<1>4. Explained(<<>>, <<>>)
  <2>1. InOrder(<<>>) /\ \A k \in 1 .. Len(<<>>) : Placed(<<>>[k], <<>>)
    BY <1>1 DEF InOrder
  <2>2. PatchesFront(<<>>, <<>>, <<>>)
    BY PatchedLast DEF PatchesFront
  <2> QED
    BY <1>1, <1>3, <2>1, <2>2 DEF Explained
<1>5. Waits(DiffStart, <<>>, <<>>)
  BY <1>1, <1>2 DEF Waits, AllKept
<1>6. 1 = 0 + 1
  OBVIOUS
<1> HIDE DEF DiffStart
<1> QED
  BY <1>1, <1>2, <1>3, <1>4, <1>5, <1>6 DEF DiffInv

LEMMA OneMore ==
  ASSUME NEW q \in Seq(Entry), NEW e \in Entry
  PROVE  /\ Append(q, e) \in Seq(Entry) /\ Append(q, e) # <<>> /\ Len(Append(q, e)) = Len(q) + 1 /\ Len(q) \in Nat
         /\ Append(q, e)[Len(q) + 1] = e /\ \A i \in 1 .. Len(q) : Append(q, e)[i] = q[i]
BY AppendProperties

LEMMA Regroup ==
  ASSUME NEW a \in Seq(Entry), NEW b \in Seq(Entry), NEW c \in Seq(Entry)
  PROVE  (a \o b) \o c = a \o (b \o c)
BY ConcatAssociative

LEMMA LastOrBefore == \A n \in Nat : \A i \in 1 .. n + 1 : i = n + 1 \/ i \in 1 .. n
  OBVIOUS

LEMMA KeptMore ==
  ASSUME NEW q \in Seq(Entry), NEW e \in Entry, AllKept(q), e.sign = " "
  PROVE  AllKept(Append(q, e))
<1>1. Len(Append(q, e)) = Len(q) + 1 /\ Len(q) \in Nat
      /\ Append(q, e)[Len(q) + 1] = e /\ \A i \in 1 .. Len(q) : Append(q, e)[i] = q[i]
  BY OneMore, Zenon
<1> DEFINE r == Append(q, e)
<1> SUFFICES ASSUME NEW i \in 1 .. Len(r) PROVE r[i].sign = " "
  BY DEF AllKept
<1>2. i = Len(q) + 1 \/ i \in 1 .. Len(q)
  <2>1. 1 .. Len(r) = 1 .. Len(q) + 1
    BY <1>1, Zenon
  <2>2. i \in 1 .. Len(q) + 1
    BY <2>1, Zenon
  <2>3. Len(q) \in Nat
    BY <1>1, Zenon
  <2> QED
    BY <2>2, <2>3, LastOrBefore, Zenon
<1>3. CASE i = Len(q) + 1
  BY <1>1, <1>3
<1>4. CASE i \in 1 .. Len(q)
  BY <1>1, <1>4 DEF AllKept
<1> QED
  BY <1>2, <1>3, <1>4

\* A line at its end makes a script longer on the sides it is of.
LEMMA LinesCounted ==
  ASSUME NEW script \in Seq(Entry), NEW e \in Entry
  PROVE  /\ Append(script, e) \in Seq(Entry)
         /\ Len(Side("+", Append(script, e))) = Len(Side("+", script)) + (IF e.sign = "+" THEN 0 ELSE 1)
         /\ Len(Side("-", Append(script, e))) = Len(Side("-", script)) + (IF e.sign = "-" THEN 0 ELSE 1)
         /\ Len(Side("+", script)) \in Nat /\ Len(Side("-", script)) \in Nat
<1>1. ASSUME NEW sign
      PROVE  /\ Len(Side(sign, Append(script, e))) = Len(Side(sign, script)) + (IF e.sign = sign THEN 0 ELSE 1)
             /\ Len(Side(sign, script)) \in Nat
  <2> DEFINE s == Side(sign, script)
  <2>1. s \in Seq(DiffLines) /\ Side(sign, Append(script, e)) = IF e.sign = sign THEN s ELSE Append(s, e.line)
    BY SideLast
  <2>2. e.line \in DiffLines
    BY DEF Entry
  <2> HIDE DEF s
  <2>3. Len(Append(s, e.line)) = Len(s) + 1 /\ Len(s) \in Nat
    BY <2>1, <2>2, AppendProperties
  <2>4. Len(Side(sign, Append(script, e))) = Len(s) + (IF e.sign = sign THEN 0 ELSE 1) /\ Len(s) \in Nat
    BY <2>1, <2>3
  <2> QED
    BY <2>4 DEF s
<1> QED
  BY <1>1, AppendProperties

LEMMA DiffStepKeeps ==
  ASSUME NEW d, NEW script \in Seq(Entry), NEW e \in Entry, DiffInv(d, script)
  PROVE  DiffInv(DiffStep(d, e), Append(script, e))
<1> DEFINE n == DiffStep(d, e)
           more == Append(script, e)
<1>1. d \in DiffState /\ d.oldLine = Len(Side("+", script)) + 1 /\ d.newLine = Len(Side("-", script)) + 1
  BY DEF DiffInv
<1>2. PICK flushed \in Seq(Entry) :
        Explained(d.hunks, flushed) /\ (Waits(d, script, flushed) \/ Opens(d, script, flushed))
  BY DEF DiffInv
<1>3. Moves(d, e, n)
  BY <1>1, DiffStepIs
<1> HIDE DEF n
<1>4. d.context \in Seq(Entry) /\ d.hunk \in Hunk /\ d.hunk.lines \in Seq(Entry)
  BY <1>1 DEF DiffState, Hunk
<1>5. more \in Seq(Entry) /\ n.oldLine = Len(Side("+", more)) + 1 /\ n.newLine = Len(Side("-", more)) + 1
  <2>1. n.oldLine = (IF e.sign = "+" THEN d.oldLine ELSE d.oldLine + 1)
        /\ n.newLine = IF e.sign = "-" THEN d.newLine ELSE d.newLine + 1
    BY <1>3 DEF Moves
  <2>2. /\ more \in Seq(Entry)
        /\ Len(Side("+", more)) = Len(Side("+", script)) + (IF e.sign = "+" THEN 0 ELSE 1)
        /\ Len(Side("-", more)) = Len(Side("-", script)) + (IF e.sign = "-" THEN 0 ELSE 1)
        /\ Len(Side("+", script)) \in Nat /\ Len(Side("-", script)) \in Nat
    BY LinesCounted
  <2> HIDE DEF more
  <2> QED
    BY <1>1, <2>1, <2>2
<1>6. Grown(d.hunk, e) \in Hunk /\ Grown(d.hunk, e).lines = Append(d.hunk.lines, e) /\ Grown(d.hunk, e).lines # <<>>
      /\ Grown(d.hunk, e).oldStart = d.hunk.oldStart /\ Grown(d.hunk, e).newStart = d.hunk.newStart
  <2> DEFINE l == Append(d.hunk.lines, e)
  <2>1. l \in Seq(Entry) /\ l # <<>>
    BY <1>4, OneMore
  <2>2. Grown(d.hunk, e) = [oldStart |-> d.hunk.oldStart, newStart |-> d.hunk.newStart, lines |-> l]
    BY DEF Grown
  <2> HIDE DEF l
  <2>3. Grown(d.hunk, e) \in Hunk /\ Grown(d.hunk, e).lines = l
        /\ Grown(d.hunk, e).oldStart = d.hunk.oldStart /\ Grown(d.hunk, e).newStart = d.hunk.newStart
    BY <1>4, <2>1, <2>2 DEF Hunk
  <2> QED
    BY <2>1, <2>3 DEF l
<1>7. d.hunk.lines # <<>> => Opens(d, script, flushed) /\ more = flushed \o Grown(d.hunk, e).lines
  <2> SUFFICES ASSUME d.hunk.lines # <<>> PROVE Opens(d, script, flushed) /\ more = flushed \o Grown(d.hunk, e).lines
    OBVIOUS
  <2>1. Opens(d, script, flushed)
    BY <1>2 DEF Waits
  <2>2. script = flushed \o d.hunk.lines
    BY <2>1 DEF Opens
  <2>3. flushed \o Append(d.hunk.lines, e) = Append(flushed \o d.hunk.lines, e)
    BY SMTT(30), <1>4, ConcatAppend
  <2> QED
    BY <1>6, <2>1, <2>2, <2>3
<1>8. d.hunk.lines = <<>> => AllKept(d.context) /\ script = flushed \o d.context
                               /\ more = flushed \o Append(d.context, e)
  <2> SUFFICES ASSUME d.hunk.lines = <<>>
               PROVE  AllKept(d.context) /\ script = flushed \o d.context /\ more = flushed \o Append(d.context, e)
    OBVIOUS
  <2>1. Waits(d, script, flushed)
    BY <1>2 DEF Opens
  <2>2. script = flushed \o d.context /\ AllKept(d.context)
    BY <2>1 DEF Waits
  <2>3. flushed \o Append(d.context, e) = Append(flushed \o d.context, e)
    BY <1>4, ConcatAppend
  <2> QED
    BY <2>2, <2>3
<1> DEFINE Goal(f) == Explained(n.hunks, f) /\ (Waits(n, more, f) \/ Opens(n, more, f))
<1>9. SUFFICES \E f \in Seq(Entry) : Goal(f)
  <2>1. n \in DiffState
    BY <1>3 DEF Moves
  <2>2. DiffInv(n, more)
    BY <1>5, <1>9, <2>1 DEF DiffInv
  <2> QED
    BY <2>2 DEF n
<1> HIDE DEF more
<1>10. CASE Ends(d, e, n.context, n.hunk, n.hunks)
  <2>1. d.hunk.lines # <<>> /\ n.context = <<>> /\ n.hunk = NoHunk /\ n.hunks = Append(d.hunks, Grown(d.hunk, e))
    BY <1>10 DEF Ends
  <2>2. Opens(d, script, flushed) /\ more = flushed \o Grown(d.hunk, e).lines
    BY <1>7, <2>1
  <2>3. Grown(d.hunk, e).oldStart = Len(Side("+", flushed)) + 1 /\ Grown(d.hunk, e).newStart = Len(Side("-", flushed)) + 1
    BY <1>6, <2>2 DEF Opens
  <2>4. Explained(n.hunks, more)
    BY <1>2, <1>6, <2>1, <2>2, <2>3, ExplainedHunk
  <2>5. Waits(n, more, more)
    <3>1. n.hunk.lines = <<>>
      BY <2>1 DEF NoHunk
    <3>2. AllKept(<<>>)
      <4>1. 1 .. Len(<<>>) = {}
        <5>1. Len(<<>>) = 0
          BY EmptySeq
        <5> QED
          BY <5>1
      <4> QED
        BY <4>1, Zenon DEF AllKept
    <3>3. more \o <<>> = more
      BY <1>5, ConcatEmptySeq
    <3> QED
      BY <2>1, <3>1, <3>2, <3>3 DEF Waits
  <2> QED
    BY <1>5, <2>4, <2>5
<1>11. CASE Grows(d, e, n.hunk, n.hunks)
  <2>1. d.hunk.lines # <<>> /\ n.hunk = Grown(d.hunk, e) /\ n.hunks = d.hunks
    BY <1>11 DEF Grows
  <2>2. Opens(d, script, flushed) /\ more = flushed \o Grown(d.hunk, e).lines
    BY <1>7, <2>1
  <2>3. Opens(n, more, flushed)
    BY <1>6, <2>1, <2>2 DEF Opens
  <2> QED
    BY <1>2, <2>1, <2>3
<1>12. CASE Holds(d, e, n.context, n.hunk, n.hunks)
  <2>1. e.sign = " " /\ d.hunk.lines = <<>> /\ n.hunk = d.hunk /\ n.hunks = d.hunks
        /\ (n.context = Append(d.context, e) \/ n.context = Tail(Append(d.context, e)))
    BY <1>12 DEF Holds
  <2> DEFINE c == Append(d.context, e)
  <2>2. c \in Seq(Entry) /\ c # <<>> /\ AllKept(c) /\ more = flushed \o c
    BY <1>4, <1>8, <2>1, AppendProperties, KeptMore
  <2>3. n.context = c \/ n.context = Tail(c)
    BY <2>1
  <2> HIDE DEF c
  <2>4. CASE n.context = c
    <3>1. Waits(n, more, flushed)
      BY <2>1, <2>2, <2>4 DEF Waits
    <3> QED
      BY <1>2, <2>1, <3>1
  <2>5. CASE n.context = Tail(c)
    <3> DEFINE h == <<Head(c)>>
               f == flushed \o h
    <3>1. Len(c) \in Nat \ {0} /\ Head(c) = c[1] /\ Head(c) \in Entry /\ Tail(c) \in Seq(Entry)
          /\ Len(Tail(c)) = Len(c) - 1 /\ \A i \in 1 .. Len(Tail(c)) : Tail(c)[i] = c[i + 1]
      BY <2>2, EmptySeq, HeadTailProperties
    <3>2. h \in Seq(Entry) /\ AllKept(h)
      <4>1. 1 \in 1 .. Len(c)
        BY <3>1
      <4>2. c[1].sign = " "
        BY <2>2, <4>1 DEF AllKept
      <4>3. h \in Seq(Entry) /\ Len(h) = 1 /\ h[1] = c[1]
        BY <3>1
      <4> HIDE DEF h
      <4>4. \A i \in 1 .. Len(h) : i = 1
        BY <4>3
      <4> QED
        BY <4>2, <4>3, <4>4 DEF AllKept
    <3>3. AllKept(Tail(c))
      <4> SUFFICES ASSUME NEW i \in 1 .. Len(Tail(c)) PROVE Tail(c)[i].sign = " "
        BY DEF AllKept
      <4>1. i + 1 \in 1 .. Len(c) /\ Tail(c)[i] = c[i + 1]
        BY <3>1
      <4> QED
        BY <2>2, <4>1 DEF AllKept
    <3>4. c = h \o Tail(c)
      <4>1. Tail(c) = SubSeq(c, 2, Len(c))
        BY <2>2, TailIsSubSeq
      <4>2. SubSeq(c, 1, Len(c)) = c
        BY <2>2, SubSeqFull
      <4>3. SubSeq(c, 1, Len(c)) = <<c[1]>> \o SubSeq(c, 1 + 1, Len(c))
        <5>1. 1 \in 1 .. Len(c) /\ Len(c) \in 1 .. Len(c)
          BY <3>1
        <5> QED
          BY <2>2, <5>1, SubSeqRecursiveFirst
      <4>4. 1 + 1 = 2
        OBVIOUS
      <4> QED
        BY <3>1, <4>1, <4>2, <4>3, <4>4
    <3> HIDE DEF h
    <3>5. f \in Seq(Entry)
      BY <3>2, ConcatProperties
    <3>6. Explained(d.hunks, f)
      BY <1>2, <3>2, ExplainedKept
    <3>7. more = f \o Tail(c)
      <4>1. (flushed \o h) \o Tail(c) = flushed \o (h \o Tail(c))
        BY <3>1, <3>2, Regroup
      <4> QED
        BY <2>2, <3>4, <4>1
    <3> HIDE DEF f
    <3>8. Waits(n, more, f)
      BY <2>1, <2>5, <3>3, <3>7 DEF Waits
    <3> QED
      BY <2>1, <3>5, <3>6, <3>8
  <2> QED
    BY <2>3, <2>4, <2>5
<1>13. CASE Begins(d, e, n.hunk, n.hunks)
  <2>1. d.hunk.lines = <<>> /\ n.hunk = Grown(Begun(d), e) /\ n.hunks = d.hunks
    BY <1>13 DEF Begins
  <2>2. AllKept(d.context) /\ script = flushed \o d.context /\ more = flushed \o Append(d.context, e)
    BY <1>8, <2>1
  <2>3. n.hunk.lines = Append(d.context, e) /\ n.hunk.oldStart = d.oldLine - Len(d.context)
        /\ n.hunk.newStart = d.newLine - Len(d.context)
    BY <2>1 DEF Grown, Begun
  <2>4. n.hunk.lines # <<>>
    BY <1>4, <2>3, AppendProperties
  <2>5. ASSUME NEW sign \in {"+", "-"} PROVE Len(Side(sign, script)) = Len(Side(sign, flushed)) + Len(d.context)
    <3> DEFINE k == d.context
    <3>1. k \in Seq(Entry) /\ Side(sign, script) = Side(sign, flushed) \o Side(sign, k)
      BY <1>4, <2>2, SideConcat
    <3>2. Len(Side(sign, k)) = Len(k)
      BY <1>4, <2>2, KeptAlike
    <3> HIDE DEF k
    <3>3. Side(sign, flushed) \in Seq(DiffLines) /\ Side(sign, k) \in Seq(DiffLines)
      BY <3>1, SideLast
    <3>4. Len(Side(sign, script)) = Len(Side(sign, flushed)) + Len(Side(sign, k))
      BY <3>1, <3>3, ConcatProperties
    <3> QED
      BY <3>2, <3>4 DEF k
  <2>6. Len(Side("+", flushed)) \in Nat /\ Len(Side("-", flushed)) \in Nat /\ Len(d.context) \in Nat
    <3>1. Side("+", flushed) \in Seq(DiffLines) /\ Side("-", flushed) \in Seq(DiffLines)
      BY SideLast
    <3> QED
      BY <1>4, <3>1
  <2>7. n.hunk.oldStart = Len(Side("+", flushed)) + 1 /\ n.hunk.newStart = Len(Side("-", flushed)) + 1
    <3>1. Len(Side("+", script)) = Len(Side("+", flushed)) + Len(d.context)
          /\ Len(Side("-", script)) = Len(Side("-", flushed)) + Len(d.context)
      BY <2>5
    <3> DEFINE a == Len(Side("+", flushed))
               b == Len(Side("-", flushed))
               k == Len(d.context)
    <3>2. a \in Nat /\ b \in Nat /\ k \in Nat /\ d.oldLine = a + k + 1 /\ d.newLine = b + k + 1
      BY <1>1, <2>6, <3>1, Zenon
    <3>3. n.hunk.oldStart = d.oldLine - k /\ n.hunk.newStart = d.newLine - k
      BY <2>3, Zenon
    <3> HIDE DEF a, b, k
    <3>4. n.hunk.oldStart = a + 1 /\ n.hunk.newStart = b + 1
      BY <3>2, <3>3
    <3> QED
      BY <3>4 DEF a, b
  <2>8. Opens(n, more, flushed)
    BY <2>2, <2>3, <2>4, <2>7 DEF Opens
  <2> QED
    BY <1>2, <2>1, <2>8
<1> QED
  BY <1>3, <1>10, <1>11, <1>12, <1>13 DEF Moves, Goes

\* The passes of computeUnifiedDiff over a script, one state after another.
DoneBy(f, script) ==
  f = [k \in 0 .. Len(script) |-> IF k = 0 THEN DiffStart ELSE DiffStep(f[k - 1], script[k])]

LEMMA SameDone ==
  ASSUME NEW script \in Seq(Entry), NEW f, NEW g, DoneBy(f, script), DoneBy(g, script)
  PROVE  f[Len(script)] = g[Len(script)]
<1> DEFINE n == Len(script)
           T == {k \in 0 .. n : f[k] = g[k]}
<1>1. n \in Nat
  OBVIOUS
<1> HIDE DEF n
<1>2. ASSUME NEW k \in 0 .. n
      PROVE  /\ f[k] = IF k = 0 THEN DiffStart ELSE DiffStep(f[k - 1], script[k])
             /\ g[k] = IF k = 0 THEN DiffStart ELSE DiffStep(g[k - 1], script[k])
  BY Zenon DEF DoneBy, n
<1>3. 0 \in T
  BY <1>1, <1>2
<1>4. ASSUME NEW k \in 0 .. n - 1, k \in T PROVE k + 1 \in T
  <2>1. k + 1 \in 0 .. n /\ k + 1 # 0 /\ k + 1 - 1 = k
    BY <1>1
  <2>2. f[k + 1] = DiffStep(f[k], script[k + 1]) /\ g[k + 1] = DiffStep(g[k], script[k + 1])
    BY <1>2, <2>1
  <2>3. f[k] = g[k]
    BY <1>4
  <2> QED
    BY <2>1, <2>2, <2>3
<1>5. \A k \in 0 .. n : k \in T
  <2> HIDE DEF T
  <2> QED
    BY <1>1, <1>3, <1>4, Inducts
<1>6. n \in 0 .. n
  BY <1>1
<1>7. f[n] = g[n]
  BY <1>5, <1>6
<1> QED
  BY <1>7 DEF n

LEMMA OneMoreDone ==
  ASSUME NEW script \in Seq(Entry), NEW e \in Entry, NEW f, DoneBy(f, script)
  PROVE  \E g : /\ DoneBy(g, Append(script, e))
                /\ g[Len(Append(script, e))] = DiffStep(f[Len(script)], e)
<1> DEFINE n == Len(script)
           more == Append(script, e)
           g == [k \in 0 .. n + 1 |-> IF k = n + 1 THEN DiffStep(f[n], e) ELSE f[k]]
<1>1. n \in Nat /\ Len(more) = n + 1 /\ more[n + 1] = e /\ \A k \in 1 .. n : more[k] = script[k]
  BY AppendProperties
<1> HIDE DEF n, more
<1>2. \A k \in 0 .. n : f[k] = IF k = 0 THEN DiffStart ELSE DiffStep(f[k - 1], script[k])
  BY Zenon DEF DoneBy, n
<1>3. ASSUME NEW k \in 0 .. n + 1
      PROVE  g[k] = IF k = 0 THEN DiffStart ELSE DiffStep(g[k - 1], more[k])
  <2>1. CASE k = n + 1
    <3>1. k # 0 /\ k - 1 = n /\ n \in 0 .. n + 1 /\ n # n + 1
      BY <1>1, <2>1
    <3>2. g[k] = DiffStep(f[n], e) /\ g[k - 1] = f[n]
      BY <2>1, <3>1
    <3> HIDE DEF g
    <3> QED
      BY <1>1, <2>1, <3>1, <3>2
  <2>2. CASE k = 0
    <3>1. k # n + 1 /\ k \in 0 .. n
      BY <1>1, <2>2
    <3>2. g[k] = f[k]
      BY <3>1
    <3> HIDE DEF g
    <3> QED
      BY <1>2, <2>2, <3>1, <3>2
  <2>3. CASE k # n + 1 /\ k # 0
    <3>1. k \in 0 .. n /\ k \in 1 .. n /\ k - 1 \in 0 .. n + 1 /\ k - 1 # n + 1
      BY <1>1, <2>3
    <3>2. g[k] = f[k] /\ g[k - 1] = f[k - 1]
      BY <2>3, <3>1
    <3>3. f[k] = DiffStep(f[k - 1], script[k]) /\ more[k] = script[k]
      BY <1>1, <1>2, <2>3, <3>1
    <3> HIDE DEF g
    <3> QED
      BY <2>3, <3>2, <3>3
  <2> QED
    BY <2>1, <2>2, <2>3
<1>4. g = [k \in 0 .. n + 1 |-> IF k = 0 THEN DiffStart ELSE DiffStep(g[k - 1], more[k])]
  BY <1>3, Zenon
<1>5. DoneBy(g, more)
  <2> HIDE DEF g
  <2> QED
    BY <1>1, <1>4 DEF DoneBy
<1>6. g[Len(more)] = DiffStep(f[n], e)
  BY <1>1
<1> HIDE DEF g
<1> QED
  BY <1>5, <1>6 DEF more, n

LEMMA DoneExists ==
  ASSUME NEW script \in Seq(Entry)
  PROVE  \E f : DoneBy(f, script) /\ DiffInv(f[Len(script)], script)
<1> DEFINE T == {p \in Seq(Entry) : \E f : DoneBy(f, p) /\ DiffInv(f[Len(p)], p)}
<1>1. <<>> \in T
  <2>1. <<>> \in Seq(Entry) /\ Len(<<>>) = 0
    BY EmptySeq
  <2> DEFINE f == [k \in 0 .. 0 |-> DiffStart]
  <2>2. \A k \in 0 .. 0 : f[k] = IF k = 0 THEN DiffStart ELSE DiffStep(f[k - 1], <<>>[k])
    OBVIOUS
  <2>3. f = [k \in 0 .. 0 |-> IF k = 0 THEN DiffStart ELSE DiffStep(f[k - 1], <<>>[k])]
    BY <2>2, Zenon
  <2>4. f[0] = DiffStart
    OBVIOUS
  <2> HIDE DEF f
  <2>5. DoneBy(f, <<>>)
    BY <2>1, <2>3 DEF DoneBy
  <2>6. DiffInv(f[Len(<<>>)], <<>>)
    BY <2>1, <2>4, DiffStarts
  <2> QED
    BY <2>1, <2>5, <2>6
<1>2. ASSUME NEW p \in Seq(Entry), NEW e \in Entry, p \in T PROVE Append(p, e) \in T
  <2>1. Append(p, e) \in Seq(Entry)
    BY AppendProperties
  <2>2. PICK f : DoneBy(f, p) /\ DiffInv(f[Len(p)], p)
    BY <1>2
  <2>3. PICK g : DoneBy(g, Append(p, e)) /\ g[Len(Append(p, e))] = DiffStep(f[Len(p)], e)
    BY <2>2, OneMoreDone
  <2>4. DiffInv(DiffStep(f[Len(p)], e), Append(p, e))
    BY <2>2, DiffStepKeeps
  <2>5. DiffInv(g[Len(Append(p, e))], Append(p, e))
    BY <2>3, <2>4
  <2> QED
    BY <2>1, <2>3, <2>5
<1>3. Seq(Entry) \subseteq T
  <2> HIDE DEF T
  <2> QED
    BY <1>1, <1>2, SeqInducts
<1> QED
  BY <1>3

\* With the hunk that is still open, the hunks say what the whole script does.
LEMMA FlushExplains ==
  ASSUME NEW d, NEW script \in Seq(Entry), DiffInv(d, script)
  PROVE  Explained(FlushHunk(d).hunks, script)
<1>1. d \in DiffState
  BY DEF DiffInv
<1>2. PICK flushed \in Seq(Entry) :
        Explained(d.hunks, flushed) /\ (Waits(d, script, flushed) \/ Opens(d, script, flushed))
  BY DEF DiffInv
<1>3. d.context \in Seq(Entry) /\ d.hunk \in Hunk
  BY <1>1 DEF DiffState
<1>4. FlushHunk(d).hunks = IF d.hunk.lines = <<>> THEN d.hunks ELSE Append(d.hunks, d.hunk)
  BY <1>1, FlushIs
<1>5. CASE Waits(d, script, flushed)
  <2>1. d.hunk.lines = <<>> /\ AllKept(d.context) /\ script = flushed \o d.context
    BY <1>5 DEF Waits
  <2>2. Explained(d.hunks, flushed \o d.context)
    BY <1>2, <1>3, <2>1, ExplainedKept
  <2> QED
    BY <1>4, <2>1, <2>2
<1>6. CASE Opens(d, script, flushed)
  <2>1. /\ d.hunk.lines # <<>> /\ script = flushed \o d.hunk.lines
        /\ d.hunk.oldStart = Len(Side("+", flushed)) + 1 /\ d.hunk.newStart = Len(Side("-", flushed)) + 1
    BY <1>6 DEF Opens
  <2>2. Explained(Append(d.hunks, d.hunk), flushed \o d.hunk.lines)
    BY <1>2, <1>3, <2>1, ExplainedHunk
  <2> QED
    BY <1>4, <2>1, <2>2
<1> QED
  BY <1>2, <1>5, <1>6

LEMMA HunksExplain ==
  ASSUME NEW old \in Seq(DiffLines), NEW new \in Seq(DiffLines)
  PROVE  Explained(UnifiedDiff(old, new), EditScript(old, new))
<1> DEFINE script == EditScript(old, new)
           Done[k \in 0 .. Len(script)] == IF k = 0 THEN DiffStart ELSE DiffStep(Done[k - 1], script[k])
           Is(g) == g = [k \in 0 .. Len(script) |-> IF k = 0 THEN DiffStart ELSE DiffStep(g[k - 1], script[k])]
<1>1. UnifiedDiff(old, new) = FlushHunk(Done[Len(script)]).hunks
  BY DEF UnifiedDiff
<1>2. script \in Seq(Entry)
  BY ScriptIs
<1> HIDE DEF script
<1>3. PICK f : DoneBy(f, script) /\ DiffInv(f[Len(script)], script)
  BY <1>2, DoneExists
<1>4. Is(f)
  BY <1>3 DEF DoneBy
<1>5. Is(Done)
  BY <1>4
<1> HIDE DEF Done
<1>6. DoneBy(Done, script)
  BY <1>5, Zenon DEF DoneBy
<1>7. Done[Len(script)] = f[Len(script)]
  BY <1>2, <1>3, <1>6, SameDone
<1>8. Explained(FlushHunk(f[Len(script)]).hunks, script)
  BY <1>2, <1>3, FlushExplains
<1> QED
  BY <1>1, <1>7, <1>8 DEF script

\* What a placed hunk fits.
LEMMA FitsPlaced ==
  ASSUME NEW before \in Seq(DiffLines), NEW lines \in Seq(DiffLines), NEW after \in Seq(DiffLines),
         NEW entries \in Seq(Entry), LinesOf(entries) = lines, Len(entries) = Len(lines)
  PROVE  FitsAt((before \o lines) \o after, Len(before) + 1, entries)
<1> DEFINE t == (before \o lines) \o after
<1>1. /\ Len(t) = Len(before) + Len(lines) + Len(after)
      /\ SubSeq(t, Len(before) + 1, Len(before) + Len(lines)) = lines
  <2>1. ASSUME NEW b \in Seq(DiffLines), NEW l \in Seq(DiffLines), NEW a \in Seq(DiffLines)
        PROVE  /\ Len((b \o l) \o a) = Len(b) + Len(l) + Len(a)
               /\ SubSeq((b \o l) \o a, Len(b) + 1, Len(b) + Len(l)) = l
    BY ThreeParts
  <2> QED
    BY <2>1
<1> HIDE DEF t
<1>2. Len(before) \in Nat /\ Len(lines) \in Nat /\ Len(after) \in Nat
  OBVIOUS
<1>3. Len(before) + 1 + Len(entries) - 1 = Len(before) + Len(lines)
  BY <1>2
<1>4. Len(before) + Len(lines) <= Len(t)
  BY <1>1, <1>2
<1> QED
  BY <1>1, <1>3, <1>4 DEF FitsAt, t

LEMMA PlacedFits ==
  ASSUME NEW hunk \in Hunk, NEW script \in Seq(Entry), Placed(hunk, script)
  PROVE  /\ FitsAt(Side("+", script), hunk.oldStart, OldSide(hunk.lines))
         /\ FitsAt(Side("-", script), hunk.newStart, NewSide(hunk.lines))
<1>1. PICK before \in Seq(Entry), after \in Seq(Entry) :
        /\ script = (before \o hunk.lines) \o after
        /\ hunk.oldStart = Len(Side("+", before)) + 1 /\ hunk.newStart = Len(Side("-", before)) + 1
  BY DEF Placed
<1> DEFINE l == hunk.lines
           p == before \o l
<1>2. l \in Seq(Entry) /\ p \in Seq(Entry)
  BY ConcatProperties DEF Hunk
<1>3. Side("+", p) = Side("+", before) \o Side("+", l) /\ Side("-", p) = Side("-", before) \o Side("-", l)
  BY <1>2, SideConcat
<1>4. Len(OldSide(l)) = Len(Side("+", l)) /\ LinesOf(OldSide(l)) = Side("+", l) /\ OldSide(l) \in Seq(Entry)
  BY <1>2, SidesAre
<1>5. Len(NewSide(l)) = Len(Side("-", l)) /\ LinesOf(NewSide(l)) = Side("-", l) /\ NewSide(l) \in Seq(Entry)
  BY <1>2, SidesAre
<1>6. Side("+", l) \in Seq(DiffLines) /\ Side("-", l) \in Seq(DiffLines)
      /\ Side("+", before) \in Seq(DiffLines) /\ Side("-", before) \in Seq(DiffLines)
      /\ Side("+", after) \in Seq(DiffLines) /\ Side("-", after) \in Seq(DiffLines)
  BY <1>2, SideLast
<1>7. script = p \o after
  BY <1>1
<1> HIDE DEF p, l
<1>8. Side("+", p \o after) = Side("+", p) \o Side("+", after)
      /\ Side("-", p \o after) = Side("-", p) \o Side("-", after)
  BY <1>2, SideConcat
<1>9. FitsAt((Side("+", before) \o Side("+", l)) \o Side("+", after), Len(Side("+", before)) + 1, OldSide(l))
  BY <1>4, <1>6, FitsPlaced
<1>10. FitsAt((Side("-", before) \o Side("-", l)) \o Side("-", after), Len(Side("-", before)) + 1, NewSide(l))
  BY <1>5, <1>6, FitsPlaced
<1> QED
  BY <1>1, <1>3, <1>7, <1>8, <1>9, <1>10, Zenon DEF l

\* The diff of any two texts explains them, whatever DiffContext, DiffLookAhead
\* and the lines are.
LEMMA DiffsExplain ==
  ASSUME NEW old \in Seq(DiffLines), NEW new \in Seq(DiffLines)
  PROVE  DiffExplains(old, new)
<1> DEFINE hunks == UnifiedDiff(old, new)
           script == EditScript(old, new)
<1>1. script \in Seq(Entry) /\ Side("+", script) = old /\ Side("-", script) = new
  BY ScriptIs
<1>2. Explained(hunks, script)
  BY HunksExplain
<1> HIDE DEF hunks, script
<1>3. hunks \in Seq(Hunk) /\ InOrder(hunks) /\ DOMAIN hunks = 1 .. Len(hunks)
  BY <1>2 DEF Explained
<1>4. ASSUME NEW k \in DOMAIN hunks
      PROVE  /\ FitsAt(old, hunks[k].oldStart, OldSide(hunks[k].lines))
             /\ FitsAt(new, hunks[k].newStart, NewSide(hunks[k].lines))
  <2>1. hunks[k] \in Hunk /\ Placed(hunks[k], script)
    BY <1>2, <1>3, ElementOfSeq DEF Explained
  <2> QED
    BY <1>1, <2>1, PlacedFits
<1>5. Patched(old, hunks) = new
  <2>1. PatchesFront(old, new, hunks)
    BY <1>1, <1>2 DEF Explained
  <2>2. old \o <<>> = old /\ new \o <<>> = new /\ <<>> \in Seq(DiffLines)
    BY ConcatEmptySeq, EmptySeq
  <2>3. Patched(old \o <<>>, hunks) = new \o <<>>
    BY <2>1, <2>2, Zenon DEF PatchesFront
  <2> QED
    BY <2>2, <2>3
<1> QED
  BY <1>3, <1>4, <1>5 DEF DiffExplains, hunks

\* The two texts compared are texts.
AreTexts == compared = NothingCompared
            \/ \E old, new \in Seq(DiffLines) : compared = [old |-> old, new |-> new]

LEMMA DiffTextsAre == DiffTexts \subseteq Seq(DiffLines)
<1> SUFFICES ASSUME NEW d \in DiffTexts PROVE d \in Seq(DiffLines)
  OBVIOUS
<1>1. PICK n \in 1 .. MaxDiffLength : d \in [1 .. n -> DiffLines]
  BY DEF DiffTexts
<1>2. n \in Nat
  BY <1>1
<1> QED
  BY <1>1, <1>2, SeqDef

LEMMA DiffsInitTexts == DiffsInit => AreTexts
BY DEF DiffsInit, AreTexts

LEMMA DiffsStepTexts == AreTexts /\ [TextsCompared]_compared => AreTexts'
<1> SUFFICES ASSUME AreTexts, [TextsCompared]_compared PROVE AreTexts'
  OBVIOUS
<1>1. CASE TextsCompared
  <2>1. PICK old \in DiffTexts, new \in DiffTexts : compared' = [old |-> old, new |-> new]
    BY <1>1 DEF TextsCompared
  <2> QED
    BY <2>1, DiffTextsAre DEF AreTexts
<1>2. CASE UNCHANGED compared
  BY <1>2 DEF AreTexts
<1> QED
  BY <1>1, <1>2

(***************************************************************************)
(* What a read of a known file is answered with replays (delta-read.ts),   *)
(* for any number of reads, writes, versions and lines, and any texts: the *)
(* short replies are about the text the session was shown last, where the  *)
(* state is not blurred, and the hunks of a diff follow one another, fit   *)
(* both texts where they say they begin, and make the new one of the old.  *)
(***************************************************************************)
THEOREM ReadsReplayed == ToolsSpec /\ DiffsSpec => []ReadsReplay
<1>1. ToolsSpec => []RepliesSuffice
  <2>1. ToolsTypeOK /\ RepliesSuffice /\ UnchangedIsTrue => RepliesSuffice
    OBVIOUS
  <2> QED
    BY <2>1, ShortRepliesSuffice, PTL
<1>2. DiffsSpec => []AreTexts
  BY DiffsInitTexts, DiffsStepTexts, PTL DEF DiffsSpec
<1>3. AreTexts => (compared # NothingCompared => DiffExplains(compared.old, compared.new))
  <2> SUFFICES ASSUME AreTexts, compared # NothingCompared
               PROVE  DiffExplains(compared.old, compared.new)
    OBVIOUS
  <2>1. PICK old \in Seq(DiffLines), new \in Seq(DiffLines) : compared = [old |-> old, new |-> new]
    BY DEF AreTexts
  <2>2. compared.old = old /\ compared.new = new
    BY <2>1
  <2> QED
    BY <2>2, DiffsExplain
<1>4. RepliesSuffice /\ AreTexts => ReadsReplay
  BY <1>3 DEF ReadsReplay
<1> QED
  BY <1>1, <1>2, <1>4, PTL
=============================================================================
