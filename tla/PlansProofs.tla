---------------------------- MODULE PlansProofs ----------------------------
(***************************************************************************)
(* PlanStartsOnce holds for every number of sessions, loops, plans and     *)
(* handovers.  It is not inductive: a count of starts says nothing of the  *)
(* places from which the plan could still be sent.  The invariant PlanInv  *)
(* says where a plan can be: one that nobody has taken is in the store     *)
(* under one key at most and nowhere else; one that was taken at once is   *)
(* under no session's key any more and exists once, as a pending           *)
(* execution, as a handover under way, or as a start.                      *)
(***************************************************************************)
EXTENDS Plans, LoopControl, TLAPS

Slots == 1 .. MaxWork
Handover == [via : Via, key : Keys \cup {0}, plan : 0 .. MaxPlans, loop : 0 .. MaxLoops,
             pc : {"free", "aborting", "creating", "prompting"}]

\* Neither pending nor handed over.
Nowhere(p) ==
  /\ \A s \in Sessions : pending[s] # p
  /\ \A d \in Slots : work[d].plan # p

Untaken(p) ==
  /\ starts[p] = 0 /\ Nowhere(p)
  /\ \A j, k \in Keys : stored[j] = p /\ stored[k] = p => j = k

TakenOnce(p) ==
  /\ \A s \in Sessions : stored[s] # p
  /\ starts[p] = 0 \/ (starts[p] = 1 /\ Nowhere(p))
  /\ \A s, t \in Sessions : pending[s] = p /\ pending[t] = p => s = t
  /\ \A d, e \in Slots : work[d].plan = p /\ work[e].plan = p => d = e
  /\ \A s \in Sessions, d \in Slots : pending[s] = p => work[d].plan # p

PlanOK(p) ==
  /\ taken[p] = "never" => Untaken(p)
  /\ taken[p] = "at_once" => TakenOnce(p)

\* A handover that will end in a loop knows its name.
Named(w) == w.via \in ToLoop /\ w.pc # "free" => w.loop \in LoopNames

PlanInv ==
  /\ PlansTypeOK
  /\ \A d \in Slots : Named(work[d])
  /\ \A p \in PlanIds : PlanOK(p)

-----------------------------------------------------------------------------
LEMMA KeysApart == /\ 0 \notin Keys
                   /\ \A s \in Sessions : s \in Keys /\ s \notin LoopNames
                   /\ \A l \in LoopNames : l \in Keys /\ l \notin Sessions /\ l \in 0 .. MaxLoops
<1>1. MaxLoops \in Nat
  BY PlanAssumption
<1>2. LoopNames \subseteq 0 .. MaxLoops /\ 0 \notin LoopNames /\ 0 \in 0 .. MaxLoops
  BY <1>1 DEF LoopNames
<1> QED
  BY <1>2, PlanAssumption DEF Keys

LEMMA HandoversTyped ==
  /\ NoWork \in Handover /\ Named(NoWork) /\ NoWork.plan = 0 /\ 0 \notin PlanIds
  /\ \A p \in 0 .. MaxPlans : /\ Prompting(p) \in Handover /\ Named(Prompting(p))
                              /\ Prompting(p).plan = p
<1>1. 0 \in 0 .. MaxPlans /\ 0 \in 0 .. MaxLoops /\ 0 \notin PlanIds
  BY PlanAssumption DEF PlanIds
<1>2. NoWork \in Handover /\ Named(NoWork) /\ NoWork.plan = 0
  BY <1>1 DEF NoWork, NoPlan, Handover, Via, AfterRead, Named
<1>3. ASSUME NEW p \in 0 .. MaxPlans
      PROVE  /\ Prompting(p) \in Handover /\ Named(Prompting(p))
             /\ Prompting(p).plan = p
  BY <1>1, <1>3 DEF Prompting, NoWork, NoPlan, Handover, Via, AfterRead, Named, ToLoop
<1> QED
  BY <1>1, <1>2, <1>3

LEMMA PlanIdsTyped == \A p \in PlanIds : p \in 0 .. MaxPlans /\ p # 0 /\ p # NoPlan
  BY PlanAssumption DEF PlanIds, NoPlan

\* A new handover fills one slot; the others stay.
LEMMA BeginTyped ==
  ASSUME PlanInv, NEW d \in Slots, NEW w \in Handover, Named(w), Begin(d, w)
  PROVE  /\ work' \in [Slots -> Handover] /\ \A e \in Slots : Named(work'[e])
         /\ work'[d] = w /\ \A e \in Slots : e # d => work'[e] = work[e]
  BY DEF PlanInv, PlansTypeOK, Begin, Slots, Handover

LEMMA TookTyped ==
  ASSUME PlanInv, NEW p \in 0 .. MaxPlans, NEW via, Took(p, via)
  PROVE  /\ taken' \in [PlanIds -> {"never", "at_once", "lingering"}]
         /\ \A q \in PlanIds : q # p => taken'[q] = taken[q]
         /\ p \in PlanIds => /\ taken'[p] # "never"
                             /\ taken'[p] = "at_once" => /\ via \in AfterRead
                                                         /\ taken[p] # "lingering"
  BY DEF PlanInv, PlansTypeOK, Took

LEMMA PlanInitInv == PlansInit => PlanInv
<1> SUFFICES ASSUME PlansInit PROVE PlanInv
  OBVIOUS
<1>1. 0 \in 0 .. MaxPlans /\ 0 \in 0 .. MaxLoops /\ 0 \in 0 .. MaxStarts
  BY PlanAssumption
<1>2. PlansTypeOK
  BY <1>1, HandoversTyped DEF PlansInit, PlansTypeOK, NoPlan, NoView, Handover
<1>3. \A p \in PlanIds : PlanOK(p)
  BY HandoversTyped, PlanIdsTyped DEF PlansInit, PlanOK, Untaken, Nowhere, Slots, Keys
<1> QED
  BY <1>2, <1>3, HandoversTyped DEF PlansInit, PlanInv, Slots

-----------------------------------------------------------------------------
(* Writing a plan                                                          *)

\* A fresh plan is stored under one key, what it replaces under one key less.
LEMMA StoredFresh ==
  ASSUME PlanInv, NEW k, NEW q \in PlanIds, FreshPlan(q),
         stored' = [stored EXCEPT ![k] = q],
         UNCHANGED <<loops, pending, work, starts, taken>>
  PROVE  /\ stored' \in [Keys -> 0 .. MaxPlans]
         /\ \A p \in PlanIds : PlanOK(p)'
<1>1. stored' \in [Keys -> 0 .. MaxPlans] /\ stored \in [Keys -> 0 .. MaxPlans]
  BY PlanIdsTyped DEF PlanInv, PlansTypeOK
<1>2. taken[q] = "never" /\ \A j \in Keys : stored[j] # q
  BY DEF FreshPlan, Unused
<1>3. ASSUME NEW p \in PlanIds PROVE PlanOK(p)'
  <2>1. \A j \in Keys : stored'[j] = stored[j] \/ (j = k /\ stored'[j] = q)
    BY <1>1
  <2>2. CASE taken[p] = "never"
    BY <1>1, <1>2, <2>1, <2>2 DEF PlanInv, PlanOK, Untaken, Nowhere
  <2>3. CASE taken[p] # "never"
    BY <1>1, <1>2, <2>1, <2>3, KeysApart DEF PlanInv, PlanOK, TakenOnce, Nowhere
  <2> QED
    BY <2>2, <2>3
<1> QED
  BY <1>1, <1>3

\* A plan that is deleted is stored under one key less.
LEMMA StoredLess ==
  ASSUME PlanInv, NEW k, stored' = [stored EXCEPT ![k] = NoPlan],
         UNCHANGED <<loops, pending, work, starts, taken>>
  PROVE  /\ stored' \in [Keys -> 0 .. MaxPlans]
         /\ \A p \in PlanIds : PlanOK(p)'
<1>0. NoPlan \in 0 .. MaxPlans
  BY PlanAssumption DEF NoPlan
<1>1. stored' \in [Keys -> 0 .. MaxPlans] /\ stored \in [Keys -> 0 .. MaxPlans]
  BY <1>0 DEF PlanInv, PlansTypeOK
<1>2. \A j \in Keys : stored'[j] = stored[j] \/ stored'[j] = NoPlan
  BY <1>1
<1>3. ASSUME NEW p \in PlanIds PROVE PlanOK(p)'
  BY <1>1, <1>2, PlanIdsTyped, KeysApart DEF PlanInv, PlanOK, Untaken, TakenOnce, Nowhere
<1> QED
  BY <1>1, <1>3

LEMMA WriteKeepsInv ==
  ASSUME PlanInv, NEW k \in Keys, PlanWrite(k) \/ PlanEdit(k) \/ PlanExpires(k) \/ ViewPlan(k)
  PROVE  PlanInv'
<1>1. CASE PlanWrite(k) \/ PlanEdit(k)
  <2>1. PICK q \in PlanIds : FreshPlan(q) /\ stored' = [stored EXCEPT ![k] = q]
    BY <1>1 DEF PlanWrite, PlanEdit
  <2>2. UNCHANGED <<loops, pending, view, work, starts, taken>>
    BY <1>1 DEF PlanWrite, PlanEdit
  <2>3. stored' \in [Keys -> 0 .. MaxPlans] /\ \A p \in PlanIds : PlanOK(p)'
    BY <2>1, <2>2, StoredFresh
  <2> QED
    BY <2>2, <2>3 DEF PlanInv, PlansTypeOK, Named
<1>2. CASE PlanExpires(k)
  <2>1. stored' \in [Keys -> 0 .. MaxPlans] /\ \A p \in PlanIds : PlanOK(p)'
    BY <1>2, StoredLess DEF PlanExpires
  <2> QED
    BY <1>2, <2>1 DEF PlanExpires, PlanInv, PlansTypeOK, Named
<1>3. CASE ViewPlan(k)
  <2>1. view' \in [key : Keys \cup {0}, plan : 0 .. MaxPlans]
    BY <1>3 DEF ViewPlan, PlanInv, PlansTypeOK
  <2> QED
    BY <1>3, <2>1 DEF ViewPlan, PlanInv, PlansTypeOK, Named, PlanOK, Untaken, TakenOnce, Nowhere
<1> QED
  BY <1>1, <1>2, <1>3

LEMMA SaveKeepsInv == ASSUME PlanInv, SaveView PROVE PlanInv'
<1>1. PICK q \in PlanIds : /\ FreshPlan(q) /\ stored' = [stored EXCEPT ![view.key] = q]
                           /\ view' = [view EXCEPT !.plan = q]
  BY DEF SaveView
<1>2. UNCHANGED <<loops, pending, work, starts, taken>>
  BY DEF SaveView
<1>3. stored' \in [Keys -> 0 .. MaxPlans] /\ \A p \in PlanIds : PlanOK(p)'
  BY <1>1, <1>2, StoredFresh
<1>4. view' \in [key : Keys \cup {0}, plan : 0 .. MaxPlans]
  BY <1>1, PlanIdsTyped DEF PlanInv, PlansTypeOK
<1> QED
  BY <1>2, <1>3, <1>4 DEF PlanInv, PlansTypeOK, Named

-----------------------------------------------------------------------------
(* The handovers                                                           *)

\* A plan that is on screen or in the store leaves it lingering there.
LEMMA LingersKeepsInv ==
  ASSUME PlanInv, NEW p \in 0 .. MaxPlans, NEW via \in Via \ AfterRead, Took(p, via),
         NEW d \in Slots, NEW w \in Handover, Named(w), w.plan = p, Begin(d, w),
         view' = view \/ view' = NoView,
         UNCHANGED <<stored, loops, pending, starts>>
  PROVE  PlanInv'
<1>1. /\ work' \in [Slots -> Handover] /\ \A e \in Slots : Named(work'[e])
      /\ work'[d] = w /\ \A e \in Slots : e # d => work'[e] = work[e]
  BY BeginTyped
<1>2. /\ taken' \in [PlanIds -> {"never", "at_once", "lingering"}]
      /\ \A q \in PlanIds : q # p => taken'[q] = taken[q]
      /\ p \in PlanIds => taken'[p] = "lingering"
  BY TookTyped
<1>3. NoView \in [key : Keys \cup {0}, plan : 0 .. MaxPlans]
  BY PlanAssumption DEF NoView, NoPlan
<1>4. PlansTypeOK'
  BY <1>1, <1>2, <1>3 DEF PlanInv, PlansTypeOK, Handover, Slots
<1>5. ASSUME NEW q \in PlanIds PROVE PlanOK(q)'
  <2>1. CASE q = p
    BY <1>2, <2>1 DEF PlanOK
  <2>2. CASE q # p
    BY <1>1, <1>2, <2>2 DEF PlanInv, PlanOK, Untaken, TakenOnce, Nowhere
  <2> QED
    BY <2>1, <2>2
<1> QED
  BY <1>1, <1>4, <1>5 DEF PlanInv

\* A plan that leaves the store of a session for good is nowhere else, unless
\* someone left it lingering before.
LEMMA TakenAtOnce ==
  ASSUME PlanInv, NEW s \in Sessions, stored[s] # NoPlan, NEW via \in AfterRead,
         Took(stored[s], via), taken'[stored[s]] = "at_once"
  PROVE  /\ stored[s] \in PlanIds
         /\ starts[stored[s]] = 0 /\ Nowhere(stored[s])
         /\ \A j \in Keys : stored[j] = stored[s] => j = s
<1>1. stored[s] \in PlanIds
  BY KeysApart, PlanAssumption DEF PlanInv, PlansTypeOK, PlanIds, NoPlan
<1>2. taken[stored[s]] # "lingering"
  BY <1>1, TookTyped, PlanIdsTyped
<1>3. taken[stored[s]] # "at_once"
  BY <1>1 DEF PlanInv, PlanOK, TakenOnce
<1>4. taken[stored[s]] = "never"
  BY <1>1, <1>2, <1>3 DEF PlanInv, PlansTypeOK
<1>5. Untaken(stored[s])
  BY <1>1, <1>4 DEF PlanInv, PlanOK
<1> QED
  BY <1>1, <1>5, KeysApart DEF Untaken

LEMMA ApproveHereKeepsInv ==
  ASSUME PlanInv, NEW s \in Sessions, ApproveHere(s)
  PROVE  PlanInv'
<1> DEFINE p == stored[s]
<1>1. p \in 0 .. MaxPlans /\ p # NoPlan /\ p \in PlanIds
  BY KeysApart, PlanAssumption DEF ApproveHere, PlanInv, PlansTypeOK, PlanIds, NoPlan
<1>2. Took(p, "here") /\ "here" \in AfterRead
  BY DEF ApproveHere, AfterRead
<1>3. /\ pending' = [pending EXCEPT ![s] = p] /\ stored' = [stored EXCEPT ![s] = NoPlan]
      /\ UNCHANGED <<loops, view, work, starts>>
  BY DEF ApproveHere
<1>4. taken'[p] = "at_once" => /\ starts[p] = 0 /\ Nowhere(p)
                               /\ \A j \in Keys : stored[j] = p => j = s
  BY <1>1, <1>2, TakenAtOnce
<1>5. /\ taken' \in [PlanIds -> {"never", "at_once", "lingering"}]
      /\ \A q \in PlanIds : q # p => taken'[q] = taken[q]
      /\ taken'[p] # "never"
  BY <1>1, <1>2, TookTyped
<1> HIDE DEF p
<1>6. stored \in [Keys -> 0 .. MaxPlans] /\ NoPlan \in 0 .. MaxPlans
  BY <1>1, PlanAssumption DEF PlanInv, PlansTypeOK, NoPlan
<1>7. /\ stored' \in [Keys -> 0 .. MaxPlans] /\ pending' \in [Sessions -> 0 .. MaxPlans]
      /\ stored'[s] = NoPlan /\ \A j \in Keys : j # s => stored'[j] = stored[j]
      /\ pending'[s] = p /\ \A t \in Sessions : t # s => pending'[t] = pending[t]
  BY <1>1, <1>3, <1>6, KeysApart DEF PlanInv, PlansTypeOK
<1>8. PlansTypeOK'
  BY <1>3, <1>5, <1>7 DEF PlanInv, PlansTypeOK
<1>9. ASSUME NEW q \in PlanIds PROVE PlanOK(q)'
  <2>0. q # NoPlan
    BY PlanIdsTyped
  <2>1. CASE q = p
    BY <1>3, <1>4, <1>5, <1>7, <2>0, <2>1, KeysApart DEF PlanOK, TakenOnce, Nowhere
  <2>2. CASE q # p
    BY <1>3, <1>5, <1>7, <2>0, <2>2, KeysApart
    DEF PlanInv, PlanOK, Untaken, TakenOnce, Nowhere
  <2> QED
    BY <2>1, <2>2
<1> QED
  BY <1>3, <1>8, <1>9 DEF PlanInv, Named

\* The plan of session s leaves its key for a handover in slot d; approving a
\* loop also stores it under the name of the loop.
LEMMA HandedOverKeepsInv ==
  ASSUME PlanInv, NEW s \in Sessions, stored[s] # NoPlan,
         NEW via \in AfterRead, Took(stored[s], via),
         NEW d \in Slots, NEW w \in Handover, Named(w), w.plan = stored[s], Begin(d, w),
         \/ stored' = [stored EXCEPT ![s] = NoPlan]
         \/ \E l \in LoopNames : stored' = [stored EXCEPT ![l] = stored[s], ![s] = NoPlan],
         UNCHANGED <<loops, pending, view, starts>>
  PROVE  PlanInv'
<1> DEFINE p == stored[s]
<1>1. p \in 0 .. MaxPlans /\ p \in PlanIds
  BY KeysApart, PlanAssumption DEF PlanInv, PlansTypeOK, PlanIds, NoPlan
<1>2. /\ work' \in [Slots -> Handover] /\ \A e \in Slots : Named(work'[e])
      /\ work'[d] = w /\ \A e \in Slots : e # d => work'[e] = work[e]
  BY BeginTyped
<1>3. taken'[p] = "at_once" => /\ starts[p] = 0 /\ Nowhere(p)
                               /\ \A j \in Keys : stored[j] = p => j = s
  BY TakenAtOnce
<1>4. /\ taken' \in [PlanIds -> {"never", "at_once", "lingering"}]
      /\ \A q \in PlanIds : q # p => taken'[q] = taken[q]
      /\ taken'[p] # "never"
  BY <1>1, TookTyped
<1>5. stored \in [Keys -> 0 .. MaxPlans] /\ NoPlan \in 0 .. MaxPlans
  BY <1>1, PlanAssumption DEF PlanInv, PlansTypeOK, NoPlan
<1>6. /\ stored' \in [Keys -> 0 .. MaxPlans] /\ stored'[s] = NoPlan
      /\ \A j \in Keys : stored'[j] = stored[j] \/ stored'[j] = NoPlan
                           \/ (j \in LoopNames /\ stored'[j] = p)
  BY <1>1, <1>5, KeysApart
<1> HIDE DEF p
<1>7. PlansTypeOK'
  BY <1>2, <1>4, <1>6 DEF PlanInv, PlansTypeOK, Slots, Handover
<1>8. ASSUME NEW q \in PlanIds PROVE PlanOK(q)'
  <2>0. q # NoPlan
    BY PlanIdsTyped
  <2>1. CASE q = p
    <3> SUFFICES ASSUME taken'[q] = "at_once" PROVE TakenOnce(q)'
      BY <1>4, <2>1 DEF PlanOK
    <3>1. \A t \in Sessions : stored'[t] # q
      BY <1>3, <1>6, <2>0, <2>1, KeysApart
    <3>2. \A t \in Sessions : pending'[t] # q
      BY <1>3, <2>1 DEF Nowhere
    <3>3. \A e \in Slots : e # d => work'[e].plan # q
      BY <1>2, <1>3, <2>1 DEF Nowhere
    <3> QED
      BY <1>3, <2>1, <3>1, <3>2, <3>3 DEF TakenOnce
  <2>2. CASE q # p
    <3>1. \A e \in Slots : work'[e].plan = q => work[e].plan = q
      BY <1>2, <2>2 DEF p
    <3>2. \A j \in Keys : stored'[j] = q => stored[j] = q
      BY <1>6, <2>0, <2>2
    <3> QED
      BY <1>4, <2>2, <3>1, <3>2, KeysApart DEF PlanInv, PlanOK, Untaken, TakenOnce, Nowhere
  <2> QED
    BY <2>1, <2>2
<1> QED
  BY <1>2, <1>7, <1>8 DEF PlanInv

LEMMA IdleKeepsInv ==
  ASSUME PlanInv, NEW s \in Sessions, IdleTakesPending(s)
  PROVE  PlanInv'
<1>1. PICK p \in 0 .. MaxPlans : p = pending[s]
  BY DEF PlanInv, PlansTypeOK
<1>2. PICK d \in Slots : Begin(d, Prompting(p))
  BY <1>1 DEF IdleTakesPending, Slots
<1>3. p # NoPlan /\ pending' = [pending EXCEPT ![s] = NoPlan]
      /\ UNCHANGED <<stored, loops, view, starts, taken>>
  BY <1>1 DEF IdleTakesPending
<1>4. /\ work' \in [Slots -> Handover] /\ \A e \in Slots : Named(work'[e])
      /\ work'[d].plan = p /\ \A e \in Slots : e # d => work'[e] = work[e]
  BY <1>2, BeginTyped, HandoversTyped
<1>5. /\ pending' \in [Sessions -> 0 .. MaxPlans] /\ pending'[s] = NoPlan
      /\ \A t \in Sessions : t # s => pending'[t] = pending[t]
  <2>1. NoPlan \in 0 .. MaxPlans
    BY PlanAssumption DEF NoPlan
  <2> QED
    BY <1>3, <2>1 DEF PlanInv, PlansTypeOK
<1>6. PlansTypeOK'
  BY <1>3, <1>4, <1>5 DEF PlanInv, PlansTypeOK, Slots, Handover
<1>7. ASSUME NEW q \in PlanIds PROVE PlanOK(q)'
  <2>0. q # NoPlan
    BY PlanIdsTyped
  <2>1. CASE q = p
    BY <1>1, <1>3, <1>4, <1>5, <2>0, <2>1 DEF PlanInv, PlanOK, Untaken, TakenOnce, Nowhere
  <2>2. CASE q # p
    BY <1>3, <1>4, <1>5, <2>0, <2>2 DEF PlanInv, PlanOK, Untaken, TakenOnce, Nowhere
  <2> QED
    BY <2>1, <2>2
<1> QED
  BY <1>4, <1>6, <1>7 DEF PlanInv

LEMMA AnswersKeepInv ==
  ASSUME PlanInv, NEW s \in Sessions,
         \/ ApproveNewSession(s) \/ ApproveLoop(s)
         \/ PlanExecuteInPlace(s) \/ PlanExecute(s) \/ LoopTool(s)
  PROVE  PlanInv'
<1>1. stored[s] \in 0 .. MaxPlans /\ s \in Keys
  BY KeysApart DEF PlanInv, PlansTypeOK
<1>2. 0 \in 0 .. MaxLoops
  BY PlanAssumption
<1>3. CASE ApproveNewSession(s)
  <2> DEFINE w == [NoWork EXCEPT !.via = "new", !.key = s, !.plan = stored[s],
                                 !.pc = "aborting"]
  <2>1. w \in Handover /\ Named(w) /\ w.plan = stored[s]
    BY <1>1, <1>2 DEF NoWork, NoPlan, Handover, Via, AfterCreate, Named, ToLoop
  <2>2. "new" \in Via \ AfterRead
    BY DEF Via, AfterCreate, AfterRead
  <2>3. PICK d \in Slots : Begin(d, w)
    BY <1>3 DEF ApproveNewSession, Slots
  <2>4. Took(stored[s], "new") /\ UNCHANGED <<stored, loops, pending, view, starts>>
    BY <1>3 DEF ApproveNewSession
  <2> HIDE DEF w
  <2> QED
    BY <1>1, <2>1, <2>2, <2>3, <2>4, LingersKeepsInv
<1>4. CASE LoopTool(s)
  <2>1. PICK l \in LoopNames, d \in Slots :
          Begin(d, [via |-> "loop_tool", key |-> s, plan |-> stored[s],
                    loop |-> l, pc |-> "creating"])
    BY <1>4 DEF LoopTool, Slots
  <2> DEFINE w == [via |-> "loop_tool", key |-> s, plan |-> stored[s],
                   loop |-> l, pc |-> "creating"]
  <2>2. w \in Handover /\ Named(w) /\ w.plan = stored[s]
    BY <1>1, KeysApart DEF Handover, Via, AfterCreate, Named
  <2>3. "loop_tool" \in Via \ AfterRead
    BY DEF Via, AfterCreate, AfterRead
  <2>4. Took(stored[s], "loop_tool") /\ UNCHANGED <<stored, loops, pending, view, starts>>
    BY <1>4 DEF LoopTool
  <2> HIDE DEF w
  <2>5. Begin(d, w)
    BY <2>1 DEF w
  <2> QED
    BY <1>1, <2>2, <2>3, <2>4, <2>5, LingersKeepsInv
<1>5. CASE ApproveLoop(s)
  <2>1. PICK l \in LoopNames, d \in Slots :
          /\ stored' = [stored EXCEPT ![l] = stored[s], ![s] = NoPlan]
          /\ Begin(d, [via |-> "approved_loop", key |-> s, plan |-> stored[s],
                       loop |-> l, pc |-> "aborting"])
    BY <1>5 DEF ApproveLoop, Slots
  <2> DEFINE w == [via |-> "approved_loop", key |-> s, plan |-> stored[s],
                   loop |-> l, pc |-> "aborting"]
  <2>2. w \in Handover /\ Named(w) /\ w.plan = stored[s]
    BY <1>1, KeysApart DEF Handover, Via, AfterRead, Named
  <2>3. /\ stored[s] # NoPlan /\ Took(stored[s], "approved_loop")
        /\ "approved_loop" \in AfterRead
        /\ UNCHANGED <<loops, pending, view, starts>>
    BY <1>5 DEF ApproveLoop, AfterRead
  <2> HIDE DEF w
  <2>4. Begin(d, w)
    BY <2>1 DEF w
  <2> QED
    BY <2>1, <2>2, <2>3, <2>4, HandedOverKeepsInv
<1>6. CASE PlanExecuteInPlace(s)
  <2>1. PICK d \in Slots : Begin(d, Prompting(stored[s]))
    BY <1>6 DEF PlanExecuteInPlace, Slots
  <2>2. /\ stored[s] # NoPlan /\ Took(stored[s], "execute_in_place")
        /\ "execute_in_place" \in AfterRead
        /\ stored' = [stored EXCEPT ![s] = NoPlan]
        /\ UNCHANGED <<loops, pending, view, starts>>
    BY <1>6 DEF PlanExecuteInPlace, AfterRead
  <2>3. /\ Prompting(stored[s]) \in Handover /\ Named(Prompting(stored[s]))
        /\ Prompting(stored[s]).plan = stored[s]
    BY <1>1, HandoversTyped
  <2> QED
    BY <2>1, <2>2, <2>3, HandedOverKeepsInv
<1>7. CASE PlanExecute(s)
  <2> DEFINE w == [NoWork EXCEPT !.via = "execute", !.key = s, !.plan = stored[s],
                                 !.pc = "creating"]
  <2>1. w \in Handover /\ Named(w) /\ w.plan = stored[s]
    BY <1>1, <1>2 DEF NoWork, NoPlan, Handover, Via, AfterRead, Named, ToLoop
  <2>2. PICK d \in Slots : Begin(d, w)
    BY <1>7 DEF PlanExecute, Slots
  <2>3. /\ stored[s] # NoPlan /\ Took(stored[s], "execute") /\ "execute" \in AfterRead
        /\ stored' = [stored EXCEPT ![s] = NoPlan]
        /\ UNCHANGED <<loops, pending, view, starts>>
    BY <1>7 DEF PlanExecute, AfterRead
  <2> HIDE DEF w
  <2> QED
    BY <2>1, <2>2, <2>3, HandedOverKeepsInv
<1> QED
  BY <1>3, <1>4, <1>5, <1>6, <1>7

LEMMA DialogKeepsInv ==
  ASSUME PlanInv, TuiNewSession \/ TuiExecuteHere \/ TuiLoop
  PROVE  PlanInv'
<1>1. view.plan \in 0 .. MaxPlans /\ view.key \in Keys \cup {0}
  BY DEF PlanInv, PlansTypeOK
<1>2. ASSUME NEW via \in Via \ AfterRead, NEW w \in Handover, Named(w),
             w.plan = view.plan, TuiTakes(via, w)
      PROVE  PlanInv'
  <2>1. PICK d \in Slots : Begin(d, w)
    BY <1>2 DEF TuiTakes, Slots
  <2>2. /\ Took(view.plan, via) /\ view' = NoView
        /\ UNCHANGED <<stored, loops, pending, starts>>
    BY <1>2 DEF TuiTakes
  <2> QED
    BY <1>1, <1>2, <2>1, <2>2, LingersKeepsInv
<1>3. CASE TuiExecuteHere
  <2>1. "tui_here" \in Via \ AfterRead
    BY DEF Via, AfterRead, Never
  <2> QED
    BY <1>1, <1>2, <1>3, <2>1, HandoversTyped DEF TuiExecuteHere
<1>4. ASSUME NEW via \in {"tui_new", "tui_loop"}, NEW l \in 0 .. MaxLoops,
             via = "tui_loop" => l \in LoopNames
      PROVE  /\ Creating(via, l) \in Handover /\ Named(Creating(via, l))
             /\ Creating(via, l).plan = view.plan /\ via \in Via \ AfterRead
  BY <1>1, <1>4 DEF Creating, Handover, Named, Via, AfterCreate, AfterStart, AfterRead, ToLoop
<1>5. CASE TuiNewSession
  <2>1. 0 \in 0 .. MaxLoops
    BY PlanAssumption
  <2> QED
    BY <1>2, <1>4, <1>5, <2>1 DEF TuiNewSession
<1>6. CASE TuiLoop
  <2>1. PICK l \in LoopNames : TuiTakes("tui_loop", Creating("tui_loop", l))
    BY <1>6 DEF TuiLoop
  <2> QED
    BY <1>2, <1>4, <2>1, KeysApart
<1> QED
  BY <1>3, <1>5, <1>6

-----------------------------------------------------------------------------
(* The answers of the server                                               *)

\* A slot whose plan stays or goes, and a plan that goes with a start.
LEMMA SlotKeepsInv ==
  ASSUME PlanInv, NEW d \in Slots, NEW w \in Handover, Named(w),
         w.plan \in {0, work[d].plan}, work' = [work EXCEPT ![d] = w],
         stored' = stored \/ \E k : stored' = [stored EXCEPT ![k] = NoPlan],
         \/ starts' = starts
         \/ w.plan = 0 /\ starts' = [starts EXCEPT ![work[d].plan] =
                                       IF @ < MaxStarts THEN @ + 1 ELSE @],
         loops' \subseteq LoopNames, UNCHANGED <<pending, view, taken>>
  PROVE  PlanInv'
<1>1. PICK p \in 0 .. MaxPlans : p = work[d].plan
  BY DEF PlanInv, PlansTypeOK, Slots
<1>2. /\ work' \in [Slots -> Handover] /\ \A e \in Slots : Named(work'[e])
      /\ work'[d] = w /\ \A e \in Slots : e # d => work'[e] = work[e]
  BY DEF PlanInv, PlansTypeOK, Slots, Handover
<1>3. /\ stored' \in [Keys -> 0 .. MaxPlans]
      /\ \A j \in Keys : stored'[j] = stored[j] \/ stored'[j] = NoPlan
  <2>1. NoPlan \in 0 .. MaxPlans /\ stored \in [Keys -> 0 .. MaxPlans]
    BY <1>1, PlanAssumption DEF NoPlan, PlanInv, PlansTypeOK
  <2> QED
    BY <2>1
<1>4. /\ starts' \in [PlanIds -> 0 .. MaxStarts]
      /\ \A q \in PlanIds : \/ starts'[q] = starts[q]
                            \/ q = p /\ w.plan = 0 /\ starts'[q] = starts[q] + 1
  <2>1. starts \in [PlanIds -> 0 .. MaxStarts] /\ MaxStarts \in Nat
    BY PlanAssumption DEF PlanInv, PlansTypeOK
  <2> QED
    BY <1>1, <2>1
<1>5. PlansTypeOK'
  BY <1>2, <1>3, <1>4 DEF PlanInv, PlansTypeOK, Slots, Handover
<1>6. ASSUME NEW q \in PlanIds PROVE PlanOK(q)'
  <2>0. q # NoPlan /\ q # 0
    BY PlanIdsTyped
  <2>1. \A e \in Slots : work'[e].plan = q => work[e].plan = q
    BY <1>2, <2>0
  <2>2. CASE taken[q] = "never"
    <3>1. starts'[q] = starts[q]
      BY <1>1, <1>4, <2>2 DEF PlanInv, PlanOK, Untaken, Nowhere
    <3> QED
      BY <1>3, <2>0, <2>1, <2>2, <3>1 DEF PlanInv, PlanOK, Untaken, Nowhere
  <2>3. CASE taken[q] = "at_once"
    <3>1. TakenOnce(q)
      BY <2>3 DEF PlanInv, PlanOK
    <3>2. CASE starts'[q] = starts[q]
      BY <1>3, <2>0, <2>1, <2>3, <3>1, <3>2, KeysApart DEF PlanOK, TakenOnce, Nowhere
    <3>3. CASE q = p /\ w.plan = 0 /\ starts'[q] = starts[q] + 1
      <4>1. starts[q] = 0 /\ starts'[q] = 1
        BY <1>1, <3>1, <3>3 DEF TakenOnce, Nowhere
      <4>2. \A e \in Slots : work'[e].plan # q
        BY <1>1, <1>2, <2>0, <3>1, <3>3 DEF TakenOnce
      <4>3. \A t \in Sessions : pending'[t] # q
        BY <1>1, <3>1, <3>3 DEF TakenOnce
      <4> QED
        BY <1>3, <2>0, <2>3, <3>1, <4>1, <4>2, <4>3, KeysApart DEF PlanOK, TakenOnce, Nowhere
    <3> QED
      BY <1>4, <3>2, <3>3
  <2>4. CASE taken[q] = "lingering"
    BY <2>4 DEF PlanOK
  <2> QED
    BY <2>2, <2>3, <2>4 DEF PlanInv, PlansTypeOK
<1> QED
  BY <1>2, <1>5, <1>6 DEF PlanInv

LEMMA ServerKeepsInv ==
  ASSUME PlanInv, NEW d \in Slots,
         AbortEnds(d) \/ CreateFailed(d) \/ PlanPrompted(d) \/ PlanRefused(d)
  PROVE  PlanInv'
<1>1. /\ work \in [Slots -> Handover] /\ Named(work[d]) /\ loops \subseteq LoopNames
      /\ work[d].via \in Via
  BY DEF PlanInv, PlansTypeOK, Slots, Handover
<1>2. CASE AbortEnds(d)
  <2>1. PICK w : /\ work' = [work EXCEPT ![d] = w]
                 /\ \/ w = [work[d] EXCEPT !.pc = "creating"] /\ work[d].via = "new"
                    \/ \E l \in LoopNames : w = [work[d] EXCEPT !.pc = "creating", !.loop = l]
    BY <1>1, <1>2 DEF AbortEnds
  <2>2. w \in Handover /\ w.plan = work[d].plan /\ Named(w)
    BY <1>1, <2>1, KeysApart DEF Handover, Named, ToLoop
  <2> QED
    BY <1>1, <1>2, <2>1, <2>2, SlotKeepsInv DEF AbortEnds
<1>3. CASE CreateFailed(d)
  BY <1>1, <1>3, SlotKeepsInv, HandoversTyped DEF CreateFailed
<1>4. CASE PlanPrompted(d)
  <2>1. stored' = stored \/ stored' = [stored EXCEPT ![work[d].key] = NoPlan]
    BY <1>4 DEF PlanPrompted
  <2>2. /\ work' = [work EXCEPT ![d] = NoWork] /\ NoWork.plan = 0
        /\ starts' = [starts EXCEPT ![work[d].plan] = IF @ < MaxStarts THEN @ + 1 ELSE @]
        /\ UNCHANGED <<loops, pending, view, taken>>
    BY <1>4, HandoversTyped DEF PlanPrompted
  <2> QED
    BY <1>1, <2>1, <2>2, SlotKeepsInv, HandoversTyped
<1>5. CASE PlanRefused(d)
  <2>1. loops' \subseteq LoopNames
    BY <1>1, <1>5 DEF PlanRefused
  <2> QED
    BY <1>1, <1>5, <2>1, SlotKeepsInv, HandoversTyped DEF PlanRefused
<1> QED
  BY <1>2, <1>3, <1>4, <1>5

\* A loop keeps the plan it was started with under its name, which is no key
\* that anyone approves.
LEMMA CreatedKeepsInv ==
  ASSUME PlanInv, NEW d \in Slots, Created(d)
  PROVE  PlanInv'
<1> DEFINE kept == IF work[d].via \in AfterCreate
                   THEN [stored EXCEPT ![work[d].key] = NoPlan] ELSE stored
<1>0. work[d] \in Handover /\ Named(work[d]) /\ work[d].pc = "creating"
  BY DEF PlanInv, PlansTypeOK, Slots, Handover, Created
<1>1. PICK p \in 0 .. MaxPlans : p = work[d].plan
  BY <1>0 DEF Handover
<1>2. CASE work[d].via \notin ToLoop
  <2>1. /\ work' = [work EXCEPT ![d] = Prompting(p)] /\ stored' = kept
        /\ UNCHANGED <<loops, pending, view, starts, taken>>
    BY <1>1, <1>2 DEF Created
  <2>2. /\ Prompting(p) \in Handover /\ Named(Prompting(p)) /\ Prompting(p).plan = p
        /\ loops \subseteq LoopNames
    BY HandoversTyped DEF PlanInv, PlansTypeOK
  <2> QED
    BY <1>1, <2>1, <2>2, SlotKeepsInv
<1>3. CASE work[d].via \in ToLoop
  <2>1. PICK l \in LoopNames : l = work[d].loop
    BY <1>0, <1>3 DEF Named
  <2> DEFINE w == [work[d] EXCEPT !.pc = "prompting"]
  <2>2. /\ work' = [work EXCEPT ![d] = w] /\ stored' = [kept EXCEPT ![l] = p]
        /\ loops' = loops \cup {l} /\ UNCHANGED <<pending, view, starts, taken>>
    BY <1>0, <1>1, <1>3, <2>1 DEF Created
  <2>3. w \in Handover /\ Named(w) /\ w.plan = p
    BY <1>0, <1>1, <1>3, <2>1 DEF Handover, Named
  <2> HIDE DEF w
  <2>4. /\ work' \in [Slots -> Handover] /\ \A e \in Slots : Named(work'[e])
        /\ \A e \in Slots : work'[e].plan = work[e].plan
    BY <1>1, <2>2, <2>3 DEF PlanInv, PlansTypeOK, Slots, Handover
  <2>5. /\ kept \in [Keys -> 0 .. MaxPlans]
        /\ \A j \in Keys : kept[j] = stored[j] \/ kept[j] = NoPlan
    <3>1. NoPlan \in 0 .. MaxPlans /\ stored \in [Keys -> 0 .. MaxPlans]
      BY <1>1, PlanAssumption DEF NoPlan, PlanInv, PlansTypeOK
    <3> QED
      BY <3>1
  <2> HIDE DEF kept
  <2>6. /\ stored' \in [Keys -> 0 .. MaxPlans]
        /\ \A j \in Keys : \/ stored'[j] = stored[j] \/ stored'[j] = NoPlan
                           \/ (j = l /\ stored'[j] = p)
    BY <2>2, <2>5
  <2>7. PlansTypeOK'
    BY <2>1, <2>2, <2>4, <2>6 DEF PlanInv, PlansTypeOK, Slots, Handover
  <2>8. ASSUME NEW q \in PlanIds PROVE PlanOK(q)'
    <3>0. q # NoPlan
      BY PlanIdsTyped
    <3>1. q = p => taken[q] # "never"
      BY <1>1 DEF PlanInv, PlanOK, Untaken, Nowhere
    <3>2. CASE taken[q] = "never"
      BY <2>2, <2>4, <2>6, <3>0, <3>1, <3>2 DEF PlanInv, PlanOK, Untaken, Nowhere
    <3>3. CASE taken[q] # "never"
      BY <2>1, <2>2, <2>4, <2>6, <3>0, <3>3, KeysApart DEF PlanInv, PlanOK, TakenOnce, Nowhere
    <3> QED
      BY <3>2, <3>3
  <2> QED
    BY <2>4, <2>7, <2>8 DEF PlanInv
<1> QED
  BY <1>2, <1>3

LEMMA PlanNextInv == PlanInv /\ [PlansNext]_planVars => PlanInv'
<1> SUFFICES ASSUME PlanInv, [PlansNext]_planVars PROVE PlanInv'
  OBVIOUS
<1>1. ASSUME NEW k \in Keys, PlanWrite(k) \/ PlanEdit(k) \/ PlanExpires(k) \/ ViewPlan(k)
      PROVE  PlanInv'
  BY <1>1, WriteKeepsInv
<1>2. ASSUME NEW s \in Sessions,
             \/ ApproveHere(s) \/ IdleTakesPending(s) \/ ApproveNewSession(s) \/ ApproveLoop(s)
             \/ PlanExecuteInPlace(s) \/ PlanExecute(s) \/ LoopTool(s)
      PROVE  PlanInv'
  BY <1>2, ApproveHereKeepsInv, IdleKeepsInv, AnswersKeepInv
<1>3. CASE SaveView \/ TuiNewSession \/ TuiExecuteHere \/ TuiLoop
  BY <1>3, SaveKeepsInv, DialogKeepsInv
<1>4. ASSUME NEW d \in 1 .. MaxWork,
             \/ AbortEnds(d) \/ Created(d) \/ CreateFailed(d)
             \/ PlanPrompted(d) \/ PlanRefused(d)
      PROVE  PlanInv'
  BY <1>4, ServerKeepsInv, CreatedKeepsInv DEF Slots
<1>5. CASE UNCHANGED planVars
  BY <1>5 DEF planVars, PlanInv, PlansTypeOK, PlanOK, Untaken, TakenOnce, Nowhere, Named
<1> QED
  BY <1>1, <1>2, <1>3, <1>4, <1>5 DEF PlansNext

-----------------------------------------------------------------------------
LEMMA PlansInvariant == PlansSpec => []PlanInv
  BY PlanInitInv, PlanNextInv, PTL DEF PlansSpec

\* The variables have their types.
THEOREM PlansTypeCorrect == PlansSpec => []PlansTypeOK
<1>1. PlanInv => PlansTypeOK
  BY DEF PlanInv
<1> QED
  BY <1>1, PlansInvariant, PTL

(***************************************************************************)
(* A plan that was approved once is not executed twice                     *)
(* (plan-approval.ts, plan-execute.ts, loop.ts, tui.tsx): whatever the     *)
(* order of answers, idle events, dialogs and failures, and for every      *)
(* number of sessions and plans, a second start means that someone took    *)
(* the plan by a way that leaves it lingering.                             *)
(***************************************************************************)
THEOREM PlansStartOnce == PlansSpec => []PlanStartsOnce
<1>1. PlanInv => PlanStartsOnce
  <2> SUFFICES ASSUME PlanInv, NEW p \in PlanIds, starts[p] > 1
               PROVE  taken[p] = "lingering"
    BY DEF PlanStartsOnce
  <2>1. starts[p] # 0 /\ starts[p] # 1
    OBVIOUS
  <2>2. ~Untaken(p) /\ ~TakenOnce(p)
    BY <2>1 DEF Untaken, TakenOnce
  <2> QED
    BY <2>2 DEF PlanInv, PlanOK, PlansTypeOK
<1> QED
  BY <1>1, PlansInvariant, PTL

-----------------------------------------------------------------------------
(***************************************************************************)
(* LoopsResolve and ContainersAccounted hold for every number of loops,    *)
(* sessions and operations under way. Neither is inductive. The invariant  *)
(* LoopsInv adds, for the first, that a session belongs to one loop only,*)
(* whoever names it, be it a record, an operation or what a boot has       *)
(* remembered, and that a record to be written back still resolves and is  *)
(* not used meanwhile; for the second, that a container in the map is of a *)
(* stored loop or of an operation that still decides about it, that two    *)
(* operations on a loop make it doubtful, and that while the plugin boots  *)
(* the containers docker has not listed are doubtful.                      *)
(***************************************************************************)
CallSlots == 1 .. MaxCalls
ControlOp == [kind : CallKinds, pc : Waits, loop : 0 .. MaxNames, session : 0 .. MaxSessions, old : LoopRecord]

\* A setup that has no container to start, or not yet.
Boxless(op) == /\ op.kind = "setup"
               /\ op.pc = "session" \/ (op.pc \in {"prompt", "undo"} /\ ~op.old.worktree)

\* An operation that still decides about the container of its loop.
Decides(op) == /\ op.pc \in {"start", "undo"}
               /\ op.kind = "restart" \/ (op.kind = "setup" /\ op.old.worktree)

OpOK(op) ==
  /\ op.pc = "free" => op = NoOp
  /\ op.pc # "free" => op.loop \in Names
  /\ op.session # 0 => op.kind \in {"setup", "restart"}
  /\ op.pc = "start" <=> op.session # 0
  /\ op.kind = "setup" /\ op.pc = "start" => op.old.worktree
  /\ op.kind \in {"restart", "tui_restart"} /\ op.pc = "abort" => op.old.session # 0
  /\ op.kind = "cli_cancel" => op.old.stored

\* The loop a session was created for: what names it belongs to one loop.
NamedBy(l, s) ==
  \/ rec[l].session = s \/ plugin.boot[l].session = s
  \/ \E c \in CallSlots : calls[c].loop = l /\ (calls[c].session = s \/ calls[c].old.session = s)

SessionsOK ==
  \A l \in Names, s \in SessionIds : NamedBy(l, s) =>
    s <= created /\ \A m \in Names : NamedBy(m, s) => m = l

Resolves(l, s) == s \in SessionIds /\ (registered[s] = l \/ s \in unhooked)

\* A record to be restored resolves as well when it is written back; no
\* record, and no operation, has its session meanwhile.
BootOK(l) ==
  /\ plugin.boot[l].stored => /\ plugin.boot[l].active
                              /\ Resolves(l, plugin.boot[l].session)
                              /\ ActiveRec(l) => rec[l].session # plugin.boot[l].session
  /\ plugin.boot[l].stored => \A c \in CallSlots : calls[c].loop = l => calls[c].session # plugin.boot[l].session
  /\ ~plugin.boot[l].stored => plugin.boot[l] = NoRec

RecOK(l) == ActiveRec(l) => /\ rec[l].session \in SessionIds
                            /\ \A s \in SessionIds : rec[l].session = s => Resolves(l, s)

ResolveInv ==
  /\ SessionsOK
  /\ \A l \in Names : RecOK(l)
  /\ \A l \in Names : BootOK(l)

Busy(l) == \E c \in CallSlots : calls[c].loop = l /\ Decides(calls[c])

BoxInv ==
  /\ managed \subseteq containers
  /\ \A l \in containers \ managed : \/ ~Serving \/ Booting \/ l \in doubtful
                                     \/ plugin.state = "restoring" /\ l \in Preserved
  /\ plugin.state = "removing" => containers \ plugin.list \subseteq doubtful
  /\ \A l \in managed \ doubtful : rec[l].stored \/ Busy(l)
  /\ \A c \in CallSlots : Boxless(calls[c]) /\ calls[c].loop \in managed => calls[c].loop \in doubtful

DownInv == plugin.state = "down" =>
  managed = {} /\ \A c \in CallSlots : calls[c].kind \in InPlugin => calls[c] = NoOp

Met == \A c, d \in CallSlots : c # d /\ calls[c].loop = calls[d].loop /\ calls[c].loop \in Names
         => calls[c].loop \in doubtful

LoopsInv ==
  /\ ControlTypeOK
  /\ \A c \in CallSlots : OpOK(calls[c])
  /\ Met /\ DownInv /\ ResolveInv /\ BoxInv

-----------------------------------------------------------------------------

LEMMA Constants == MaxNames \in Nat /\ MaxSessions \in Nat
BY ControlAssumption

LEMMA NoOpTyped == NoRec \in LoopRecord /\ NoOp \in ControlOp /\ NoOp.pc = "free" /\ NoOp.loop = 0
                   /\ NoOp.session = 0 /\ OpOK(NoOp) /\ ~Decides(NoOp) /\ ~Boxless(NoOp)
<1>1. NoRec \in LoopRecord
  BY Constants DEF NoRec, LoopRecord
<1>2. NoOp \in ControlOp /\ NoOp.kind = "setup" /\ NoOp.pc = "free" /\ NoOp.loop = 0 /\ NoOp.session = 0
  BY <1>1, Constants DEF NoOp, ControlOp, CallKinds, Waits
<1> QED
  BY <1>1, <1>2 DEF OpOK, Decides, Boxless

LEMMA OpTyped ==
  ASSUME LoopsInv, NEW c \in CallSlots
  PROVE  calls[c] \in ControlOp /\ OpOK(calls[c])
BY DEF LoopsInv, ControlTypeOK, ControlOp, CallSlots

LEMMA PluginServes ==
  ASSUME LoopsInv, NEW c \in CallSlots, calls[c].kind \in InPlugin, calls[c].pc # "free"
  PROVE  Serving
BY NoOpTyped DEF LoopsInv, DownInv, Serving

\* A step of the operation in one slot, by what it changes for its loop.
LEMMA OpStep ==
  ASSUME LoopsInv, NEW c \in CallSlots, NEW new \in ControlOp, NEW L \in Names, NEW r \in LoopRecord,
         calls[c].pc # "free", calls[c].loop = L,
         calls' = [calls EXCEPT ![c] = new], new.loop \in {0, L}, OpOK(new),
         rec' = [rec EXCEPT ![L] = r], plugin' = plugin,
         managed' \subseteq managed \cup {L}, managed \subseteq managed' \cup {L},
         containers' \subseteq containers \cup {L}, containers \subseteq containers' \cup {L},
         doubtful \subseteq doubtful',
         L \in containers' \ managed' => L \in doubtful' \/ L \in containers \ managed,
         L \in managed' => L \in containers',
         Booting /\ L \in containers' \ containers => L \in doubtful',
         Serving \/ (managed' = managed /\ (new = NoOp \/ new.kind \notin InPlugin)),
         L \in managed' \ doubtful' => r.stored \/ (new.loop = L /\ Decides(new)),
         Boxless(new) /\ L \in managed' => L \in doubtful'
  PROVE  (\A d \in CallSlots : OpOK(calls'[d])) /\ Met' /\ DownInv' /\ BoxInv'
<1>1. calls'[c] = new /\ \A d \in CallSlots : d # c => calls'[d] = calls[d]
  BY DEF LoopsInv, ControlTypeOK, CallSlots
<1>2. rec'[L] = r /\ \A l \in Names : l # L => rec'[l] = rec[l]
  BY DEF LoopsInv, ControlTypeOK
<1>3. \A d \in CallSlots : OpOK(calls'[d])
  BY <1>1 DEF LoopsInv
<1>4. Met'
  BY <1>1 DEF LoopsInv, Met, Names
<1>5. DownInv'
  BY <1>1 DEF LoopsInv, DownInv, Serving
<1>6. BoxInv'
  <2>1. managed' \subseteq containers'
    BY DEF LoopsInv, BoxInv
  <2>2. \A l \in containers' \ managed' : \/ ~Serving \/ Booting \/ l \in doubtful'
                                          \/ plugin.state = "restoring" /\ l \in Preserved
    BY DEF LoopsInv, BoxInv
  <2>3. plugin.state = "removing" => containers' \ plugin.list \subseteq doubtful'
    BY DEF LoopsInv, BoxInv, Booting
  <2>4. ASSUME NEW l \in managed' \ doubtful' PROVE rec'[l].stored \/ Busy(l)'
    <3>1. CASE l = L
      BY <1>1, <1>2, <3>1 DEF Busy
    <3>2. CASE l # L
      <4>1. l \in managed \ doubtful /\ l \in Names
        BY <3>2 DEF LoopsInv, ControlTypeOK
      <4>2. rec[l].stored \/ Busy(l)
        BY <4>1 DEF LoopsInv, BoxInv
      <4>3. CASE rec[l].stored
        BY <1>2, <3>2, <4>1, <4>3
      <4>4. CASE Busy(l)
        <5>1. PICK d \in CallSlots : calls[d].loop = l /\ Decides(calls[d])
          BY <4>4 DEF Busy
        <5>2. calls'[d] = calls[d]
          BY <1>1, <3>2, <5>1
        <5> QED
          BY <5>1, <5>2 DEF Busy
      <4> QED
        BY <4>2, <4>3, <4>4
    <3> QED
      BY <3>1, <3>2
  <2>5. ASSUME NEW d \in CallSlots, Boxless(calls'[d]), calls'[d].loop \in managed'
        PROVE  calls'[d].loop \in doubtful'
    <3>1. CASE d = c
      <4>1. new.loop # 0
        BY <1>1, <2>1, <2>5, <3>1 DEF LoopsInv, ControlTypeOK, Names
      <4> QED
        BY <1>1, <2>5, <3>1, <4>1
    <3>2. CASE d # c
      <4>1. calls'[d] = calls[d]
        BY <1>1, <3>2
      <4>2. CASE calls[d].loop = L
        BY <3>2, <4>1, <4>2 DEF LoopsInv, Met
      <4>3. CASE calls[d].loop # L
        BY <2>5, <4>1, <4>3 DEF LoopsInv, BoxInv
      <4> QED
        BY <4>2, <4>3
    <3> QED
      BY <3>1, <3>2
  <2> QED
    BY <2>1, <2>2, <2>3, <2>4, <2>5 DEF BoxInv, Serving, Booting, Preserved
<1> QED
  BY <1>3, <1>4, <1>5, <1>6

\* The operation that begins takes a free slot.
LEMMA Begun ==
  ASSUME LoopsInv, NEW op \in ControlOp, op.loop \in Names, BeginOp(op)
  PROVE  /\ \E c \in CallSlots : calls[c] = NoOp /\ calls' = [calls EXCEPT ![c] = op]
         /\ doubtful \subseteq doubtful' /\ doubtful' \subseteq doubtful \cup {op.loop}
         /\ \A c \in CallSlots : calls[c].loop = op.loop => op.loop \in doubtful'
<1>1. PICK c \in 1 .. MaxCalls : calls[c].pc = "free" /\ calls' = [calls EXCEPT ![c] = op]
  BY DEF BeginOp
<1>2. c \in CallSlots /\ calls[c] = NoOp
  BY <1>1, OpTyped DEF OpOK, CallSlots
<1>3. doubtful' = IF \E d \in CallSlots : calls[d].loop = op.loop
                    THEN doubtful \cup {op.loop} ELSE doubtful
  BY DEF BeginOp, CallSlots
<1> QED
  BY <1>1, <1>2, <1>3

\* An operation begins, and the record of its loop may change.
LEMMA BeginStep ==
  ASSUME LoopsInv, NEW op \in ControlOp, NEW r \in LoopRecord, op.loop \in Names, OpOK(op), BeginOp(op),
         rec' = [rec EXCEPT ![op.loop] = r], rec[op.loop].stored => r.stored,
         UNCHANGED <<containers, managed, plugin>>,
         Serving \/ op.kind \notin InPlugin,
         Boxless(op) => ~rec[op.loop].stored
  PROVE  (\A d \in CallSlots : OpOK(calls'[d])) /\ Met' /\ DownInv' /\ BoxInv'
<1> DEFINE L == op.loop
<1>1. PICK c \in CallSlots : calls[c] = NoOp /\ calls' = [calls EXCEPT ![c] = op]
  BY Begun
<1>2. /\ doubtful \subseteq doubtful' /\ doubtful' \subseteq doubtful \cup {L}
      /\ \A d \in CallSlots : calls[d].loop = L => L \in doubtful'
  BY Begun
<1>3. calls'[c] = op /\ \A d \in CallSlots : d # c => calls'[d] = calls[d]
  BY <1>1 DEF LoopsInv, ControlTypeOK, CallSlots
<1>4. \A l \in Names : rec[l].stored => rec'[l].stored
  BY DEF LoopsInv, ControlTypeOK
<1>5. \A d \in CallSlots : OpOK(calls'[d])
  BY <1>3 DEF LoopsInv
<1>6. Met'
  BY <1>2, <1>3 DEF LoopsInv, Met
<1>7. DownInv'
  BY <1>3 DEF LoopsInv, DownInv, Serving
<1>8. BoxInv'
  <2>1. managed' \subseteq containers'
    BY DEF LoopsInv, BoxInv
  <2>2. \A l \in containers' \ managed' : \/ ~Serving \/ Booting \/ l \in doubtful'
                                          \/ plugin.state = "restoring" /\ l \in Preserved
    BY <1>2 DEF LoopsInv, BoxInv
  <2>3. plugin.state = "removing" => containers' \ plugin.list \subseteq doubtful'
    BY <1>2 DEF LoopsInv, BoxInv
  <2>4. ASSUME NEW l \in managed' \ doubtful' PROVE rec'[l].stored \/ Busy(l)'
    <3>1. l \in managed \ doubtful /\ l \in Names
      BY <1>2 DEF LoopsInv, ControlTypeOK
    <3>2. rec[l].stored \/ Busy(l)
      BY <3>1 DEF LoopsInv, BoxInv
    <3>3. CASE Busy(l)
      <4>1. PICK d \in CallSlots : calls[d].loop = l /\ Decides(calls[d])
        BY <3>3 DEF Busy
      <4>2. calls'[d] = calls[d]
        BY <1>1, <1>3, <4>1, NoOpTyped
      <4> QED
        BY <4>1, <4>2 DEF Busy
    <3> QED
      BY <1>4, <3>1, <3>2, <3>3
  <2>5. ASSUME NEW d \in CallSlots, Boxless(calls'[d]), calls'[d].loop \in managed'
        PROVE  calls'[d].loop \in doubtful'
    <3>1. CASE d = c
      <4>1. L \in managed /\ ~rec[L].stored
        BY <1>3, <2>5, <3>1
      <4>2. L \in doubtful \/ Busy(L)
        BY <4>1 DEF LoopsInv, BoxInv
      <4> QED
        BY <1>2, <1>3, <3>1, <4>2 DEF Busy
    <3>2. CASE d # c
      BY <1>2, <1>3, <2>5, <3>2 DEF LoopsInv, BoxInv
    <3> QED
      BY <3>1, <3>2
  <2> QED
    BY <2>1, <2>2, <2>3, <2>4, <2>5 DEF BoxInv, Serving, Booting, Preserved
<1> QED
  BY <1>5, <1>6, <1>7, <1>8

\* A record changes and stays stored.
LEMMA RecStep ==
  ASSUME LoopsInv, UNCHANGED <<calls, containers, managed, doubtful, plugin>>,
         \A l \in Names : rec[l].stored => rec'[l].stored
  PROVE  (\A d \in CallSlots : OpOK(calls'[d])) /\ Met' /\ DownInv' /\ BoxInv'
<1>1. \A d \in CallSlots : OpOK(calls'[d])
  BY DEF LoopsInv
<1>2. Met' /\ DownInv'
  BY DEF LoopsInv, Met, DownInv
<1>3. \A l \in managed' \ doubtful' : rec'[l].stored \/ Busy(l)'
  BY DEF LoopsInv, ControlTypeOK, BoxInv, Busy
<1>4. \A c \in CallSlots : Boxless(calls'[c]) /\ calls'[c].loop \in managed' => calls'[c].loop \in doubtful'
  BY DEF LoopsInv, BoxInv
<1> QED
  BY <1>1, <1>2, <1>3, <1>4 DEF LoopsInv, BoxInv, Serving, Booting, Preserved

-----------------------------------------------------------------------------

Fresh(l, s, L) == l = L /\ created' = created + 1 /\ s = created'

\* A step about one loop: what it names, and which sessions it takes from the
\* registry.
LEMMA ResolveStep ==
  ASSUME LoopsInv, NEW L \in Names, NEW r \in LoopRecord, rec' = [rec EXCEPT ![L] = r],
         plugin'.boot = plugin.boot, created' \in {created, created + 1}, unhooked \subseteq unhooked',
         \A l \in Names, s \in SessionIds, c \in CallSlots :
           calls'[c].loop = l /\ (calls'[c].session = s \/ calls'[c].old.session = s)
             => NamedBy(l, s) \/ Fresh(l, s, L),
         \A l \in Names, c \in CallSlots :
           calls'[c].loop = l /\ calls'[c].session # 0 =>
             \/ calls[c].loop = l /\ calls[c].session = calls'[c].session
             \/ Fresh(l, calls'[c].session, L),
         r.session \in SessionIds => NamedBy(L, r.session) \/ Fresh(L, r.session, L),
         \A m \in Names, s \in SessionIds : NamedBy(m, s) /\ registered[s] = m =>
           \/ registered'[s] = m \/ s \in unhooked'
           \/ m = L /\ ActiveRec(L) /\ s = rec[L].session /\ (r.stored /\ r.active => r.session # s),
         r.stored /\ r.active =>
           /\ r.session \in SessionIds /\ (registered'[r.session] = L \/ r.session \in unhooked')
           /\ plugin.boot[L].stored => r.session # plugin.boot[L].session
  PROVE  ResolveInv'
<1>1. rec'[L] = r /\ \A l \in Names : l # L => rec'[l] = rec[l]
  BY DEF LoopsInv, ControlTypeOK
<1>2. \A l \in Names, s \in SessionIds : NamedBy(l, s)' => NamedBy(l, s) \/ Fresh(l, s, L)
  <2> SUFFICES ASSUME NEW l \in Names, NEW s \in SessionIds, NamedBy(l, s)'
               PROVE  NamedBy(l, s) \/ Fresh(l, s, L)
    OBVIOUS
  <2>1. CASE rec'[l].session = s
    BY <1>1, <2>1 DEF NamedBy
  <2>2. CASE plugin'.boot[l].session = s
    BY <2>2 DEF NamedBy
  <2>3. CASE \E c \in CallSlots : calls'[c].loop = l /\ (calls'[c].session = s \/ calls'[c].old.session = s)
    BY <2>3
  <2> QED
    BY <2>1, <2>2, <2>3 DEF NamedBy
<1>3. created \in Nat
  BY DEF LoopsInv, ControlTypeOK
<1>4. SessionsOK'
  <2> SUFFICES ASSUME NEW l \in Names, NEW s \in SessionIds, NamedBy(l, s)'
               PROVE  s <= created' /\ \A m \in Names : NamedBy(m, s)' => m = l
    BY DEF SessionsOK
  <2>1. \A m \in Names : NamedBy(m, s) => s <= created
    BY DEF LoopsInv, ResolveInv, SessionsOK
  <2>2. s \in Nat
    BY DEF SessionIds
  <2>3. CASE NamedBy(l, s)
    <3>1. s <= created
      BY <2>1, <2>3
    <3>2. \A m \in Names : ~Fresh(m, s, L)
      BY <1>3, <2>2, <3>1 DEF Fresh
    <3> QED
      BY <1>2, <1>3, <2>2, <2>3, <3>1, <3>2 DEF LoopsInv, ResolveInv, SessionsOK
  <2>4. CASE Fresh(l, s, L)
    <3>1. s = created + 1 /\ created' = s /\ l = L
      BY <2>4 DEF Fresh
    <3>2. \A m \in Names : ~NamedBy(m, s)
      BY <1>3, <2>1, <3>1
    <3> QED
      BY <1>2, <1>3, <3>1, <3>2 DEF Fresh
  <2> QED
    BY <1>2, <2>3, <2>4
<1>5. ASSUME NEW m \in Names, NEW s \in SessionIds, NamedBy(m, s), Resolves(m, s),
             ~(m = L /\ ActiveRec(L) /\ s = rec[L].session)
      PROVE  Resolves(m, s)'
  BY <1>5 DEF Resolves
<1>6. ASSUME NEW l \in Names PROVE RecOK(l)'
  <2> SUFFICES ASSUME ActiveRec(l)'
               PROVE  /\ rec'[l].session \in SessionIds
                      /\ \A s \in SessionIds : rec'[l].session = s => Resolves(l, s)'
    BY DEF RecOK
  <2>1. CASE l = L
    BY <1>1, <2>1 DEF ActiveRec, Resolves
  <2>2. CASE l # L
    <3>1. ActiveRec(l) /\ rec'[l] = rec[l]
      BY <1>1, <2>2 DEF ActiveRec
    <3>2. rec[l].session \in SessionIds /\ NamedBy(l, rec[l].session)
      BY <3>1 DEF LoopsInv, ResolveInv, RecOK, NamedBy
    <3>3. \A s \in SessionIds : rec[l].session = s => NamedBy(l, s) /\ Resolves(l, s)
      BY <3>1, <3>2 DEF LoopsInv, ResolveInv, RecOK
    <3> QED
      BY <1>5, <2>2, <3>1, <3>2, <3>3
  <2> QED
    BY <2>1, <2>2
<1>7. ASSUME NEW l \in Names PROVE BootOK(l)'
  <2> DEFINE b == plugin.boot[l]
  <2>1. BootOK(l)
    BY DEF LoopsInv, ResolveInv
  <2>2. CASE ~b.stored
    BY <2>1, <2>2 DEF BootOK
  <2>3. CASE b.stored
    <3>1. b.active /\ Resolves(l, b.session) /\ b.session \in SessionIds
      BY <2>1, <2>3 DEF BootOK, Resolves
    <3>2. NamedBy(l, b.session)
      BY DEF NamedBy
    <3>3. Resolves(l, b.session)'
      BY <1>5, <2>1, <2>3, <3>1, <3>2 DEF BootOK
    <3>4. ActiveRec(l)' => rec'[l].session # b.session
      BY <1>1, <2>1, <2>3 DEF BootOK, ActiveRec
    <3>5. b.session <= created
      BY <3>1, <3>2 DEF LoopsInv, ResolveInv, SessionsOK
    <3>6. ASSUME NEW c \in CallSlots, calls'[c].loop = l PROVE calls'[c].session # b.session
      <4>1. CASE calls'[c].session = 0
        BY <3>1, <4>1 DEF SessionIds
      <4>2. CASE calls[c].loop = l /\ calls[c].session = calls'[c].session
        BY <2>1, <2>3, <4>2 DEF BootOK
      <4>3. CASE Fresh(l, calls'[c].session, L)
        BY <1>3, <3>1, <3>5, <4>3 DEF Fresh, SessionIds
      <4> QED
        BY <3>6, <4>1, <4>2, <4>3
    <3>7. plugin'.boot[l] = b
      OBVIOUS
    <3> QED
      BY <2>3, <3>1, <3>3, <3>4, <3>6, <3>7 DEF BootOK
  <2> QED
    BY <2>2, <2>3
<1> QED
  BY <1>4, <1>6, <1>7 DEF ResolveInv

\* What docker's answers leave, whatever they are.
BoxOK(L) ==
  /\ managed' \subseteq managed \cup {L} /\ managed \subseteq managed' \cup {L}
  /\ containers' \subseteq containers \cup {L} /\ containers \subseteq containers' \cup {L}
  /\ doubtful \subseteq doubtful' /\ doubtful' \subseteq doubtful \cup {L}
  /\ L \in containers' \ managed' => L \in doubtful' \/ L \in containers \ managed
  /\ L \in managed' => L \in containers'
  /\ Booting /\ L \in containers' \ containers => L \in doubtful'

\* The record written for a loop: its session is the loop's or a new one, and
\* resolves if the loop is active.
RecFits(L, r) ==
  /\ r \in LoopRecord /\ rec' = [rec EXCEPT ![L] = r]
  /\ r.session \in SessionIds => NamedBy(L, r.session) \/ Fresh(L, r.session, L)
  /\ r.stored /\ r.active =>
       /\ r.session \in SessionIds /\ (registered'[r.session] = L \/ r.session \in unhooked')
       /\ plugin.boot[L].stored => r.session # plugin.boot[L].session

\* The registry keeps every session, or a restart has unhooked it.
RegistryFits ==
  /\ registered' \in [SessionIds -> 0 .. MaxNames]
  /\ unhooked \subseteq unhooked' /\ unhooked' \subseteq SessionIds
  /\ \A m \in Names, s \in SessionIds : NamedBy(m, s) /\ registered[s] = m =>
       registered'[s] = m \/ s \in unhooked'

LEMMA Together ==
  ASSUME ControlTypeOK', \A d \in CallSlots : OpOK(calls'[d]), Met', DownInv', BoxInv', ResolveInv'
  PROVE  LoopsInv'
BY DEF LoopsInv

\* A step of an operation: one of its loop's sessions is named, or a new one.
LEMMA OpKeeps ==
  ASSUME LoopsInv, NEW c \in CallSlots, NEW new \in ControlOp, NEW L \in Names, NEW r,
         calls[c].pc # "free", calls[c].loop = L,
         calls' = [calls EXCEPT ![c] = new], new.loop \in {0, L}, OpOK(new), plugin' = plugin,
         BoxOK(L), RecFits(L, r), RegistryFits,
         Serving \/ (managed' = managed /\ (new = NoOp \/ new.kind \notin InPlugin)),
         L \in managed' \ doubtful' => r.stored \/ (new.loop = L /\ Decides(new)),
         Boxless(new) /\ L \in managed' => L \in doubtful',
         created' \in {created, created + 1}, created' <= MaxSessions,
         new.session \in {0, calls[c].session} \/ Fresh(L, new.session, L),
         new.old.session \in {0, calls[c].old.session}
  PROVE  LoopsInv'
<1> USE DEF BoxOK, RecFits, RegistryFits
<1>1. calls'[c] = new /\ \A d \in CallSlots : d # c => calls'[d] = calls[d]
  BY DEF LoopsInv, ControlTypeOK, CallSlots
<1>2. ControlTypeOK'
  <2>1. created' \in 0 .. MaxSessions
    BY Constants DEF LoopsInv, ControlTypeOK
  <2>2. calls' \in [CallSlots -> ControlOp] /\ rec' \in [Names -> LoopRecord]
    BY DEF LoopsInv, ControlTypeOK, CallSlots, ControlOp
  <2> QED
    BY <2>1, <2>2 DEF LoopsInv, ControlTypeOK, CallSlots, ControlOp
<1>3. (\A d \in CallSlots : OpOK(calls'[d])) /\ Met' /\ DownInv' /\ BoxInv'
  BY OpStep
<1>4. ASSUME NEW l \in Names, NEW s \in SessionIds, NEW d \in CallSlots,
             calls'[d].loop = l, calls'[d].session = s \/ calls'[d].old.session = s
      PROVE  NamedBy(l, s) \/ Fresh(l, s, L)
  <2>1. CASE d # c
    BY <1>1, <1>4, <2>1 DEF NamedBy
  <2>2. CASE d = c
    <3>1. l = L /\ s # 0 /\ (new.session = s \/ new.old.session = s)
      BY <1>1, <1>4, <2>2 DEF Names, SessionIds
    <3> QED
      BY <3>1 DEF NamedBy
  <2> QED
    BY <2>1, <2>2
<1>5. ASSUME NEW l \in Names, NEW d \in CallSlots, calls'[d].loop = l, calls'[d].session # 0
      PROVE  \/ calls[d].loop = l /\ calls[d].session = calls'[d].session
             \/ Fresh(l, calls'[d].session, L)
  BY <1>1, <1>5 DEF Names
<1>6. /\ \A l \in Names, s \in SessionIds, d \in CallSlots :
            calls'[d].loop = l /\ (calls'[d].session = s \/ calls'[d].old.session = s)
              => NamedBy(l, s) \/ Fresh(l, s, L)
      /\ \A l \in Names, d \in CallSlots :
            calls'[d].loop = l /\ calls'[d].session # 0 =>
              \/ calls[d].loop = l /\ calls[d].session = calls'[d].session
              \/ Fresh(l, calls'[d].session, L)
      /\ \A m \in Names, s \in SessionIds : NamedBy(m, s) /\ registered[s] = m =>
           \/ registered'[s] = m \/ s \in unhooked'
           \/ m = L /\ ActiveRec(L) /\ s = rec[L].session /\ (r.stored /\ r.active => r.session # s)
      /\ plugin'.boot = plugin.boot
  BY <1>4, <1>5
<1>7. ResolveInv'
  BY <1>6, ResolveStep
<1> QED
  BY <1>2, <1>3, <1>7, Together

\* An operation begins on a loop, whose record may end with it.
LEMMA BeginKeeps ==
  ASSUME LoopsInv, NEW op \in ControlOp, NEW L \in Names, NEW r \in LoopRecord, op.loop = L, OpOK(op), BeginOp(op),
         rec' = [rec EXCEPT ![L] = r], rec[L].stored => r.stored,
         UNCHANGED <<containers, managed, plugin, unhooked, created>>,
         Serving \/ op.kind \notin InPlugin,
         Boxless(op) => ~rec[L].stored,
         op.session = 0, op.old.session \in {0, rec[L].session}, r.session = rec[L].session,
         registered' \in [SessionIds -> 0 .. MaxNames],
         r.stored /\ r.active => rec[L].active /\ rec[L].stored /\ registered' = registered,
         \A m \in Names, s \in SessionIds : NamedBy(m, s) /\ registered[s] = m =>
           \/ registered'[s] = m
           \/ m = L /\ ActiveRec(L) /\ s = rec[L].session /\ ~r.active
  PROVE  LoopsInv'
<1>1. PICK c \in CallSlots : calls[c] = NoOp /\ calls' = [calls EXCEPT ![c] = op]
  BY Begun
<1>2. calls'[c] = op /\ \A d \in CallSlots : d # c => calls'[d] = calls[d]
  BY <1>1 DEF LoopsInv, ControlTypeOK, CallSlots
<1>3. ControlTypeOK'
  <2>1. calls' \in [CallSlots -> ControlOp] /\ rec' \in [Names -> LoopRecord]
    BY <1>1 DEF LoopsInv, ControlTypeOK, CallSlots, ControlOp
  <2>2. doubtful' \subseteq Names
    BY Begun DEF LoopsInv, ControlTypeOK
  <2> QED
    BY <2>1, <2>2 DEF LoopsInv, ControlTypeOK, CallSlots, ControlOp
<1>4. (\A d \in CallSlots : OpOK(calls'[d])) /\ Met' /\ DownInv' /\ BoxInv'
  BY BeginStep
<1>5. ASSUME NEW l \in Names, NEW s \in SessionIds, NEW d \in CallSlots,
             calls'[d].loop = l, calls'[d].session = s \/ calls'[d].old.session = s
      PROVE  NamedBy(l, s)
  <2>1. CASE d # c
    BY <1>2, <1>5, <2>1 DEF NamedBy
  <2>2. CASE d = c
    <3>1. l = L /\ s # 0 /\ op.old.session = s
      BY <1>2, <1>5, <2>2 DEF SessionIds
    <3> QED
      BY <3>1 DEF NamedBy
  <2> QED
    BY <2>1, <2>2
<1>6. \A d \in CallSlots : calls'[d].session # 0 => calls'[d] = calls[d]
  BY <1>2
<1>7. NamedBy(L, r.session) /\ created \in Nat
  BY DEF NamedBy, LoopsInv, ControlTypeOK
<1>8. r.stored /\ r.active =>
           /\ r.session \in SessionIds /\ (registered'[r.session] = L \/ r.session \in unhooked')
           /\ plugin.boot[L].stored => r.session # plugin.boot[L].session
  <2> SUFFICES ASSUME r.stored, r.active
               PROVE /\ r.session \in SessionIds /\ (registered'[r.session] = L \/ r.session \in unhooked')
                     /\ plugin.boot[L].stored => r.session # plugin.boot[L].session
    OBVIOUS
  <2>1. RecOK(L) /\ BootOK(L) /\ ActiveRec(L)
    BY DEF LoopsInv, ResolveInv, ActiveRec
  <2> QED
    BY <2>1 DEF RecOK, BootOK, Resolves
<1>9. /\ \A l \in Names, s \in SessionIds, d \in CallSlots :
            calls'[d].loop = l /\ (calls'[d].session = s \/ calls'[d].old.session = s)
              => NamedBy(l, s) \/ Fresh(l, s, L)
      /\ \A l \in Names, d \in CallSlots :
            calls'[d].loop = l /\ calls'[d].session # 0 =>
              \/ calls[d].loop = l /\ calls[d].session = calls'[d].session
              \/ Fresh(l, calls'[d].session, L)
      /\ plugin'.boot = plugin.boot /\ created' \in {created, created + 1} /\ unhooked \subseteq unhooked'
  BY <1>5, <1>6
<1>10. \A m \in Names, s \in SessionIds : NamedBy(m, s) /\ registered[s] = m =>
           \/ registered'[s] = m \/ s \in unhooked'
           \/ m = L /\ ActiveRec(L) /\ s = rec[L].session /\ (r.stored /\ r.active => r.session # s)
  OBVIOUS
<1>11. ResolveInv'
  BY <1>7, <1>8, <1>9, <1>10, ResolveStep
<1> QED
  BY <1>3, <1>4, <1>11, Together

\* The registry names the session of a stored record.
LEMMA Registers ==
  ASSUME LoopsInv, NEW L \in Names, NEW s0 \in SessionIds, NamedBy(L, s0) \/ s0 = created + 1,
         registered' = [registered EXCEPT ![s0] = L], unhooked' = unhooked
  PROVE  registered'[s0] = L /\ RegistryFits
<1>1. registered' \in [SessionIds -> 0 .. MaxNames] /\ registered'[s0] = L
  BY Constants DEF LoopsInv, ControlTypeOK, Names
<1>2. ASSUME NEW m \in Names, NEW s \in SessionIds, NamedBy(m, s), registered[s] = m
      PROVE  registered'[s] = m
  <2>1. CASE s # s0
    BY <1>2, <2>1 DEF LoopsInv, ControlTypeOK
  <2>2. CASE s = s0
    <3>1. s <= created /\ created \in Nat
      BY <1>2 DEF LoopsInv, ControlTypeOK, ResolveInv, SessionsOK
    <3>2. NamedBy(L, s)
      BY <2>2, <3>1 DEF SessionIds
    <3>3. m = L
      BY <1>2, <3>2 DEF LoopsInv, ResolveInv, SessionsOK
    <3> QED
      BY <1>1, <2>2, <3>3
  <2> QED
    BY <2>1, <2>2
<1> QED
  BY <1>1, <1>2 DEF RegistryFits, LoopsInv, ControlTypeOK

\* A fresh session is no other's.
LEMMA Fresher ==
  ASSUME LoopsInv, NEW s \in SessionIds, SessionCreated(s), NEW L \in Names
  PROVE  /\ Fresh(L, s, L) /\ s = created + 1 /\ created' = created + 1 /\ created' <= MaxSessions
         /\ s # 0 /\ created \in Nat
         /\ plugin.boot[L].session # s
<1>1. s = created + 1 /\ created' = s /\ created \in Nat /\ created < MaxSessions
  BY DEF SessionCreated, LoopsInv, ControlTypeOK
<1>2. plugin.boot[L].session # s
  <2> SUFFICES ASSUME plugin.boot[L].session = s PROVE FALSE
    OBVIOUS
  <2>1. NamedBy(L, s)
    BY DEF NamedBy
  <2>2. s <= created
    BY <2>1 DEF LoopsInv, ResolveInv, SessionsOK
  <2> QED
    BY <1>1, <2>2
<1> QED
  BY <1>1, <1>2, Constants DEF Fresh

-----------------------------------------------------------------------------
(* The steps of the operations                                             *)

LEMMA BoxEffects ==
  ASSUME LoopsInv, NEW L \in Names
  PROVE  /\ BoxStarts(L) => BoxOK(L)
         /\ BoxFails(L) => BoxOK(L) /\ managed' = managed /\ (L \in managed' => L \in doubtful')
         /\ BoxStops(L) => BoxOK(L) /\ L \notin managed'
         /\ UNCHANGED boxVars => BoxOK(L) /\ managed' = managed /\ doubtful' = doubtful
BY DEF BoxOK, BoxStarts, BoxFails, BoxStops, boxVars, LoopsInv, BoxInv

\* The record stays: it is in order if the registry keeps its session.
LEMMA RecAsIs ==
  ASSUME LoopsInv, NEW L \in Names, rec' = rec, RegistryFits
  PROVE  RecFits(L, rec[L])
<1>1. rec[L] \in LoopRecord /\ rec' = [rec EXCEPT ![L] = rec[L]]
  BY DEF LoopsInv, ControlTypeOK
<1>2. NamedBy(L, rec[L].session)
  BY DEF NamedBy
<1>3. RecOK(L) /\ BootOK(L)
  BY DEF LoopsInv, ResolveInv
<1>4. ASSUME ActiveRec(L)
      PROVE  /\ rec[L].session \in SessionIds
             /\ registered'[rec[L].session] = L \/ rec[L].session \in unhooked'
             /\ plugin.boot[L].stored => rec[L].session # plugin.boot[L].session
  BY <1>2, <1>3, <1>4 DEF RecOK, BootOK, Resolves, RegistryFits
<1> QED
  BY <1>1, <1>2, <1>4 DEF ActiveRec, RecFits

LEMMA RegistryAsIs ==
  ASSUME LoopsInv, registered' = registered, unhooked' = unhooked
  PROVE  RegistryFits
BY DEF RegistryFits, LoopsInv, ControlTypeOK

\* The operation in a slot.
LEMMA Operates ==
  ASSUME LoopsInv, NEW c \in CallSlots, calls[c].pc # "free"
  PROVE  /\ calls[c] \in ControlOp /\ OpOK(calls[c]) /\ calls[c].loop \in Names
         /\ (calls[c].pc # "start" => calls[c].session = 0)
         /\ (calls[c].session # 0 => NamedBy(calls[c].loop, calls[c].session))
         /\ (calls[c].old.session # 0 => NamedBy(calls[c].loop, calls[c].old.session))
         /\ (Boxless(calls[c]) /\ calls[c].loop \in managed => calls[c].loop \in doubtful)
         /\ (calls[c].kind \in InPlugin => Serving)
         /\ rec \in [Names -> LoopRecord] /\ calls \in [CallSlots -> ControlOp]
         /\ registered \in [SessionIds -> 0 .. MaxNames]
         /\ created \in Nat /\ created <= MaxSessions /\ unhooked \subseteq SessionIds
<1>1. calls[c] \in ControlOp /\ OpOK(calls[c]) /\ calls[c].loop \in Names
  BY OpTyped DEF OpOK
<1>2. calls[c].pc # "start" => calls[c].session = 0
  BY <1>1 DEF OpOK
<1>3. /\ (calls[c].session # 0 => NamedBy(calls[c].loop, calls[c].session))
      /\ (calls[c].old.session # 0 => NamedBy(calls[c].loop, calls[c].old.session))
  BY DEF NamedBy
<1>4. Boxless(calls[c]) /\ calls[c].loop \in managed => calls[c].loop \in doubtful
  BY DEF LoopsInv, BoxInv
<1>5. /\ rec \in [Names -> LoopRecord] /\ calls \in [CallSlots -> ControlOp]
      /\ registered \in [SessionIds -> 0 .. MaxNames]
      /\ created \in Nat /\ created <= MaxSessions /\ unhooked \subseteq SessionIds
  BY Constants DEF LoopsInv, ControlTypeOK, CallSlots, ControlOp
<1> QED
  BY <1>1, <1>2, <1>3, <1>4, <1>5, PluginServes

\* An operation goes on or ends: no record changes, no session.
LEMMA Moves ==
  ASSUME LoopsInv, NEW c \in CallSlots, NEW new \in ControlOp, calls[c].pc # "free",
         calls' = [calls EXCEPT ![c] = new], OpOK(new), new.loop \in {0, calls[c].loop},
         new.session \in {0, calls[c].session}, new.old.session \in {0, calls[c].old.session},
         UNCHANGED <<rec, registered, unhooked, created, plugin>>,
         BoxOK(calls[c].loop),
         Serving \/ (managed' = managed /\ (new = NoOp \/ new.kind \notin InPlugin)),
         calls[c].loop \in managed' \ doubtful' => rec[calls[c].loop].stored \/ (new.loop = calls[c].loop /\ Decides(new)),
         Boxless(new) /\ calls[c].loop \in managed' => calls[c].loop \in doubtful'
  PROVE  LoopsInv'
<1> DEFINE L == calls[c].loop
           r == rec[L]
<1>1. L \in Names /\ created \in Nat /\ created <= MaxSessions
  BY Operates
<1>2. RegistryFits /\ RecFits(L, r)
  BY <1>1, RegistryAsIs, RecAsIs
<1>3. L \in managed' \ doubtful' => r.stored \/ (new.loop = L /\ Decides(new))
  OBVIOUS
<1> HIDE DEF r
<1> QED
  BY <1>1, <1>2, <1>3, OpKeeps

\* Only the operation itself can be the one that decides about its loop.
LEMMA Decided ==
  ASSUME LoopsInv, NEW c \in CallSlots, calls[c].loop \in Names, calls[c].loop \in managed \ doubtful
  PROVE  rec[calls[c].loop].stored \/ Decides(calls[c])
<1>1. rec[calls[c].loop].stored \/ Busy(calls[c].loop)
  BY DEF LoopsInv, BoxInv
<1>2. ASSUME Busy(calls[c].loop) PROVE Decides(calls[c])
  <2>1. PICK d \in CallSlots : calls[d].loop = calls[c].loop /\ Decides(calls[d])
    BY <1>2 DEF Busy
  <2>2. d = c
    BY <2>1 DEF LoopsInv, Met
  <2> QED
    BY <2>1, <2>2
<1> QED
  BY <1>1, <1>2

LEMMA Finishes ==
  ASSUME LoopsInv, NEW c \in CallSlots, calls[c].pc # "free", Finish(c),
         UNCHANGED <<rec, registered, unhooked, created, plugin>>,
         BoxOK(calls[c].loop), Serving \/ managed' = managed,
         calls[c].loop \in managed' \ doubtful' => rec[calls[c].loop].stored
  PROVE  LoopsInv'
<1>1. calls' = [calls EXCEPT ![c] = NoOp]
  BY DEF Finish
<1>2. NoOp.old.session = 0
  BY DEF NoOp, NoRec
<1> QED
  BY <1>1, <1>2, NoOpTyped, Moves

LEMMA FinishSteps ==
  ASSUME LoopsInv, NEW c \in CallSlots,
         \/ SetupBoxRefused(c) \/ SessionRefused(c) \/ PromptAccepted(c)
         \/ PromptUndone(c) \/ LoopCleaned(c) \/ RestartBoxRefused(c)
  PROVE  LoopsInv'
<1> DEFINE L == calls[c].loop
<1>0. calls[c].pc # "free" /\ UNCHANGED <<rec, registered, unhooked, created, plugin>> /\ Finish(c)
  BY DEF SetupBoxRefused, SessionRefused, PromptAccepted, PromptUndone, LoopCleaned, RestartBoxRefused,
     Waiting, storeVars
<1>1. L \in Names /\ (calls[c].kind \in InPlugin => Serving)
  BY <1>0, Operates
<1>2. CASE SetupBoxRefused(c) \/ RestartBoxRefused(c)
  <2>1. BoxOK(L) /\ (L \in managed' => L \in doubtful') /\ managed' = managed
    BY <1>1, <1>2, BoxEffects DEF SetupBoxRefused, RestartBoxRefused
  <2> QED
    BY <1>0, <1>1, <2>1, Finishes
<1>3. CASE SessionRefused(c) \/ PromptAccepted(c)
  <2>1. BoxOK(L) /\ managed' = managed /\ doubtful' = doubtful
    BY <1>1, <1>3, BoxEffects DEF SessionRefused, PromptAccepted
  <2>2. ~Decides(calls[c])
    BY <1>3 DEF SessionRefused, PromptAccepted, Waiting, Decides
  <2>3. L \in managed' \ doubtful' => rec[L].stored
    BY <1>1, <2>1, <2>2, Decided
  <2> QED
    BY <1>0, <1>1, <2>1, <2>3, Finishes
<1>4. CASE LoopCleaned(c)
  <2>1. BoxOK(L) /\ L \notin managed' /\ Serving
    BY <1>1, <1>4, BoxEffects DEF LoopCleaned, Waiting, InPlugin
  <2> QED
    BY <1>0, <1>1, <2>1, Finishes
<1>5. CASE PromptUndone(c)
  <2>1. Serving
    BY <1>1, <1>5 DEF PromptUndone, Waiting, InPlugin
  <2>2. CASE calls[c].kind = "restart" \/ calls[c].old.worktree
    <3>1. BoxOK(L) /\ L \notin managed'
      BY <1>1, <1>5, <2>2, BoxEffects DEF PromptUndone
    <3> QED
      BY <1>0, <1>1, <2>1, <3>1, Finishes
  <2>3. CASE ~(calls[c].kind = "restart" \/ calls[c].old.worktree)
    <3>1. BoxOK(L) /\ managed' = managed /\ doubtful' = doubtful
      BY <1>1, <1>5, <2>3, BoxEffects DEF PromptUndone
    <3>2. Boxless(calls[c])
      BY <1>5, <2>3 DEF PromptUndone, Waiting, Boxless
    <3>3. L \in managed' => L \in doubtful'
      BY <1>0, <3>1, <3>2, Operates
    <3> QED
      BY <1>0, <1>1, <2>1, <3>1, <3>3, Finishes
  <2> QED
    BY <2>2, <2>3
<1> QED
  BY <1>2, <1>3, <1>4, <1>5

LEMMA StartedTyped ==
  ASSUME NEW s \in SessionIds, NEW worktree \in BOOLEAN, NEW boxed \in BOOLEAN
  PROVE  /\ Started(s, worktree, boxed) \in LoopRecord
         /\ Started(s, worktree, boxed).session = s /\ Started(s, worktree, boxed).stored
BY Constants DEF Started, LoopRecord, SessionIds

LEMMA SetupSessionStep ==
  ASSUME LoopsInv, NEW c \in CallSlots, SetupSession(c)
  PROVE  LoopsInv'
<1> DEFINE op == calls[c]
           L == calls[c].loop
<1>1. calls[c].kind = "setup" /\ calls[c].pc = "session" /\ UNCHANGED <<containers, managed, doubtful, plugin>>
  BY DEF SetupSession, Waiting, boxVars
<1>2. /\ op \in ControlOp /\ OpOK(op) /\ L \in Names /\ op.session = 0 /\ Serving
      /\ (L \in managed => L \in doubtful)
      /\ registered \in [SessionIds -> 0 .. MaxNames] /\ unhooked \subseteq SessionIds
      /\ rec \in [Names -> LoopRecord] /\ calls \in [CallSlots -> ControlOp]
  BY <1>1, Operates DEF InPlugin, Boxless
<1>3. BoxOK(L)
  BY <1>1, <1>2, BoxEffects DEF boxVars
<1>4. PICK s \in SessionIds :
        /\ SessionCreated(s)
        /\ \/ /\ op.old.worktree
              /\ calls' = [calls EXCEPT ![c].pc = "start", ![c].session = s]
              /\ UNCHANGED storeVars
           \/ /\ ~op.old.worktree
              /\ Goto(c, "prompt")
              /\ Stored(L, Started(s, FALSE, FALSE))
  BY DEF SetupSession
<1>5. /\ Fresh(L, s, L) /\ s = created + 1 /\ created' = created + 1 /\ created' <= MaxSessions
      /\ s # 0 /\ created \in Nat /\ plugin.boot[L].session # s
  BY <1>2, <1>4, Fresher
<1>6. CASE op.old.worktree
  <2> DEFINE new == [op EXCEPT !.pc = "start", !.session = s]
             r == rec[L]
  <2>1. calls' = [calls EXCEPT ![c] = new] /\ UNCHANGED <<rec, registered, unhooked>>
    BY <1>2, <1>4, <1>6 DEF storeVars, ControlOp
  <2>6. s \in 0 .. MaxSessions /\ "start" \in Waits
    BY Constants DEF SessionIds, Waits
  <2>7. new \in ControlOp
    BY <1>2, <2>6 DEF ControlOp
  <2>2. /\ new \in ControlOp /\ new.loop = L /\ new.session = s /\ new.old = op.old
        /\ new.kind = "setup" /\ new.pc = "start"
    BY <1>1, <1>2, <2>7 DEF ControlOp
  <2>4. OpOK(new) /\ ~Boxless(new)
    BY <1>2, <1>5, <1>6, <2>2 DEF OpOK, Boxless
  <2>3. RegistryFits /\ RecFits(L, r)
    BY <1>2, <2>1, RegistryAsIs, RecAsIs
  <2>5. L \notin managed' \ doubtful'
    BY <1>1, <1>2
  <2> HIDE DEF new, r
  <2> QED
    BY <1>1, <1>2, <1>3, <1>5, <2>1, <2>2, <2>3, <2>4, <2>5, OpKeeps
<1>7. CASE ~op.old.worktree
  <2> DEFINE new == [op EXCEPT !.pc = "prompt"]
             r == Started(s, FALSE, FALSE)
  <2>1. /\ calls' = [calls EXCEPT ![c] = new] /\ rec' = [rec EXCEPT ![L] = r]
        /\ registered' = [registered EXCEPT ![s] = L] /\ unhooked' = unhooked
    BY <1>2, <1>4, <1>7 DEF Stored, Goto, ControlOp, Started
  <2>2. /\ new \in ControlOp /\ new.loop = L /\ new.session = 0 /\ new.old.session = op.old.session /\ OpOK(new)
    BY <1>1, <1>2 DEF ControlOp, OpOK, Waits
  <2>3. r \in LoopRecord /\ r.session = s /\ r.stored
    BY StartedTyped
  <2>4. registered'[s] = L /\ RegistryFits
    BY <1>2, <1>5, <2>1, Registers
  <2>6. RecFits(L, r)
    BY <1>5, <2>1, <2>3, <2>4 DEF RecFits
  <2>5. L \notin managed' \ doubtful' /\ (L \in managed' => L \in doubtful')
    BY <1>1, <1>2
  <2> HIDE DEF new, r
  <2> QED
    BY <1>1, <1>2, <1>3, <1>5, <2>1, <2>2, <2>3, <2>4, <2>5, <2>6, OpKeeps
<1> QED
  BY <1>6, <1>7

\* The operation's fields with another step, and another session.
LEMMA OpMoves ==
  ASSUME NEW op \in ControlOp, NEW pc \in Waits, NEW s \in 0 .. MaxSessions,
         NEW new, new = [op EXCEPT !.pc = pc, !.session = s]
  PROVE  /\ new \in ControlOp /\ new.kind = op.kind /\ new.pc = pc /\ new.loop = op.loop
         /\ new.session = s /\ new.old = op.old
BY DEF ControlOp

LEMMA OpGoes ==
  ASSUME NEW op \in ControlOp, NEW pc \in Waits
  PROVE  LET new == [op EXCEPT !.pc = pc] IN
           /\ new \in ControlOp /\ new.kind = op.kind /\ new.pc = pc /\ new.loop = op.loop
           /\ new.session = op.session /\ new.old = op.old
BY DEF ControlOp

LEMMA SetupBoxedStep ==
  ASSUME LoopsInv, NEW c \in CallSlots, SetupBoxed(c)
  PROVE  LoopsInv'
<1> DEFINE op == calls[c]
           L == calls[c].loop
           s == calls[c].session
           new == [op EXCEPT !.pc = "prompt", !.session = 0]
           r == Started(s, TRUE, TRUE)
<1>1. /\ op.kind = "setup" /\ op.pc = "start" /\ BoxStarts(L) /\ Stored(L, r)
      /\ calls' = [calls EXCEPT ![c].pc = "prompt", ![c].session = 0]
      /\ UNCHANGED <<created, plugin>>
  BY DEF SetupBoxed, Waiting
<1>2. /\ op \in ControlOp /\ OpOK(op) /\ L \in Names /\ Serving
      /\ calls \in [CallSlots -> ControlOp] /\ created \in Nat /\ created <= MaxSessions
      /\ s # 0 /\ NamedBy(L, s)
  BY <1>1, Operates DEF InPlugin, OpOK
<1>3. s \in SessionIds /\ 0 \in 0 .. MaxSessions /\ "prompt" \in Waits
  BY <1>2, Constants DEF ControlOp, SessionIds, Waits
<1>4. BoxOK(L)
  BY <1>1, <1>2, BoxEffects
<1>5. /\ calls' = [calls EXCEPT ![c] = new] /\ new \in ControlOp /\ new.kind = "setup" /\ new.pc = "prompt"
      /\ new.loop = L /\ new.session = 0 /\ new.old = op.old
  <2> DEFINE one == [calls EXCEPT ![c].pc = "prompt"]
             half == [op EXCEPT !.pc = "prompt"]
  <2>a. one = [calls EXCEPT ![c] = half] /\ DOMAIN calls = CallSlots
    BY <1>2
  <2>b. calls' = [one EXCEPT ![c].session = 0]
    BY <1>1, Zenon
  <2>c. new = [half EXCEPT !.session = 0]
    OBVIOUS
  <2>1. calls' = [calls EXCEPT ![c] = new]
    <3> HIDE DEF one, half, new
    <3>1. one[c] = half /\ DOMAIN one = CallSlots
      BY <2>a
    <3>2. calls' = [one EXCEPT ![c] = new]
      BY <2>b, <2>c, <3>1
    <3> QED
      BY <2>a, <3>2
  <2>2. /\ new \in ControlOp /\ new.kind = op.kind /\ new.pc = "prompt"
        /\ new.loop = op.loop /\ new.session = 0 /\ new.old = op.old
    <3>1. op \in ControlOp
      BY <1>2
    <3>2. 0 \in 0 .. MaxSessions /\ "prompt" \in Waits
      BY <1>3
    <3> HIDE DEF op
    <3> QED
      BY <3>1, <3>2 DEF ControlOp
  <2> HIDE DEF new
  <2> QED
    BY <1>1, <2>1, <2>2
<1>6. OpOK(new) /\ ~Boxless(new)
  BY <1>1, <1>2, <1>5 DEF OpOK, Boxless
<1>7. r \in LoopRecord /\ r.session = s /\ r.stored
  BY <1>3, StartedTyped
<1>8. /\ rec' = [rec EXCEPT ![L] = r] /\ registered' = [registered EXCEPT ![s] = L]
      /\ unhooked' = unhooked
  BY <1>1, <1>7 DEF Stored
<1>9. registered'[s] = L /\ RegistryFits
  BY <1>2, <1>3, <1>8, Registers
<1>10. plugin.boot[L].stored => s # plugin.boot[L].session
  BY <1>2 DEF LoopsInv, ResolveInv, BootOK
<1>11. RecFits(L, r)
  BY <1>2, <1>3, <1>7, <1>8, <1>9, <1>10 DEF RecFits
<1> HIDE DEF new, r
<1> QED
  BY <1>1, <1>2, <1>4, <1>5, <1>6, <1>7, <1>9, <1>11, OpKeeps

LEMMA PromptRefusedStep ==
  ASSUME LoopsInv, NEW c \in CallSlots, PromptRefused(c)
  PROVE  LoopsInv'
<1> DEFINE op == calls[c]
           L == calls[c].loop
           new == [op EXCEPT !.pc = "undo"]
<1>1. /\ op.kind \in {"setup", "restart"} /\ op.pc = "prompt" /\ rec' = [rec EXCEPT ![L] = NoRec]
      /\ calls' = [calls EXCEPT ![c].pc = "undo"]
      /\ UNCHANGED <<registered, unhooked, created, containers, managed, doubtful, plugin>>
  BY DEF PromptRefused, Waiting, Goto, Forget, boxVars
<1>2. /\ op \in ControlOp /\ OpOK(op) /\ L \in Names /\ Serving /\ op.session = 0
      /\ calls \in [CallSlots -> ControlOp] /\ created \in Nat /\ created <= MaxSessions
      /\ (Boxless(op) /\ L \in managed => L \in doubtful)
  BY <1>1, Operates DEF InPlugin
<1>3. "undo" \in Waits
  BY DEF Waits
<1>4. BoxOK(L)
  BY <1>1, <1>2, BoxEffects DEF boxVars
<1>5. /\ calls' = [calls EXCEPT ![c] = new] /\ new \in ControlOp /\ new.kind = op.kind /\ new.pc = "undo"
      /\ new.loop = L /\ new.session = 0 /\ new.old = op.old
  BY <1>1, <1>2, <1>3, OpGoes DEF ControlOp
<1>6. OpOK(new)
  BY <1>1, <1>2, <1>5 DEF OpOK
<1>7. Boxless(new) \/ Decides(new)
  BY <1>1, <1>5 DEF Boxless, Decides
<1>8. Boxless(new) => Boxless(op)
  BY <1>1, <1>5 DEF Boxless
<1>9. RegistryFits
  BY <1>1, RegistryAsIs
<1>10. RecFits(L, NoRec)
  <2>1. NoRec \in LoopRecord /\ ~NoRec.stored /\ NoRec.session \notin SessionIds
    BY NoOpTyped DEF NoRec, SessionIds
  <2> QED
    BY <1>1, <2>1 DEF RecFits
<1> HIDE DEF new
<1> QED
  BY <1>1, <1>2, <1>4, <1>5, <1>6, <1>7, <1>8, <1>9, <1>10, OpKeeps

LEMMA RestartSessionStep ==
  ASSUME LoopsInv, NEW c \in CallSlots, RestartSession(c)
  PROVE  LoopsInv'
<1> DEFINE op == calls[c]
           L == calls[c].loop
<1>1. PICK s \in SessionIds : SessionCreated(s) /\ calls' = [calls EXCEPT ![c].pc = "start", ![c].session = s]
  BY DEF RestartSession
<1> DEFINE new == [op EXCEPT !.pc = "start", !.session = s]
<1>2. /\ op.kind = "restart" /\ op.pc = "session" /\ rec' = [rec EXCEPT ![L] = NoRec]
      /\ UNCHANGED <<registered, unhooked, containers, managed, doubtful, plugin>>
  BY DEF RestartSession, Waiting, Forget, boxVars
<1>3. /\ op \in ControlOp /\ OpOK(op) /\ L \in Names /\ Serving /\ op.session = 0 /\ calls \in [CallSlots -> ControlOp]
  BY <1>2, Operates DEF InPlugin
<1>4. /\ Fresh(L, s, L) /\ created' = created + 1 /\ created' <= MaxSessions /\ s # 0
  BY <1>1, <1>3, Fresher
<1>5. s \in 0 .. MaxSessions /\ "start" \in Waits
  BY Constants DEF SessionIds, Waits
<1>6. BoxOK(L)
  BY <1>2, <1>3, BoxEffects DEF boxVars
<1>7. /\ calls' = [calls EXCEPT ![c] = new] /\ new \in ControlOp /\ new.kind = op.kind /\ new.pc = "start"
      /\ new.loop = L /\ new.session = s /\ new.old = op.old
  BY <1>1, <1>3, <1>5, OpMoves DEF ControlOp
<1>8. OpOK(new) /\ Decides(new) /\ ~Boxless(new)
  BY <1>2, <1>3, <1>4, <1>7 DEF OpOK, Boxless, Decides
<1>9. RegistryFits
  BY <1>2, RegistryAsIs
<1>10. RecFits(L, NoRec)
  <2>1. NoRec \in LoopRecord /\ ~NoRec.stored /\ NoRec.session \notin SessionIds
    BY NoOpTyped DEF NoRec, SessionIds
  <2> QED
    BY <1>2, <2>1 DEF RecFits
<1> HIDE DEF new
<1> QED
  BY <1>2, <1>3, <1>4, <1>6, <1>7, <1>8, <1>9, <1>10, OpKeeps

LEMMA RestartBoxedStep ==
  ASSUME LoopsInv, NEW c \in CallSlots, RestartBoxed(c)
  PROVE  LoopsInv'
<1> DEFINE op == calls[c]
           L == calls[c].loop
           s == calls[c].session
           worktree == calls[c].old.worktree
           new == [[op EXCEPT !.pc = "prompt", !.session = 0] EXCEPT !.old = NoRec]
           r == Started(s, worktree, TRUE)
<1>1. /\ op.kind = "restart" /\ op.pc = "start" /\ BoxStarts(L) /\ Stored(L, r)
      /\ calls' = [calls EXCEPT ![c].pc = "prompt", ![c].session = 0, ![c].old = NoRec]
      /\ UNCHANGED <<created, plugin>>
  BY DEF RestartBoxed, Waiting, Prompts
<1>2. /\ op \in ControlOp /\ OpOK(op) /\ L \in Names /\ Serving
      /\ calls \in [CallSlots -> ControlOp] /\ created \in Nat /\ created <= MaxSessions
      /\ s # 0 /\ NamedBy(L, s)
  BY <1>1, Operates DEF InPlugin, OpOK
<1>3. s \in SessionIds /\ 0 \in 0 .. MaxSessions /\ "prompt" \in Waits /\ worktree \in BOOLEAN
  BY <1>2, Constants DEF ControlOp, SessionIds, Waits, LoopRecord
<1>4. BoxOK(L)
  BY <1>1, <1>2, BoxEffects
<1>5. /\ calls' = [calls EXCEPT ![c] = new] /\ new \in ControlOp /\ new.kind = "restart" /\ new.pc = "prompt"
      /\ new.loop = L /\ new.session = 0 /\ new.old = NoRec
  <2> DEFINE mid == [op EXCEPT !.pc = "prompt", !.session = 0]
  <2>5. op \in ControlOp /\ "prompt" \in Waits /\ 0 \in 0 .. MaxSessions
    BY <1>2, <1>3
  <2>1. /\ mid \in ControlOp /\ mid.kind = op.kind /\ mid.pc = "prompt" /\ mid.loop = op.loop /\ mid.session = 0
    BY <2>5 DEF ControlOp
  <2>2. calls' = [calls EXCEPT ![c] = new]
    BY <1>1, <1>2 DEF ControlOp
  <2> HIDE DEF mid
  <2>3. new = [mid EXCEPT !.old = NoRec]
    BY DEF mid
  <2>4. /\ new \in ControlOp /\ new.kind = mid.kind /\ new.pc = mid.pc /\ new.loop = mid.loop
        /\ new.session = mid.session /\ new.old = NoRec
    BY <2>1, <2>3, NoOpTyped DEF ControlOp
  <2> QED
    BY <1>1, <2>1, <2>2, <2>4
<1>6. OpOK(new) /\ ~Boxless(new)
  BY <1>1, <1>2, <1>5 DEF OpOK, Boxless
<1>7. r \in LoopRecord /\ r.session = s /\ r.stored
  BY <1>3, StartedTyped
<1>8. /\ rec' = [rec EXCEPT ![L] = r] /\ registered' = [registered EXCEPT ![s] = L]
      /\ unhooked' = unhooked
  BY <1>1, <1>7 DEF Stored
<1>9. registered'[s] = L /\ RegistryFits
  BY <1>2, <1>3, <1>8, Registers
<1>10. plugin.boot[L].stored => s # plugin.boot[L].session
  BY <1>2 DEF LoopsInv, ResolveInv, BootOK
<1>11. RecFits(L, r)
  BY <1>2, <1>3, <1>7, <1>8, <1>9, <1>10 DEF RecFits
<1>12. new.old.session = 0
  BY <1>5 DEF NoRec
<1> HIDE DEF new, r
<1> QED
  BY <1>1, <1>2, <1>4, <1>5, <1>6, <1>7, <1>9, <1>11, <1>12, OpKeeps

\* A restart takes the old session out of the registry.
LEMMA Unhooking ==
  ASSUME LoopsInv, NEW c \in CallSlots, Unhooks(c), calls[c].pc = "abort",
         calls[c].kind \in {"restart", "tui_restart"}
  PROVE  /\ RegistryFits /\ RecFits(calls[c].loop, rec[calls[c].loop]) /\ BoxOK(calls[c].loop)
         /\ rec' = rec /\ managed' = managed /\ doubtful' = doubtful /\ plugin' = plugin
<1> DEFINE s0 == calls[c].old.session
<1>1. /\ registered' = [registered EXCEPT ![s0] = 0] /\ unhooked' = unhooked \cup {s0}
      /\ rec' = rec /\ UNCHANGED <<containers, managed, doubtful, plugin>>
  BY DEF Unhooks, boxVars
<1>2. /\ calls[c] \in ControlOp /\ OpOK(calls[c]) /\ calls[c].loop \in Names
      /\ registered \in [SessionIds -> 0 .. MaxNames] /\ unhooked \subseteq SessionIds
  BY Operates
<1>3. s0 \in SessionIds
  <2>1. s0 # 0
    BY <1>2 DEF OpOK
  <2>2. s0 \in 0 .. MaxSessions
    BY <1>2 DEF ControlOp, LoopRecord
  <2> QED
    BY <2>1, <2>2, Constants DEF SessionIds
<1>4. RegistryFits
  <2>3. 0 \in 0 .. MaxNames
    BY Constants
  <2>1. registered' \in [SessionIds -> 0 .. MaxNames]
    BY <1>1, <1>2, <2>3
  <2>2. ASSUME NEW s \in SessionIds PROVE registered'[s] = registered[s] \/ s \in unhooked'
    BY <1>1, <1>2
  <2> QED
    BY <1>1, <1>2, <1>3, <2>1, <2>2 DEF RegistryFits
<1>5. RecFits(calls[c].loop, rec[calls[c].loop])
  BY <1>1, <1>2, <1>4, RecAsIs
<1>6. BoxOK(calls[c].loop)
  BY <1>1, <1>2, BoxEffects DEF boxVars
<1> QED
  BY <1>1, <1>4, <1>5, <1>6

LEMMA RestartUnhooksStep ==
  ASSUME LoopsInv, NEW c \in CallSlots, RestartUnhooks(c)
  PROVE  LoopsInv'
<1> DEFINE op == calls[c]
           L == calls[c].loop
           new == [op EXCEPT !.pc = "session"]
           r == rec[L]
<1>1. /\ op.kind = "restart" /\ op.pc = "abort" /\ Unhooks(c) /\ created' = created
      /\ calls' = [calls EXCEPT ![c].pc = "session"]
  BY DEF RestartUnhooks, Waiting, Goto
<1>2. /\ op \in ControlOp /\ OpOK(op) /\ L \in Names /\ Serving /\ op.session = 0
      /\ calls \in [CallSlots -> ControlOp] /\ created \in Nat /\ created <= MaxSessions
  BY <1>1, Operates DEF InPlugin
<1>3. "session" \in Waits
  BY DEF Waits
<1>4. /\ RegistryFits /\ RecFits(L, r) /\ BoxOK(L)
      /\ rec' = rec /\ managed' = managed /\ doubtful' = doubtful /\ plugin' = plugin
  BY <1>1, Unhooking
<1>5. /\ calls' = [calls EXCEPT ![c] = new] /\ new \in ControlOp /\ new.kind = op.kind /\ new.pc = "session"
      /\ new.loop = L /\ new.session = 0 /\ new.old = op.old
  BY <1>1, <1>2, <1>3, OpGoes DEF ControlOp
<1>6. OpOK(new) /\ ~Boxless(new)
  BY <1>1, <1>2, <1>5 DEF OpOK, Boxless
<1>7. ~Decides(op)
  BY <1>1 DEF Decides
<1>8. L \in managed' \ doubtful' => r.stored
  BY <1>2, <1>4, <1>7, Decided
<1> HIDE DEF new, r
<1> QED
  BY <1>1, <1>2, <1>4, <1>5, <1>6, <1>8, OpKeeps

LEMMA TuiRestartThrowsStep ==
  ASSUME LoopsInv, NEW c \in CallSlots, TuiRestartThrows(c)
  PROVE  LoopsInv'
<1> DEFINE op == calls[c]
           L == calls[c].loop
           r == rec[L]
<1>1. /\ op.kind = "tui_restart" /\ op.pc = "abort" /\ Unhooks(c)
      /\ created' \in {created} \cup ({created + 1} \cap SessionIds)
      /\ calls' = [calls EXCEPT ![c] = NoOp]
  BY DEF TuiRestartThrows, Waiting, Finish
<1>2. /\ op \in ControlOp /\ OpOK(op) /\ L \in Names /\ created \in Nat /\ created <= MaxSessions
  BY <1>1, Operates
<1>3. created' \in {created, created + 1} /\ created' <= MaxSessions
  BY <1>1, <1>2, Constants DEF SessionIds
<1>4. /\ RegistryFits /\ RecFits(L, r) /\ BoxOK(L)
      /\ rec' = rec /\ managed' = managed /\ doubtful' = doubtful /\ plugin' = plugin
  BY <1>1, Unhooking
<1>5. ~Decides(op)
  BY <1>1 DEF Decides
<1>6. L \in managed' \ doubtful' => r.stored
  BY <1>2, <1>4, <1>5, Decided
<1>7. NoOp.old.session = 0
  BY DEF NoOp, NoRec
<1>8. op.pc # "free"
  BY <1>1
<1> HIDE DEF r
<1> QED
  BY <1>1, <1>2, <1>3, <1>4, <1>6, <1>7, <1>8, NoOpTyped, OpKeeps

LEMMA LaunchSessionStep ==
  ASSUME LoopsInv, NEW c \in CallSlots, LaunchSession(c)
  PROVE  LoopsInv'
<1> DEFINE op == calls[c]
           L == calls[c].loop
           worktree == calls[c].old.worktree
<1>1. PICK s \in SessionIds : /\ SessionCreated(s)
                              /\ Stored(L, [Started(s, worktree, FALSE) EXCEPT !.sandbox = TRUE])
  BY DEF LaunchSession
<1> DEFINE r == [Started(s, worktree, FALSE) EXCEPT !.sandbox = TRUE]
<1>2. /\ op.kind = "launch" /\ op.pc = "session" /\ calls' = [calls EXCEPT ![c] = NoOp]
      /\ UNCHANGED <<containers, managed, doubtful, plugin>>
  BY DEF LaunchSession, Waiting, Finish, boxVars
<1>3. op \in ControlOp /\ OpOK(op) /\ L \in Names /\ worktree \in BOOLEAN /\ op.pc # "free"
  BY <1>2, Operates DEF ControlOp, LoopRecord
<1>4. /\ Fresh(L, s, L) /\ s = created + 1 /\ created' = created + 1 /\ created' <= MaxSessions /\ s # 0
      /\ plugin.boot[L].session # s /\ created \in Nat
  BY <1>1, <1>3, Fresher
<1>5. BoxOK(L)
  BY <1>2, <1>3, BoxEffects DEF boxVars
<1>6. r \in LoopRecord /\ r.session = s /\ r.stored
  <2>1. /\ Started(s, worktree, FALSE) \in LoopRecord
        /\ Started(s, worktree, FALSE).session = s /\ Started(s, worktree, FALSE).stored
    BY <1>3, StartedTyped
  <2> QED
    BY <2>1 DEF LoopRecord
<1>7. /\ rec' = [rec EXCEPT ![L] = r] /\ registered' = [registered EXCEPT ![s] = L]
      /\ unhooked' = unhooked
  BY <1>1, <1>6 DEF Stored
<1>8. registered'[s] = L /\ RegistryFits
  BY <1>3, <1>4, <1>7, Registers
<1>9. RecFits(L, r)
  BY <1>4, <1>6, <1>7, <1>8 DEF RecFits
<1>10. NoOp.old.session = 0
  BY DEF NoOp, NoRec
<1> HIDE DEF r
<1> QED
  BY <1>2, <1>3, <1>4, <1>5, <1>6, <1>8, <1>9, <1>10, NoOpTyped, OpKeeps

\* The confirmed cancel writes back what it has read of its loop.
LEMMA CliCancelStep ==
  ASSUME LoopsInv, NEW c \in CallSlots, CliCancelConfirmed(c)
  PROVE  LoopsInv'
<1> DEFINE op == calls[c]
           L == calls[c].loop
           ended == [op.old EXCEPT !.active = FALSE, !.reason = "stopped"]
<1>1. /\ op.kind = "cli_cancel" /\ op.pc = "confirm" /\ calls' = [calls EXCEPT ![c] = NoOp]
      /\ rec' = IF rec[L].stored THEN [rec EXCEPT ![L] = ended] ELSE rec
      /\ UNCHANGED <<registered, unhooked, created, containers, managed, doubtful, plugin>>
  BY DEF CliCancelConfirmed, Waiting, Finish, boxVars
<1>2. /\ op \in ControlOp /\ OpOK(op) /\ L \in Names /\ op.pc # "free"
      /\ (op.old.session # 0 => NamedBy(L, op.old.session))
      /\ created \in Nat /\ created <= MaxSessions
  BY <1>1, Operates
<1>3. BoxOK(L) /\ RegistryFits
  BY <1>1, <1>2, BoxEffects, RegistryAsIs DEF boxVars
<1>4. ended \in LoopRecord /\ ended.stored /\ ~ended.active /\ ended.session = op.old.session
  <2>1. op.old \in LoopRecord /\ op.old.stored
    BY <1>1, <1>2 DEF ControlOp, OpOK
  <2> QED
    BY <2>1 DEF LoopRecord
<1>5. NoOp.old.session = 0
  BY DEF NoOp, NoRec
<1>6. ~Decides(op)
  BY <1>1 DEF Decides
<1>7. L \in managed' \ doubtful' => rec[L].stored
  BY <1>1, <1>2, <1>6, Decided
<1>8. PICK r : RecFits(L, r) /\ (L \in managed' \ doubtful' => r.stored)
  <2>1. CASE rec[L].stored
    <3> HIDE DEF ended
    <3>1. RecFits(L, ended)
      BY <1>1, <1>2, <1>4, <2>1 DEF RecFits, SessionIds
    <3> QED
      BY <1>4, <3>1
  <2>2. CASE ~rec[L].stored
    <3>1. RecFits(L, rec[L])
      BY <1>1, <1>2, <1>3, <2>2, RecAsIs
    <3> QED
      BY <1>7, <3>1
  <2> QED
    BY <2>1, <2>2
<1> HIDE DEF ended
<1> QED
  BY <1>1, <1>2, <1>3, <1>5, <1>8, NoOpTyped, OpKeeps

-----------------------------------------------------------------------------
(* The steps that begin an operation                                       *)

\* An operation that begins and changes no record.
LEMMA OnlyBegins ==
  ASSUME LoopsInv, NEW op \in ControlOp, NEW L \in Names, op.loop = L, OpOK(op), BeginOp(op),
         UNCHANGED <<storeVars, created, containers, managed, plugin>>,
         Serving \/ op.kind \notin InPlugin,
         Boxless(op) => ~rec[L].stored,
         op.session = 0, op.old.session \in {0, rec[L].session}
  PROVE  LoopsInv'
<1> DEFINE r == rec[L]
<1>1. r \in LoopRecord /\ rec' = [rec EXCEPT ![L] = r] /\ registered \in [SessionIds -> 0 .. MaxNames]
  BY DEF LoopsInv, ControlTypeOK, storeVars
<1>2. /\ registered' = registered /\ unhooked' = unhooked /\ created' = created
      /\ UNCHANGED <<containers, managed, plugin, unhooked, created>>
  BY DEF storeVars
<1>3. r.session = rec[L].session /\ (rec[L].stored => r.stored)
      /\ (r.stored /\ r.active => rec[L].active /\ rec[L].stored /\ registered' = registered)
  BY <1>2
<1> HIDE DEF r
<1> QED
  BY <1>1, <1>2, <1>3, BeginKeeps

\* An operation that has only begun is in order.
LEMMA OpBegins ==
  ASSUME NEW op \in ControlOp, op.loop \in Names, op.session = 0, op.pc \notin {"free", "start"},
         op.kind \in {"restart", "tui_restart"} /\ op.pc = "abort" => op.old.session # 0,
         op.kind = "cli_cancel" => op.old.stored
  PROVE  OpOK(op) /\ (Boxless(op) => op.kind = "setup")
BY DEF OpOK, Boxless

LEMMA NewBegins ==
  ASSUME LoopsInv, NEW worktree \in BOOLEAN, SetupBegins(worktree) \/ LaunchBegins(worktree)
  PROVE  LoopsInv'
<1>1. UNCHANGED <<storeVars, created, containers, managed, plugin>>
  BY DEF SetupBegins, LaunchBegins
<1>2. ASSUME NEW L \in Names, NEW new \in ControlOp, FreeName(L), BeginOp(new),
             new.kind = "launch" \/ Serving, new.pc = "session", new.loop = L, new.session = 0,
             new.old.session = 0, new.kind \in {"setup", "launch"}
      PROVE  LoopsInv'
  <2>1. OpOK(new)
    BY <1>2, OpBegins
  <2>2. ~rec[L].stored /\ (Serving \/ new.kind \notin InPlugin)
    BY <1>2 DEF FreeName, InPlugin
  <2> QED
    BY <1>1, <1>2, <2>1, <2>2, OnlyBegins
<1>3. "session" \in Waits /\ "launch" \in CallKinds /\ \A L \in Names : L \in 0 .. MaxNames
  BY DEF CallKinds, Waits, Names
<1>4. CASE SetupBegins(worktree)
  <2> DEFINE new(L) == [NoOp EXCEPT !.loop = L, !.old.worktree = worktree, !.pc = "session"]
  <2>1. PICK L \in Names : FreeName(L) /\ BeginOp(new(L))
    BY <1>4 DEF SetupBegins
  <2>2. new(L) \in ControlOp
    BY <1>3, NoOpTyped DEF ControlOp, LoopRecord
  <2>3. /\ new(L).kind = "setup" /\ new(L).pc = "session" /\ new(L).loop = L /\ new(L).session = 0
        /\ new(L).old.session = 0
    BY DEF NoOp, NoRec
  <2>4. Serving
    BY <1>4 DEF SetupBegins
  <2> HIDE DEF new
  <2> QED
    BY <1>2, <2>1, <2>2, <2>3, <2>4
<1>5. CASE LaunchBegins(worktree)
  <2> DEFINE new(L) == [NoOp EXCEPT !.kind = "launch", !.loop = L, !.old.worktree = worktree,
                                    !.pc = "session"]
  <2>1. PICK L \in Names : FreeName(L) /\ BeginOp(new(L))
    BY <1>5 DEF LaunchBegins
  <2>2. new(L) \in ControlOp
    BY <1>3, NoOpTyped DEF ControlOp, LoopRecord
  <2>3. /\ new(L).kind = "launch" /\ new(L).pc = "session" /\ new(L).loop = L /\ new(L).session = 0
        /\ new(L).old.session = 0
    BY DEF NoOp, NoRec
  <2> HIDE DEF new
  <2> QED
    BY <1>2, <2>1, <2>2, <2>3
<1> QED
  BY <1>4, <1>5

LEMMA ActiveNamed ==
  ASSUME LoopsInv, NEW l \in Names, ActiveRec(l)
  PROVE  rec[l] \in LoopRecord /\ rec[l].stored /\ rec[l].session \in SessionIds /\ rec[l].session # 0
BY DEF LoopsInv, ControlTypeOK, ResolveInv, RecOK, ActiveRec, SessionIds

LEMMA LoopBegins ==
  ASSUME LoopsInv, NEW l \in Names, RestartBegins(l) \/ TuiRestartBegins(l) \/ CliCancelBegins(l)
  PROVE  LoopsInv'
<1>0. UNCHANGED <<storeVars, created, containers, managed, plugin>> /\ rec[l] \in LoopRecord
  BY DEF RestartBegins, TuiRestartBegins, CliCancelBegins, LoopsInv, ControlTypeOK
<1>5. rec[l].session \in 0 .. MaxSessions /\ rec[l].worktree \in BOOLEAN /\ l \in 0 .. MaxNames
      /\ {"abort", "session", "confirm"} \subseteq Waits
  BY <1>0 DEF LoopRecord, Names, Waits
<1>1. CASE RestartBegins(l)
  <2> DEFINE pc == IF rec[l].active THEN "abort" ELSE "session"
             new == [NoOp EXCEPT !.kind = "restart", !.loop = l, !.old.session = rec[l].session,
                                 !.old.worktree = rec[l].worktree, !.pc = pc]
  <2>1. BeginOp(new) /\ Serving /\ rec[l].stored
    BY <1>1 DEF RestartBegins
  <2>2. pc \in Waits /\ pc \notin {"free", "start"} /\ (pc = "abort" => rec[l].active)
    BY <1>5
  <2> HIDE DEF pc
  <2>3. "restart" \in CallKinds
    BY DEF CallKinds
  <2>4. new \in ControlOp
    BY <1>5, <2>2, <2>3, NoOpTyped DEF ControlOp, LoopRecord
  <2>5. /\ new.kind = "restart" /\ new.pc = pc /\ new.loop = l /\ new.session = 0
        /\ new.old.session = rec[l].session
    BY DEF NoOp, NoRec
  <2> HIDE DEF new
  <2>6. new.pc = "abort" => new.old.session # 0
    BY <2>1, <2>2, <2>5, ActiveNamed DEF ActiveRec
  <2>7. OpOK(new) /\ ~Boxless(new)
    BY <2>2, <2>4, <2>5, <2>6, OpBegins
  <2> QED
    BY <1>0, <2>1, <2>4, <2>5, <2>7, OnlyBegins
<1>2. CASE TuiRestartBegins(l)
  <2> DEFINE new == [NoOp EXCEPT !.kind = "tui_restart", !.loop = l, !.pc = "abort",
                                 !.old.session = rec[l].session]
  <2>1. BeginOp(new) /\ rec[l].session # 0
    BY <1>2, ActiveNamed DEF TuiRestartBegins
  <2>3. "tui_restart" \in CallKinds /\ "tui_restart" \notin InPlugin
    BY DEF CallKinds, InPlugin
  <2>4. new \in ControlOp
    BY <1>5, <2>3, NoOpTyped DEF ControlOp, LoopRecord
  <2>5. /\ new.kind = "tui_restart" /\ new.pc = "abort" /\ new.loop = l /\ new.session = 0
        /\ new.old.session = rec[l].session
    BY DEF NoOp, NoRec
  <2> HIDE DEF new
  <2>7. OpOK(new) /\ ~Boxless(new)
    BY <2>1, <2>4, <2>5, OpBegins
  <2> QED
    BY <1>0, <2>1, <2>3, <2>4, <2>5, <2>7, OnlyBegins
<1>3. CASE CliCancelBegins(l)
  <2> DEFINE new == [NoOp EXCEPT !.kind = "cli_cancel", !.loop = l, !.old = rec[l], !.pc = "confirm"]
  <2>1. BeginOp(new) /\ rec[l].stored
    BY <1>3, ActiveNamed DEF CliCancelBegins
  <2>3. "cli_cancel" \in CallKinds /\ "cli_cancel" \notin InPlugin
    BY DEF CallKinds, InPlugin
  <2>4. new \in ControlOp
    BY <1>0, <1>5, <2>3, NoOpTyped DEF ControlOp
  <2>5. /\ new.kind = "cli_cancel" /\ new.pc = "confirm" /\ new.loop = l /\ new.session = 0
        /\ new.old = rec[l]
    BY DEF NoOp
  <2> HIDE DEF new
  <2>7. OpOK(new) /\ ~Boxless(new)
    BY <2>1, <2>4, <2>5, OpBegins
  <2> QED
    BY <1>0, <2>1, <2>3, <2>4, <2>5, <2>7, OnlyBegins
<1> QED
  BY <1>1, <1>2, <1>3

-----------------------------------------------------------------------------
(* The steps that only write a record or create a session                  *)

LEMMA RecKeeps ==
  ASSUME LoopsInv, NEW L \in Names, NEW r \in LoopRecord, rec' = [rec EXCEPT ![L] = r],
         rec[L].stored => r.stored,
         UNCHANGED <<calls, containers, managed, doubtful, plugin, unhooked>>,
         created' \in {created, created + 1}, created' <= MaxSessions,
         registered' \in [SessionIds -> 0 .. MaxNames],
         r.session = rec[L].session \/ Fresh(L, r.session, L),
         \A m \in Names, s \in SessionIds : NamedBy(m, s) /\ registered[s] = m =>
           \/ registered'[s] = m \/ s \in unhooked'
           \/ m = L /\ ActiveRec(L) /\ s = rec[L].session /\ (r.stored /\ r.active => r.session # s),
         r.stored /\ r.active =>
           /\ r.session \in SessionIds /\ (registered'[r.session] = L \/ r.session \in unhooked')
           /\ plugin.boot[L].stored => r.session # plugin.boot[L].session
  PROVE  LoopsInv'
<1>1. created \in Nat /\ NamedBy(L, rec[L].session)
  BY DEF LoopsInv, ControlTypeOK, NamedBy
<1>2. created' \in 0 .. MaxSessions /\ rec' \in [Names -> LoopRecord]
  BY <1>1, Constants DEF LoopsInv, ControlTypeOK
<1>3. ControlTypeOK'
  BY <1>2 DEF LoopsInv, ControlTypeOK
<1>4. \A l \in Names : rec[l].stored => rec'[l].stored
  BY DEF LoopsInv, ControlTypeOK
<1>5. (\A d \in CallSlots : OpOK(calls'[d])) /\ Met' /\ DownInv' /\ BoxInv'
  BY <1>4, RecStep
<1>6. /\ \A l \in Names, s \in SessionIds, d \in CallSlots :
            calls'[d].loop = l /\ (calls'[d].session = s \/ calls'[d].old.session = s)
              => NamedBy(l, s) \/ Fresh(l, s, L)
      /\ \A l \in Names, d \in CallSlots :
            calls'[d].loop = l /\ calls'[d].session # 0 =>
              \/ calls[d].loop = l /\ calls[d].session = calls'[d].session
              \/ Fresh(l, calls'[d].session, L)
      /\ r.session \in SessionIds => NamedBy(L, r.session) \/ Fresh(L, r.session, L)
      /\ plugin'.boot = plugin.boot /\ unhooked \subseteq unhooked'
  BY <1>1 DEF NamedBy
<1>7. ResolveInv'
  BY <1>6, ResolveStep
<1> QED
  BY <1>3, <1>5, <1>7, Together

\* A loop that ends, whether its session is taken from the registry or not.
LEMMA Ends ==
  ASSUME NEW r0 \in LoopRecord, NEW reason \in {"completed", "stopped"}
  PROVE  LET r == [r0 EXCEPT !.active = FALSE, !.reason = reason] IN
           r \in LoopRecord /\ ~r.active /\ r.stored = r0.stored /\ r.session = r0.session
BY DEF LoopRecord

LEMMA LoopTerminatesStep ==
  ASSUME LoopsInv, NEW l \in Names, NEW reason \in {"completed", "stopped"}, LoopTerminates(l, reason)
  PROVE  LoopsInv'
<1> DEFINE r == [rec[l] EXCEPT !.active = FALSE, !.reason = reason]
           s0 == rec[l].session
<1>1. rec \in [Names -> LoopRecord] /\ ActiveRec(l) /\ Serving
      /\ rec[l] \in LoopRecord /\ rec[l].stored /\ s0 \in SessionIds
      /\ registered \in [SessionIds -> 0 .. MaxNames] /\ created <= MaxSessions
  BY ActiveNamed DEF LoopTerminates, LoopsInv, ControlTypeOK
<1>2. r \in LoopRecord /\ ~r.active /\ r.stored = rec[l].stored /\ r.session = s0
  BY <1>1, Ends
<1>3. rec' = [rec EXCEPT ![l] = r]
  BY <1>1 DEF LoopTerminates, Ended
<1>4. registered' = [registered EXCEPT ![s0] = 0] /\ UNCHANGED <<unhooked, created, containers, managed, plugin>>
  BY DEF LoopTerminates
<1>5. 0 \in 0 .. MaxNames
  BY Constants
<1>6. registered' \in [SessionIds -> 0 .. MaxNames]
  BY <1>1, <1>4, <1>5
<1>7. \A m \in Names, s \in SessionIds : NamedBy(m, s) /\ registered[s] = m =>
        registered'[s] = m \/ (m = l /\ s = s0)
  <2> SUFFICES ASSUME NEW m \in Names, NEW s \in SessionIds, NamedBy(m, s), registered[s] = m
               PROVE  registered'[s] = m \/ (m = l /\ s = s0)
    OBVIOUS
  <2>1. CASE s # s0
    BY <1>1, <1>4, <2>1
  <2>2. CASE s = s0
    <3>1. NamedBy(l, s)
      BY <2>2 DEF NamedBy
    <3> QED
      BY <2>2, <3>1 DEF LoopsInv, ResolveInv, SessionsOK
  <2> QED
    BY <2>1, <2>2
<1>8. CASE rec[l].sandbox /\ rec[l].boxed
  <2> DEFINE new == [NoOp EXCEPT !.kind = "end", !.loop = l, !.pc = "abort"]
  <2>1. BeginOp(new)
    BY <1>8 DEF LoopTerminates
  <2>2. "abort" \in Waits /\ "end" \in CallKinds /\ l \in 0 .. MaxNames
    BY DEF Waits, CallKinds, Names
  <2>3. new \in ControlOp
    BY <2>2, NoOpTyped DEF ControlOp
  <2>4. new.kind = "end" /\ new.pc = "abort" /\ new.loop = l /\ new.session = 0 /\ new.old.session = 0
    BY DEF NoOp, NoRec
  <2> HIDE DEF new, r
  <2>5. OpOK(new) /\ ~Boxless(new)
    BY <2>3, <2>4, OpBegins
  <2>6. UNCHANGED <<containers, managed, plugin, unhooked, created>>
    BY <1>4
  <2>7. \A m \in Names, s \in SessionIds : NamedBy(m, s) /\ registered[s] = m =>
           \/ registered'[s] = m
           \/ m = l /\ ActiveRec(l) /\ s = rec[l].session /\ ~r.active
    BY <1>1, <1>2, <1>7
  <2> QED
    BY <1>1, <1>2, <1>3, <1>6, <2>1, <2>3, <2>4, <2>5, <2>6, <2>7, BeginKeeps
<1>9. CASE ~(rec[l].sandbox /\ rec[l].boxed)
  <2>1. UNCHANGED <<calls, containers, managed, doubtful, plugin, unhooked>> /\ created' = created
    BY <1>4, <1>9 DEF LoopTerminates
  <2> HIDE DEF r
  <2> QED
    BY <1>1, <1>2, <1>3, <1>6, <1>7, <2>1, RecKeeps
<1> QED
  BY <1>8, <1>9

LEMMA TuiCancelsStep ==
  ASSUME LoopsInv, NEW l \in Names, TuiCancels(l)
  PROVE  LoopsInv'
<1> DEFINE r == [rec[l] EXCEPT !.active = FALSE, !.reason = "stopped"]
<1>1. rec[l] \in LoopRecord /\ registered \in [SessionIds -> 0 .. MaxNames] /\ created <= MaxSessions
  BY DEF LoopsInv, ControlTypeOK
<1>2. r \in LoopRecord /\ ~r.active /\ r.stored = rec[l].stored /\ r.session = rec[l].session
  BY <1>1, Ends
<1>3. rec' = [rec EXCEPT ![l] = r]
  BY <1>1 DEF TuiCancels, Ended, LoopsInv, ControlTypeOK
<1>4. /\ UNCHANGED <<calls, containers, managed, doubtful, plugin, unhooked>>
      /\ created' = created /\ registered' = registered
  BY DEF TuiCancels, boxVars
<1> HIDE DEF r
<1> QED
  BY <1>1, <1>2, <1>3, <1>4, RecKeeps

LEMMA RestartThrowsStep ==
  ASSUME LoopsInv, NEW l \in Names, RestartThrows(l)
  PROVE  LoopsInv'
<1>1. PICK s \in SessionIds : SessionCreated(s)
  BY DEF RestartThrows
<1>2. /\ UNCHANGED <<calls, containers, managed, doubtful, plugin, unhooked>>
      /\ rec' = rec /\ registered' = registered
  BY DEF RestartThrows, boxVars, storeVars
<1>3. /\ rec[l] \in LoopRecord /\ rec' = [rec EXCEPT ![l] = rec[l]] /\ registered \in [SessionIds -> 0 .. MaxNames]
  BY <1>2 DEF LoopsInv, ControlTypeOK
<1>4. created' = created + 1 /\ created' <= MaxSessions
  BY <1>1, Fresher
<1>5. RecFits(l, rec[l])
  BY <1>2, RegistryAsIs, RecAsIs
<1>6. rec[l].stored /\ rec[l].active =>
        /\ rec[l].session \in SessionIds /\ (registered'[rec[l].session] = l \/ rec[l].session \in unhooked')
        /\ plugin.boot[l].stored => rec[l].session # plugin.boot[l].session
  BY <1>5 DEF RecFits
<1> QED
  BY <1>2, <1>3, <1>4, <1>6, RecKeeps

LEMMA LoopRotatesStep ==
  ASSUME LoopsInv, NEW l \in Names, LoopRotates(l)
  PROVE  LoopsInv'
<1> DEFINE s0 == rec[l].session
<1>1. PICK n \in SessionIds : /\ SessionCreated(n)
                              /\ rec' = [rec EXCEPT ![l].session = n]
                              /\ registered' = [registered EXCEPT ![s0] = 0, ![n] = l]
  BY DEF LoopRotates
<1> DEFINE r == [rec[l] EXCEPT !.session = n]
<1>2. /\ rec \in [Names -> LoopRecord] /\ ActiveRec(l)
      /\ rec[l] \in LoopRecord /\ rec[l].stored /\ s0 \in SessionIds
      /\ registered \in [SessionIds -> 0 .. MaxNames]
  BY ActiveNamed DEF LoopRotates, LoopsInv, ControlTypeOK
<1>3. /\ Fresh(l, n, l) /\ n = created + 1 /\ created' = created + 1 /\ created' <= MaxSessions /\ n # 0
      /\ plugin.boot[l].session # n /\ created \in Nat
  BY <1>1, Fresher
<1>4. n \in 0 .. MaxSessions /\ 0 \in 0 .. MaxNames /\ l \in 0 .. MaxNames
  BY Constants DEF SessionIds, Names
<1>5. r \in LoopRecord /\ r.session = n /\ r.stored = rec[l].stored
  BY <1>2, <1>4 DEF LoopRecord
<1>6. rec' = [rec EXCEPT ![l] = r] /\ registered' \in [SessionIds -> 0 .. MaxNames]
  BY <1>1, <1>2, <1>4
<1>7. registered'[n] = l
  BY <1>1, <1>2
<1>8. \A m \in Names, s \in SessionIds : NamedBy(m, s) /\ registered[s] = m =>
        registered'[s] = m \/ (m = l /\ s = s0 /\ s # n)
  <2> SUFFICES ASSUME NEW m \in Names, NEW s \in SessionIds, NamedBy(m, s), registered[s] = m
               PROVE  registered'[s] = m \/ (m = l /\ s = s0 /\ s # n)
    OBVIOUS
  <2>1. s # n
    <3>1. s <= created
      BY DEF LoopsInv, ResolveInv, SessionsOK
    <3> QED
      BY <1>3, <3>1
  <2>2. CASE s # s0
    BY <1>1, <1>2, <2>1, <2>2
  <2>3. CASE s = s0
    <3>1. NamedBy(l, s)
      BY <2>3 DEF NamedBy
    <3> QED
      BY <2>1, <2>3, <3>1 DEF LoopsInv, ResolveInv, SessionsOK
  <2> QED
    BY <2>2, <2>3
<1>9. UNCHANGED <<calls, containers, managed, doubtful, plugin, unhooked>>
  BY DEF LoopRotates, boxVars
<1>10. \A m \in Names, s \in SessionIds : NamedBy(m, s) /\ registered[s] = m =>
           \/ registered'[s] = m \/ s \in unhooked'
           \/ m = l /\ ActiveRec(l) /\ s = rec[l].session /\ (r.stored /\ r.active => r.session # s)
  BY <1>2, <1>5, <1>8
<1>11. r.stored /\ r.active =>
         /\ r.session \in SessionIds /\ (registered'[r.session] = l \/ r.session \in unhooked')
         /\ plugin.boot[l].stored => r.session # plugin.boot[l].session
  BY <1>3, <1>5, <1>7
<1>12. r.session = rec[l].session \/ Fresh(l, r.session, l)
  BY <1>3, <1>5
<1>13. created' \in {created, created + 1} /\ created' <= MaxSessions
  BY <1>3
<1> HIDE DEF r
<1> QED
  BY <1>2, <1>5, <1>6, <1>9, <1>10, <1>11, <1>12, <1>13, RecKeeps

-----------------------------------------------------------------------------
(* The steps of the plugin's life                                          *)

\* No session is created, none changes its owner.
LEMMA LifeResolves ==
  ASSUME LoopsInv, UNCHANGED <<registered, unhooked, created>>,
         \A c \in CallSlots : calls'[c] = calls[c] \/ calls'[c] = NoOp,
         \A l \in Names : rec'[l].session \in {rec[l].session, plugin.boot[l].session},
         \A l \in Names : plugin'.boot[l].session \in {0, rec[l].session, plugin.boot[l].session},
         \A l \in Names : RecOK(l)', \A l \in Names : BootOK(l)'
  PROVE  ResolveInv'
<1>1. \A l \in Names : NoOp.loop # l
  BY NoOpTyped DEF Names
<1>2. ASSUME NEW l \in Names, NEW s \in SessionIds, NamedBy(l, s)' PROVE NamedBy(l, s)
  <2>1. CASE rec'[l].session = s
    BY <2>1 DEF NamedBy
  <2>2. CASE plugin'.boot[l].session = s
    BY <2>2 DEF NamedBy, SessionIds
  <2>3. CASE \E c \in CallSlots : calls'[c].loop = l /\ (calls'[c].session = s \/ calls'[c].old.session = s)
    BY <1>1, <2>3 DEF NamedBy
  <2> QED
    BY <1>2, <2>1, <2>2, <2>3 DEF NamedBy
<1>3. SessionsOK'
  BY <1>2 DEF LoopsInv, ResolveInv, SessionsOK
<1> QED
  BY <1>3 DEF ResolveInv

\* Neither records nor operations change, and no loop is newly to be restored.
LEMMA OnlyBoxes ==
  ASSUME LoopsInv, UNCHANGED <<rec, registered, unhooked, created, calls>>, plugin'.boot = plugin.boot
  PROVE  ResolveInv' /\ \A d \in CallSlots : OpOK(calls'[d])
<1>1. \A l \in Names : RecOK(l)' /\ BootOK(l)'
  BY DEF LoopsInv, ResolveInv, RecOK, BootOK, Resolves, ActiveRec
<1> QED
  BY <1>1, LifeResolves DEF LoopsInv

LEMMA CloseBeginsStep ==
  ASSUME LoopsInv, CloseBegins
  PROVE  LoopsInv'
<1>1. /\ UNCHANGED <<rec, registered, unhooked, created, calls, containers, managed, doubtful>>
      /\ plugin.state = "up" /\ plugin'.state = "closing" /\ plugin'.boot = plugin.boot
      /\ plugin'.list \subseteq Names
      /\ plugin' \in [state : {"up", "closing", "down", "listing", "removing", "restoring"},
                      boot : [Names -> LoopRecord], list : SUBSET Names]
  BY DEF CloseBegins, storeVars, boxVars, LoopsInv, ControlTypeOK
<1>2. ControlTypeOK'
  BY <1>1 DEF LoopsInv, ControlTypeOK
<1>3. ResolveInv' /\ \A d \in CallSlots : OpOK(calls'[d])
  BY <1>1, OnlyBoxes
<1>4. Met' /\ DownInv'
  BY <1>1 DEF LoopsInv, Met, DownInv
<1>5. BoxInv'
  BY <1>1 DEF LoopsInv, BoxInv, Serving, Booting, Busy
<1> QED
  BY <1>2, <1>3, <1>4, <1>5, Together

LEMMA CloseStopsStep ==
  ASSUME LoopsInv, NEW L \in Names, CloseStops(L)
  PROVE  LoopsInv'
<1>1. /\ UNCHANGED <<rec, registered, unhooked, created, calls>> /\ BoxStops(L)
      /\ plugin.state = "closing" /\ plugin'.state = "closing" /\ plugin'.boot = plugin.boot
      /\ plugin' \in [state : {"up", "closing", "down", "listing", "removing", "restoring"},
                      boot : [Names -> LoopRecord], list : SUBSET Names]
  BY DEF CloseStops, storeVars, LoopsInv, ControlTypeOK
<1>2. /\ managed' = managed \ {L} /\ containers' \subseteq containers /\ containers \subseteq containers' \cup {L}
      /\ doubtful \subseteq doubtful' /\ doubtful' \subseteq Names
      /\ L \in containers' => L \in doubtful'
  BY <1>1 DEF BoxStops, LoopsInv, ControlTypeOK
<1>3. ControlTypeOK'
  BY <1>1, <1>2 DEF LoopsInv, ControlTypeOK
<1>4. ResolveInv' /\ \A d \in CallSlots : OpOK(calls'[d])
  BY <1>1, OnlyBoxes
<1>5. Met' /\ DownInv'
  BY <1>1, <1>2 DEF LoopsInv, Met, DownInv
<1>6. BoxInv'
  <2>1. managed' \subseteq containers'
    BY <1>2 DEF LoopsInv, BoxInv
  <2>2. \A l \in containers' \ managed' : l \in doubtful'
    BY <1>1, <1>2 DEF LoopsInv, BoxInv, Serving, Booting
  <2>3. \A l \in managed' \ doubtful' : rec'[l].stored \/ Busy(l)'
    BY <1>1, <1>2 DEF LoopsInv, BoxInv, Busy
  <2>4. \A d \in CallSlots : Boxless(calls'[d]) /\ calls'[d].loop \in managed' => calls'[d].loop \in doubtful'
    BY <1>1, <1>2 DEF LoopsInv, BoxInv
  <2> QED
    BY <1>1, <2>1, <2>2, <2>3, <2>4 DEF BoxInv
<1> QED
  BY <1>3, <1>4, <1>5, <1>6, Together

LEMMA ShutDowns ==
  ASSUME LoopsInv, NEW l \in Names
  PROVE  /\ ShutDown \in [Names -> LoopRecord] /\ ShutDown[l].session = rec[l].session
         /\ ShutDown[l].stored = rec[l].stored /\ ~(ShutDown[l].stored /\ ShutDown[l].active)
<1>1. ASSUME NEW m \in Names
      PROVE  LET r == [rec[m] EXCEPT !.active = FALSE, !.reason = "stopped"] IN
               r \in LoopRecord /\ ~r.active /\ r.stored = rec[m].stored /\ r.session = rec[m].session
  <2>1. rec[m] \in LoopRecord
    BY DEF LoopsInv, ControlTypeOK
  <2> QED
    BY <2>1, Ends
<1>2. ShutDown \in [Names -> LoopRecord]
  BY <1>1 DEF ShutDown, LoopsInv, ControlTypeOK
<1>3. /\ ShutDown[l].session = rec[l].session
      /\ ShutDown[l].stored = rec[l].stored /\ ~(ShutDown[l].stored /\ ShutDown[l].active)
  <2>1. CASE ActiveRec(l)
    BY <1>1, <2>1 DEF ShutDown
  <2>2. CASE ~ActiveRec(l)
    BY <2>2 DEF ShutDown, ActiveRec
  <2> QED
    BY <2>1, <2>2
<1> QED
  BY <1>2, <1>3

LEMMA GoneStep ==
  ASSUME LoopsInv, CloseEnds \/ Crash
  PROVE  LoopsInv'
<1>1. /\ plugin' = Life("down") /\ managed' = {}
      /\ calls' = [c \in 1 .. MaxCalls |-> IF calls[c].kind \in InPlugin THEN NoOp ELSE calls[c]]
      /\ UNCHANGED <<registered, unhooked, created, containers, doubtful>>
      /\ rec' = rec \/ rec' = ShutDown
  BY DEF CloseEnds, Crash, ProcessGone
<1>2. /\ plugin'.state = "down" /\ plugin'.list = {} /\ \A l \in Names : plugin'.boot[l] = NoRec
      /\ plugin' \in [state : {"up", "closing", "down", "listing", "removing", "restoring"},
                      boot : [Names -> LoopRecord], list : SUBSET Names]
  BY <1>1, NoOpTyped DEF Life
<1>3. \A c \in CallSlots : /\ calls'[c] = calls[c] \/ calls'[c] = NoOp
                           /\ calls'[c].kind \in InPlugin => calls'[c] = NoOp
  BY <1>1 DEF CallSlots
<1>4. calls' \in [CallSlots -> ControlOp]
  <2>1. \A c \in CallSlots : calls[c] \in ControlOp
    BY OpTyped
  <2> QED
    BY <1>1, <2>1, NoOpTyped DEF CallSlots
<1>5. /\ rec' \in [Names -> LoopRecord]
      /\ \A l \in Names : rec'[l].session = rec[l].session /\ (ActiveRec(l)' => rec'[l] = rec[l])
  <2>1. CASE rec' = rec
    BY <2>1 DEF LoopsInv, ControlTypeOK
  <2>2. CASE rec' = ShutDown
    <3>1. \A l \in Names : ~ActiveRec(l)'
      BY <2>2, ShutDowns DEF ActiveRec
    <3>2. ShutDown \in [Names -> LoopRecord]
      <4>1. CASE Names = {}
        BY <4>1 DEF ShutDown
      <4>2. CASE Names # {}
        BY <4>2, ShutDowns
      <4> QED
        BY <4>1, <4>2
    <3> QED
      BY <2>2, <3>1, <3>2, ShutDowns
  <2> QED
    BY <1>1, <2>1, <2>2
<1>6. ControlTypeOK'
  BY <1>1, <1>2, <1>4, <1>5 DEF LoopsInv, ControlTypeOK, CallSlots, ControlOp
<1>7. \A d \in CallSlots : OpOK(calls'[d])
  BY <1>3, NoOpTyped DEF LoopsInv
<1>8. Met' /\ DownInv'
  <2>1. \A c \in CallSlots : calls'[c].loop \in Names => calls'[c] = calls[c]
    BY <1>3, NoOpTyped DEF Names
  <2> QED
    BY <1>1, <1>3, <2>1 DEF LoopsInv, Met, DownInv
<1>9. BoxInv'
  BY <1>1, <1>2 DEF LoopsInv, BoxInv, Serving
<1>10. ASSUME NEW l \in Names PROVE RecOK(l)' /\ BootOK(l)'
  <2>1. RecOK(l)'
    BY <1>1, <1>5 DEF LoopsInv, ResolveInv, RecOK, Resolves, ActiveRec
  <2>2. BootOK(l)'
    BY <1>2 DEF BootOK, NoRec
  <2> QED
    BY <2>1, <2>2
<1>11. \A l \in Names : plugin'.boot[l].session = 0
  BY <1>2 DEF NoRec
<1>12. ResolveInv'
  BY <1>1, <1>3, <1>5, <1>10, <1>11, LifeResolves
<1> QED
  BY <1>6, <1>7, <1>8, <1>9, <1>12, Together

LEMMA BootStep ==
  ASSUME LoopsInv, Boot
  PROVE  LoopsInv'
<1>1. /\ plugin.state = "down" /\ rec' = ShutDown /\ plugin'.state = "listing" /\ plugin'.list = {}
      /\ UNCHANGED <<registered, unhooked, created, containers, managed, doubtful, calls>>
      /\ managed = {}
  BY DEF Boot, boxVars, LoopsInv, DownInv
<1>2. \A l \in Names : plugin'.boot[l] = IF ActiveRec(l) /\ rec[l].sandbox THEN rec[l] ELSE NoRec
  BY DEF Boot
<1>3. \A l \in Names : rec'[l].session = rec[l].session /\ ~ActiveRec(l)'
  BY <1>1, ShutDowns DEF ActiveRec
<1>4. ControlTypeOK'
  <2>1. rec' \in [Names -> LoopRecord]
    <3>1. CASE Names = {}
      BY <1>1, <3>1 DEF ShutDown
    <3>2. CASE Names # {}
      BY <1>1, <3>2, ShutDowns
    <3> QED
      BY <3>1, <3>2
  <2>2. [l \in Names |-> IF ActiveRec(l) /\ rec[l].sandbox THEN rec[l] ELSE NoRec] \in [Names -> LoopRecord]
    BY NoOpTyped DEF LoopsInv, ControlTypeOK
  <2>3. plugin' \in [state : {"up", "closing", "down", "listing", "removing", "restoring"},
                      boot : [Names -> LoopRecord], list : SUBSET Names]
    BY <2>2 DEF Boot
  <2> QED
    BY <1>1, <2>1, <2>3 DEF LoopsInv, ControlTypeOK
<1>5. \A d \in CallSlots : OpOK(calls'[d])
  BY <1>1 DEF LoopsInv
<1>6. Met' /\ DownInv' /\ BoxInv'
  BY <1>1 DEF LoopsInv, Met, DownInv, BoxInv, Booting
<1>7. ASSUME NEW c \in CallSlots PROVE calls[c].session = 0
  <2>1. OpOK(calls[c])
    BY OpTyped
  <2>2. CASE calls[c].kind \in InPlugin
    BY <1>1, <1>7, <2>2, NoOpTyped DEF LoopsInv, DownInv
  <2>3. CASE calls[c].kind \notin InPlugin
    BY <2>1, <2>3 DEF OpOK, InPlugin
  <2> QED
    BY <2>2, <2>3
<1>8. ASSUME NEW l \in Names PROVE RecOK(l)' /\ BootOK(l)'
  <2>1. RecOK(l)'
    BY <1>3 DEF RecOK
  <2>2. CASE ActiveRec(l) /\ rec[l].sandbox
    <3>1. plugin'.boot[l] = rec[l] /\ rec[l].stored /\ rec[l].active
      BY <1>2, <2>2 DEF ActiveRec
    <3>2. rec[l].session \in SessionIds /\ rec[l].session # 0
      BY <2>2, ActiveNamed
    <3>3. Resolves(l, rec[l].session)
      BY <2>2, <3>2 DEF LoopsInv, ResolveInv, RecOK
    <3>4. Resolves(l, plugin.boot[l].session)' <=> Resolves(l, rec[l].session)
      BY <1>1, <3>1 DEF Resolves
    <3> QED
      BY <1>1, <1>3, <1>7, <2>1, <3>1, <3>2, <3>3, <3>4 DEF BootOK
  <2>3. CASE ~(ActiveRec(l) /\ rec[l].sandbox)
    <3>1. plugin'.boot[l] = NoRec
      BY <1>2, <2>3
    <3> QED
      BY <2>1, <3>1 DEF BootOK, NoRec
  <2> QED
    BY <2>2, <2>3
<1>9. \A l \in Names : plugin'.boot[l].session \in {0, rec[l].session}
  BY <1>2 DEF NoRec
<1>10. ResolveInv'
  BY <1>1, <1>3, <1>8, <1>9, LifeResolves
<1> QED
  BY <1>4, <1>5, <1>6, <1>10, Together

LEMMA BootListsStep ==
  ASSUME LoopsInv, NEW answers \in BOOLEAN, BootLists(answers)
  PROVE  LoopsInv'
<1>1. /\ UNCHANGED <<rec, registered, unhooked, created, calls, containers, managed>>
      /\ plugin'.state = "removing" /\ plugin'.boot = plugin.boot /\ plugin'.list \subseteq Names
      /\ containers \ plugin'.list \subseteq doubtful'
      /\ doubtful \subseteq doubtful' /\ doubtful' \subseteq Names
      /\ plugin' \in [state : {"up", "closing", "down", "listing", "removing", "restoring"},
                      boot : [Names -> LoopRecord], list : SUBSET Names]
  <2>1. CASE answers
    BY <2>1 DEF BootLists, storeVars, LoopsInv, ControlTypeOK
  <2>2. CASE ~answers
    BY <2>2 DEF BootLists, storeVars, LoopsInv, ControlTypeOK
  <2> QED
    BY <2>1, <2>2
<1>2. ControlTypeOK'
  BY <1>1 DEF LoopsInv, ControlTypeOK
<1>3. ResolveInv' /\ \A d \in CallSlots : OpOK(calls'[d])
  BY <1>1, OnlyBoxes
<1>4. Met' /\ DownInv'
  BY <1>1 DEF LoopsInv, Met, DownInv
<1>5. BoxInv'
  <2>1. \A l \in managed' \ doubtful' : rec'[l].stored \/ Busy(l)'
    BY <1>1 DEF LoopsInv, BoxInv, Busy
  <2>2. \A d \in CallSlots : Boxless(calls'[d]) /\ calls'[d].loop \in managed' => calls'[d].loop \in doubtful'
    BY <1>1 DEF LoopsInv, BoxInv
  <2> QED
    BY <1>1, <2>1, <2>2 DEF LoopsInv, BoxInv, Booting
<1> QED
  BY <1>2, <1>3, <1>4, <1>5, Together

LEMMA BootCleansStep ==
  ASSUME LoopsInv, BootCleans
  PROVE  LoopsInv'
<1>1. PICK removed \in SUBSET (plugin.list \ Preserved) :
        /\ containers' = containers \ removed
        /\ doubtful' = doubtful \cup ((plugin.list \ Preserved) \ removed)
  BY DEF BootCleans
<1>2. /\ UNCHANGED <<rec, registered, unhooked, created, calls>>
      /\ plugin.state = "removing" /\ plugin'.boot = plugin.boot /\ managed' = managed \cap Preserved
      /\ plugin'.state = IF Preserved = {} THEN "up" ELSE "restoring"
      /\ plugin' \in [state : {"up", "closing", "down", "listing", "removing", "restoring"},
                      boot : [Names -> LoopRecord], list : SUBSET Names]
  BY DEF BootCleans, storeVars, LoopsInv, ControlTypeOK
<1>3. plugin.list \subseteq Names
  BY DEF LoopsInv, ControlTypeOK
<1>4. ControlTypeOK'
  BY <1>1, <1>2, <1>3 DEF LoopsInv, ControlTypeOK
<1>5. ResolveInv' /\ \A d \in CallSlots : OpOK(calls'[d])
  BY <1>2, OnlyBoxes
<1>6. Met' /\ DownInv'
  BY <1>1, <1>2 DEF LoopsInv, Met, DownInv
<1>7. BoxInv'
  <2>1. managed' \subseteq containers'
    BY <1>1, <1>2 DEF LoopsInv, BoxInv
  <2>2. Preserved' = Preserved
    BY <1>2 DEF Preserved
  <2>3. \A l \in containers' \ managed' : \/ l \in doubtful'
                                          \/ plugin'.state = "restoring" /\ l \in Preserved'
    <3> SUFFICES ASSUME NEW l \in containers', l \notin managed', l \notin doubtful'
                 PROVE  plugin'.state = "restoring" /\ l \in Preserved'
      OBVIOUS
    <3>1. l \in plugin.list
      BY <1>1, <1>2 DEF LoopsInv, BoxInv
    <3>2. l \in Preserved
      BY <1>1, <3>1
    <3> QED
      BY <1>2, <2>2, <3>2
  <2>4. \A l \in managed' \ doubtful' : rec'[l].stored \/ Busy(l)'
    BY <1>1, <1>2 DEF LoopsInv, BoxInv, Busy
  <2>5. \A d \in CallSlots : Boxless(calls'[d]) /\ calls'[d].loop \in managed' => calls'[d].loop \in doubtful'
    BY <1>1, <1>2 DEF LoopsInv, BoxInv
  <2>6. plugin'.state # "removing"
    BY <1>2
  <2> QED
    BY <2>1, <2>3, <2>4, <2>5, <2>6 DEF BoxInv
<1> QED
  BY <1>4, <1>5, <1>6, <1>7, Together

LEMMA RestoresStep ==
  ASSUME LoopsInv, NEW L \in Names, Restores(L)
  PROVE  LoopsInv'
<1> DEFINE back == plugin.boot[L]
<1>1. /\ UNCHANGED <<registered, unhooked, created, calls>> /\ plugin.state = "restoring" /\ L \in Preserved
      /\ plugin'.boot = [plugin.boot EXCEPT ![L] = NoRec]
      /\ plugin'.state = IF Preserved = {L} THEN "up" ELSE "restoring"
      /\ plugin.boot \in [Names -> LoopRecord] /\ plugin.list \subseteq Names
  BY DEF Restores, LoopsInv, ControlTypeOK
<1>2. /\ plugin'.boot[L] = NoRec /\ \A l \in Names : l # L => plugin'.boot[l] = plugin.boot[l]
      /\ plugin' \in [state : {"up", "closing", "down", "listing", "removing", "restoring"},
                      boot : [Names -> LoopRecord], list : SUBSET Names]
  <2>1. plugin'.boot \in [Names -> LoopRecord]
    BY <1>1, NoOpTyped
  <2>2. plugin' = [plugin EXCEPT !.boot = plugin'.boot, !.state = plugin'.state]
    BY <1>1 DEF Restores, LoopsInv, ControlTypeOK
  <2> QED
    BY <1>1, <2>1, <2>2 DEF LoopsInv, ControlTypeOK
<1>3. /\ \/ /\ rec' = [rec EXCEPT ![L] = back]
            /\ managed' = managed \cup {L}
            /\ \A c \in CallSlots : calls[c].loop = L => L \in doubtful'
         \/ rec' = rec /\ managed' = managed
      /\ containers \subseteq containers' /\ containers' \subseteq containers \cup {L}
      /\ doubtful \subseteq doubtful' /\ doubtful' \subseteq doubtful \cup {L}
      /\ L \in managed' => L \in containers'
      /\ L \in containers' \ managed' => L \in doubtful'
  <2>1. \A c \in CallSlots : calls[c].loop = L => \E d \in 1 .. MaxCalls : calls[d].loop = L
    BY DEF CallSlots
  <2>2. managed \subseteq containers
    BY DEF LoopsInv, BoxInv
  <2> QED
    BY <2>1, <2>2 DEF Restores, BoxFails, boxVars
<1>4. BootOK(L) /\ back.stored
  BY <1>1 DEF LoopsInv, ResolveInv, Preserved
<1>5. back \in LoopRecord /\ rec \in [Names -> LoopRecord]
  BY <1>1 DEF LoopsInv, ControlTypeOK
<1>6. /\ rec' \in [Names -> LoopRecord]
      /\ \A l \in Names : l # L => rec'[l] = rec[l]
      /\ rec'[L] = rec[L] \/ rec'[L] = back
      /\ \A l \in Names : rec[l].stored => rec'[l].stored
  BY <1>3, <1>4, <1>5
<1>7. ControlTypeOK'
  BY <1>1, <1>2, <1>3, <1>6 DEF LoopsInv, ControlTypeOK
<1>8. \A d \in CallSlots : OpOK(calls'[d])
  BY <1>1 DEF LoopsInv
<1>9. Met' /\ DownInv'
  BY <1>1, <1>3 DEF LoopsInv, Met, DownInv
<1>10. BoxInv'
  <2>1. managed' \subseteq containers'
    BY <1>3 DEF LoopsInv, BoxInv
  <2>2. \A l \in containers' \ managed' : \/ l \in doubtful'
                                          \/ plugin'.state = "restoring" /\ l \in Preserved'
    <3> SUFFICES ASSUME NEW l \in containers', l \notin managed', l \notin doubtful'
                 PROVE  plugin'.state = "restoring" /\ l \in Preserved'
      OBVIOUS
    <3>1. l # L /\ l \in containers \ managed /\ l \in Names
      BY <1>3 DEF LoopsInv, ControlTypeOK
    <3>2. l \in Preserved
      BY <1>1, <1>3, <3>1 DEF LoopsInv, BoxInv, Serving, Booting
    <3> QED
      BY <1>1, <1>2, <3>1, <3>2 DEF Preserved
  <2>3. \A l \in managed' \ doubtful' : rec'[l].stored \/ Busy(l)'
    <3> SUFFICES ASSUME NEW l \in managed', l \notin doubtful' PROVE rec'[l].stored \/ Busy(l)'
      OBVIOUS
    <3>1. CASE l \in managed
      <4>1. l \in Names /\ (rec[l].stored \/ Busy(l))
        BY <1>3, <3>1 DEF LoopsInv, ControlTypeOK, BoxInv
      <4> QED
        BY <1>1, <1>6, <4>1 DEF Busy
    <3>2. CASE l \notin managed
      BY <1>3, <1>4, <1>5, <3>2
    <3> QED
      BY <3>1, <3>2
  <2>4. \A d \in CallSlots : Boxless(calls'[d]) /\ calls'[d].loop \in managed' => calls'[d].loop \in doubtful'
    BY <1>1, <1>3 DEF LoopsInv, BoxInv
  <2>5. plugin'.state # "removing"
    BY <1>1
  <2> QED
    BY <2>1, <2>2, <2>3, <2>4, <2>5 DEF BoxInv
<1>11. ASSUME NEW l \in Names PROVE RecOK(l)' /\ BootOK(l)'
  <2>1. RecOK(l) /\ BootOK(l)
    BY DEF LoopsInv, ResolveInv
  <2>2. CASE l # L
    BY <1>1, <1>2, <1>6, <2>1, <2>2 DEF RecOK, BootOK, Resolves, ActiveRec
  <2>3. CASE l = L
    <3>1. BootOK(l)'
      BY <1>2, <2>3 DEF BootOK, NoRec
    <3>2. CASE rec'[L] = rec[L]
      BY <1>1, <2>1, <2>3, <3>1, <3>2 DEF RecOK, Resolves, ActiveRec
    <3>3. CASE rec'[L] = back
      <4>1. Resolves(L, back.session) /\ back.session \in SessionIds
        BY <1>4 DEF BootOK, Resolves
      <4> QED
        BY <1>1, <2>3, <3>1, <3>3, <4>1 DEF RecOK, Resolves
    <3> QED
      BY <1>6, <3>2, <3>3
  <2> QED
    BY <2>2, <2>3
<1>12. \A l \in Names : rec'[l].session \in {rec[l].session, plugin.boot[l].session}
  BY <1>6
<1>13. \A l \in Names : plugin'.boot[l].session \in {0, plugin.boot[l].session}
  BY <1>2 DEF NoRec
<1>14. ResolveInv'
  BY <1>1, <1>11, <1>12, <1>13, LifeResolves
<1> QED
  BY <1>7, <1>8, <1>9, <1>10, <1>14, Together

-----------------------------------------------------------------------------
LEMMA ControlStarts ==
  ASSUME ControlInit
  PROVE  LoopsInv
<1>1. /\ \A l \in Names : rec[l] = NoRec /\ plugin.boot[l] = NoRec
      /\ \A c \in CallSlots : calls[c] = NoOp
      /\ plugin.state = "up" /\ plugin.list = {} /\ containers = {} /\ managed = {}
  BY DEF ControlInit, Life, CallSlots
<1>2. ControlTypeOK
  <2>1. rec \in [Names -> LoopRecord] /\ calls \in [CallSlots -> ControlOp]
    BY NoOpTyped DEF ControlInit, CallSlots
  <2>2. plugin \in [state : {"up", "closing", "down", "listing", "removing", "restoring"},
                    boot : [Names -> LoopRecord], list : SUBSET Names]
    BY NoOpTyped DEF ControlInit, Life
  <2>3. 0 \in 0 .. MaxNames /\ 0 \in 0 .. MaxSessions
    BY Constants
  <2> QED
    BY <2>1, <2>2, <2>3 DEF ControlInit, ControlTypeOK, CallSlots, ControlOp
<1>3. \A c \in CallSlots : OpOK(calls[c])
  BY <1>1, NoOpTyped
<1>4. Met /\ DownInv /\ BoxInv
  <2>1. \A c \in CallSlots : calls[c].loop \notin Names
    BY <1>1, NoOpTyped DEF Names
  <2> QED
    BY <1>1, <2>1 DEF Met, DownInv, BoxInv
<1>5. ResolveInv
  <2>1. NoRec.session = 0 /\ NoOp.session = 0 /\ NoOp.old.session = 0 /\ ~NoRec.stored
    BY DEF NoRec, NoOp
  <2>2. \A l \in Names, s \in SessionIds : ~NamedBy(l, s)
    BY <1>1, <2>1 DEF NamedBy, SessionIds
  <2> QED
    BY <1>1, <2>1, <2>2 DEF ResolveInv, SessionsOK, RecOK, BootOK, ActiveRec
<1> QED
  BY <1>2, <1>3, <1>4, <1>5 DEF LoopsInv

LEMMA ControlStutters ==
  ASSUME LoopsInv, UNCHANGED controlVars
  PROVE  LoopsInv'
<1>1. /\ UNCHANGED <<rec, registered, unhooked, created, calls, containers, managed, doubtful, plugin>>
  BY DEF controlVars
<1>2. ResolveInv' /\ \A d \in CallSlots : OpOK(calls'[d])
  BY <1>1, OnlyBoxes
<1>3. ControlTypeOK' /\ Met' /\ DownInv'
  BY <1>1 DEF LoopsInv, ControlTypeOK, Met, DownInv
<1>4. BoxInv'
  BY <1>1 DEF LoopsInv, BoxInv, Serving, Booting, Preserved, Busy
<1> QED
  BY <1>2, <1>3, <1>4, Together

LEMMA ControlStep ==
  ASSUME LoopsInv, ControlNext
  PROVE  LoopsInv'
<1>1. CASE \E worktree \in BOOLEAN : SetupBegins(worktree) \/ LaunchBegins(worktree)
  BY <1>1, NewBegins
<1>2. ASSUME NEW l \in Names,
             \/ \E reason \in {"completed", "stopped"} : LoopTerminates(l, reason)
             \/ LoopRotates(l) \/ RestartBegins(l) \/ TuiCancels(l) \/ TuiRestartBegins(l)
             \/ RestartThrows(l) \/ CliCancelBegins(l) \/ CloseStops(l) \/ Restores(l)
      PROVE  LoopsInv'
  BY <1>2, LoopTerminatesStep, LoopRotatesStep, LoopBegins, TuiCancelsStep, RestartThrowsStep,
     CloseStopsStep, RestoresStep
<1>3. ASSUME NEW c \in 1 .. MaxCalls,
             \/ SetupSession(c) \/ SetupBoxed(c) \/ SetupBoxRefused(c) \/ SessionRefused(c)
             \/ PromptAccepted(c) \/ PromptRefused(c) \/ PromptUndone(c) \/ LoopCleaned(c)
             \/ RestartUnhooks(c) \/ RestartSession(c) \/ RestartBoxed(c) \/ RestartBoxRefused(c)
             \/ LaunchSession(c) \/ TuiRestartThrows(c) \/ CliCancelConfirmed(c)
      PROVE  LoopsInv'
  <2>1. c \in CallSlots
    BY DEF CallSlots
  <2> QED
    BY <1>3, <2>1, SetupSessionStep, SetupBoxedStep, FinishSteps, PromptRefusedStep, RestartUnhooksStep,
       RestartSessionStep, RestartBoxedStep, LaunchSessionStep, TuiRestartThrowsStep, CliCancelStep
<1>4. CASE CloseBegins \/ CloseEnds \/ Crash \/ Boot \/ BootCleans
  BY <1>4, CloseBeginsStep, GoneStep, BootStep, BootCleansStep
<1>5. CASE \E answers \in BOOLEAN : BootLists(answers)
  BY <1>5, BootListsStep
<1> QED
  BY <1>1, <1>2, <1>3, <1>4, <1>5 DEF ControlNext

(***************************************************************************)
(* No active loop is out of reach of its idle events and of its            *)
(* cancellation, whatever starts, rotations, restarts, cancels, crashes    *)
(* and boots overlap (tools/loop.ts, hooks/loop.ts, index.ts, tui.tsx):    *)
(* its session leads to it, unless a restart has unhooked that session.    *)
(***************************************************************************)
THEOREM LoopsAlwaysResolve == ControlSpec => [](ControlTypeOK /\ LoopsResolve)
<1>1. ControlInit => LoopsInv
  BY ControlStarts
<1>2. LoopsInv /\ [ControlNext]_controlVars => LoopsInv'
  BY ControlStep, ControlStutters
<1>3. LoopsInv => ControlTypeOK /\ LoopsResolve
  BY DEF LoopsInv, ResolveInv, RecOK, Resolves, LoopsResolve
<1> QED
  BY <1>1, <1>2, <1>3, PTL DEF ControlSpec

(***************************************************************************)
(* No container is lost from sight (sandbox/manager.ts, tools/loop.ts,     *)
(* index.ts): one that runs is in the map unless the plugin is away or     *)
(* booting, one in the map has a record or an operation, except where      *)
(* docker failed or two operations met on its loop.                        *)
(***************************************************************************)
THEOREM ContainersAreAccounted == ControlSpec => []ContainersAccounted
<1>1. ControlInit => LoopsInv
  BY ControlStarts
<1>2. LoopsInv /\ [ControlNext]_controlVars => LoopsInv'
  BY ControlStep, ControlStutters
<1>3. ASSUME LoopsInv PROVE ContainersAccounted
  <2> SUFFICES ASSUME NEW l \in Names
               PROVE  /\ l \in containers \ managed => \/ ~Serving \/ Booting \/ plugin.state = "restoring"
                                                       \/ l \in doubtful
                      /\ l \in managed => \/ rec[l].stored \/ l \in doubtful
                                          \/ \E c \in 1 .. MaxCalls : calls[c].loop = l
    BY DEF ContainersAccounted
  <2>1. l \in containers \ managed => ~Serving \/ Booting \/ plugin.state = "restoring" \/ l \in doubtful
    BY <1>3 DEF LoopsInv, BoxInv
  <2>2. l \in managed => rec[l].stored \/ l \in doubtful \/ \E c \in 1 .. MaxCalls : calls[c].loop = l
    BY <1>3 DEF LoopsInv, BoxInv, Busy, CallSlots
  <2> QED
    BY <2>1, <2>2
<1> QED
  BY <1>1, <1>2, <1>3, PTL DEF ControlSpec
=============================================================================
