------------------------------- MODULE Plans -------------------------------
(***************************************************************************)
(* A plan is written by the muse agent under "plan:<session>" (or, in a    *)
(* session that belongs to a loop, under "plan:<loop name>") and is handed *)
(* over to the forge agent in one of nine ways: the four answers of the    *)
(* approval question (src/src/tools/plan-approval.ts), the plan-execute    *)
(* tool in two forms (src/src/tools/plan-execute.ts), the loop tool        *)
(* (src/src/tools/loop.ts) and the modes of the plan dialog of the TUI     *)
(* (src/src/tui.tsx), which runs in another process and shares the         *)
(* database.  Each way reads the plan, waits for calls to the server and   *)
(* deletes the plan somewhere in between; where it does so decides how     *)
(* often a plan can be started.                                            *)
(*                                                                         *)
(* A plan is a number: every write makes a new one.  MaxPlans bounds the   *)
(* plans in play, MaxWork the handovers under way, MaxLoops the names of   *)
(* loops, and starts are counted up to MaxStarts.                          *)
(***************************************************************************)
EXTENDS Naturals, FiniteSets

CONSTANTS Sessions,   \* sessions of the muse agent
          MaxLoops,   \* names a loop can get: 1 .. MaxLoops
          MaxPlans,   \* plans written
          MaxWork,    \* handovers under way at a time
          MaxStarts   \* starts of a plan that are counted

\* The names of loops are no session ids.
ASSUME PlanAssumption == /\ Sessions \cap (0 .. MaxLoops) = {}
                         /\ {MaxLoops, MaxPlans, MaxWork, MaxStarts} \subseteq Nat

VARIABLES stored,    \* plan:<key> in the project's key-value store
          loops,     \* loop names that are taken
          pending,   \* pendingExecutions of plan-approval.ts
          view,      \* the plan dialog of the TUI
          work,      \* handovers that wait for the server
          starts,    \* how often a plan was sent to the forge agent
          taken      \* whether a plan was taken, and how

planVars == <<stored, loops, pending, view, work, starts, taken>>

LoopNames == 1 .. MaxLoops
Keys == Sessions \cup LoopNames
PlanIds == 1 .. MaxPlans
NoPlan == 0

\* The ways to hand a plan over.
AfterRead == {"here", "execute", "execute_in_place", "approved_loop"}
AfterCreate == {"new", "loop_tool", "tui_new"}
AfterStart == {"tui_loop"}
Never == {"tui_here"}
Via == AfterRead \cup AfterCreate \cup AfterStart \cup Never

\* The ways that end in a loop.
ToLoop == {"approved_loop", "loop_tool", "tui_loop"}

NoWork == [via |-> "here", key |-> 0, plan |-> NoPlan, loop |-> 0, pc |-> "free"]

\* A prompt with the plan is on its way; where it came from matters no more.
Prompting(p) == [NoWork EXCEPT !.plan = p, !.pc = "prompting"]

NoView == [key |-> 0, plan |-> NoPlan]

PlansInit ==
  /\ stored = [k \in Keys |-> NoPlan]
  /\ loops = {}
  /\ pending = [s \in Sessions |-> NoPlan]
  /\ view = NoView
  /\ work = [d \in 1 .. MaxWork |-> NoWork]
  /\ starts = [p \in PlanIds |-> 0]
  /\ taken = [p \in PlanIds |-> "never"]

\* The first number no plan has that is stored, shown or was ever taken.
Unused(p) == /\ taken[p] = "never" /\ view.plan # p
             /\ \A k \in Keys : stored[k] # p

FreshPlan(p) == p \in PlanIds /\ Unused(p) /\ \A q \in 1 .. p - 1 : ~Unused(q)

\* generateUniqueLoopName: the first name no stored loop has.
FreshLoop(l) == l \in LoopNames \ loops /\ \A m \in LoopNames \ loops : l <= m

\* Handover d, in the first slot that is free.
Begin(d, w) ==
  /\ work[d].pc = "free" /\ \A e \in 1 .. d - 1 : work[e].pc # "free"
  /\ work' = [work EXCEPT ![d] = w]

\* Plan p is taken at once, or by a way that leaves it where it is for a while.
Took(p, via) ==
  taken' = [taken EXCEPT ![p] = IF @ = "lingering" \/ via \notin AfterRead
                                  THEN "lingering" ELSE "at_once"]

(***************************************************************************)
(* plan-write and plan-append of a session, or of the session of a loop,   *)
(* and plan-edit of a plan that exists.  A call over the size limit, or an *)
(* edit whose text is not found, changes nothing.                          *)
(***************************************************************************)
PlanWrite(k) ==
  /\ k \in Sessions \cup loops
  /\ \E p \in PlanIds : FreshPlan(p) /\ stored' = [stored EXCEPT ![k] = p]
  /\ UNCHANGED <<loops, pending, view, work, starts, taken>>

PlanEdit(k) ==
  /\ k \in Sessions \cup loops
  /\ stored[k] # NoPlan
  /\ \E p \in PlanIds : FreshPlan(p) /\ stored' = [stored EXCEPT ![k] = p]
  /\ UNCHANGED <<loops, pending, view, work, starts, taken>>

\* A row outlives its time to live and is not answered any more.
PlanExpires(k) ==
  /\ stored[k] # NoPlan
  /\ stored' = [stored EXCEPT ![k] = NoPlan]
  /\ UNCHANGED <<loops, pending, view, work, starts, taken>>

-----------------------------------------------------------------------------
(* The approval question                                                   *)

\* "Execute here": the plan leaves the store and waits for the session to
\* become idle; the abort that follows changes nothing here.
ApproveHere(s) ==
  /\ stored[s] # NoPlan
  /\ pending' = [pending EXCEPT ![s] = stored[s]]
  /\ stored' = [stored EXCEPT ![s] = NoPlan]
  /\ Took(stored[s], "here")
  /\ UNCHANGED <<loops, view, work, starts>>

\* A defect to check the property with: the entry is deleted only after the
\* prompt was sent, which a second idle event can overtake.
IdleKeepsPending(s) ==
  /\ pending[s] # NoPlan
  /\ \E d \in 1 .. MaxWork : Begin(d, Prompting(pending[s]))
  /\ UNCHANGED <<stored, loops, pending, view, starts, taken>>

\* session.status idle: the pending plan is prompted in the same session.
IdleTakesPending(s) ==
  /\ pending[s] # NoPlan
  /\ pending' = [pending EXCEPT ![s] = NoPlan]
  /\ \E d \in 1 .. MaxWork : Begin(d, Prompting(pending[s]))
  /\ UNCHANGED <<stored, loops, view, starts, taken>>

\* "New session": the plan is read and stays in the store.
ApproveNewSession(s) ==
  /\ stored[s] # NoPlan
  /\ \E d \in 1 .. MaxWork :
       Begin(d, [NoWork EXCEPT !.via = "new", !.key = s, !.plan = stored[s],
                               !.pc = "aborting"])
  /\ Took(stored[s], "new")
  /\ UNCHANGED <<stored, loops, pending, view, starts>>

\* "Loop" and "Loop (worktree)": the plan moves to the name of the loop.
ApproveLoop(s) ==
  /\ stored[s] # NoPlan
  /\ \E l \in LoopNames, d \in 1 .. MaxWork :
       /\ FreshLoop(l)
       /\ stored' = [stored EXCEPT ![l] = stored[s], ![s] = NoPlan]
       /\ Begin(d, [via |-> "approved_loop", key |-> s, plan |-> stored[s],
                    loop |-> l, pc |-> "aborting"])
  /\ Took(stored[s], "approved_loop")
  /\ UNCHANGED <<loops, pending, view, starts>>

\* The muse session is stopped, or could not be; setupLoop looks for a name
\* once more.
AbortEnds(d) ==
  /\ work[d].pc = "aborting"
  /\ \/ /\ work[d].via = "new"
        /\ work' = [work EXCEPT ![d].pc = "creating"]
     \/ /\ work[d].via = "approved_loop"
        /\ \E l \in LoopNames :
             FreshLoop(l) /\ work' = [work EXCEPT ![d].pc = "creating", ![d].loop = l]
  /\ UNCHANGED <<stored, loops, pending, view, starts, taken>>

-----------------------------------------------------------------------------
(* The tools plan-execute and loop                                         *)

PlanExecuteInPlace(s) ==
  /\ stored[s] # NoPlan
  /\ stored' = [stored EXCEPT ![s] = NoPlan]
  /\ \E d \in 1 .. MaxWork : Begin(d, Prompting(stored[s]))
  /\ Took(stored[s], "execute_in_place")
  /\ UNCHANGED <<loops, pending, view, starts>>

PlanExecute(s) ==
  /\ stored[s] # NoPlan
  /\ stored' = [stored EXCEPT ![s] = NoPlan]
  /\ \E d \in 1 .. MaxWork :
       Begin(d, [NoWork EXCEPT !.via = "execute", !.key = s, !.plan = stored[s],
                               !.pc = "creating"])
  /\ Took(stored[s], "execute")
  /\ UNCHANGED <<loops, pending, view, starts>>

LoopTool(s) ==
  /\ stored[s] # NoPlan
  /\ \E l \in LoopNames, d \in 1 .. MaxWork :
       /\ FreshLoop(l)
       /\ Begin(d, [via |-> "loop_tool", key |-> s, plan |-> stored[s],
                    loop |-> l, pc |-> "creating"])
  /\ Took(stored[s], "loop_tool")
  /\ UNCHANGED <<stored, loops, pending, view, starts>>

-----------------------------------------------------------------------------
(* The plan dialog of the TUI                                              *)

\* readPlan: the key of a loop's session is the name of the loop.
ViewPlan(k) ==
  /\ k \in Sessions \cup loops
  /\ stored[k] # NoPlan
  /\ view' = [key |-> k, plan |-> stored[k]]
  /\ UNCHANGED <<stored, loops, pending, work, starts, taken>>

\* handleSave: the text of the dialog replaces whatever is stored now.
SaveView ==
  /\ view # NoView
  /\ \E p \in PlanIds : /\ FreshPlan(p)
                        /\ stored' = [stored EXCEPT ![view.key] = p]
                        /\ view' = [view EXCEPT !.plan = p]
  /\ UNCHANGED <<loops, pending, work, starts, taken>>

\* handleExecuteMode: what is shown is sent, whatever is stored.
TuiTakes(via, w) ==
  /\ view # NoView
  /\ view' = NoView
  /\ \E d \in 1 .. MaxWork : Begin(d, w)
  /\ Took(view.plan, via)
  /\ UNCHANGED <<stored, loops, pending, starts>>

Creating(via, l) ==
  [via |-> via, key |-> view.key, plan |-> view.plan, loop |-> l, pc |-> "creating"]

TuiNewSession == TuiTakes("tui_new", Creating("tui_new", 0))
TuiExecuteHere == TuiTakes("tui_here", Prompting(view.plan))
TuiLoop == \E l \in LoopNames : FreshLoop(l) /\ TuiTakes("tui_loop", Creating("tui_loop", l))

-----------------------------------------------------------------------------
(* The answers of the server                                               *)

\* session.create (and worktree.create, sandbox.start) succeeded.  Three ways
\* delete the plan now, by its key; a loop stores the plan under its name and
\* is registered.
Created(d) ==
  LET w == work[d]
      kept == IF w.via \in AfterCreate THEN [stored EXCEPT ![w.key] = NoPlan] ELSE stored
  IN  /\ w.pc = "creating"
      /\ \/ /\ w.via \in ToLoop
            /\ work' = [work EXCEPT ![d].pc = "prompting"]
            /\ stored' = [kept EXCEPT ![w.loop] = w.plan]
            /\ loops' = loops \cup {w.loop}
         \/ /\ w.via \notin ToLoop
            /\ work' = [work EXCEPT ![d] = Prompting(w.plan)]
            /\ stored' = kept
            /\ UNCHANGED loops
      /\ UNCHANGED <<pending, view, starts, taken>>

\* It failed: the handover is over, and a plan deleted before is gone.
CreateFailed(d) ==
  /\ work[d].pc = "creating"
  /\ work' = [work EXCEPT ![d] = NoWork]
  /\ UNCHANGED <<stored, loops, pending, view, starts, taken>>

\* The prompt was accepted.  The TUI deletes the plan of a loop only now.
PlanPrompted(d) ==
  LET w == work[d]
  IN  /\ w.pc = "prompting"
      /\ starts' = [starts EXCEPT ![w.plan] = IF @ < MaxStarts THEN @ + 1 ELSE @]
      /\ work' = [work EXCEPT ![d] = NoWork]
      /\ \/ /\ w.via \in AfterStart
            /\ stored' = [stored EXCEPT ![w.key] = NoPlan]
         \/ /\ w.via \notin AfterStart
            /\ UNCHANGED stored
      /\ UNCHANGED <<loops, pending, view, taken>>

\* Every model refused.  setupLoop deletes the loop it has stored; the TUI
\* leaves its loop behind.
PlanRefused(d) ==
  /\ work[d].pc = "prompting"
  /\ work' = [work EXCEPT ![d] = NoWork]
  /\ \/ /\ work[d].via \in ToLoop \ AfterStart
        /\ loops' = loops \ {work[d].loop}
     \/ /\ work[d].via \notin ToLoop \ AfterStart
        /\ UNCHANGED loops
  /\ UNCHANGED <<stored, pending, view, starts, taken>>

PlansNext ==
  \/ \E k \in Keys : PlanWrite(k) \/ PlanEdit(k) \/ PlanExpires(k) \/ ViewPlan(k)
  \/ \E s \in Sessions :
       \/ ApproveHere(s) \/ IdleTakesPending(s) \/ ApproveNewSession(s) \/ ApproveLoop(s)
       \/ PlanExecuteInPlace(s) \/ PlanExecute(s) \/ LoopTool(s)
  \/ SaveView \/ TuiNewSession \/ TuiExecuteHere \/ TuiLoop
  \/ \E d \in 1 .. MaxWork :
       \/ AbortEnds(d) \/ Created(d) \/ CreateFailed(d) \/ PlanPrompted(d) \/ PlanRefused(d)

PlansSpec == PlansInit /\ [][PlansNext]_planVars

-----------------------------------------------------------------------------
PlansTypeOK ==
  /\ stored \in [Keys -> 0 .. MaxPlans]
  /\ loops \subseteq LoopNames
  /\ pending \in [Sessions -> 0 .. MaxPlans]
  /\ view \in [key : Keys \cup {0}, plan : 0 .. MaxPlans]
  /\ work \in [1 .. MaxWork -> [via : Via, key : Keys \cup {0}, plan : 0 .. MaxPlans,
                                loop : 0 .. MaxLoops,
                                pc : {"free", "aborting", "creating", "prompting"}]]
  /\ starts \in [PlanIds -> 0 .. MaxStarts]
  /\ taken \in [PlanIds -> {"never", "at_once", "lingering"}]

(***************************************************************************)
(* A plan that was approved once is not executed twice: it is sent to the  *)
(* forge agent a second time only if someone took it by one of the ways    *)
(* that leave it in the store, or on the screen, while they wait for the   *)
(* server (plan-approval.ts:108-167, tools/loop.ts:377-410,                *)
(* tui.tsx:510-740); the others delete it in the turn in which they read   *)
(* it, so that duplicated idle events and concurrent answers find nothing. *)
(***************************************************************************)
PlanStartsOnce ==
  \A p \in PlanIds : starts[p] > 1 => taken[p] = "lingering"
=============================================================================
