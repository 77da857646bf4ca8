---------------------------- MODULE LoopContract ----------------------------
(***************************************************************************)
(* What a loop promises its user, whatever sessions, watchdogs and retries *)
(* it takes: it runs iteration after iteration, one at a time and at most  *)
(* maxIterations of them, until it ends, for good.  Two callbacks may both *)
(* end it; the reason that stays is the later one's.                       *)
(***************************************************************************)
EXTENDS Naturals

CONSTANTS
  MaxIter,  \* maxIterations, 0 for unlimited
  Reason    \* the reasons a loop can end for

VARIABLES st, iter, reason

vars == <<st, iter, reason>>

Init == st = "absent" /\ iter = 0 /\ reason = "none"

Begin ==
  /\ st = "absent" /\ reason = "none"
  /\ st' = "active" /\ iter' = 1
  /\ UNCHANGED reason

(* The first prompt was refused: as if the loop had never been.            *)
Withdraw ==
  /\ st = "active" /\ iter = 1
  /\ st' = "absent" /\ iter' = 0
  /\ UNCHANGED reason

Iterate ==
  /\ st = "active"
  /\ MaxIter = 0 \/ iter < MaxIter
  /\ iter' = iter + 1
  /\ UNCHANGED <<st, reason>>

End ==
  /\ st \in {"active", "ended"}
  /\ st' = "ended"
  /\ reason' \in Reason
  /\ UNCHANGED iter

Spec == Init /\ [][Begin \/ Withdraw \/ Iterate \/ End]_vars
=============================================================================
