---------------------------- MODULE LoopEnding -----------------------------
(***************************************************************************)
(* What becomes of the work when a loop ends (terminateLoop and            *)
(* commitAndCleanupWorktree of hooks/loop.ts, services/worktree-log.ts,    *)
(* loop-cancel of tools/loop.ts).  The session is aborted; then, in one go,*)
(* a completed loop is logged, and the worktree of a completed or a        *)
(* cancelled one is committed and removed by force; then its graph cache   *)
(* and its container go, and the outcome is recorded.  loop-cancel may     *)
(* remove the worktree once more.  A phase handler that read the state     *)
(* before an end writes it back or ends the loop again, and a loop that    *)
(* has ended may be restarted before its end is over.                      *)
(*                                                                         *)
(* Work is a set of edits.  An edit is in the worktree, on the branch, or  *)
(* lost.                                                                   *)
(***************************************************************************)
EXTENDS Naturals, FiniteSetsExt

CONSTANTS MaxEdits,   \* bounds the edits of the session
          MaxEnds     \* bounds the calls of terminateLoop

Ends == 1 .. MaxEnds

VARIABLES active,      \* the loop's row says active
          mapping,     \* its session resolves to it
          session,     \* "works" or "stopped"
          handler,     \* a phase handler waits for the server
          endings,     \* the calls of terminateLoop
          cancelling,  \* the call loop-cancel waits for, and how it was heard
          worktreeDir, \* "there" or "removed"
          uncommitted, branch, lost,  \* the edits
          endBox, graphCache, logged, \* its container, cache and log entries
          excuse       \* what has gone wrong around the work

workVars == <<worktreeDir, uncommitted, branch, lost>>
aroundVars == <<endBox, graphCache, logged>>
endingVars == <<active, mapping, session, handler, endings, cancelling, workVars, aroundVars,
                excuse>>

NoEnding == [pc |-> "free", reason |-> "none", own |-> FALSE]  \* own: of the present session
NoCancel == [of |-> 0, heard |-> "nobody"]
Interruptions == {"user_aborted", "worktree_failed", "stall_timeout"}
Verdicts == {"completed", "max_iterations", "error_max_retries"}
Edits == uncommitted \cup branch \cup lost

EndingInit ==
  /\ active = TRUE /\ mapping = TRUE /\ session = "works" /\ handler = FALSE
  /\ endings = [e \in Ends |-> NoEnding] /\ cancelling = NoCancel
  /\ worktreeDir = "there" /\ uncommitted = {} /\ branch = {} /\ lost = {}
  /\ endBox = "on" /\ graphCache = "there" /\ logged = {} /\ excuse = {}

Alive == \E e \in Ends : endings[e].pc = "free"
Turns(e, pc) == [endings EXCEPT ![e].pc = pc]
Disowned == [e \in Ends |-> [endings[e] EXCEPT !.own = FALSE]]
Begun == {e \in Ends : endings[e].pc # "free"}

-----------------------------------------------------------------------------
(* The session and the phase handlers                                      *)

SessionEdits ==
  /\ session = "works" /\ worktreeDir = "there" /\ Cardinality(Edits) < MaxEdits
  /\ uncommitted' = uncommitted \cup {Cardinality(Edits) + 1}
  /\ UNCHANGED <<active, mapping, session, handler, endings, cancelling, worktreeDir, branch,
                 lost, aroundVars, excuse>>

HandlerStarts ==
  /\ active /\ mapping /\ ~handler /\ Alive
  /\ handler' = TRUE
  /\ UNCHANGED <<active, mapping, session, endings, cancelling, workVars, aroundVars, excuse>>

(* The handler writes its snapshot back and prompts; a rotation registers  *)
(* the new session.                                                        *)
HandlerGoesOn(rotates) ==
  /\ handler /\ handler' = FALSE
  /\ active' = TRUE /\ mapping' = (mapping \/ rotates)
  /\ session' = "works" /\ endings' = IF rotates THEN Disowned ELSE endings
  /\ excuse' = IF active THEN excuse ELSE excuse \cup {"revived"}
  /\ UNCHANGED <<cancelling, workVars, aroundVars>>

-----------------------------------------------------------------------------
(* terminateLoop                                                           *)

(* Its first part: the loop is inactive and its session is told to stop.   *)
EndBegins(e, reason) ==
  /\ endings[e].pc = "free" /\ \A d \in 1 .. e - 1 : endings[d].pc # "free"
  /\ endings' = [endings EXCEPT ![e] = [pc |-> "aborting", reason |-> reason, own |-> TRUE]]
  /\ active' = FALSE /\ mapping' = FALSE
  /\ UNCHANGED <<session, workVars, aroundVars>>

HandlerEnds(e, reason) ==
  /\ handler /\ handler' = FALSE
  /\ EndBegins(e, reason)
  /\ UNCHANGED <<cancelling, excuse>>

Interrupted(e, reason) ==
  /\ active /\ (reason = "user_aborted" => mapping)
  /\ EndBegins(e, reason)
  /\ UNCHANGED <<handler, cancelling, excuse>>

(* loop-cancel waits for cancelBySessionId, which does nothing for a       *)
(* session it cannot resolve.                                              *)
CancelCalled(e) ==
  /\ active /\ cancelling = NoCancel
  /\ IF mapping
     THEN EndBegins(e, "cancelled") /\ cancelling' = [of |-> e, heard |-> "heard"]
     ELSE /\ cancelling' = [of |-> 0, heard |-> "unheard"]
          /\ UNCHANGED <<active, mapping, session, endings, workVars, aroundVars>>
  /\ UNCHANGED <<handler, excuse>>

(* add, status and commit of commitAndCleanupWorktree: works unless git    *)
(* refuses, which is logged and no more.                                   *)
Committed(works) ==
  IF works /\ worktreeDir = "there" THEN branch \cup uncommitted ELSE branch

(* git worktree remove -f, which also takes what is not committed.         *)
Removed(removes) == removes /\ worktreeDir = "there"

(* Where the log goes: nowhere if logging is off or has no directory, and  *)
(* to no file if the directory cannot be made or written.                  *)
LogTargets == {"none", "unwritable", "directory"}

(* writeWorktreeCompletionLog of a completed loop.                         *)
LogWrites(e, target) ==
  IF endings[e].reason = "completed" /\ target = "directory" THEN logged \cup {e} ELSE logged

(* The session has answered the abort, or not; the rest is synchronous up  *)
(* to the import before the cache is deleted.                              *)
EndAborted(e, stops, target, commits, removes) ==
  LET cleans == endings[e].reason \in {"completed", "cancelled"}
      kept == IF cleans THEN Committed(commits) ELSE branch
      gone == cleans /\ Removed(removes)
      left == uncommitted \ kept
  IN  /\ endings[e].pc = "aborting"
      /\ session' = IF stops /\ endings[e].own THEN "stopped" ELSE session
      /\ logged' = LogWrites(e, target)
      /\ branch' = kept
      /\ worktreeDir' = IF gone THEN "removed" ELSE worktreeDir
      /\ uncommitted' = IF gone THEN {} ELSE left
      /\ lost' = IF gone THEN lost \cup left ELSE lost
      /\ endings' = Turns(e, IF gone THEN "clearing" ELSE "stopping")
      /\ excuse' = excuse \cup {x \in {"commit"} : cleans /\ ~commits}
                          \cup {x \in {"running"} : session' = "works"}
      /\ UNCHANGED <<active, mapping, handler, cancelling, endBox, graphCache>>

EndClears(e) ==
  /\ endings[e].pc = "clearing"
  /\ graphCache' = "deleted" /\ endings' = Turns(e, "stopping")
  /\ UNCHANGED <<active, mapping, session, handler, cancelling, workVars, endBox, logged, excuse>>

(* The container is stopped, or is not; the outcome is an event of         *)
(* Telemetry.                                                              *)
EndFinishes(e, stops) ==
  /\ endings[e].pc = "stopping"
  /\ endBox' = IF stops THEN "off" ELSE endBox
  /\ endings' = Turns(e, "over")
  /\ UNCHANGED <<active, mapping, session, handler, cancelling, workVars, graphCache, logged,
                 excuse>>

(* Mistake: the tool does not wait for the cancel.                         *)
CancelCleansAtOnce(removes) ==
  /\ cancelling.heard \in {"unheard", "heard"}
  /\ cancelling' = [cancelling EXCEPT !.heard = "over"]
  /\ IF Removed(removes)
     THEN /\ worktreeDir' = "removed" /\ graphCache' = "deleted"
          /\ lost' = lost \cup uncommitted /\ uncommitted' = {}
     ELSE UNCHANGED <<worktreeDir, graphCache, lost, uncommitted>>
  /\ UNCHANGED <<active, mapping, session, handler, endings, branch, endBox, logged, excuse>>

(* loop-cancel with cleanupWorktree: removed by force once the cancel has  *)
(* returned, with no commit of its own.                                    *)
CancelCleans(removes) ==
  /\ \/ cancelling.heard = "unheard"
     \/ cancelling.heard = "heard" /\ endings[cancelling.of].pc = "over"
  /\ cancelling' = [cancelling EXCEPT !.heard = "over"]
  /\ IF Removed(removes)
     THEN /\ worktreeDir' = "removed" /\ graphCache' = "deleted"
          /\ lost' = lost \cup uncommitted /\ uncommitted' = {}
     ELSE UNCHANGED <<worktreeDir, graphCache, lost, uncommitted>>
  /\ UNCHANGED <<active, mapping, session, handler, endings, branch, endBox, logged, excuse>>

-----------------------------------------------------------------------------
(* A restart of a loop that has not completed gets a new session; the      *)
(* worktree is taken as it is.                                             *)
LoopRestarts ==
  /\ ~active /\ Begun # {} /\ Alive
  /\ endings[Max(Begun)].reason # "completed"
  /\ active' = TRUE /\ mapping' = TRUE /\ session' = "works"
  /\ endings' = Disowned /\ cancelling' = NoCancel
  /\ UNCHANGED <<handler, workVars, aroundVars, excuse>>

(* The process ends in the middle of anything; the next one takes the row  *)
(* of an active loop for stale.                                            *)
ProcessEnds ==
  /\ active' = FALSE /\ session' = "stopped" /\ handler' = FALSE
  /\ endings' = [e \in Ends |-> IF endings[e].pc = "free" THEN NoEnding
                                ELSE [endings[e] EXCEPT !.pc = "over", !.own = FALSE]]
  /\ cancelling' = NoCancel
  /\ UNCHANGED <<mapping, workVars, aroundVars, excuse>>

EndingNext ==
  \/ SessionEdits \/ HandlerStarts \/ LoopRestarts \/ ProcessEnds
  \/ \E flag \in BOOLEAN : HandlerGoesOn(flag) \/ CancelCleans(flag)
  \/ \E e \in Ends :
       \/ \E reason \in Verdicts : HandlerEnds(e, reason)
       \/ \E reason \in Interruptions : Interrupted(e, reason)
       \/ CancelCalled(e) \/ EndClears(e) \/ \E stops \in BOOLEAN : EndFinishes(e, stops)
       \/ \E stops, commits, removes \in BOOLEAN, target \in LogTargets :
            EndAborted(e, stops, target, commits, removes)

EndingSpec == EndingInit /\ [][EndingNext]_endingVars

-----------------------------------------------------------------------------
(* The variables have their types.                                         *)
EndingTypeOK ==
  /\ {active, mapping, handler} \subseteq BOOLEAN
  /\ \A e \in Ends : endings[e].pc \in {"free", "aborting", "clearing", "stopping", "over"}
  /\ uncommitted \subseteq 1 .. MaxEdits /\ branch \subseteq 1 .. MaxEdits
  /\ logged \subseteq Ends

(***************************************************************************)
(* The end of a loop loses no work by itself (hooks/loop.ts:62-142,        *)
(* tools/loop.ts:456-484): an edit is lost only if git refused a commit    *)
(* and the removal went on, if the session went on after the commit, or if *)
(* a handler had revived the loop; whatever ends it, however often, and    *)
(* wherever the process dies.  And no worktree that is there loses its     *)
(* graph cache.                                                            *)
(***************************************************************************)
WorkKept ==
  /\ lost # {} => excuse # {}
  /\ graphCache = "deleted" => worktreeDir = "removed"
=============================================================================
