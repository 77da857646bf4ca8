---------------------------- MODULE LoopControl ----------------------------
(***************************************************************************)
(* Who starts, ends and restarts loops, and what becomes of the records,   *)
(* session mappings and sandbox containers they keep: the loop            *)
(* tools and the engine's terminateLoop inside the plugin, the CLI and the *)
(* TUI, which write the same database from processes of their own, and     *)
(* the start and the end of the plugin (src/src/index.ts).  What a loop    *)
(* does between its start and its end is the module LoopEngine.            *)
(*                                                                         *)
(* An await is a step where the answer matters: the server and docker may   *)
(* refuse, and anybody may act in between.  sandbox.mode is "docker".  MaxNames bounds the     *)
(* loops, MaxSessions the sessions the server creates, MaxCalls the        *)
(* operations under way.                                                   *)
(***************************************************************************)
EXTENDS Naturals

CONSTANTS MaxNames, MaxSessions, MaxCalls

ASSUME ControlAssumption == MaxNames \in Nat /\ MaxSessions \in Nat

VARIABLES rec,         \* loop:<name> in the key-value store
          registered,      \* loop-session:<id>, 0 when there is none
          created,     \* sessions the server has created
          containers,  \* sandbox containers that run
          managed,     \* activeSandboxes of the sandbox manager
          plugin,      \* the life of the plugin's process
          calls,       \* operations under way
          unhooked,    \* sessions whose mapping a restart took away
          doubtful     \* loops two operations met on, or docker failed for

controlVars == <<rec, registered, created, containers, managed, plugin, calls,
                 unhooked, doubtful>>
storeVars == <<rec, registered, unhooked>>
boxVars == <<containers, managed, doubtful>>

Names == 1 .. MaxNames
SessionIds == 1 .. MaxSessions

LoopRecord == [stored : BOOLEAN, active : BOOLEAN, session : 0 .. MaxSessions,
               reason : {"none", "completed", "stopped"},
               sandbox : BOOLEAN, boxed : BOOLEAN, worktree : BOOLEAN]

\* sandbox is LoopState.sandbox, boxed says that sandboxContainerName is set.
NoRec == [stored |-> FALSE, active |-> FALSE, session |-> 0, reason |-> "none",
          sandbox |-> FALSE, boxed |-> FALSE, worktree |-> FALSE]

CallKinds == {"setup", "restart", "end", "launch", "tui_restart", "cli_cancel"}
InPlugin == {"setup", "restart", "end"}
Waits == {"free", "abort", "session", "start", "prompt", "undo", "confirm"}

\* old is what the operation has read of the record before its first await,
\* as far as it uses it afterwards.
NoOp == [kind |-> "setup", pc |-> "free", loop |-> 0, session |-> 0, old |-> NoRec]

\* boot holds the loops to restore, list the containers docker has listed.
Life(state) == [state |-> state, boot |-> [l \in Names |-> NoRec], list |-> {}]

ControlInit ==
  /\ rec = [l \in Names |-> NoRec]
  /\ registered = [s \in SessionIds |-> 0]
  /\ created = 0
  /\ containers = {} /\ managed = {}
  /\ plugin = Life("up")
  /\ calls = [c \in 1 .. MaxCalls |-> NoOp]
  /\ unhooked = {} /\ doubtful = {}

\* The plugin answers tools and events also while it boots and closes.
Serving == plugin.state # "down"
Booting == plugin.state \in {"listing", "removing"}

ActiveRec(l) == rec[l].stored /\ rec[l].active

\* generateUniqueLoopName: the first name without a record.
FreeName(l) == l \in Names /\ ~rec[l].stored /\ \A m \in 1 .. l - 1 : rec[m].stored

\* An operation begins in the first free slot, goes on waiting, is over.
\* Nothing keeps a second one from the same loop, or from the same new name.
BeginOp(op) ==
  /\ \E c \in 1 .. MaxCalls :
       /\ calls[c].pc = "free" /\ \A b \in 1 .. c - 1 : calls[b].pc # "free"
       /\ calls' = [calls EXCEPT ![c] = op]
  /\ doubtful' = IF \E c \in 1 .. MaxCalls : calls[c].loop = op.loop
                   THEN doubtful \cup {op.loop} ELSE doubtful
Goto(c, pc) == calls' = [calls EXCEPT ![c].pc = pc]
Prompts(c) == calls' = [calls EXCEPT ![c].pc = "prompt", ![c].session = 0, ![c].old = NoRec]
Finish(c) == calls' = [calls EXCEPT ![c] = NoOp]
Waiting(c, kinds, pc) == calls[c].kind \in kinds /\ calls[c].pc = pc

\* session.create has answered with a new session, which s names.
SessionCreated(s) == created < MaxSessions /\ s = created + 1 /\ created' = s

\* setState and registerLoopSession, always in one turn.
Stored(l, r) ==
  /\ rec' = [rec EXCEPT ![l] = r]
  /\ registered' = [registered EXCEPT ![r.session] = l]
  /\ UNCHANGED unhooked

Started(s, worktree, boxed) ==
  [stored |-> TRUE, active |-> TRUE, session |-> s, reason |-> "none",
   sandbox |-> boxed, boxed |-> boxed, worktree |-> worktree]

-----------------------------------------------------------------------------
(* SandboxManager.start and stop (src/src/sandbox/manager.ts)              *)

\* start returns a container: one that runs already is taken as it is and is
\* not registered; a new one is.
BoxStarts(l) ==
  /\ containers' = containers \cup {l}
  /\ managed' = IF l \in containers THEN managed ELSE managed \cup {l}
  /\ doubtful' = IF l \in containers \ managed \/ Booting THEN doubtful \cup {l} ELSE doubtful

\* start throws: nothing runs; or a container does, of earlier or because
\* docker was only too slow.
BoxFails(l) ==
  \/ l \notin containers /\ UNCHANGED boxVars
  \/ /\ containers' = containers \cup {l}
     /\ doubtful' = doubtful \cup {l}
     /\ UNCHANGED managed

\* stop: whether docker removes the container or not, it is forgotten.  A
\* start of the same container under way may have found it still running.
BoxStops(l) ==
  /\ managed' = managed \ {l}
  /\ \/ containers' = containers \ {l} /\ UNCHANGED doubtful
     \/ UNCHANGED containers /\ doubtful' = doubtful \cup ({l} \cap containers)

-----------------------------------------------------------------------------
(* setupLoop (src/src/tools/loop.ts)                                       *)

\* The name is chosen; the worktree and the session are created, in a row.
SetupBegins(worktree) ==
  /\ Serving
  /\ \E l \in Names :
       /\ FreeName(l)
       /\ BeginOp([NoOp EXCEPT !.loop = l, !.old.worktree = worktree, !.pc = "session"])
  /\ UNCHANGED <<storeVars, created, containers, managed, plugin>>

\* An in-place loop gets no container and is stored at once.
SetupSession(c) ==
  LET op == calls[c]
  IN  /\ Waiting(c, {"setup"}, "session")
      /\ \E s \in SessionIds :
           /\ SessionCreated(s)
           /\ \/ /\ op.old.worktree
                 /\ calls' = [calls EXCEPT ![c].pc = "start", ![c].session = s]
                 /\ UNCHANGED storeVars
              \/ /\ ~op.old.worktree
                 /\ Goto(c, "prompt")
                 /\ Stored(op.loop, Started(s, FALSE, FALSE))
      /\ UNCHANGED <<boxVars, plugin>>

SetupBoxed(c) ==
  LET op == calls[c]
  IN  /\ Waiting(c, {"setup"}, "start")
      /\ BoxStarts(op.loop)
      /\ Stored(op.loop, Started(op.session, TRUE, TRUE))
      /\ calls' = [calls EXCEPT ![c].pc = "prompt", ![c].session = 0]
      /\ UNCHANGED <<created, plugin>>

\* Without a container the setup ends and leaves worktree and session.
SetupBoxRefused(c) ==
  /\ Waiting(c, {"setup"}, "start")
  /\ BoxFails(calls[c].loop)
  /\ Finish(c)
  /\ UNCHANGED <<storeVars, created, plugin>>

\* The first prompt of a setup or a restart was accepted.
PromptAccepted(c) ==
  /\ Waiting(c, {"setup", "restart"}, "prompt")
  /\ Finish(c)
  /\ UNCHANGED <<storeVars, created, boxVars, plugin>>

Forget(l) == rec' = [rec EXCEPT ![l] = NoRec] /\ UNCHANGED <<registered, unhooked>>

\* A defect to check the property with: the container is left when the first
\* prompt is refused.
PromptRefusedKeepsBox(c) ==
  /\ Waiting(c, {"setup", "restart"}, "prompt")
  /\ Forget(calls[c].loop)
  /\ Finish(c)
  /\ UNCHANGED <<created, boxVars, plugin>>

\* Every model refused the first prompt: the record goes, then the container
\* and, after a setup, the worktree.
PromptRefused(c) ==
  /\ Waiting(c, {"setup", "restart"}, "prompt")
  /\ Forget(calls[c].loop)
  /\ Goto(c, "undo")
  /\ UNCHANGED <<created, boxVars, plugin>>

PromptUndone(c) ==
  LET op == calls[c]
      boxed == op.kind = "restart" \/ op.old.worktree
  IN  /\ Waiting(c, {"setup", "restart"}, "undo")
      /\ IF boxed THEN BoxStops(op.loop) ELSE UNCHANGED boxVars
      /\ Finish(c)
      /\ UNCHANGED <<storeVars, created, plugin>>

-----------------------------------------------------------------------------
(* terminateLoop (src/src/hooks/loop.ts), by the engine or by loop-cancel  *)

Ended(l, reason) == [rec EXCEPT ![l].active = FALSE, ![l].reason = reason]

\* loop-cancel ends it like the engine, if it finds the loop by its session.
LoopTerminates(l, reason) ==
  /\ Serving
  /\ ActiveRec(l)
  /\ rec' = Ended(l, reason)
  /\ registered' = [registered EXCEPT ![rec[l].session] = 0]
  /\ \/ /\ rec[l].sandbox /\ rec[l].boxed
        /\ BeginOp([NoOp EXCEPT !.kind = "end", !.loop = l, !.pc = "abort"])
     \/ /\ ~(rec[l].sandbox /\ rec[l].boxed)
        /\ UNCHANGED <<calls, doubtful>>
  /\ UNCHANGED <<unhooked, created, containers, managed, plugin>>

\* After the abort and the commit the container the record names is stopped.
LoopCleaned(c) ==
  /\ Waiting(c, {"end"}, "abort")
  /\ BoxStops(calls[c].loop)
  /\ Finish(c)
  /\ UNCHANGED <<storeVars, created, plugin>>

\* rotateSession: the loop goes on in a new session.
LoopRotates(l) ==
  /\ Serving
  /\ ActiveRec(l)
  /\ \E s \in SessionIds :
       /\ SessionCreated(s)
       /\ rec' = [rec EXCEPT ![l].session = s]
       /\ registered' = [registered EXCEPT ![rec[l].session] = 0, ![s] = l]
  /\ UNCHANGED <<unhooked, boxVars, plugin, calls>>

-----------------------------------------------------------------------------
(* loop-status with restart (src/src/tools/loop.ts)                        *)

\* Only an active loop, with force, is aborted first.
RestartBegins(l) ==
  /\ Serving
  /\ rec[l].stored /\ rec[l].reason # "completed"
  /\ BeginOp([NoOp EXCEPT !.kind = "restart", !.loop = l, !.old.session = rec[l].session,
                          !.old.worktree = rec[l].worktree,
                          !.pc = IF rec[l].active THEN "abort" ELSE "session"])
  /\ UNCHANGED <<storeVars, created, containers, managed, plugin>>

\* The old session answers to no loop from here on.
Unhooks(c) ==
  LET s == calls[c].old.session
  IN  /\ registered' = [registered EXCEPT ![s] = 0]
      /\ unhooked' = unhooked \cup {s}
      /\ UNCHANGED <<rec, boxVars, plugin>>

RestartUnhooks(c) ==
  /\ Waiting(c, {"restart"}, "abort")
  /\ Unhooks(c)
  /\ Goto(c, "session")
  /\ UNCHANGED created

\* The record is deleted before the container is asked for.
RestartSession(c) ==
  /\ Waiting(c, {"restart"}, "session")
  /\ \E s \in SessionIds :
       /\ SessionCreated(s)
       /\ calls' = [calls EXCEPT ![c].pc = "start", ![c].session = s]
  /\ Forget(calls[c].loop)
  /\ UNCHANGED <<boxVars, plugin>>

\* A defect to check the property with: the new session is not registered.
RestartBoxedUnregistered(c) ==
  LET op == calls[c]
  IN  /\ Waiting(c, {"restart"}, "start")
      /\ BoxStarts(op.loop)
      /\ rec' = [rec EXCEPT ![op.loop] = Started(op.session, op.old.worktree, TRUE)]
      /\ Prompts(c)
      /\ UNCHANGED <<registered, unhooked, created, plugin>>

RestartBoxed(c) ==
  LET op == calls[c]
  IN  /\ Waiting(c, {"restart"}, "start")
      /\ BoxStarts(op.loop)
      /\ Stored(op.loop, Started(op.session, op.old.worktree, TRUE))
      /\ Prompts(c)
      /\ UNCHANGED <<created, plugin>>

\* Without a container the loop is gone.
RestartBoxRefused(c) ==
  /\ Waiting(c, {"restart"}, "start")
  /\ BoxFails(calls[c].loop)
  /\ Finish(c)
  /\ UNCHANGED <<storeVars, created, plugin>>

\* session.create, or worktree.create, is refused: it is over as it stands.
SessionRefused(c) ==
  /\ Waiting(c, {"setup", "restart", "launch"}, "session")
  /\ Finish(c)
  /\ UNCHANGED <<storeVars, created, boxVars, plugin>>

-----------------------------------------------------------------------------
(* The TUI (src/src/tui.tsx, src/src/utils/loop-launch.ts)                 *)

TuiCancels(l) ==
  /\ ActiveRec(l)
  /\ rec' = Ended(l, "stopped")
  /\ UNCHANGED <<registered, unhooked, created, boxVars, plugin, calls>>

LaunchBegins(worktree) ==
  /\ \E l \in Names :
       /\ FreeName(l)
       /\ BeginOp([NoOp EXCEPT !.kind = "launch", !.loop = l, !.old.worktree = worktree,
                               !.pc = "session"])
  /\ UNCHANGED <<storeVars, created, containers, managed, plugin>>

\* The record says sandbox, but no container is started; and whether the first
\* prompt is accepted or refused, it stays as it is.
LaunchSession(c) ==
  LET op == calls[c]
  IN  /\ Waiting(c, {"launch"}, "session")
      /\ \E s \in SessionIds :
           /\ SessionCreated(s)
           /\ Stored(op.loop, [Started(s, op.old.worktree, FALSE) EXCEPT !.sandbox = TRUE])
      /\ Finish(c)
      /\ UNCHANGED <<boxVars, plugin>>

\* An active loop is aborted before it is restarted.
TuiRestartBegins(l) ==
  /\ ActiveRec(l)
  /\ BeginOp([NoOp EXCEPT !.kind = "tui_restart", !.loop = l, !.pc = "abort",
                          !.old.session = rec[l].session])
  /\ UNCHANGED <<storeVars, created, containers, managed, plugin>>

\* The statement that stores the mapping of the new session names no
\* created_at, which the table requires: it throws, and the restart ends.
TuiRestartThrows(c) ==
  /\ Waiting(c, {"tui_restart"}, "abort")
  /\ Unhooks(c)
  /\ created' \in {created} \cup ({created + 1} \cap SessionIds)
  /\ Finish(c)

\* The same for a loop that does not run, and in the CLI, which unhooks nothing.
RestartThrows(l) ==
  /\ rec[l].stored
  /\ \E s \in SessionIds : SessionCreated(s)
  /\ UNCHANGED <<storeVars, boxVars, plugin, calls>>

-----------------------------------------------------------------------------
(* The CLI (src/src/cli/commands/cancel.ts and restart.ts)                 *)

CliCancelBegins(l) ==
  /\ ActiveRec(l)
  /\ BeginOp([NoOp EXCEPT !.kind = "cli_cancel", !.loop = l, !.old = rec[l], !.pc = "confirm"])
  /\ UNCHANGED <<storeVars, created, containers, managed, plugin>>

\* What was read before the question is written after the answer, over
\* whatever the row holds by then.
CliCancelConfirmed(c) ==
  LET op == calls[c]
  IN  /\ Waiting(c, {"cli_cancel"}, "confirm")
      /\ rec' = IF rec[op.loop].stored
                  THEN [rec EXCEPT ![op.loop] = [op.old EXCEPT !.active = FALSE,
                                                               !.reason = "stopped"]]
                  ELSE rec
      /\ Finish(c)
      /\ UNCHANGED <<registered, unhooked, created, boxVars, plugin>>

-----------------------------------------------------------------------------
(* The end and the start of the plugin (src/src/index.ts)                  *)

\* cleanup: the containers of the active loops are stopped, one after the
\* other, while the loops are still active.
CloseBegins ==
  /\ plugin.state = "up"
  /\ plugin' = [plugin EXCEPT !.state = "closing",
                              !.list = {l \in Names : ActiveRec(l) /\ rec[l].sandbox}]
  /\ UNCHANGED <<storeVars, created, boxVars, calls>>

CloseStops(l) ==
  /\ plugin.state = "closing" /\ l \in plugin.list
  /\ plugin' = [plugin EXCEPT !.list = @ \ {l}]
  /\ BoxStops(l)
  /\ UNCHANGED <<storeVars, created, calls>>

\* listActive ... setState: every active loop ends with the reason shutdown.
ShutDown == [l \in Names |-> IF ActiveRec(l) THEN [rec[l] EXCEPT !.active = FALSE,
                                                                  !.reason = "stopped"]
                                             ELSE rec[l]]

\* The process is gone, and with it the map and the plugin's operations.
ProcessGone ==
  /\ plugin' = Life("down")
  /\ managed' = {}
  /\ calls' = [c \in 1 .. MaxCalls |-> IF calls[c].kind \in InPlugin THEN NoOp ELSE calls[c]]
  /\ UNCHANGED <<registered, unhooked, created, containers, doubtful>>

CloseEnds ==
  /\ plugin.state = "closing" /\ plugin.list = {}
  /\ rec' = ShutDown
  /\ ProcessGone

Crash ==
  /\ Serving
  /\ ProcessGone
  /\ UNCHANGED rec

\* The loops a dead process left active end; those with a sandbox are
\* remembered to be restored.
Boot ==
  /\ plugin.state = "down"
  /\ plugin' = [state |-> "listing", list |-> {},
                boot |-> [l \in Names |-> IF ActiveRec(l) /\ rec[l].sandbox THEN rec[l]
                                                                            ELSE NoRec]]
  /\ rec' = ShutDown
  /\ UNCHANGED <<registered, unhooked, created, boxVars, calls>>

Preserved == {l \in Names : plugin.boot[l].stored}

\* cleanupOrphans: docker lists the containers (a failure lists none) ...
BootLists(answers) ==
  /\ plugin.state = "listing"
  /\ plugin' = [plugin EXCEPT !.state = "removing",
                              !.list = IF answers THEN containers ELSE {}]
  /\ doubtful' = IF answers THEN doubtful ELSE doubtful \cup containers
  /\ UNCHANGED <<storeVars, created, containers, managed, calls>>

\* ... the ones not to be preserved are removed, unless docker refuses, and
\* the map forgets every other loop.
BootCleans ==
  /\ plugin.state = "removing"
  /\ plugin' = [plugin EXCEPT !.state = IF Preserved = {} THEN "up" ELSE "restoring", !.list = {}]
  /\ \E removed \in SUBSET (plugin.list \ Preserved) :
       /\ containers' = containers \ removed
       /\ doubtful' = doubtful \cup ((plugin.list \ Preserved) \ removed)
  /\ managed' = managed \cap Preserved
  /\ UNCHANGED <<storeVars, created, calls>>

\* restore: a container that runs is registered, another one is started; then
\* the record read at the start of the process is written back, active, also
\* over what an operation under way has made of the loop meanwhile.
Restores(l) ==
  LET left == [plugin.boot EXCEPT ![l] = NoRec]
  IN  /\ plugin.state = "restoring" /\ l \in Preserved
      /\ plugin' = [plugin EXCEPT !.boot = left,
                                  !.state = IF Preserved = {l} THEN "up" ELSE "restoring"]
      /\ \/ /\ containers' = containers \cup {l} /\ managed' = managed \cup {l}
            /\ rec' = [rec EXCEPT ![l] = plugin.boot[l]]
            /\ doubtful' = IF \E c \in 1 .. MaxCalls : calls[c].loop = l
                             THEN doubtful \cup {l} ELSE doubtful
         \/ /\ BoxFails(l)
            /\ l \in containers => l \in doubtful'
            /\ UNCHANGED rec
      /\ UNCHANGED <<registered, unhooked, created, calls>>

ControlNext ==
  \/ \E worktree \in BOOLEAN : SetupBegins(worktree) \/ LaunchBegins(worktree)
  \/ \E l \in Names :
       \/ \E reason \in {"completed", "stopped"} : LoopTerminates(l, reason)
       \/ LoopRotates(l) \/ RestartBegins(l) \/ TuiCancels(l) \/ TuiRestartBegins(l)
       \/ RestartThrows(l) \/ CliCancelBegins(l) \/ CloseStops(l) \/ Restores(l)
  \/ \E c \in 1 .. MaxCalls :
       \/ SetupSession(c) \/ SetupBoxed(c) \/ SetupBoxRefused(c) \/ SessionRefused(c)
       \/ PromptAccepted(c) \/ PromptRefused(c) \/ PromptUndone(c) \/ LoopCleaned(c)
       \/ RestartUnhooks(c) \/ RestartSession(c) \/ RestartBoxed(c) \/ RestartBoxRefused(c)
       \/ LaunchSession(c) \/ TuiRestartThrows(c) \/ CliCancelConfirmed(c)
  \/ CloseBegins \/ CloseEnds \/ Crash \/ Boot \/ BootCleans
  \/ \E answers \in BOOLEAN : BootLists(answers)

ControlSpec == ControlInit /\ [][ControlNext]_controlVars

-----------------------------------------------------------------------------
ControlTypeOK ==
  /\ rec \in [Names -> LoopRecord]
  /\ registered \in [SessionIds -> 0 .. MaxNames]
  /\ created \in 0 .. MaxSessions
  /\ containers \subseteq Names /\ managed \subseteq Names
  /\ plugin \in [state : {"up", "closing", "down", "listing", "removing", "restoring"},
                 boot : [Names -> LoopRecord], list : SUBSET Names]
  /\ calls \in [1 .. MaxCalls -> [kind : CallKinds, pc : Waits, loop : 0 .. MaxNames,
                                  session : 0 .. MaxSessions, old : LoopRecord]]
  /\ unhooked \subseteq SessionIds /\ doubtful \subseteq Names

(***************************************************************************)
(* The session of an active loop resolves to the loop: this is how its     *)
(* idle events, its cancellation and its sandbox find it.  The one         *)
(* exception is a session a forced restart has unhooked (tools/loop.ts:    *)
(* 530-537, tui.tsx:183-189): the restart that fails afterwards leaves a   *)
(* loop that is active and that no event and no loop-cancel reaches.       *)
(***************************************************************************)
LoopsResolve ==
  \A l \in Names : ActiveRec(l) => \/ registered[rec[l].session] = l
                                   \/ rec[l].session \in unhooked

(***************************************************************************)
(* No container is lost from sight: one that runs is in the map of the     *)
(* manager, or the plugin is down or still booting, or a docker call for   *)
(* it failed or fell into another one, or two operations, or one and the   *)
(* restore of a boot, met on its loop (doubtful); and one that is in the   *)
(* map belongs to a loop that is stored or to an operation under way       *)
(* (sandbox/manager.ts:53-178, tools/loop.ts:180-300, index.ts:128-185).   *)
(***************************************************************************)
ContainersAccounted ==
  \A l \in Names :
    /\ l \in containers \ managed => ~Serving \/ Booting \/ plugin.state = "restoring"
                                     \/ l \in doubtful
    /\ l \in managed => \/ rec[l].stored \/ l \in doubtful
                        \/ \E c \in 1 .. MaxCalls : calls[c].loop = l
=============================================================================
