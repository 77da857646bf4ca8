----------------------------- MODULE GraphHooks -----------------------------
(***************************************************************************)
(* How the graph learns that files have changed: the hooks around every    *)
(* tool call (src/src/hooks/graph-tools.ts).  Before a bash command that   *)
(* may change the branch they remember branch and HEAD; after any call     *)
(* they tell the graph service which files to index again, from the        *)
(* difference of two commits, from the paths of a checkout, or from the    *)
(* arguments and the output of the tool.                                   *)
(*                                                                         *)
(* A commit is the tree it holds, a tree gives every file a version.       *)
(* Calls outside of the project neither change nor report a file of it     *)
(* and are left out.  MaxOpen bounds the calls that run at a time.         *)
(***************************************************************************)
EXTENDS Naturals

CONSTANTS TreeFiles, MaxVersion, Branches, MaxOpen

\* "none" stands for no branch.
ASSUME HooksAssumption == MaxVersion \in Nat /\ "none" \notin Branches

VARIABLES tips,      \* the commit of every branch
          head,      \* HEAD: the branch, "HEAD" when detached, and its commit
          content,   \* the files as they are
          indexed,   \* the versions the graph has
          queued,    \* files reported with onFileChanged, not indexed yet
          toolCalls, \* the calls under way, with their pendingBranchSnapshots
          missed     \* files changed in a way the hooks do not see

hookVars == <<tips, head, content, indexed, queued, toolCalls, missed>>

FileVersions == 0 .. MaxVersion
Trees == [TreeFiles -> FileVersions]
Places == [branch : Branches \cup {"HEAD"}, tree : Trees]
Nowhere == [branch |-> "none", tree |-> [f \in TreeFiles |-> 0]]

\* A command: git switch or git checkout of a branch or commit; git checkout
\* of a path, alone or after "--"; and the tools that change a file.  "told"
\* says that the path can be read off the call.
Commands ==
  [kind : {"switch"}, to : Branches, told : {TRUE}]
    \cup [kind : {"detach"}, to : Branches, told : {TRUE}]
    \cup [kind : {"checkout"}, to : TreeFiles, told : {TRUE}]
    \cup [kind : {"restore", "edit"}, to : TreeFiles, told : BOOLEAN]

NoCommand == [kind |-> "none", to |-> "none", told |-> FALSE]
NoCall == [pc |-> "free", command |-> NoCommand, before |-> Nowhere]

HooksInit ==
  /\ tips \in [Branches -> Trees]
  /\ \E b \in Branches : head = [branch |-> b, tree |-> tips[b]]
  /\ content = head.tree /\ indexed = content
  /\ queued = {} /\ missed = {}
  /\ toolCalls = [c \in 1 .. MaxOpen |-> NoCall]

Differ(t, u) == {f \in TreeFiles : t[f] # u[f]}

\* isBranchChangeCommand: a checkout with "--" is none.
IsBranchChange(command) == command.kind \in {"switch", "detach", "checkout"}

-----------------------------------------------------------------------------
\* The before hook keeps branch and HEAD of a command that may change them.
HookBefore(c, command) ==
  /\ toolCalls[c].pc = "free" /\ \A d \in 1 .. c - 1 : toolCalls[d].pc # "free"
  /\ toolCalls' = [toolCalls EXCEPT ![c] = [pc |-> "called", command |-> command,
       before |-> IF IsBranchChange(command) THEN head ELSE Nowhere]]
  /\ UNCHANGED <<tips, head, content, indexed, queued, missed>>

\* What the hooks of the other open calls no longer see once HEAD is goal: the
\* changes of those that remember a place, and the path one has checked out.
Overtaken(c, goal) ==
  {f \in TreeFiles : \E d \in 1 .. MaxOpen \ {c} :
     /\ toolCalls[d].pc = "ran" /\ toolCalls[d].before # Nowhere
     /\ \/ toolCalls[d].before.tree[f] # goal.tree[f]
        \/ toolCalls[d].command.kind = "checkout" /\ toolCalls[d].command.to = f}

\* A move from one commit to another without a branch, or from another place
\* than the call remembers, is not seen by its own hook.
Unnoticed(c, goal) ==
  IF head = toolCalls[c].before /\ head.branch # goal.branch THEN {} ELSE Differ(head.tree, goal.tree)

\* git moves HEAD when no changed file is in the way.
GitMoves(c) ==
  LET command == toolCalls[c].command
      goal == [branch |-> IF command.kind = "detach" THEN "HEAD" ELSE command.to,
               tree |-> tips[command.to]]
      moved == Differ(head.tree, goal.tree)
  IN  /\ toolCalls[c].pc = "called" /\ command.kind \in {"switch", "detach"}
      /\ \A f \in moved : content[f] = head.tree[f]
      /\ head' = goal
      /\ content' = [f \in TreeFiles |-> IF f \in moved THEN goal.tree[f] ELSE content[f]]
      /\ missed' = missed \cup Overtaken(c, goal) \cup Unnoticed(c, goal)
      /\ toolCalls' = [toolCalls EXCEPT ![c].pc = "ran"]
      /\ UNCHANGED <<tips, indexed, queued>>

\* A checkout of a path brings back a version, an edit makes one.  The path is
\* not looked for when the branch is another one by then.
FileSet(c, v) ==
  LET command == toolCalls[c].command
  IN  /\ toolCalls[c].pc = "called" /\ command.kind \in {"checkout", "restore", "edit"}
      /\ command.kind = "checkout" => v = head.tree[command.to]
      /\ command.kind = "restore" => \E b \in Branches : v = tips[b][command.to]
      /\ content' = [content EXCEPT ![command.to] = v]
      /\ missed' = IF command.told /\ (command.kind = "checkout" => head.branch = toolCalls[c].before.branch)
                    THEN missed ELSE missed \cup {command.to}
      /\ toolCalls' = [toolCalls EXCEPT ![c].pc = "ran"]
      /\ UNCHANGED <<tips, head, indexed, queued>>

\* The command does nothing, and the after hook runs all the same.
CommandFails(c) ==
  /\ toolCalls[c].pc = "called"
  /\ toolCalls' = [toolCalls EXCEPT ![c].pc = "ran"]
  /\ UNCHANGED <<tips, head, content, indexed, queued, missed>>

\* The tool throws or is aborted, before or after it has changed files: there
\* is no after hook.
CallThrows(c) ==
  LET call == toolCalls[c]
  IN  /\ call.pc \in {"called", "ran"}
      /\ missed' = IF call.pc = "called" THEN missed
                   ELSE missed \cup (IF call.before = Nowhere THEN {} ELSE Differ(call.before.tree, content))
                               \cup ({call.command.to} \cap TreeFiles)
      /\ toolCalls' = [toolCalls EXCEPT ![c] = NoCall]
      /\ UNCHANGED <<tips, head, content, indexed, queued>>

\* extractCheckoutPaths: the path after "--", when the revision before it has
\* no hyphen; without "--" the argument, if git does not know it as a revision.
CheckoutPaths(command) ==
  IF command.kind = "checkout" \/ (command.kind = "restore" /\ command.told) THEN {command.to} ELSE {}

\* extractMutatedPaths: what the arguments of patch, write and apply_patch and
\* the first redirection, touch, cp, mv or sed -i of a command name; for bash
\* and ast-rewrite only if the tool has printed anything.
MutatedPaths(command) == IF command.kind = "edit" /\ command.told THEN {command.to} ELSE {}

\* getChangedPathsBetweenRefs, on another branch; the branch remembered and
\* the one now are both known.
BranchChanged(call) == call.before # Nowhere /\ call.before.branch # head.branch

\* A defect to check the property with: a call that was remembered and has
\* not changed the branch reports nothing.
HookAfterStops(c) ==
  LET call == toolCalls[c]
      paths == IF BranchChanged(call) THEN Differ(call.before.tree, head.tree)
               ELSE IF call.before # Nowhere THEN {}
               ELSE CheckoutPaths(call.command) \cup MutatedPaths(call.command)
  IN  /\ call.pc = "ran"
      /\ queued' = queued \cup paths
      /\ toolCalls' = [toolCalls EXCEPT ![c] = NoCall]
      /\ UNCHANGED <<tips, head, content, indexed, missed>>

\* The after hook drops what was remembered and reports the files.
HookAfter(c) ==
  LET call == toolCalls[c]
      paths == IF BranchChanged(call) THEN Differ(call.before.tree, head.tree)
               ELSE CheckoutPaths(call.command) \cup MutatedPaths(call.command)
  IN  /\ call.pc = "ran"
      /\ queued' = queued \cup paths
      /\ toolCalls' = [toolCalls EXCEPT ![c] = NoCall]
      /\ UNCHANGED <<tips, head, content, indexed, missed>>

\* git commit -a, by the agent or the user: no file changes.
Commits ==
  /\ head.tree # content
  /\ head' = [head EXCEPT !.tree = content]
  /\ tips' = IF head.branch \in Branches THEN [tips EXCEPT ![head.branch] = content] ELSE tips
  /\ UNCHANGED <<content, indexed, queued, toolCalls, missed>>

\* The queue of the graph service (GraphIndexing).
FileIndexed(f) ==
  /\ f \in queued
  /\ indexed' = [indexed EXCEPT ![f] = content[f]]
  /\ queued' = queued \ {f} /\ missed' = missed \ {f}
  /\ UNCHANGED <<tips, head, content, toolCalls>>

HooksNext ==
  \/ \E c \in 1 .. MaxOpen :
       \/ \E command \in Commands : HookBefore(c, command)
       \/ GitMoves(c) \/ CommandFails(c) \/ CallThrows(c) \/ HookAfter(c)
       \/ \E v \in FileVersions : FileSet(c, v)
  \/ Commits
  \/ \E f \in TreeFiles : FileIndexed(f)

HooksSpec == HooksInit /\ [][HooksNext]_hookVars

-----------------------------------------------------------------------------
\* The state has the types of the code.
HooksTypeOK ==
  /\ tips \in [Branches -> Trees] /\ head \in Places
  /\ content \in Trees /\ indexed \in Trees
  /\ queued \subseteq TreeFiles /\ missed \subseteq TreeFiles
  /\ toolCalls \in [1 .. MaxOpen -> [pc : {"free", "called", "ran"},
                  command : Commands \cup {NoCommand}, before : Places \cup {Nowhere}]]

(***************************************************************************)
(* "perform an incremental update" (graph-tools.ts:393-411): when no call  *)
(* is between its command and its after hook, every file that is not what  *)
(* the graph has is on its way to be indexed, across branches, detached    *)
(* commits, commits made meanwhile and calls that overlap; except a file   *)
(* changed in a way no hook can see: by a tool whose arguments do not name *)
(* it, that prints nothing or that throws, by a move between two commits   *)
(* without a branch, or by one of two calls that were remembered and       *)
(* overlap, of which the other moves HEAD.                                 *)
(***************************************************************************)
EditsReported ==
  (\A c \in 1 .. MaxOpen : toolCalls[c].pc # "ran")
     => \A f \in TreeFiles : content[f] # indexed[f] => f \in queued \cup missed
=============================================================================
