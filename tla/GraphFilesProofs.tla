-------------------------- MODULE GraphFilesProofs --------------------------
(***************************************************************************)
(* How changed files reach the code graph: the hooks of the tools, and the *)
(* watcher, the flush and the scan, for every number of files, branches,   *)
(* versions, edits, failures and restarts.                                 *)
(***************************************************************************)
EXTENDS GraphHooks, GraphIndexing, SequenceTheorems, FiniteSetTheorems,
        WellFoundedInduction, TLAPS

(***************************************************************************)
(* EditsReported is not inductive: it says nothing while a call is between *)
(* its command and its after hook.  Then a file that the graph does not    *)
(* have as it is is one that a call will name (Named), or one that HEAD    *)
(* took along and that still is as HEAD has it (TakenAlong).  The second   *)
(* condition is what lets a commit go in between: it makes HEAD what the   *)
(* files are, and would hide a file that was changed back by hand.         *)
(***************************************************************************)
Calling == 1 .. MaxOpen

Names(command) == CheckoutPaths(command) \cup MutatedPaths(command)
Named(f) == \E c \in Calling : /\ toolCalls[c].pc = "ran" /\ ~BranchChanged(toolCalls[c])
                               /\ f \in Names(toolCalls[c].command)
TakenAlong(f) ==
  /\ content[f] = head.tree[f]
  /\ \E c \in Calling : /\ toolCalls[c].pc = "ran" /\ BranchChanged(toolCalls[c])
                        /\ toolCalls[c].before.tree[f] # head.tree[f]

Accounted(f) == f \in queued \cup missed \/ Named(f) \/ TakenAlong(f)

\* Only a command that may change the branch has its place remembered.
Remembered ==
  \A c \in Calling : toolCalls[c].pc # "free" /\ ~IsBranchChange(toolCalls[c].command)
                       => toolCalls[c].before = Nowhere

HooksInv ==
  /\ HooksTypeOK /\ Remembered
  /\ \A f \in TreeFiles : content[f] # indexed[f] => Accounted(f)

CallRecord == [pc : {"free", "called", "ran"}, command : Commands \cup {NoCommand},
               before : Places \cup {Nowhere}]

LEMMA NoCallTyped == NoCall \in CallRecord /\ NoCall.pc = "free"
    BY DEF NoCall, CallRecord

LEMMA TreeChosen ==
    ASSUME NEW t \in Trees, NEW f \in TreeFiles
    PROVE  t[f] \in FileVersions
    BY DEF Trees

\* A path is a file, what is switched to is a branch.
LEMMA CommandGoal ==
    ASSUME NEW command \in Commands \cup {NoCommand}
    PROVE  /\ command.kind \in {"checkout", "restore", "edit"} => command.to \in TreeFiles
           /\ command.kind \in {"switch", "detach"} => command.to \in Branches
<1>1. CASE command \in [kind : {"switch"}, to : Branches, told : {TRUE}]
    BY <1>1
<1>2. CASE command \in [kind : {"detach"}, to : Branches, told : {TRUE}]
    BY <1>2
<1>3. CASE command \in [kind : {"checkout"}, to : TreeFiles, told : {TRUE}]
    BY <1>3
<1>4. CASE command \in [kind : {"restore", "edit"}, to : TreeFiles, told : BOOLEAN]
    BY <1>4
<1>5. CASE command = NoCommand
    BY <1>5 DEF NoCommand
<1> QED
    BY <1>1, <1>2, <1>3, <1>4, <1>5 DEF Commands

-----------------------------------------------------------------------------
LEMMA HooksInvInit == HooksInit => HooksInv
<1> SUFFICES ASSUME HooksInit PROVE HooksInv
    OBVIOUS
<1>1. PICK b \in Branches : head = [branch |-> b, tree |-> tips[b]]
    BY DEF HooksInit
<1>2. /\ tips \in [Branches -> Trees] /\ tips[b] \in Trees /\ head.tree = tips[b]
      /\ content = head.tree /\ indexed = content /\ queued = {} /\ missed = {}
      /\ toolCalls = [c \in Calling |-> NoCall]
    BY <1>1 DEF HooksInit, Calling
<1>3. head \in Places /\ content \in Trees
    BY <1>1, <1>2 DEF Places
<1>4. toolCalls \in [Calling -> CallRecord] /\ \A c \in Calling : toolCalls[c].pc = "free"
    BY <1>2, NoCallTyped
<1> QED
    BY <1>2, <1>3, <1>4 DEF HooksInv, HooksTypeOK, Remembered, CallRecord, Calling

\* What the invariant says of the calls, for short.
LEMMA CallsTyped ==
    ASSUME HooksInv
    PROVE  /\ toolCalls \in [Calling -> CallRecord]
           /\ tips \in [Branches -> Trees] /\ head \in Places
           /\ content \in Trees /\ indexed \in Trees
           /\ queued \subseteq TreeFiles /\ missed \subseteq TreeFiles
    BY DEF HooksInv, HooksTypeOK, CallRecord, Calling

\* One call goes on, and neither HEAD nor the files change.
LEMMA CallGoesOn ==
    ASSUME HooksInv, NEW c \in Calling, NEW x \in CallRecord,
           toolCalls' = [toolCalls EXCEPT ![c] = x],
           x.pc # "free" /\ ~IsBranchChange(x.command) => x.before = Nowhere,
           UNCHANGED <<tips, head, content, indexed>>,
           queued \subseteq queued', queued' \subseteq TreeFiles,
           missed \subseteq missed', missed' \subseteq TreeFiles,
           \/ toolCalls[c].pc # "ran"
           \/ /\ ~BranchChanged(toolCalls[c])
              /\ Names(toolCalls[c].command) \cap TreeFiles \subseteq queued' \cup missed'
           \/ /\ BranchChanged(toolCalls[c])
              /\ \A f \in TreeFiles :
                    (content[f] = head.tree[f] /\ toolCalls[c].before.tree[f] # head.tree[f])
                      => f \in queued' \cup missed'
    PROVE  HooksInv'
<1>1. /\ toolCalls \in [Calling -> CallRecord] /\ toolCalls' \in [Calling -> CallRecord]
      /\ toolCalls'[c] = x
      /\ \A d \in Calling : d # c => toolCalls'[d] = toolCalls[d]
    BY CallsTyped
<1>2. HooksTypeOK'
    BY <1>1, CallsTyped DEF HooksTypeOK, CallRecord, Calling
<1>3. Remembered'
    BY <1>1 DEF HooksInv, Remembered, IsBranchChange, Nowhere
<1>4. ASSUME NEW f \in TreeFiles, content'[f] # indexed'[f] PROVE Accounted(f)'
    <2>1. content[f] # indexed[f] /\ Accounted(f)
        BY <1>4 DEF HooksInv
    <2>2. CASE f \in queued \cup missed
        BY <2>2 DEF Accounted
    <2>3. CASE Named(f)
        <3>1. PICK d \in Calling : /\ toolCalls[d].pc = "ran" /\ ~BranchChanged(toolCalls[d])
                                   /\ f \in Names(toolCalls[d].command)
            BY <2>3 DEF Named
        <3>2. CASE d = c
            BY <3>1, <3>2 DEF Accounted
        <3>3. CASE d # c
            BY <1>1, <3>1, <3>3
               DEF Accounted, Named, BranchChanged, Names, CheckoutPaths, MutatedPaths, Nowhere
        <3> QED
            BY <3>2, <3>3
    <2>4. CASE TakenAlong(f)
        <3>1. PICK d \in Calling : /\ toolCalls[d].pc = "ran" /\ BranchChanged(toolCalls[d])
                                   /\ toolCalls[d].before.tree[f] # head.tree[f]
            BY <2>4 DEF TakenAlong
        <3>2. CASE d = c
            BY <2>4, <3>1, <3>2 DEF Accounted, TakenAlong
        <3>3. CASE d # c
            BY <1>1, <2>4, <3>1, <3>3 DEF Accounted, TakenAlong, BranchChanged, Nowhere
        <3> QED
            BY <3>2, <3>3
    <2> QED
        BY <2>1, <2>2, <2>3, <2>4 DEF Accounted
<1> QED
    BY <1>2, <1>3, <1>4 DEF HooksInv

LEMMA HookBeforeKeeps ==
    ASSUME HooksInv, NEW c \in Calling, NEW command \in Commands, HookBefore(c, command)
    PROVE  HooksInv'
<1> DEFINE x == [pc |-> "called", command |-> command,
                 before |-> IF IsBranchChange(command) THEN head ELSE Nowhere]
<1>1. /\ x \in CallRecord /\ x.command = command
      /\ (~IsBranchChange(command) => x.before = Nowhere)
    BY CallsTyped DEF CallRecord
<1>2. /\ toolCalls[c].pc # "ran" /\ toolCalls' = [toolCalls EXCEPT ![c] = x]
      /\ UNCHANGED <<tips, head, content, indexed, queued, missed>>
    BY DEF HookBefore
<1> HIDE DEF x
<1> QED
    BY <1>1, <1>2, CallsTyped, CallGoesOn

LEMMA CommandFailsKeeps ==
    ASSUME HooksInv, NEW c \in Calling, CommandFails(c)
    PROVE  HooksInv'
<1>1. PICK x : x = [toolCalls[c] EXCEPT !.pc = "ran"]
    OBVIOUS
<1>2. toolCalls[c] \in CallRecord /\ toolCalls[c].pc = "called"
    BY CallsTyped DEF CommandFails
<1>3. /\ x \in CallRecord /\ x.command = toolCalls[c].command /\ x.before = toolCalls[c].before
    BY <1>1, <1>2 DEF CallRecord
<1>4. ~IsBranchChange(x.command) => x.before = Nowhere
    BY <1>2, <1>3 DEF HooksInv, Remembered
<1>5. /\ toolCalls' = [toolCalls EXCEPT ![c] = x]
      /\ UNCHANGED <<tips, head, content, indexed, queued, missed>>
    BY <1>1, <1>2, CallsTyped DEF CommandFails
<1> QED
    BY <1>2, <1>3, <1>4, <1>5, CallsTyped, CallGoesOn

LEMMA CallThrowsKeeps ==
    ASSUME HooksInv, NEW c \in Calling, CallThrows(c)
    PROVE  HooksInv'
<1>1. /\ toolCalls[c] \in CallRecord
      /\ toolCalls' = [toolCalls EXCEPT ![c] = NoCall]
      /\ UNCHANGED <<tips, head, content, indexed, queued>>
    BY CallsTyped DEF CallThrows
<1>2. missed \subseteq missed' /\ missed' \subseteq TreeFiles
    BY CallsTyped DEF CallThrows, Differ
<1>3. CASE toolCalls[c].pc # "ran"
    BY <1>1, <1>2, <1>3, NoCallTyped, CallsTyped, CallGoesOn
<1>4. CASE toolCalls[c].pc = "ran" /\ ~BranchChanged(toolCalls[c])
    <2>1. Names(toolCalls[c].command) \subseteq {toolCalls[c].command.to}
        BY DEF Names, CheckoutPaths, MutatedPaths
    <2>2. {toolCalls[c].command.to} \cap TreeFiles \subseteq missed'
        BY <1>4 DEF CallThrows
    <2> QED
        BY <1>1, <1>2, <1>4, <2>1, <2>2, NoCallTyped, CallsTyped, CallGoesOn
<1>5. CASE toolCalls[c].pc = "ran" /\ BranchChanged(toolCalls[c])
    <2>1. Differ(toolCalls[c].before.tree, content) \subseteq missed'
        BY <1>5 DEF CallThrows, BranchChanged
    <2>2. \A f \in TreeFiles :
             (content[f] = head.tree[f] /\ toolCalls[c].before.tree[f] # head.tree[f])
               => f \in missed'
        BY <2>1 DEF Differ
    <2> QED
        BY <1>1, <1>2, <1>5, <2>2, NoCallTyped, CallsTyped, CallGoesOn
<1> QED
    BY <1>3, <1>4, <1>5

LEMMA HookAfterKeeps ==
    ASSUME HooksInv, NEW c \in Calling, HookAfter(c)
    PROVE  HooksInv'
<1>1. /\ toolCalls[c] \in CallRecord /\ toolCalls[c].pc = "ran"
      /\ toolCalls' = [toolCalls EXCEPT ![c] = NoCall]
      /\ UNCHANGED <<tips, head, content, indexed, missed>>
    BY CallsTyped DEF HookAfter
<1>2. CASE BranchChanged(toolCalls[c])
    <2>1. queued' = queued \cup Differ(toolCalls[c].before.tree, head.tree)
        BY <1>2 DEF HookAfter
    <2>2. queued \subseteq queued' /\ queued' \subseteq TreeFiles
        BY <2>1, CallsTyped DEF Differ
    <2>3. \A f \in TreeFiles : toolCalls[c].before.tree[f] # head.tree[f] => f \in queued'
        BY <2>1 DEF Differ
    <2> QED
        BY <1>1, <1>2, <2>2, <2>3, NoCallTyped, CallsTyped, CallGoesOn
<1>3. CASE ~BranchChanged(toolCalls[c])
    <2>1. queued' = queued \cup Names(toolCalls[c].command)
        BY <1>3 DEF HookAfter, Names
    <2>2. Names(toolCalls[c].command) \subseteq TreeFiles
        <3>1. toolCalls[c].command \in Commands \cup {NoCommand}
            BY <1>1 DEF CallRecord
        <3>2. toolCalls[c].command.kind \in {"checkout", "restore", "edit"}
                => toolCalls[c].command.to \in TreeFiles
            BY <3>1, CommandGoal
        <3> QED
            BY <3>2 DEF Names, CheckoutPaths, MutatedPaths
    <2>3. queued \subseteq queued' /\ queued' \subseteq TreeFiles
        BY <2>1, <2>2, CallsTyped
    <2> QED
        BY <1>1, <1>3, <2>1, <2>3, NoCallTyped, CallsTyped, CallGoesOn
<1> QED
    BY <1>2, <1>3

LEMMA FileSetKeeps ==
    ASSUME HooksInv, NEW c \in Calling, NEW v \in FileVersions, FileSet(c, v)
    PROVE  HooksInv'
<1>1. PICK x, g : x = [toolCalls[c] EXCEPT !.pc = "ran"] /\ g = toolCalls[c].command.to
    OBVIOUS
<1>2. /\ toolCalls[c] \in CallRecord /\ toolCalls[c].pc = "called"
      /\ toolCalls[c].command.kind \in {"checkout", "restore", "edit"}
      /\ toolCalls' = [toolCalls EXCEPT ![c] = x]
      /\ content' = [content EXCEPT ![g] = v]
      /\ UNCHANGED <<tips, head, indexed, queued>>
    BY <1>1, CallsTyped DEF FileSet
<1>3. g \in TreeFiles
    <2>1. toolCalls[c].command \in Commands \cup {NoCommand}
        BY <1>2 DEF CallRecord
    <2> QED
        BY <1>1, <1>2, <2>1, CommandGoal
<1>4. /\ x \in CallRecord /\ x.command = toolCalls[c].command /\ x.before = toolCalls[c].before
      /\ x.pc = "ran"
    BY <1>1, <1>2 DEF CallRecord
<1>5. /\ toolCalls \in [Calling -> CallRecord] /\ toolCalls' \in [Calling -> CallRecord]
      /\ toolCalls'[c] = x
      /\ \A d \in Calling : d # c => toolCalls'[d] = toolCalls[d]
    BY <1>2, <1>4, CallsTyped
<1>6. content' \in Trees /\ \A f \in TreeFiles : f # g => content'[f] = content[f]
    BY <1>2, CallsTyped DEF Trees
<1>7. missed \subseteq missed' /\ missed' \subseteq TreeFiles
    BY <1>1, <1>3, CallsTyped DEF FileSet
<1>8. HooksTypeOK'
    BY <1>2, <1>5, <1>6, <1>7, CallsTyped DEF HooksTypeOK, CallRecord, Calling
<1>9. ~IsBranchChange(x.command) => x.before = Nowhere
    BY <1>2, <1>4 DEF HooksInv, Remembered
<1>10. Remembered'
    BY <1>4, <1>5, <1>9 DEF HooksInv, Remembered, IsBranchChange, Nowhere
<1>11. ASSUME NEW f \in TreeFiles, content'[f] # indexed'[f] PROVE Accounted(f)'
    <2>1. CASE f = g
        <3>1. CASE g \in missed'
            BY <2>1, <3>1 DEF Accounted
        <3>2. CASE g \notin missed'
            <4>1. /\ x.command.told
                  /\ x.command.kind = "checkout" => head.branch = x.before.branch
                BY <1>1, <1>2, <1>4, <3>2 DEF FileSet
            <4>2. x.command.kind # "checkout" => x.before = Nowhere
                BY <1>2, <1>4, <1>9 DEF IsBranchChange
            <4>3. ~(x.before # Nowhere /\ x.before.branch # head'.branch)
                BY <1>2, <4>1, <4>2
            <4>4. g \in Names(x.command)
                BY <1>1, <1>2, <1>4, <4>1 DEF Names, CheckoutPaths, MutatedPaths
            <4>5. Named(f)'
                BY <1>4, <1>5, <2>1, <4>3, <4>4
                   DEF Named, BranchChanged, Names, CheckoutPaths, MutatedPaths, Nowhere
            <4> QED
                BY <4>5 DEF Accounted
        <3> QED
            BY <3>1, <3>2
    <2>2. CASE f # g
        <3>1. Accounted(f) /\ content'[f] = content[f]
            BY <1>2, <1>6, <1>11, <2>2 DEF HooksInv
        <3>2. CASE f \in queued \cup missed
            BY <1>2, <1>7, <3>2 DEF Accounted
        <3>3. CASE Named(f)
            <4>1. PICK d \in Calling : /\ toolCalls[d].pc = "ran" /\ ~BranchChanged(toolCalls[d])
                                       /\ f \in Names(toolCalls[d].command)
                BY <3>3 DEF Named
            <4>2. d # c
                BY <1>2, <4>1
            <4> QED
                BY <1>2, <1>5, <4>1, <4>2
                   DEF Accounted, Named, BranchChanged, Names, CheckoutPaths, MutatedPaths,
                       Nowhere
        <3>4. CASE TakenAlong(f)
            <4>1. PICK d \in Calling : /\ toolCalls[d].pc = "ran" /\ BranchChanged(toolCalls[d])
                                       /\ toolCalls[d].before.tree[f] # head.tree[f]
                BY <3>4 DEF TakenAlong
            <4>2. d # c
                BY <1>2, <4>1
            <4> QED
                BY <1>2, <1>5, <3>1, <3>4, <4>1, <4>2
                   DEF Accounted, TakenAlong, BranchChanged, Nowhere
        <3> QED
            BY <3>1, <3>2, <3>3, <3>4 DEF Accounted
    <2> QED
        BY <2>1, <2>2
<1> QED
    BY <1>8, <1>10, <1>11 DEF HooksInv

\* What HEAD takes along is named by its own call, if that one can see it.
LEMMA GitMovesKeeps ==
    ASSUME HooksInv, NEW c \in Calling, GitMoves(c)
    PROVE  HooksInv'
<1> DEFINE command == toolCalls[c].command
<1>1. PICK x, goal, moved, open :
        /\ x = [toolCalls[c] EXCEPT !.pc = "ran"]
        /\ goal = [branch |-> IF command.kind = "detach" THEN "HEAD" ELSE command.to,
                   tree |-> tips[command.to]]
        /\ moved = Differ(head.tree, goal.tree)
        /\ open = {d \in 1 .. MaxOpen \ {c} :
                      toolCalls[d].pc = "ran" /\ toolCalls[d].before # Nowhere}
    OBVIOUS
<1>2. /\ toolCalls[c] \in CallRecord /\ toolCalls[c].pc = "called"
      /\ command.kind \in {"switch", "detach"}
      /\ \A f \in moved : content[f] = head.tree[f]
      /\ head' = goal
      /\ content' = [f \in TreeFiles |-> IF f \in moved THEN goal.tree[f] ELSE content[f]]
      /\ toolCalls' = [toolCalls EXCEPT ![c] = x]
      /\ UNCHANGED <<tips, indexed, queued>>
    BY <1>1, CallsTyped DEF GitMoves
<1>3. missed' = missed \cup Overtaken(c, goal) \cup Unnoticed(c, goal)
    BY <1>1 DEF GitMoves
<1>14. /\ Overtaken(c, goal) \subseteq TreeFiles
       /\ \A f \in TreeFiles, d \in open :
             \/ toolCalls[d].before.tree[f] # goal.tree[f]
             \/ toolCalls[d].command.kind = "checkout" /\ f = toolCalls[d].command.to
             => f \in Overtaken(c, goal)
    BY <1>1 DEF Overtaken
<1>15. \A f \in moved :
         f \in Unnoticed(c, goal) \/ (head = toolCalls[c].before /\ head.branch # goal.branch)
    BY <1>1 DEF Unnoticed
<1>16. Unnoticed(c, goal) \subseteq moved
    BY <1>1 DEF Unnoticed
<1>4. command.to \in Branches
    <2>1. command \in Commands \cup {NoCommand}
        BY <1>2 DEF CallRecord
    <2> QED
        BY <1>2, <2>1, CommandGoal
<1>5. goal \in Places /\ goal.tree \in Trees
    BY <1>1, <1>4, CallsTyped DEF Places
<1>6. /\ x \in CallRecord /\ x.command = command /\ x.before = toolCalls[c].before
      /\ x.pc = "ran"
    BY <1>1, <1>2 DEF CallRecord
<1>7. /\ toolCalls \in [Calling -> CallRecord] /\ toolCalls' \in [Calling -> CallRecord]
      /\ toolCalls'[c] = x
      /\ \A d \in Calling : d # c => toolCalls'[d] = toolCalls[d]
    BY <1>2, <1>6, CallsTyped
<1>8. content' \in Trees
    BY <1>2, <1>5, CallsTyped DEF Trees
<1>9. missed' \subseteq TreeFiles
    <2>1. moved \subseteq TreeFiles
        BY <1>1 DEF Differ
    <2> QED
        BY <1>3, <1>14, <1>16, <2>1, CallsTyped
<1>10. HooksTypeOK'
    BY <1>2, <1>5, <1>7, <1>8, <1>9, CallsTyped DEF HooksTypeOK, CallRecord, Calling
<1>11. Remembered'
    BY <1>2, <1>6, <1>7 DEF HooksInv, Remembered, IsBranchChange, Nowhere
<1>12. \A f \in TreeFiles : f \in moved <=> head.tree[f] # goal.tree[f]
    BY <1>1 DEF Differ
<1>13. ASSUME NEW f \in TreeFiles, content'[f] # indexed'[f] PROVE Accounted(f)'
    <2>0. CASE f \in queued \cup missed'
        BY <1>2, <2>0 DEF Accounted
    <2>1. CASE f \in moved /\ f \notin missed'
        <3>1. head = x.before /\ head.branch # goal.branch
            BY <1>3, <1>6, <1>15, <2>1
        <3>2. head # Nowhere
            BY CallsTyped, HooksAssumption DEF Places, Nowhere
        <3>3. x.before # Nowhere /\ x.before.branch # head'.branch
            BY <1>2, <3>1, <3>2
        <3>4. content'[f] = head'.tree[f] /\ x.before.tree[f] # head'.tree[f]
            BY <1>2, <1>12, <2>1, <3>1
        <3> QED
            BY <1>6, <1>7, <3>3, <3>4 DEF Accounted, TakenAlong, BranchChanged, Nowhere
    <2>2. CASE f \notin moved /\ f \notin queued \cup missed'
        <3>1. /\ content'[f] = content[f] /\ content[f] # indexed[f]
              /\ f \notin queued \cup missed /\ head'.tree[f] = head.tree[f]
            BY <1>2, <1>3, <1>12, <1>13, <2>2
        <3>2. Named(f) \/ TakenAlong(f)
            BY <3>1 DEF HooksInv, Accounted
        <3>3. CASE Named(f)
            <4>1. PICK d \in Calling : /\ toolCalls[d].pc = "ran" /\ ~BranchChanged(toolCalls[d])
                                       /\ f \in Names(toolCalls[d].command)
                BY <3>3 DEF Named
            <4>2. d # c
                BY <1>2, <4>1
            <4>3. toolCalls[d].before = Nowhere
                <5>1. SUFFICES ASSUME toolCalls[d].before # Nowhere PROVE FALSE
                    OBVIOUS
                <5>2. d \in open
                    BY <1>1, <4>1, <4>2, <5>1 DEF Calling
                <5>3. IsBranchChange(toolCalls[d].command)
                    BY <4>1, <5>1 DEF HooksInv, Remembered
                <5>4. toolCalls[d].command.kind = "checkout" /\ f = toolCalls[d].command.to
                    BY <4>1, <5>3 DEF Names, CheckoutPaths, MutatedPaths, IsBranchChange
                <5> QED
                    BY <1>3, <1>14, <2>2, <5>2, <5>4
            <4> QED
                BY <1>7, <4>1, <4>2, <4>3
                   DEF Accounted, Named, BranchChanged, Names, CheckoutPaths, MutatedPaths,
                       Nowhere
        <3>4. CASE TakenAlong(f)
            <4>1. PICK d \in Calling : /\ toolCalls[d].pc = "ran" /\ BranchChanged(toolCalls[d])
                                       /\ toolCalls[d].before.tree[f] # head.tree[f]
                BY <3>4 DEF TakenAlong
            <4>2. d \in open
                BY <1>1, <1>2, <4>1 DEF Calling, BranchChanged
            <4>3. toolCalls[d].before.tree[f] # goal.tree[f]
                BY <1>2, <3>1, <4>1
            <4> QED
                BY <1>3, <1>14, <2>2, <4>2, <4>3
        <3> QED
            BY <3>2, <3>3, <3>4
    <2> QED
        BY <2>0, <2>1, <2>2
<1> QED
    BY <1>10, <1>11, <1>13 DEF HooksInv

LEMMA CommitsKeeps ==
    ASSUME HooksInv, Commits
    PROVE  HooksInv'
<1>1. /\ head' = [head EXCEPT !.tree = content]
      /\ UNCHANGED <<content, indexed, queued, toolCalls, missed>>
    BY DEF Commits
<1>2. head \in Places /\ content \in Trees /\ tips \in [Branches -> Trees]
    BY CallsTyped
<1>3. /\ head' \in Places /\ head'.branch = head.branch /\ head'.tree = content
    BY <1>1, <1>2 DEF Places
<1>4. tips' \in [Branches -> Trees]
    BY <1>2 DEF Commits
<1>5. HooksTypeOK'
    BY <1>1, <1>3, <1>4 DEF HooksInv, HooksTypeOK
<1>6. Remembered'
    BY <1>1 DEF HooksInv, Remembered, IsBranchChange, Nowhere
<1>7. ASSUME NEW f \in TreeFiles, content'[f] # indexed'[f] PROVE Accounted(f)'
    <2>1. Accounted(f)
        BY <1>1, <1>7 DEF HooksInv
    <2>2. f \in queued \cup missed => Accounted(f)'
        BY <1>1 DEF Accounted
    <2>3. Named(f) => Named(f)'
        BY <1>1, <1>3 DEF Named, BranchChanged, Names, CheckoutPaths, MutatedPaths, Nowhere
    <2>4. TakenAlong(f) => TakenAlong(f)'
        BY <1>1, <1>3 DEF TakenAlong, BranchChanged, Nowhere
    <2> QED
        BY <2>1, <2>2, <2>3, <2>4 DEF Accounted
<1> QED
    BY <1>5, <1>6, <1>7 DEF HooksInv

LEMMA FileIndexedKeeps ==
    ASSUME HooksInv, NEW g \in TreeFiles, FileIndexed(g)
    PROVE  HooksInv'
<1>1. /\ indexed' = [indexed EXCEPT ![g] = content[g]]
      /\ queued' = queued \ {g} /\ missed' = missed \ {g}
      /\ UNCHANGED <<tips, head, content, toolCalls>>
    BY DEF FileIndexed
<1>2. indexed' \in Trees
    BY <1>1, CallsTyped DEF Trees
<1>3. HooksTypeOK'
    BY <1>1, <1>2 DEF HooksInv, HooksTypeOK
<1>4. Remembered'
    BY <1>1 DEF HooksInv, Remembered, IsBranchChange, Nowhere
<1>5. ASSUME NEW f \in TreeFiles, content'[f] # indexed'[f] PROVE Accounted(f)'
    <2>1. f # g /\ Accounted(f)
        BY <1>1, <1>5, CallsTyped DEF HooksInv, Trees
    <2>2. f \in queued \cup missed => Accounted(f)'
        BY <1>1, <2>1 DEF Accounted
    <2>3. Named(f) => Named(f)'
        BY <1>1 DEF Named, BranchChanged, Names, CheckoutPaths, MutatedPaths, Nowhere
    <2>4. TakenAlong(f) => TakenAlong(f)'
        BY <1>1 DEF TakenAlong, BranchChanged, Nowhere
    <2> QED
        BY <2>1, <2>2, <2>3, <2>4 DEF Accounted
<1> QED
    BY <1>3, <1>4, <1>5 DEF HooksInv

LEMMA HooksInvStep == HooksInv /\ [HooksNext]_hookVars => HooksInv'
<1> SUFFICES ASSUME HooksInv, [HooksNext]_hookVars PROVE HooksInv'
    OBVIOUS
<1>1. ASSUME NEW c \in Calling,
             \/ \E command \in Commands : HookBefore(c, command)
             \/ GitMoves(c) \/ CommandFails(c) \/ CallThrows(c) \/ HookAfter(c)
             \/ \E v \in FileVersions : FileSet(c, v)
      PROVE  HooksInv'
    BY <1>1, HookBeforeKeeps, GitMovesKeeps, CommandFailsKeeps, CallThrowsKeeps,
       HookAfterKeeps, FileSetKeeps
<1>2. CASE UNCHANGED hookVars
    <2>1. HooksTypeOK' /\ Remembered'
        BY <1>2 DEF hookVars, HooksInv, HooksTypeOK, Remembered, IsBranchChange, Nowhere
    <2>2. \A f \in TreeFiles : content'[f] # indexed'[f] => Accounted(f)'
        BY <1>2 DEF hookVars, HooksInv, Accounted, Named, TakenAlong, BranchChanged, Names,
                    CheckoutPaths, MutatedPaths, Nowhere
    <2> QED
        BY <2>1, <2>2 DEF HooksInv
<1> QED
    BY <1>1, <1>2, CommitsKeeps, FileIndexedKeeps DEF HooksNext, Calling

LEMMA HooksInvariant == HooksSpec => []HooksInv
<1> QED
    BY HooksInvInit, HooksInvStep, PTL DEF HooksSpec

\* The state of the hooks keeps its types (graph-tools.ts).
THEOREM HooksTypeCorrect == HooksSpec => []HooksTypeOK
<1>1. HooksInv => HooksTypeOK
    BY DEF HooksInv
<1> QED
    BY <1>1, HooksInvariant, PTL

\* When no call is between its command and its after hook, every file that is
\* not what the graph has is on its way to be indexed, or changed where no hook
\* could see it, whatever switches, checkouts, edits and commits overlap
\* (graph-tools.ts:393-411).
THEOREM EditsAreReported == HooksSpec => []EditsReported
<1>1. HooksInv => EditsReported
    BY DEF HooksInv, Accounted, Named, TakenAlong, EditsReported, Calling
<1> QED
    BY <1>1, HooksInvariant, PTL

-----------------------------------------------------------------------------
(***************************************************************************)
(* Indexing.  EditsAccounted speaks of a process at rest.  While it works, *)
(* a file whose row is not the file (Undone) is one the service will get   *)
(* to (Reached): a change of it is on its way (Coming), a scan will still  *)
(* come to it (ScanAhead), or its indexing goes on after a batch has given *)
(* it up.  It is also one that a start would notice if the process stopped *)
(* now (Noticed): by the missing row, or by being newer than the           *)
(* fingerprint, which a scan that has cleared the tables may not count on. *)
(* Both have to hold at every step, for neither follows from the other:    *)
(* the first is lost with the process, the second with the next scan.      *)
(***************************************************************************)
OpRecord == [kind : {"prepare", "batch", "finalize", "change"}, by : {"flush", "scan", "none"},
             file : Paths \cup {SomeFile}, offset : Nat, files : Seq(Paths), begun : BOOLEAN,
             seen : 1 .. Unseen]

\* A change has its file or has done it; only a batch that has begun has more.
OpFormed(op) ==
    /\ op \in OpRecord
    /\ op.kind = "change" => /\ op.file \in Paths /\ op.by # "scan" /\ op.begun
                             /\ op.files \in {<<>>, <<op.file>>}
    /\ op.kind # "change" => op.by # "flush"
    /\ op.kind \in {"prepare", "finalize"} \/ ~op.begun => op.files = <<>>
    /\ op.files = <<>> => op.seen = Unseen

\* What an operation is before it is its turn.
Resting(op) == op.seen = Unseen /\ IF op.kind = "change" THEN op.files = <<op.file>> ELSE ~op.begun

ChainOK ==
    /\ chain \in Seq(OpRecord)
    /\ \A i \in DOMAIN chain : OpFormed(chain[i]) /\ (i # 1 => Resting(chain[i]))

IndexingTypes ==
    /\ disk \in [Paths -> Times] /\ edits \in Times /\ events \subseteq Paths
    /\ life \in {"off", "check", "up"}
    /\ queue \subseteq Paths /\ timer \in BOOLEAN
    /\ flush \in Flush /\ (flush.pc \in {"idle", "stats"} => flush.left = {})
    /\ scan \in Scan /\ todo \in Seq(Paths)
    /\ index \in [Paths -> Row] /\ meta \in Fingerprint \cup {NoPrint}
    /\ healthy \in BOOLEAN /\ dead \in BOOLEAN
    /\ dropped \subseteq Paths /\ late \subseteq [file : Paths, m : Times]

\* The scan waits for an operation of the chain that only changes follow.  The
\* tables are not cleared but for a scan that waits for it, or has failed.
ScanOK ==
    /\ scan.pc = "calling" <=> \E i \in DOMAIN chain : chain[i].by = "scan"
    /\ \A i \in DOMAIN chain : chain[i].by = "scan" =>
          /\ chain[i].kind = scan.step
          /\ \A j \in DOMAIN chain : j > i => chain[j].kind = "change"
    /\ \A i \in DOMAIN chain : chain[i].kind = "prepare" =>
          \/ scan.pc = "failed"
          \/ scan.pc = "idle" /\ ~healthy
          \/ scan.pc = "calling" /\ scan.step = "prepare"

\* The tables have been cleared for the present scan.
Cleared == scan.pc \in {"answered", "stats"} \/ (scan.pc = "calling" /\ scan.step # "prepare")

\* Whatever was seen of a file is no newer than the file, unless it is deleted.
Past(f, m) == m <= edits /\ (disk[f] = 0 \/ m <= disk[f])
RowsOK ==
    /\ \A f \in Paths : /\ disk[f] <= edits
                        /\ index[f].m <= index[f].v /\ Past(f, index[f].v)
                        /\ index[f].m = 0 => index[f].v = 0
    /\ \A x \in late : x.m # 0 /\ Past(x.file, x.m)
    /\ Busy /\ Running.seen # Unseen => Past(Head(Running.files), Running.seen)
    /\ meta.mtime <= edits

\* A change of the file is on its way, or being indexed as it is now.
Called(f) == \E i \in DOMAIN chain : /\ chain[i].kind = "change" /\ chain[i].file = f
                                      /\ chain[i].files # <<>> /\ chain[i].seen = Unseen
Waiting(f) ==
    \/ f \in events \cup flush.left
    \/ f \in queue /\ (timer \/ flush.pc # "idle")
    \/ Called(f)
Handled(f) == /\ Busy /\ Running.kind = "change" /\ Running.file = f
              /\ Running.files # <<>> /\ Running.seen = disk[f]
Coming(f) == Waiting(f) \/ Handled(f)

\* A file that has changed since the worker looked at it.
StaleSeen ==
    Busy /\ Running.seen # Unseen /\ Running.seen # disk[Head(Running.files)]
       => Head(Running.files) \in dropped \/ Waiting(Head(Running.files))

Ahead(f, n) == \E i \in DOMAIN todo : i > n /\ todo[i] = f
InBatch(f, op) == \E j \in DOMAIN op.files : op.files[j] = f /\ (j = 1 => op.seen \in {Unseen, disk[f]})

\* The scan will still get to the file, or the index does not pass for healthy.
ScanAhead(f) ==
    \/ scan.pc = "failed"
    \/ scan.pc = "idle" /\ (~healthy \/ (life # "up" /\ disk[f] > meta.mtime))
    \/ scan.pc = "calling" /\ scan.step = "prepare"
    \/ scan.pc = "answered" /\ scan.step = "prepare" /\ Ahead(f, 0)
    \/ scan.pc = "answered" /\ scan.step = "batch" /\ Ahead(f, scan.offset)
    \/ scan.pc = "calling" /\ scan.step = "batch" /\ \E i \in DOMAIN chain :
          chain[i].by = "scan" /\ (Ahead(f, chain[i].offset) \/ InBatch(f, chain[i]))

GivenUpLate(f) == disk[f] # 0 /\ \E x \in late : x.file = f

Undone(f) == index[f].v # disk[f] /\ f \notin dropped

\* What would be left to do if the process stopped now, and while it does not.
Noticed(f) == Coming(f) \/ index[f].m = 0 \/ (disk[f] > meta.mtime /\ ~Cleared)
Reached(f) == Coming(f) \/ GivenUpLate(f) \/ ScanAhead(f)

OffOK == life = "off" =>
    /\ chain = <<>> /\ late = {} /\ events = {} /\ queue = {} /\ ~timer
    /\ flush = NoFlush /\ scan = NoScan
    /\ \A f \in Paths : Undone(f) => disk[f] > meta.mtime

IndexingInv ==
    /\ IndexingTypes /\ ChainOK /\ ScanOK /\ RowsOK /\ StaleSeen /\ OffOK
    /\ \A f \in Paths : Undone(f) => Noticed(f) /\ Reached(f)

-----------------------------------------------------------------------------
LEMMA Constants ==
    /\ MaxEdits \in Nat /\ Unseen \in Nat /\ Unseen = MaxEdits + 1
    /\ 0 \in Times /\ \A t \in Times : t \in Nat /\ t # Unseen
    /\ NoRow \in Row /\ NoRow.m = 0 /\ NoRow.v = 0
  BY IndexingAssumption DEF Unseen, Times, NoRow, Row

LEMMA ChainFacts ==
    ASSUME chain \in Seq(OpRecord)
    PROVE  /\ DOMAIN chain = 1 .. Len(chain) /\ Len(chain) \in Nat
           /\ \A i \in DOMAIN chain : i \in Nat /\ chain[i] \in OpRecord
           /\ Busy => 1 \in DOMAIN chain /\ Running = chain[1]
           /\ 1 \in DOMAIN chain => Busy
  BY DEF Busy, Running

LEMMA HeadReplaced ==
    ASSUME ChainOK, Busy, NEW x, OpFormed(x), chain' = <<x>> \o Tail(chain)
    PROVE  /\ ChainOK' /\ Busy' /\ Running' = x /\ chain'[1] = x
           /\ DOMAIN chain' = DOMAIN chain
           /\ \A i \in DOMAIN chain : i # 1 => chain'[i] = chain[i]
<1>1. chain \in Seq(OpRecord) /\ chain # <<>> /\ x \in OpRecord
    BY DEF ChainOK, Busy, OpFormed
<1>2. /\ Tail(chain) \in Seq(OpRecord) /\ Len(Tail(chain)) = Len(chain) - 1
      /\ \A i \in 1 .. Len(Tail(chain)) : Tail(chain)[i] = chain[i + 1]
    BY <1>1, HeadTailProperties
<1>3. /\ <<x>> \in Seq(OpRecord) /\ Len(<<x>>) = 1 /\ <<x>>[1] = x
    BY <1>1
<1>4. /\ chain' \in Seq(OpRecord) /\ Len(chain') = Len(chain)
      /\ \A i \in 1 .. Len(chain) : chain'[i] = IF i <= 1 THEN x ELSE Tail(chain)[i - 1]
    BY <1>1, <1>2, <1>3, ConcatProperties
<1>5. /\ DOMAIN chain = 1 .. Len(chain) /\ Len(chain) \in Nat \ {0}
      /\ DOMAIN chain' = 1 .. Len(chain)
    BY <1>1, <1>4
<1>6. chain'[1] = x /\ \A i \in DOMAIN chain : i # 1 => chain'[i] = chain[i]
    BY <1>2, <1>4, <1>5
<1>7. chain' # <<>> /\ Head(chain') = chain'[1]
    BY <1>4, <1>5
<1>8. ChainOK'
    BY <1>4, <1>5, <1>6 DEF ChainOK
<1> QED
    BY <1>5, <1>6, <1>7, <1>8 DEF Busy, Running

LEMMA HeadDropped ==
    ASSUME ChainOK, Busy, chain' = Tail(chain)
    PROVE  /\ ChainOK'
           /\ \A i \in DOMAIN chain' : /\ i \in Nat \ {0} /\ i + 1 \in DOMAIN chain
                                       /\ chain'[i] = chain[i + 1]
           /\ \A i \in DOMAIN chain : i # 1 => /\ i - 1 \in DOMAIN chain' /\ i - 1 \in Nat
                                               /\ chain'[i - 1] = chain[i]
           /\ Busy' => Resting(Running')
<1>1. chain \in Seq(OpRecord) /\ chain # <<>>
    BY DEF ChainOK, Busy
<1>2. /\ chain' \in Seq(OpRecord) /\ Len(chain') = Len(chain) - 1
      /\ \A i \in 1 .. Len(chain') : chain'[i] = chain[i + 1]
    BY <1>1, HeadTailProperties
<1>3. /\ DOMAIN chain = 1 .. Len(chain) /\ Len(chain) \in Nat \ {0}
      /\ DOMAIN chain' = 1 .. Len(chain) - 1
    BY <1>1, <1>2
<1>4. \A i \in DOMAIN chain' : i \in Nat \ {0} /\ i + 1 \in DOMAIN chain /\ chain'[i] = chain[i + 1]
    BY <1>2, <1>3
<1>5. \A i \in DOMAIN chain : i # 1 => /\ i - 1 \in DOMAIN chain' /\ i - 1 \in Nat
                                       /\ chain'[i - 1] = chain[i]
    BY <1>2, <1>3
<1>6. ChainOK'
    BY <1>2, <1>4 DEF ChainOK
<1>7. Busy' => Resting(Running')
    <2>1. Busy' => 1 \in DOMAIN chain' /\ Running' = chain'[1]
        BY <1>2 DEF Busy, Running
    <2>2. 1 \in DOMAIN chain' => chain'[1] = chain[2] /\ 2 \in DOMAIN chain
        BY <1>4
    <2> QED
        BY <2>1, <2>2 DEF ChainOK
<1> QED
    BY <1>4, <1>5, <1>6, <1>7

LEMMA OpAppended ==
    ASSUME ChainOK, NEW x, OpFormed(x), Resting(x), chain' = Append(chain, x)
    PROVE  /\ ChainOK' /\ Len(chain') = Len(chain) + 1 /\ Len(chain) \in Nat
           /\ DOMAIN chain = 1 .. Len(chain) /\ DOMAIN chain' = 1 .. Len(chain) + 1
           /\ chain'[Len(chain) + 1] = x
           /\ \A i \in DOMAIN chain : i \in DOMAIN chain' /\ chain'[i] = chain[i]
           /\ \A i \in DOMAIN chain' : i \in DOMAIN chain \/ i = Len(chain) + 1
           /\ Busy' /\ Running' = IF Busy THEN Running ELSE x
<1>1. chain \in Seq(OpRecord) /\ x \in OpRecord
    BY DEF ChainOK, OpFormed
<1>2. /\ chain' \in Seq(OpRecord) /\ Len(chain') = Len(chain) + 1 /\ chain' # <<>>
      /\ \A i \in 1 .. Len(chain) : chain'[i] = chain[i]
      /\ chain'[Len(chain) + 1] = x
    BY <1>1, AppendProperties
<1>3. /\ DOMAIN chain = 1 .. Len(chain) /\ Len(chain) \in Nat
      /\ DOMAIN chain' = 1 .. Len(chain) + 1
    BY <1>1, <1>2
<1>4. \A i \in DOMAIN chain' : i \in DOMAIN chain \/ i = Len(chain) + 1
    BY <1>3
<1>5. ChainOK'
    BY <1>2, <1>3, <1>4 DEF ChainOK
<1>6. Busy' /\ Running' = IF Busy THEN Running ELSE x
    <2>1. Head(chain') = chain'[1]
        BY <1>2
    <2>2. CASE Busy
        BY <1>1, <1>2, <1>3, <2>1, <2>2 DEF Busy, Running
    <2>3. CASE ~Busy
        BY <1>2, <1>3, <2>1, <2>3 DEF Busy, Running
    <2> QED
        BY <2>2, <2>3
<1> QED
    BY <1>2, <1>3, <1>4, <1>5, <1>6

-----------------------------------------------------------------------------
(* Files and the watcher.                                                  *)

\* What does not speak of operations when the chain is left alone.
LEMMA ChainSame ==
    ASSUME IndexingInv, UNCHANGED chain
    PROVE  ChainOK' /\ (UNCHANGED <<scan, healthy>> => ScanOK')
           /\ (Busy' <=> Busy) /\ Running' = Running
  BY DEF IndexingInv, ChainOK, ScanOK, Busy, Running

LEMMA EditKeeps ==
    ASSUME IndexingInv, NEW g \in Paths, Edit(g)
    PROVE  IndexingInv'
<1> USE DEF IndexingInv
<1>1. PICK t \in {0, edits + 1} : disk' = [disk EXCEPT ![g] = t]
    BY DEF Edit
<1>2. /\ edits < MaxEdits /\ edits' = edits + 1
      /\ events' = IF life = "off" THEN events ELSE events \cup {g}
      /\ dropped' = IF life = "off" /\ disk'[g] = 0 THEN dropped \cup {g} ELSE dropped
      /\ UNCHANGED <<life, scan, meta, healthy, dead, queue, timer, flush, chain, todo, late,
                     index>>
    BY DEF Edit, queueVars, workVars
<1>3. /\ disk \in [Paths -> Times] /\ edits \in Nat /\ MaxEdits \in Nat
      /\ edits' \in Times /\ disk' \in [Paths -> Times]
      /\ disk'[g] = t /\ \A f \in Paths : f # g => disk'[f] = disk[f]
    BY <1>1, <1>2, Constants DEF IndexingTypes, Times
<1>4. IndexingTypes'
    BY <1>2, <1>3 DEF IndexingTypes
<1>5. ChainOK' /\ ScanOK' /\ (Busy' <=> Busy) /\ Running' = Running
    BY <1>2, ChainSame
<1>6. \A f \in Paths, m \in Nat : m <= edits /\ Past(f, m) => Past(f, m)'
    BY <1>1, <1>2, <1>3, Constants DEF Past, Times
<1>7. Busy /\ Running.seen # Unseen => /\ Head(Running.files) \in Paths
                                       /\ Running.seen \in Nat /\ Running.seen <= edits
    <2>1. Busy => OpFormed(Running)
        BY ChainFacts DEF ChainOK
    <2> QED
        BY <2>1, Constants DEF OpFormed, OpRecord, RowsOK, Past
<1>8. RowsOK'
    <2>1. \A f \in Paths : /\ index[f].m \in Nat /\ index[f].v \in Nat /\ index[f].v <= edits
                           /\ disk'[f] <= edits'
        BY <1>1, <1>2, <1>3, Constants DEF RowsOK, Past, IndexingTypes, Row, Times
    <2>2. \A x \in late : x.file \in Paths /\ x.m \in Nat /\ x.m <= edits
        BY Constants DEF RowsOK, Past, IndexingTypes, Times
    <2>3. meta'.mtime <= edits'
        <3>1. meta.mtime \in Nat
            BY Constants DEF IndexingTypes, Fingerprint, NoPrint, Times
        <3> QED
            BY <1>2, <1>3, <3>1 DEF RowsOK
    <2> QED
        BY <1>2, <1>5, <1>6, <1>7, <2>1, <2>2, <2>3 DEF RowsOK
<1>9. \A f : Waiting(f) => Waiting(f)'
    BY <1>2 DEF Waiting, Called
<1>10. life # "off" => Waiting(g)'
    BY <1>2 DEF Waiting, Called
<1>11. Busy => life # "off"
    BY DEF OffOK, Busy
<1>12. StaleSeen'
    <2>1. CASE Head(Running.files) = g
        BY <1>5, <1>10, <1>11, <2>1 DEF StaleSeen
    <2>2. CASE Head(Running.files) # g
        BY <1>2, <1>3, <1>5, <1>7, <1>9, <2>2 DEF StaleSeen
    <2> QED
        BY <2>1, <2>2
<1>13. meta.mtime \in Nat /\ meta.mtime <= edits
    BY Constants DEF IndexingTypes, Fingerprint, NoPrint, Times, RowsOK
<1>14. life = "off" /\ Undone(g)' => disk'[g] > meta.mtime
    BY <1>1, <1>2, <1>3, <1>13, Constants DEF Undone
<1>15. OffOK'
    BY <1>2, <1>3, <1>14 DEF OffOK, Undone
<1>16. ASSUME NEW f \in Paths, Undone(f)' PROVE Noticed(f)' /\ Reached(f)'
    <2>1. CASE f = g
        <3>1. CASE life # "off"
            BY <1>10, <2>1, <3>1 DEF Noticed, Reached, Coming
        <3>2. CASE life = "off"
            <4>1. disk'[f] > meta'.mtime /\ scan'.pc = "idle" /\ life' # "up"
                BY <1>2, <1>14, <1>16, <2>1, <3>2 DEF OffOK, NoScan
            <4> QED
                BY <4>1 DEF Noticed, Reached, ScanAhead, Cleared
        <3> QED
            BY <3>1, <3>2
    <2>2. CASE f # g
        <3>1. Undone(f) /\ disk'[f] = disk[f]
            BY <1>2, <1>3, <1>16, <2>2 DEF Undone
        <3>2. Coming(f) => Coming(f)'
            BY <1>5, <1>9, <3>1 DEF Coming, Handled
        <3>3. ScanAhead(f) => ScanAhead(f)'
            BY <1>2, <3>1 DEF ScanAhead, Ahead, InBatch
        <3>4. Noticed(f) => Noticed(f)'
            BY <1>2, <3>1, <3>2 DEF Noticed, Cleared
        <3>5. GivenUpLate(f) => GivenUpLate(f)'
            BY <1>2, <3>1 DEF GivenUpLate
        <3> QED
            BY <3>1, <3>2, <3>3, <3>4, <3>5 DEF Reached
    <2> QED
        BY <2>1, <2>2
<1> QED
    BY <1>4, <1>5, <1>8, <1>12, <1>15, <1>16

-----------------------------------------------------------------------------
(* Steps that leave the files and the index alone.                         *)

LEMMA HeadFile ==
    ASSUME IndexingInv, Busy
    PROVE  /\ OpFormed(Running) /\ 1 \in DOMAIN chain /\ chain[1] = Running
           /\ Running.files # <<>> => Head(Running.files) \in Paths
           /\ Running.seen # Unseen => /\ Running.files # <<>> /\ Running.seen \in Times
                                       /\ Running.seen # 0
<1>1. OpFormed(Running) /\ 1 \in DOMAIN chain /\ chain[1] = Running
    BY ChainFacts DEF IndexingInv, ChainOK
<1>2. Running.files \in Seq(Paths) /\ Running.seen \in 1 .. Unseen
    BY <1>1 DEF OpFormed, OpRecord
<1> QED
    BY <1>1, <1>2, Constants DEF OpFormed, Times

LEMMA LifeOn ==
    ASSUME IndexingInv, Busy \/ scan.pc # "idle" \/ flush.pc # "idle" \/ timer \/ events # {}
                          \/ late # {}
    PROVE  life # "off"
  BY DEF IndexingInv, OffOK, Busy, NoScan, NoFlush

\* What is on its way stays so, or is given up.
LEMMA Goes ==
    ASSUME IndexingInv, life # "off", life' # "off",
           UNCHANGED <<disk, edits, index, meta, late>>,
           IndexingTypes', ChainOK', ScanOK', dropped \subseteq dropped',
           Busy' /\ Running'.seen # Unseen => /\ Busy /\ Running'.files = Running.files
                                              /\ Running'.seen = Running.seen,
           \A f \in Paths : Waiting(f) => Waiting(f)' \/ f \in dropped',
           \A f \in Paths : Handled(f) => Handled(f)',
           \A f \in Paths : ScanAhead(f) => ScanAhead(f)',
           Cleared' => Cleared
    PROVE  IndexingInv'
<1>1. RowsOK'
    BY DEF IndexingInv, RowsOK, Past
<1>2. StaleSeen'
    BY HeadFile DEF IndexingInv, StaleSeen
<1>3. OffOK'
    BY DEF OffOK
<1>4. ASSUME NEW f \in Paths, Undone(f)' PROVE Noticed(f)' /\ Reached(f)'
    <2>1. Undone(f) /\ f \notin dropped'
        BY <1>4 DEF Undone
    <2>2. Coming(f) => Coming(f)'
        BY <2>1 DEF Coming
    <2>3. GivenUpLate(f) => GivenUpLate(f)'
        BY DEF GivenUpLate
    <2> QED
        BY <2>1, <2>2, <2>3 DEF IndexingInv, Noticed, Reached
<1> QED
    BY <1>1, <1>2, <1>3, <1>4 DEF IndexingInv

LEMMA WatchedKeeps ==
    ASSUME IndexingInv, NEW g \in Paths, Watched(g)
    PROVE  IndexingInv'
<1>1. /\ events' = events \ {g} /\ queue' = queue \cup {g} /\ timer' = TRUE /\ g \in events
      /\ UNCHANGED <<disk, edits, life, flush, scan, meta, healthy, dead, dropped, chain, todo,
                     late, index>>
    BY DEF Watched, workVars
<1>2. IndexingTypes'
    BY <1>1 DEF IndexingInv, IndexingTypes
<1>3. ChainOK' /\ ScanOK' /\ (Busy' <=> Busy) /\ Running' = Running
    BY <1>1, ChainSame
<1>4. \A f \in Paths : Waiting(f) => Waiting(f)'
    BY <1>1 DEF Waiting, Called
<1>5. \A f \in Paths : Handled(f) => Handled(f)'
    BY <1>1, <1>3 DEF Handled
<1>6. \A f \in Paths : ScanAhead(f) => ScanAhead(f)'
    BY <1>1 DEF ScanAhead, Ahead, InBatch
<1>7. Cleared' <=> Cleared
    BY <1>1 DEF Cleared
<1>8. life # "off"
    BY <1>1, LifeOn
<1> QED
    BY <1>1, <1>2, <1>3, <1>4, <1>5, <1>6, <1>7, <1>8, Goes

-----------------------------------------------------------------------------
(* The flush.                                                              *)

LEMMA ChangeOp ==
    ASSUME NEW g \in Paths
    PROVE  LET x == Op("change", "flush", g, 0) IN
           /\ x.kind = "change" /\ x.by = "flush" /\ x.file = g /\ x.files = <<g>> /\ x.files # <<>>
           /\ x.seen = Unseen /\ OpFormed(x) /\ Resting(x)
<1> DEFINE x == Op("change", "flush", g, 0)
<1>1. x = [kind |-> "change", by |-> "flush", file |-> g, offset |-> 0, files |-> <<g>>,
           begun |-> TRUE, seen |-> Unseen]
    BY DEF Op, Unseen
<1>2. <<g>> \in Seq(Paths) /\ <<g>> # <<>> /\ Unseen \in 1 .. Unseen
    BY Constants
<1> HIDE DEF x
<1>3. x \in OpRecord
    <2>1. {"prepare", "batch", "finalize", "change"} # {} /\ "change" \in {"prepare", "batch", "finalize", "change"}
          /\ "flush" \in {"flush", "scan", "none"} /\ g \in Paths \cup {SomeFile}
        OBVIOUS
    <2> QED
        BY <1>1, <1>2, <2>1 DEF OpRecord
<1>4. OpFormed(x)
    BY <1>1, <1>2, <1>3 DEF OpFormed
<1>5. Resting(x)
    BY <1>1 DEF Resting
<1>6. LET y == x IN /\ y.kind = "change" /\ y.by = "flush" /\ y.file = g /\ y.files = <<g>>
                    /\ y.files # <<>> /\ y.seen = Unseen /\ OpFormed(y) /\ Resting(y)
    BY <1>1, <1>2, <1>4, <1>5
<1> QED
    BY <1>6 DEF x

LEMMA CallNextKeeps ==
    ASSUME IndexingInv, NEW taken \in SUBSET Paths, CallNext(taken), UNCHANGED <<scan, healthy>>
    PROVE  /\ ChainOK' /\ ScanOK' /\ flush' \in Flush /\ flush'.pc = "calling"
           /\ Busy => Busy' /\ Running' = Running
           /\ ~Busy => Running'.seen = Unseen
           /\ \A f \in Paths : f \in taken => f \in flush'.left \/ Called(f)'
           /\ \A f \in Paths : Called(f) => Called(f)'
<1>1. PICK g \in taken : /\ flush' = [pc |-> "calling", left |-> taken \ {g}]
                         /\ chain' = Append(chain, Op("change", "flush", g, 0))
    BY DEF CallNext
<1> DEFINE x == Op("change", "flush", g, 0)
<1>2. /\ x.kind = "change" /\ x.by = "flush" /\ x.file = g /\ x.files = <<g>> /\ x.files # <<>>
      /\ x.seen = Unseen /\ OpFormed(x) /\ Resting(x)
    BY ChangeOp
<1> HIDE DEF x
<1>3. /\ ChainOK' /\ Len(chain) \in Nat
      /\ DOMAIN chain = 1 .. Len(chain) /\ DOMAIN chain' = 1 .. Len(chain) + 1
      /\ chain'[Len(chain) + 1] = x
      /\ \A i \in DOMAIN chain : i \in DOMAIN chain' /\ chain'[i] = chain[i]
      /\ \A i \in DOMAIN chain' : i \in DOMAIN chain \/ i = Len(chain) + 1
      /\ Busy' /\ Running' = IF Busy THEN Running ELSE x
    BY <1>1, <1>2, OpAppended DEF IndexingInv, x
<1>4. ScanOK'
    <2>1. (\E i \in DOMAIN chain' : chain'[i].by = "scan")
             <=> \E i \in DOMAIN chain : chain[i].by = "scan"
        BY <1>2, <1>3
    <2>2. ASSUME NEW i \in DOMAIN chain', chain'[i].by = "scan"
          PROVE  /\ chain'[i].kind = scan.step
                 /\ \A j \in DOMAIN chain' : j > i => chain'[j].kind = "change"
        BY <1>2, <1>3, <2>2 DEF IndexingInv, ScanOK
    <2>3. ASSUME NEW i \in DOMAIN chain', chain'[i].kind = "prepare"
          PROVE  i \in DOMAIN chain /\ chain[i].kind = "prepare"
        BY <1>2, <1>3, <2>3
    <2> QED
        BY <2>1, <2>2, <2>3 DEF IndexingInv, ScanOK
<1>5. \A f \in Paths : f \in taken => f \in flush'.left \/ Called(f)'
    <2>1. Called(g)'
        <3>1. Len(chain) + 1 \in DOMAIN chain'
            BY <1>3
        <3> QED
            BY <1>2, <1>3, <3>1 DEF Called
    <2> QED
        BY <1>1, <2>1
<1>6. \A f \in Paths : Called(f) => Called(f)'
    BY <1>3 DEF Called
<1>7. flush' \in Flush /\ flush'.pc = "calling"
    BY <1>1 DEF Flush
<1> QED
    BY <1>2, <1>3, <1>4, <1>5, <1>6, <1>7

LEMMA FlushFiresKeeps ==
    ASSUME IndexingInv, FlushFires
    PROVE  IndexingInv'
<1>1. /\ timer /\ timer' = FALSE
      /\ UNCHANGED <<disk, edits, events, life, scan, todo, late, index, meta, healthy, dead>>
    BY DEF FlushFires, fsVars
<1>2. life # "off" /\ life' # "off"
    BY <1>1, LifeOn
<1>3. \A f \in Paths : (Cleared' => Cleared)
    BY <1>1 DEF Cleared
<1>4. CASE healthy /\ flush.pc = "idle" /\ queue # {}
    <2>1. /\ queue' = {} /\ CallNext(queue) /\ UNCHANGED dropped /\ flush.left = {}
          /\ queue \in SUBSET Paths
        BY <1>4 DEF FlushFires, IndexingInv, IndexingTypes
    <2>2. /\ ChainOK' /\ ScanOK' /\ flush' \in Flush /\ flush'.pc = "calling"
          /\ Busy => Busy' /\ Running' = Running
          /\ ~Busy => Running'.seen = Unseen
          /\ \A f \in Paths : f \in queue => f \in flush'.left \/ Called(f)'
          /\ \A f \in Paths : Called(f) => Called(f)'
        BY <1>1, <2>1, CallNextKeeps
    <2>3. IndexingTypes'
        BY <1>1, <2>1, <2>2 DEF IndexingInv, IndexingTypes
    <2>4. \A f \in Paths : Waiting(f) => Waiting(f)'
        BY <1>1, <2>1, <2>2 DEF Waiting
    <2>5. \A f \in Paths : Handled(f) => Handled(f)'
        BY <1>1, <2>2 DEF Handled
    <2>6. \A f \in Paths : ScanAhead(f) => ScanAhead(f)'
        <3>1. \A i \in DOMAIN chain : i \in DOMAIN chain' /\ chain'[i] = chain[i]
            BY <2>1, ChainFacts DEF CallNext, IndexingInv, ChainOK
        <3> QED
            BY <1>1, <3>1 DEF ScanAhead, Ahead, InBatch
    <2> QED
        BY <1>1, <1>2, <1>3, <2>1, <2>2, <2>3, <2>4, <2>5, <2>6, Goes DEF Cleared
<1>5. CASE ~(healthy /\ flush.pc = "idle" /\ queue # {})
    <2>1. /\ queue' = IF healthy THEN queue ELSE {}
          /\ dropped' = IF healthy THEN dropped ELSE dropped \cup queue
          /\ UNCHANGED <<flush, chain>>
        BY <1>5 DEF FlushFires
    <2>2. IndexingTypes'
        BY <1>1, <2>1 DEF IndexingInv, IndexingTypes
    <2>3. ChainOK' /\ ScanOK' /\ (Busy' <=> Busy) /\ Running' = Running
        BY <1>1, <2>1, ChainSame
    <2>4. \A f \in Paths : Waiting(f) => Waiting(f)' \/ f \in dropped'
        BY <1>1, <1>5, <2>1 DEF Waiting, Called
    <2>5. \A f \in Paths : Handled(f) => Handled(f)'
        BY <1>1, <2>3 DEF Handled
    <2>6. \A f \in Paths : ScanAhead(f) => ScanAhead(f)'
        BY <1>1, <2>1 DEF ScanAhead, Ahead, InBatch
    <2> QED
        BY <1>1, <1>2, <1>3, <2>1, <2>2, <2>3, <2>4, <2>5, <2>6, Goes DEF Cleared
<1> QED
    BY <1>4, <1>5

LEMMA FlushReturnsKeeps ==
    ASSUME IndexingInv, FlushReturns, flush.pc # "idle", flush.left = {},
           healthy' \in BOOLEAN, healthy' => healthy,
           UNCHANGED <<disk, edits, events, life, queue, scan, chain, todo, late, index, meta,
                       dead>>
    PROVE  IndexingInv'
<1>1. /\ flush' = NoFlush /\ timer' = (timer \/ (queue # {} /\ healthy'))
      /\ dropped' = IF healthy' THEN dropped ELSE dropped \cup queue
    BY DEF FlushReturns
<1>2. life # "off" /\ life' # "off"
    BY LifeOn
<1>3. IndexingTypes'
    <2>1. flush' \in Flush /\ flush'.left = {}
        BY <1>1 DEF NoFlush, Flush
    <2>2. timer' \in BOOLEAN /\ dropped' \subseteq Paths
        BY <1>1 DEF IndexingInv, IndexingTypes
    <2> QED
        BY <2>1, <2>2 DEF IndexingInv, IndexingTypes
<1>4. ChainOK' /\ (Busy' <=> Busy) /\ Running' = Running
    BY ChainSame
<1>5. ScanOK'
    BY DEF IndexingInv, ScanOK
<1>6. \A f \in Paths : Waiting(f) => Waiting(f)' \/ f \in dropped'
    BY <1>1 DEF Waiting, Called
<1>7. \A f \in Paths : Handled(f) => Handled(f)'
    BY <1>4 DEF Handled
<1>8. \A f \in Paths : ScanAhead(f) => ScanAhead(f)'
    BY DEF ScanAhead, Ahead, InBatch
<1>9. dropped \subseteq dropped' /\ (Cleared' => Cleared)
    BY <1>1 DEF Cleared
<1> QED
    BY <1>2, <1>3, <1>4, <1>5, <1>6, <1>7, <1>8, <1>9, Goes

LEMMA FlushGoesOnKeeps ==
    ASSUME IndexingInv, FlushGoesOn
    PROVE  IndexingInv'
<1>1. /\ flush.pc = "answered"
      /\ UNCHANGED <<disk, edits, events, life, queue, scan, todo, late, index, meta, healthy, dead>>
    BY DEF FlushGoesOn, fsVars
<1>2. life # "off" /\ life' # "off"
    BY <1>1, LifeOn
<1>3. Cleared' => Cleared
    BY <1>1 DEF Cleared
<1>4. CASE flush.left # {}
    <2>1. CallNext(flush.left) /\ UNCHANGED <<timer, dropped>> /\ flush.left \in SUBSET Paths
        BY <1>4 DEF FlushGoesOn, IndexingInv, IndexingTypes, Flush
    <2>2. /\ ChainOK' /\ ScanOK' /\ flush' \in Flush /\ flush'.pc = "calling"
          /\ Busy => Busy' /\ Running' = Running
          /\ ~Busy => Running'.seen = Unseen
          /\ \A f \in Paths : f \in flush.left => f \in flush'.left \/ Called(f)'
          /\ \A f \in Paths : Called(f) => Called(f)'
        BY <1>1, <2>1, CallNextKeeps
    <2>3. IndexingTypes'
        BY <1>1, <2>1, <2>2 DEF IndexingInv, IndexingTypes
    <2>4. \A f \in Paths : Waiting(f) => Waiting(f)'
        BY <1>1, <2>1, <2>2 DEF Waiting
    <2>5. \A f \in Paths : Handled(f) => Handled(f)'
        BY <1>1, <2>2 DEF Handled
    <2>6. \A f \in Paths : ScanAhead(f) => ScanAhead(f)'
        <3>1. \A i \in DOMAIN chain : i \in DOMAIN chain' /\ chain'[i] = chain[i]
            BY <2>1, ChainFacts DEF CallNext, IndexingInv, ChainOK
        <3> QED
            BY <1>1, <3>1 DEF ScanAhead, Ahead, InBatch
    <2> QED
        BY <1>1, <1>2, <1>3, <2>1, <2>2, <2>3, <2>4, <2>5, <2>6, Goes
<1>5. CASE flush.left = {} /\ healthy
    <2>1. flush' = [flush EXCEPT !.pc = "stats"] /\ UNCHANGED <<chain, timer, dropped>>
        BY <1>5 DEF FlushGoesOn
    <2>2. flush' \in Flush /\ flush'.left = {} /\ flush'.pc = "stats"
        BY <1>5, <2>1 DEF IndexingInv, IndexingTypes, Flush
    <2>3. IndexingTypes'
        BY <1>1, <2>1, <2>2 DEF IndexingInv, IndexingTypes
    <2>4. ChainOK' /\ ScanOK' /\ (Busy' <=> Busy) /\ Running' = Running
        BY <1>1, <2>1, ChainSame
    <2>5. \A f \in Paths : Waiting(f) => Waiting(f)'
        BY <1>1, <1>5, <2>1, <2>2 DEF Waiting, Called
    <2>6. \A f \in Paths : Handled(f) => Handled(f)'
        BY <1>1, <2>4 DEF Handled
    <2>7. \A f \in Paths : ScanAhead(f) => ScanAhead(f)'
        BY <1>1, <2>1 DEF ScanAhead, Ahead, InBatch
    <2> QED
        BY <1>1, <1>2, <1>3, <2>1, <2>3, <2>4, <2>5, <2>6, <2>7, Goes
<1>6. CASE flush.left = {} /\ ~healthy
    BY <1>1, <1>6, FlushReturnsKeeps DEF FlushGoesOn, IndexingInv, IndexingTypes
<1> QED
    BY <1>4, <1>5, <1>6

LEMMA FlushStatsKeeps ==
    ASSUME IndexingInv, FlushStats
    PROVE  IndexingInv'
<1>1. /\ flush.pc = "stats" /\ FlushReturns /\ (healthy' = healthy \/ healthy' = FALSE)
      /\ UNCHANGED <<disk, edits, events, life, queue, scan, chain, todo, late, index, meta, dead>>
    BY DEF FlushStats, workVars, fsVars
<1>2. flush.left = {} /\ healthy \in BOOLEAN
    BY <1>1 DEF IndexingInv, IndexingTypes
<1>3. healthy' \in BOOLEAN /\ (healthy' => healthy)
    <2>1. CASE healthy' = healthy
        BY <1>2, <2>1
    <2>2. CASE healthy' = FALSE
        BY <2>2
    <2> QED
        BY <1>1, <2>1, <2>2
<1>4. flush.pc # "idle"
    BY <1>1
<1> QED
    BY <1>1, <1>2, <1>3, <1>4, FlushReturnsKeeps

\* The callers of the chain are forgotten, the scan has failed if it waited for one.
LEMMA NobodyCalls ==
    ASSUME IndexingInv, NEW by \in {"scan", "flush"},
           chain' = [i \in DOMAIN chain |-> [chain[i] EXCEPT !.by = "none"]]
             \/ chain' = Abandoned(by)
    PROVE  /\ ChainOK' /\ (Busy' <=> Busy) /\ DOMAIN chain' = DOMAIN chain
           /\ \A i \in DOMAIN chain :
                 /\ chain'[i].kind = chain[i].kind /\ chain'[i].file = chain[i].file
                 /\ chain'[i].files = chain[i].files /\ chain'[i].seen = chain[i].seen
                 /\ chain'[i].offset = chain[i].offset
                 /\ chain'[i].by \in {"none", chain[i].by}
           /\ Busy => /\ Running'.kind = Running.kind /\ Running'.file = Running.file
                      /\ Running'.files = Running.files /\ Running'.seen = Running.seen
<1>1. \A i \in DOMAIN chain : chain'[i] \in {chain[i], [chain[i] EXCEPT !.by = "none"]}
    BY DEF Abandoned
<1>2. DOMAIN chain' = DOMAIN chain
    BY DEF Abandoned
<1>3. /\ DOMAIN chain = 1 .. Len(chain) /\ Len(chain) \in Nat
      /\ \A i \in DOMAIN chain : chain[i] \in OpRecord
      /\ Busy => 1 \in DOMAIN chain /\ Running = chain[1]
      /\ 1 \in DOMAIN chain => Busy
    BY ChainFacts DEF IndexingInv, ChainOK
<1>4. ASSUME NEW i \in DOMAIN chain
      PROVE  /\ chain'[i] \in OpRecord
             /\ chain'[i].kind = chain[i].kind /\ chain'[i].file = chain[i].file
             /\ chain'[i].files = chain[i].files /\ chain'[i].seen = chain[i].seen
             /\ chain'[i].offset = chain[i].offset /\ chain'[i].begun = chain[i].begun
             /\ chain'[i].by \in {"none", chain[i].by}
    BY <1>1, <1>3 DEF OpRecord
<1>5. chain' \in Seq(OpRecord) /\ Len(chain') = Len(chain)
    <2>1. chain' = [i \in DOMAIN chain |-> chain'[i]]
        BY <1>2 DEF Abandoned
    <2>2. chain' \in [1 .. Len(chain) -> OpRecord]
        BY <1>3, <1>4, <2>1
    <2>3. chain' \in Seq(OpRecord)
        BY <1>3, <2>2, SeqDef
    <2> QED
        BY <1>2, <1>3, <2>3
<1>6. (Busy' <=> Busy) /\ (Busy' => Running' = chain'[1] /\ 1 \in DOMAIN chain')
    BY <1>2, <1>3, <1>5 DEF Busy, Running
<1>7. ChainOK'
    <2>1. ASSUME NEW i \in DOMAIN chain PROVE OpFormed(chain'[i]) /\ (i # 1 => Resting(chain'[i]))
        <3>1. OpFormed(chain[i]) /\ (i # 1 => Resting(chain[i]))
            BY DEF IndexingInv, ChainOK
        <3>2. OpFormed(chain'[i])
            BY <1>4, <3>1 DEF OpFormed
        <3>3. i # 1 => Resting(chain'[i])
            BY <1>4, <3>1 DEF Resting
        <3> QED
            BY <3>2, <3>3
    <2> QED
        BY <1>2, <1>5, <2>1 DEF ChainOK
<1>8. Busy => /\ Running'.kind = Running.kind /\ Running'.file = Running.file
              /\ Running'.files = Running.files /\ Running'.seen = Running.seen
    BY <1>3, <1>4, <1>6
<1> QED
    BY <1>2, <1>4, <1>6, <1>7, <1>8

LEMMA FlushFailsKeeps ==
    ASSUME IndexingInv, FlushFails
    PROVE  IndexingInv'
<1>1. /\ flush.pc \in {"calling", "answered"} /\ healthy' = FALSE /\ dead' = TRUE
      /\ queue' = {} /\ flush' = NoFlush
      /\ chain' = [i \in DOMAIN chain |-> [chain[i] EXCEPT !.by = "none"]]
      /\ scan' = IF scan.pc = "calling" THEN [scan EXCEPT !.pc = "failed"] ELSE scan
      /\ UNCHANGED <<disk, edits, events, life, timer, todo, late, index, meta>>
    BY DEF FlushFails, fsVars
<1>2. dropped' = dropped \cup queue \cup flush.left
                    \cup {chain[i].file : i \in {j \in DOMAIN chain : chain[j].by = "flush"}}
    BY DEF FlushFails
<1>3. life # "off" /\ life' # "off"
    BY <1>1, LifeOn
<1>4. /\ ChainOK' /\ (Busy' <=> Busy) /\ DOMAIN chain' = DOMAIN chain
      /\ \A i \in DOMAIN chain :
            /\ chain'[i].kind = chain[i].kind /\ chain'[i].file = chain[i].file
            /\ chain'[i].files = chain[i].files /\ chain'[i].seen = chain[i].seen
      /\ Busy => /\ Running'.kind = Running.kind /\ Running'.file = Running.file
                 /\ Running'.files = Running.files /\ Running'.seen = Running.seen
    BY <1>1, NobodyCalls
<1>5. /\ scan' \in Scan /\ scan'.pc # "calling" /\ scan'.step = scan.step
      /\ scan'.offset = scan.offset
      /\ scan.pc = "calling" => scan'.pc = "failed"
      /\ scan.pc # "calling" => scan' = scan
    BY <1>1 DEF IndexingInv, IndexingTypes, Scan
<1>6. \A i \in DOMAIN chain' : chain'[i].by = "none"
    <2>1. \A i \in DOMAIN chain : chain[i] \in OpRecord
        BY ChainFacts DEF IndexingInv, ChainOK
    <2> QED
        BY <1>1, <2>1 DEF OpRecord
<1>7. ScanOK'
    <2>1. \A i \in DOMAIN chain' : chain'[i].by # "scan"
        BY <1>6
    <2>2. ASSUME NEW i \in DOMAIN chain', chain'[i].kind = "prepare"
          PROVE  scan'.pc = "failed" \/ (scan'.pc = "idle" /\ ~healthy')
        <3>1. chain[i].kind = "prepare" /\ i \in DOMAIN chain
            BY <1>4, <2>2
        <3> QED
            BY <1>1, <1>5, <3>1 DEF IndexingInv, ScanOK
    <2> QED
        BY <1>5, <2>1, <2>2 DEF ScanOK
<1>8. {chain[i].file : i \in {j \in DOMAIN chain : chain[j].by = "flush"}} \subseteq Paths
    BY DEF IndexingInv, ChainOK, OpFormed
<1>9. IndexingTypes'
    <2>1. flush' \in Flush /\ flush'.left = {}
        BY <1>1 DEF NoFlush, Flush
    <2>2. flush.left \subseteq Paths /\ queue \subseteq Paths /\ dropped \subseteq Paths
        BY DEF IndexingInv, IndexingTypes, Flush
    <2>3. dropped' \subseteq Paths
        BY <1>2, <1>8, <2>2
    <2> QED
        BY <1>1, <1>5, <2>1, <2>3 DEF IndexingInv, IndexingTypes
<1>10. \A f \in Paths : Waiting(f) => Waiting(f)' \/ f \in dropped'
    <2>1. \A f \in Paths : Called(f) => Called(f)'
        BY <1>4 DEF Called
    <2> QED
        BY <1>1, <1>2, <2>1 DEF Waiting
<1>11. \A f \in Paths : Handled(f) => Handled(f)'
    BY <1>1, <1>4 DEF Handled
<1>12. \A f \in Paths : ScanAhead(f) => ScanAhead(f)'
    BY <1>1, <1>5 DEF ScanAhead, Ahead
<1>13. (Cleared' => Cleared) /\ dropped \subseteq dropped'
    BY <1>2, <1>5 DEF Cleared
<1> QED
    BY <1>1, <1>3, <1>4, <1>7, <1>9, <1>10, <1>11, <1>12, <1>13, Goes

-----------------------------------------------------------------------------
(* The scan.                                                               *)

LEMMA ScanCallFailsKeeps ==
    ASSUME IndexingInv, ScanCallFails
    PROVE  IndexingInv'
<1>1. /\ scan.pc = "calling" /\ scan' = [scan EXCEPT !.pc = "failed"] /\ chain' = Abandoned("scan")
      /\ UNCHANGED <<disk, edits, events, life, queue, timer, flush, todo, late, index, meta,
                     healthy, dead, dropped>>
    BY DEF ScanCallFails, fsVars, queueVars
<1>2. life # "off" /\ life' # "off"
    BY <1>1, LifeOn
<1>3. /\ ChainOK' /\ (Busy' <=> Busy) /\ DOMAIN chain' = DOMAIN chain
      /\ \A i \in DOMAIN chain :
            /\ chain'[i].kind = chain[i].kind /\ chain'[i].file = chain[i].file
            /\ chain'[i].files = chain[i].files /\ chain'[i].seen = chain[i].seen
      /\ Busy => /\ Running'.kind = Running.kind /\ Running'.file = Running.file
                 /\ Running'.files = Running.files /\ Running'.seen = Running.seen
    BY <1>1, NobodyCalls
<1>4. scan' \in Scan /\ scan'.pc = "failed"
    BY <1>1 DEF IndexingInv, IndexingTypes, Scan
<1>5. \A i \in DOMAIN chain' : chain'[i].by # "scan"
    <2>1. \A i \in DOMAIN chain : chain[i] \in OpRecord
        BY ChainFacts DEF IndexingInv, ChainOK
    <2> QED
        BY <1>1, <2>1 DEF OpRecord, Abandoned
<1>6. ScanOK'
    <2>1. scan'.pc = "failed" /\ scan'.pc # "calling"
        BY <1>4
    <2> QED
        BY <1>5, <2>1 DEF ScanOK
<1>7. IndexingTypes'
    BY <1>1, <1>4 DEF IndexingInv, IndexingTypes
<1>8. \A f \in Paths : Waiting(f) => Waiting(f)'
    BY <1>1, <1>3 DEF Waiting, Called
<1>9. \A f \in Paths : Handled(f) => Handled(f)'
    BY <1>1, <1>3 DEF Handled
<1>10. \A f \in Paths : ScanAhead(f)'
    BY <1>4 DEF ScanAhead
<1>11. ~Cleared'
    BY <1>4 DEF Cleared
<1> QED
    BY <1>1, <1>2, <1>3, <1>6, <1>7, <1>8, <1>9, <1>10, <1>11, Goes

LEMMA ScanOp ==
    ASSUME NEW step \in {"prepare", "batch", "finalize"}, NEW offset \in Nat
    PROVE  LET x == Op(step, "scan", SomeFile, offset) IN
           /\ x.kind = step /\ x.by = "scan" /\ x.offset = offset /\ x.files = <<>>
           /\ x.seen = Unseen /\ OpFormed(x) /\ Resting(x)
<1> DEFINE x == Op(step, "scan", SomeFile, offset)
<1>1. x = [kind |-> step, by |-> "scan", file |-> SomeFile, offset |-> offset, files |-> <<>>,
           begun |-> FALSE, seen |-> Unseen]
    BY DEF Op, Unseen
<1>2. <<>> \in Seq(Paths) /\ Unseen \in 1 .. Unseen
    BY Constants
<1> HIDE DEF x
<1>3. x \in OpRecord
    <2>1. step \in {"prepare", "batch", "finalize", "change"} /\ FALSE \in BOOLEAN
          /\ "scan" \in {"flush", "scan", "none"} /\ SomeFile \in Paths \cup {SomeFile}
        OBVIOUS
    <2> QED
        BY <1>1, <1>2, <2>1 DEF OpRecord
<1>4. OpFormed(x)
    BY <1>1, <1>2, <1>3 DEF OpFormed
<1>5. Resting(x)
    BY <1>1 DEF Resting
<1>6. LET y == x IN /\ y.kind = step /\ y.by = "scan" /\ y.offset = offset /\ y.files = <<>>
                    /\ y.seen = Unseen /\ OpFormed(y) /\ Resting(y)
    BY <1>1, <1>2, <1>4, <1>5
<1> QED
    BY <1>6 DEF x

\* A call of the scan is the last of the chain, or fails at once.
LEMMA ScanCallKeeps ==
    ASSUME IndexingInv, NEW step \in {"prepare", "batch", "finalize"}, NEW offset \in Nat,
           ScanCall(step, offset),
           scan.pc = "answered" \/ (scan.pc = "idle" /\ step = "prepare")
    PROVE  /\ ChainOK' /\ ScanOK' /\ scan' \in Scan /\ scan'.step = step /\ scan'.offset = offset
           /\ scan'.pc \in {"calling", "failed"}
           /\ scan'.pc = "calling" =>
                 \E i \in DOMAIN chain' : chain'[i].by = "scan" /\ chain'[i].offset = offset
           /\ Busy => Busy' /\ Running' = Running
           /\ ~Busy => (Busy' => Running'.seen = Unseen)
           /\ \A f \in Paths : Called(f) => Called(f)'
<1> DEFINE x == Op(step, "scan", SomeFile, offset)
<1>1. /\ scan' = [pc |-> IF dead THEN "failed" ELSE "calling", step |-> step, offset |-> offset]
      /\ chain' = IF dead THEN chain ELSE Append(chain, x)
    BY DEF ScanCall
<1>2. /\ x.kind = step /\ x.by = "scan" /\ x.offset = offset /\ x.files = <<>>
      /\ x.seen = Unseen /\ OpFormed(x) /\ Resting(x)
    BY ScanOp
<1> HIDE DEF x
<1>3. /\ scan' \in Scan /\ scan'.step = step /\ scan'.offset = offset
      /\ scan'.pc = IF dead THEN "failed" ELSE "calling"
    BY <1>1 DEF Scan
<1>4. /\ \A i \in DOMAIN chain : chain[i].by # "scan"
      /\ \A i \in DOMAIN chain : chain[i].kind = "prepare" => step = "prepare"
    BY DEF IndexingInv, ScanOK
<1>5. CASE dead
    <2>1. chain' = chain /\ scan'.pc = "failed"
        BY <1>1, <1>3, <1>5
    <2>2. ChainOK' /\ (Busy' <=> Busy) /\ Running' = Running
        BY <2>1, ChainSame
    <2>3. ScanOK'
        BY <1>4, <2>1 DEF ScanOK
    <2> QED
        BY <1>3, <2>1, <2>2, <2>3 DEF Called
<1>6. CASE ~dead
    <2>1. /\ ChainOK' /\ Len(chain) \in Nat
          /\ DOMAIN chain = 1 .. Len(chain) /\ DOMAIN chain' = 1 .. Len(chain) + 1
          /\ chain'[Len(chain) + 1] = x
          /\ \A i \in DOMAIN chain : i \in DOMAIN chain' /\ chain'[i] = chain[i]
          /\ \A i \in DOMAIN chain' : i \in DOMAIN chain \/ i = Len(chain) + 1
          /\ Busy' /\ Running' = IF Busy THEN Running ELSE x
        BY <1>1, <1>2, <1>6, OpAppended DEF IndexingInv
    <2>2. Len(chain) + 1 \in DOMAIN chain'
        BY <2>1
    <2>3. scan'.pc = "calling"
        BY <1>3, <1>6
    <2>4. ScanOK'
        <3>1. \E i \in DOMAIN chain' : chain'[i].by = "scan"
            BY <1>2, <2>1, <2>2
        <3>2. ASSUME NEW i \in DOMAIN chain', chain'[i].by = "scan"
              PROVE  /\ chain'[i].kind = step
                     /\ \A j \in DOMAIN chain' : j > i => chain'[j].kind = "change"
            <4>1. i = Len(chain) + 1
                BY <1>4, <2>1, <3>2
            <4> QED
                BY <1>2, <2>1, <4>1
        <3>3. ASSUME NEW i \in DOMAIN chain', chain'[i].kind = "prepare" PROVE step = "prepare"
            BY <1>2, <1>4, <2>1, <3>3
        <3> QED
            BY <1>3, <2>3, <3>1, <3>2, <3>3 DEF ScanOK
    <2>5. \A f \in Paths : Called(f) => Called(f)'
        BY <2>1 DEF Called
    <2>6. \E i \in DOMAIN chain' : chain'[i].by = "scan" /\ chain'[i].offset = offset
        BY <1>2, <2>1, <2>2
    <2> QED
        BY <1>2, <1>3, <2>1, <2>3, <2>4, <2>5, <2>6
<1> QED
    BY <1>5, <1>6

LEMMA ScanCommandKeeps ==
    ASSUME IndexingInv, life # "off", life' # "off", life' \in {"check", "up"}, scan.pc = "idle",
           ScanCall("prepare", 0),
           UNCHANGED <<disk, edits, events, queue, timer, flush, todo, late, index, meta,
                       healthy, dead, dropped>>
    PROVE  IndexingInv'
<1>1. /\ ChainOK' /\ ScanOK' /\ scan' \in Scan /\ scan'.step = "prepare"
      /\ scan'.pc \in {"calling", "failed"}
      /\ Busy => Busy' /\ Running' = Running
      /\ ~Busy => (Busy' => Running'.seen = Unseen)
      /\ \A f \in Paths : Called(f) => Called(f)'
    BY ScanCallKeeps
<1>2. IndexingTypes'
    BY <1>1 DEF IndexingInv, IndexingTypes
<1>3. \A f \in Paths : Waiting(f) => Waiting(f)'
    BY <1>1 DEF Waiting
<1>4. \A f \in Paths : Handled(f) => Handled(f)'
    BY <1>1 DEF Handled
<1>5. \A f \in Paths : ScanAhead(f)'
    BY <1>1 DEF ScanAhead
<1>6. ~Cleared'
    BY <1>1 DEF Cleared
<1> QED
    BY <1>1, <1>2, <1>3, <1>4, <1>5, <1>6, Goes

LEMMA ScanGoesOnKeeps ==
    ASSUME IndexingInv, ScanGoesOn
    PROVE  IndexingInv'
<1>1. /\ scan.pc = "answered" /\ scan \in Scan
      /\ UNCHANGED <<disk, edits, events, life, queue, timer, flush, todo, late, index, meta,
                     healthy, dead, dropped>>
    BY DEF ScanGoesOn, fsVars, queueVars, IndexingInv, IndexingTypes
<1>2. life # "off" /\ life' # "off" /\ Cleared
    BY <1>1, LifeOn DEF Cleared
<1>3. scan.step \in {"prepare", "batch", "finalize"} /\ scan.offset \in Nat
    BY <1>1 DEF Scan
<1>4. ASSUME NEW step \in {"batch", "finalize"}, NEW offset \in Nat, ScanCall(step, offset),
             \A f \in Paths : ScanAhead(f) => step = "batch" /\ Ahead(f, offset)
      PROVE  IndexingInv'
    <2>1. /\ ChainOK' /\ ScanOK' /\ scan' \in Scan /\ scan'.step = step
          /\ scan'.pc \in {"calling", "failed"}
          /\ scan'.pc = "calling" =>
                \E i \in DOMAIN chain' : chain'[i].by = "scan" /\ chain'[i].offset = offset
          /\ Busy => Busy' /\ Running' = Running
          /\ ~Busy => (Busy' => Running'.seen = Unseen)
          /\ \A f \in Paths : Called(f) => Called(f)'
        BY <1>1, <1>4, ScanCallKeeps
    <2>2. IndexingTypes'
        BY <1>1, <2>1 DEF IndexingInv, IndexingTypes
    <2>3. \A f \in Paths : Waiting(f) => Waiting(f)'
        BY <1>1, <2>1 DEF Waiting
    <2>4. \A f \in Paths : Handled(f) => Handled(f)'
        BY <1>1, <2>1 DEF Handled
    <2>5. ASSUME NEW f \in Paths, ScanAhead(f) PROVE ScanAhead(f)'
        <3>1. step = "batch" /\ Ahead(f, offset)'
            BY <1>1, <1>4, <2>5 DEF Ahead
        <3> QED
            BY <2>1, <3>1 DEF ScanAhead
    <2> QED
        BY <1>1, <1>2, <2>1, <2>2, <2>3, <2>4, <2>5, Goes
<1>5. CASE scan.step = "prepare"
    <2>1. ScanCall("batch", 0)
        BY <1>5 DEF ScanGoesOn
    <2>2. \A f \in Paths : ScanAhead(f) => Ahead(f, 0)
        BY <1>1, <1>5 DEF ScanAhead
    <2> QED
        BY <1>4, <2>1, <2>2
<1>6. CASE scan.step = "batch"
    <2>1. ScanCall(IF scan.offset < Len(todo) THEN "batch" ELSE "finalize", scan.offset)
        BY <1>6 DEF ScanGoesOn
    <2>2. \A f \in Paths : ScanAhead(f) => Ahead(f, scan.offset) /\ scan.offset < Len(todo)
        <3>1. todo \in Seq(Paths)
            BY DEF IndexingInv, IndexingTypes
        <3>2. DOMAIN todo = 1 .. Len(todo) /\ Len(todo) \in Nat
            BY <3>1
        <3> QED
            BY <1>1, <1>3, <1>6, <3>2 DEF ScanAhead, Ahead
    <2> QED
        BY <1>3, <1>4, <2>1, <2>2
<1>7. CASE scan.step = "finalize"
    <2>1. scan' = [scan EXCEPT !.pc = IF dead THEN "failed" ELSE "stats"] /\ UNCHANGED chain
        BY <1>7 DEF ScanGoesOn
    <2>2. scan' \in Scan /\ scan'.pc \in {"failed", "stats"}
        BY <1>1, <2>1 DEF Scan
    <2>3. ChainOK' /\ (Busy' <=> Busy) /\ Running' = Running
        BY <2>1, ChainSame
    <2>4. ScanOK'
        BY <1>1, <2>1, <2>2 DEF IndexingInv, ScanOK
    <2>5. IndexingTypes'
        BY <1>1, <2>1, <2>2 DEF IndexingInv, IndexingTypes
    <2>6. \A f \in Paths : Waiting(f) => Waiting(f)'
        BY <1>1, <2>1 DEF Waiting, Called
    <2>7. \A f \in Paths : Handled(f) => Handled(f)'
        BY <1>1, <2>3 DEF Handled
    <2>8. \A f \in Paths : ~ScanAhead(f)
        BY <1>1, <1>7 DEF ScanAhead
    <2> QED
        BY <1>1, <1>2, <2>3, <2>4, <2>5, <2>6, <2>7, <2>8, Goes
<1> QED
    BY <1>3, <1>5, <1>6, <1>7

\* The newest file there is.
LEMMA NewestIs ==
    ASSUME disk \in [Paths -> Times]
    PROVE  /\ Newest \in Times /\ \A f \in Paths : disk[f] <= Newest
           /\ Newest = 0 \/ \E f \in Paths : disk[f] = Newest
<1> DEFINE T == {t \in Nat : \A f \in Paths : disk[f] <= t}
<1>1. MaxEdits \in Nat /\ \A f \in Paths : disk[f] \in Nat /\ disk[f] <= MaxEdits
    BY Constants DEF Times
<1>2. MaxEdits \in T /\ T \subseteq Nat
    BY <1>1
<1>3. PICK t \in T : \A y \in T : ~(<<y, t>> \in OpToRel(<, Nat))
    <2>1. T # {} /\ T \subseteq Nat
        BY <1>2
    <2> QED
        BY <2>1, NatLessThanWellFounded, WFMin
<1>4. t \in Nat /\ (\A f \in Paths : disk[f] <= t) /\ \A y \in T : ~(y < t)
    BY <1>3 DEF OpToRel
<1>5. t \in Times
    <2>1. ~(MaxEdits < t)
        BY <1>2, <1>4
    <2> QED
        BY <1>1, <1>4, <2>1 DEF Times
<1>6. t = 0 \/ \E f \in Paths : disk[f] = t
    <2>1. SUFFICES ASSUME t # 0, \A f \in Paths : disk[f] # t PROVE FALSE
        OBVIOUS
    <2>2. t - 1 \in Nat /\ \A f \in Paths : disk[f] <= t - 1
        BY <1>1, <1>4, <2>1
    <2>3. t - 1 \in T
        BY <2>2
    <2> QED
        BY <1>4, <2>3
<1> QED
    BY <1>4, <1>5, <1>6 DEF Newest

LEMMA PrintedIs ==
    ASSUME disk \in [Paths -> Times]
    PROVE  Printed \in Fingerprint /\ Printed.mtime = Newest
<1>1. Present \subseteq Paths /\ IsFiniteSet(Paths)
    BY IndexingAssumption DEF Present
<1>2. Cardinality(Present) \in 0 .. Cardinality(Paths)
    BY <1>1, FS_Subset, FS_CardinalityType
<1> QED
    BY <1>2, NewestIs DEF Printed, Fingerprint

LEMMA ScanEndsKeeps ==
    ASSUME IndexingInv, ScanEnds
    PROVE  IndexingInv'
<1>1. /\ scan.pc \in {"stats", "failed"} /\ scan' = NoScan
      /\ UNCHANGED <<disk, edits, events, life, queue, timer, flush, chain, todo, late, index,
                     dropped, dead>>
    BY DEF ScanEnds, fsVars, queueVars, workVars
<1>2. life # "off" /\ life' # "off"
    BY <1>1, LifeOn
<1>3. scan' \in Scan /\ scan'.pc = "idle"
    BY <1>1 DEF NoScan, Scan
<1>4. ChainOK' /\ (Busy' <=> Busy) /\ Running' = Running
    BY <1>1, ChainSame
<1>5. \A i \in DOMAIN chain' : chain'[i].by # "scan"
    BY <1>1 DEF IndexingInv, ScanOK
<1>6. \A f \in Paths : Waiting(f) <=> Waiting(f)'
    BY <1>1 DEF Waiting, Called
<1>7. \A f \in Paths : Handled(f) <=> Handled(f)'
    BY <1>1, <1>4 DEF Handled
<1>8. CASE scan.pc = "stats" /\ healthy' = TRUE /\ meta' = Printed
    <2>1. /\ disk \in [Paths -> Times] /\ edits \in Nat
          /\ \A f \in Paths : disk[f] \in Nat /\ disk[f] <= edits
        BY Constants DEF IndexingInv, IndexingTypes, RowsOK, Times
    <2>2. meta' \in Fingerprint /\ meta'.mtime <= edits
        BY <1>8, <2>1, NewestIs, PrintedIs
    <2>3. IndexingTypes'
        BY <1>1, <1>3, <1>8, <2>2 DEF IndexingInv, IndexingTypes
    <2>4. ScanOK'
        <3>1. \A i \in DOMAIN chain' : chain'[i].kind # "prepare"
            BY <1>1, <1>8 DEF IndexingInv, ScanOK
        <3> QED
            BY <1>3, <1>5, <3>1 DEF ScanOK
    <2>5. RowsOK'
        BY <1>1, <1>4, <2>2 DEF IndexingInv, RowsOK, Past
    <2>6. StaleSeen'
        BY <1>1, <1>4, <1>6, HeadFile DEF IndexingInv, StaleSeen
    <2>7. OffOK'
        BY <1>2 DEF OffOK
    <2>8. ASSUME NEW f \in Paths, Undone(f)' PROVE Noticed(f)' /\ Reached(f)'
        <3>1. Undone(f) /\ Cleared /\ ~ScanAhead(f)
            BY <1>1, <1>8, <2>8 DEF Undone, Cleared, ScanAhead
        <3>2. Coming(f) => Coming(f)'
            BY <1>6, <1>7 DEF Coming
        <3>3. Coming(f) \/ index[f].m = 0
            BY <3>1 DEF IndexingInv, Noticed
        <3>4. Coming(f) \/ GivenUpLate(f)
            BY <3>1 DEF IndexingInv, Reached
        <3> QED
            BY <1>1, <3>2, <3>3, <3>4 DEF Noticed, Reached, GivenUpLate
    <2> QED
        BY <1>4, <2>3, <2>4, <2>5, <2>6, <2>7, <2>8 DEF IndexingInv
<1>9. CASE healthy' = FALSE /\ meta' = meta
    <2>1. IndexingTypes'
        BY <1>1, <1>3, <1>9 DEF IndexingInv, IndexingTypes
    <2>2. ScanOK'
        BY <1>3, <1>5, <1>9 DEF ScanOK
    <2>3. \A f \in Paths : ScanAhead(f)'
        BY <1>3, <1>9 DEF ScanAhead
    <2>4. ~Cleared'
        BY <1>3 DEF Cleared
    <2> QED
        BY <1>1, <1>2, <1>4, <1>6, <1>7, <1>9, <2>1, <2>2, <2>3, <2>4, Goes
<1> QED
    BY <1>8, <1>9 DEF ScanEnds

-----------------------------------------------------------------------------
(* The process.                                                            *)

LEMMA StartKeeps ==
    ASSUME IndexingInv, Start
    PROVE  IndexingInv'
<1>1. /\ life = "off" /\ life' = "check" /\ healthy' = TRUE /\ dead' = FALSE
      /\ UNCHANGED <<disk, edits, events, queue, timer, flush, scan, chain, todo, late, index,
                     meta, dropped>>
    BY DEF Start, fsVars, queueVars, workVars
<1>2. chain = <<>> /\ late = {} /\ scan.pc = "idle" /\ DOMAIN chain = {}
    BY <1>1 DEF IndexingInv, OffOK, NoScan
<1>3. IndexingTypes'
    BY <1>1 DEF IndexingInv, IndexingTypes
<1>4. ChainOK' /\ (Busy' <=> Busy) /\ Running' = Running /\ ~Busy
    BY <1>1, <1>2, ChainSame DEF Busy
<1>5. ScanOK'
    BY <1>1, <1>2 DEF ScanOK
<1>6. RowsOK' /\ StaleSeen' /\ OffOK'
    BY <1>1, <1>4 DEF IndexingInv, RowsOK, Past, StaleSeen, OffOK
<1>7. ASSUME NEW f \in Paths, Undone(f)' PROVE Noticed(f)' /\ Reached(f)'
    <2>1. disk'[f] > meta'.mtime
        BY <1>1, <1>7 DEF IndexingInv, OffOK, Undone
    <2> QED
        BY <1>1, <1>2, <2>1 DEF Noticed, Reached, Cleared, ScanAhead
<1> QED
    BY <1>3, <1>4, <1>5, <1>6, <1>7 DEF IndexingInv

LEMMA StartupCheckKeeps ==
    ASSUME IndexingInv, StartupCheck
    PROVE  IndexingInv'
<1>1. /\ life = "check" /\ life' = "up"
      /\ UNCHANGED <<disk, edits, events, queue, timer, flush, todo, late, index, meta, healthy,
                     dead, dropped>>
    BY DEF StartupCheck, fsVars, queueVars
<1>2. CASE scan.pc = "idle" /\ ScanCall("prepare", 0)
    BY <1>1, <1>2, ScanCommandKeeps
<1>3. CASE UNCHANGED <<scan, chain>> /\ (scan.pc # "idle" \/ ~NeedsScan)
    <2>1. IndexingTypes'
        BY <1>1, <1>3 DEF IndexingInv, IndexingTypes
    <2>2. ChainOK' /\ ScanOK' /\ (Busy' <=> Busy) /\ Running' = Running
        BY <1>1, <1>3, ChainSame
    <2>3. \A f \in Paths : Waiting(f) => Waiting(f)'
        BY <1>1, <1>3 DEF Waiting, Called
    <2>4. \A f \in Paths : Handled(f) => Handled(f)'
        BY <1>1, <2>2 DEF Handled
    <2>5. ~NeedsScan => \A f \in Paths : ~(disk[f] > meta.mtime)
        <3>1. SUFFICES ASSUME ~NeedsScan, NEW f \in Paths PROVE ~(disk[f] > meta.mtime)
            OBVIOUS
        <3>2. /\ disk \in [Paths -> Times] /\ disk[f] \in Nat /\ meta \in Fingerprint
              /\ meta.mtime \in Nat
            BY <3>1, Constants DEF NeedsScan, IndexingInv, IndexingTypes, Fingerprint, Times
        <3>3. CASE Present = {}
            BY <3>2, <3>3 DEF Present
        <3>4. CASE Present # {}
            <4>1. ~(Newest > meta.mtime)
                BY <3>1, <3>2, <3>4, PrintedIs DEF NeedsScan
            <4> QED
                BY <3>2, <4>1, NewestIs DEF Times
        <3> QED
            BY <3>3, <3>4
    <2>6. \A f \in Paths : ScanAhead(f) => ScanAhead(f)'
        BY <1>1, <1>3, <2>5 DEF ScanAhead, Ahead, InBatch
    <2>7. Cleared' => Cleared
        BY <1>3 DEF Cleared
    <2> QED
        BY <1>1, <1>3, <2>1, <2>2, <2>3, <2>4, <2>6, <2>7, Goes
<1> QED
    BY <1>2, <1>3 DEF StartupCheck

LEMMA StopsKeeps ==
    ASSUME IndexingInv, Stops
    PROVE  IndexingInv'
<1>1. /\ life' = "off" /\ events' = {} /\ queue' = {} /\ timer' = FALSE
      /\ flush' = NoFlush /\ scan' = NoScan /\ chain' = <<>> /\ todo' = <<>> /\ late' = {}
      /\ dropped' = dropped \cup InHand \cup (Present \ Indexed)
      /\ UNCHANGED <<disk, edits, index, meta, healthy, dead>>
    BY DEF Stops
<1>2. InHand \subseteq Paths
    <2>1. {chain[i].file : i \in {j \in DOMAIN chain : chain[j].kind = "change"}} \subseteq Paths
        BY DEF IndexingInv, ChainOK, OpFormed
    <2>2. events \subseteq Paths /\ queue \subseteq Paths /\ flush.left \subseteq Paths
        BY DEF IndexingInv, IndexingTypes, Flush
    <2> QED
        BY <2>1, <2>2 DEF InHand
<1>3. /\ flush' \in Flush /\ flush'.left = {} /\ scan' \in Scan /\ scan'.pc = "idle"
      /\ todo' \in Seq(Paths) /\ dropped' \subseteq Paths /\ DOMAIN chain' = {}
      /\ chain' \in Seq(OpRecord) /\ ~Busy'
    BY <1>1, <1>2 DEF NoFlush, Flush, NoScan, Scan, Present, Busy, IndexingInv, IndexingTypes
<1>4. IndexingTypes'
    BY <1>1, <1>3 DEF IndexingInv, IndexingTypes
<1>5. ChainOK' /\ ScanOK' /\ StaleSeen'
    BY <1>3 DEF ChainOK, ScanOK, StaleSeen
<1>6. RowsOK'
    BY <1>1, <1>3 DEF IndexingInv, RowsOK, Past
<1>7. ASSUME NEW f \in Paths, Undone(f)' PROVE disk[f] > meta.mtime
    <2>1. Undone(f) /\ f \notin InHand /\ ~(f \in Present \ Indexed)
        BY <1>1, <1>7 DEF Undone
    <2>2. ~Coming(f)
        <3>1. ~(f \in events \cup flush.left) /\ f \notin queue
            BY <2>1 DEF InHand
        <3>2. \A i \in DOMAIN chain : chain[i].kind = "change" => chain[i].file # f
            BY <2>1 DEF InHand
        <3>3. ~Called(f) /\ ~Handled(f)
            BY <3>2, HeadFile DEF Called, Handled
        <3> QED
            BY <3>1, <3>3 DEF Coming, Waiting
    <2>3. index[f].m # 0
        BY <2>1 DEF Present, Indexed, Undone, IndexingInv, RowsOK
    <2> QED
        BY <2>1, <2>2, <2>3 DEF IndexingInv, Noticed
<1>8. OffOK'
    BY <1>1, <1>7 DEF OffOK
<1>9. ASSUME NEW f \in Paths, Undone(f)' PROVE Noticed(f)' /\ Reached(f)'
    <2>1. disk'[f] > meta'.mtime
        BY <1>1, <1>7, <1>9
    <2> QED
        BY <1>1, <1>3, <2>1 DEF Noticed, Reached, Cleared, ScanAhead
<1> QED
    BY <1>4, <1>5, <1>6, <1>8, <1>9 DEF IndexingInv

-----------------------------------------------------------------------------
(* The write chain.                                                        *)

\* The first operation of the chain has ended, its caller is answered.
LEMMA HeadAnswered ==
    ASSUME IndexingInv, Busy, Running.files = <<>>, chain' = Tail(chain), Answered(Running),
           UNCHANGED healthy
    PROVE  /\ ChainOK' /\ ScanOK' /\ flush' \in Flush /\ flush'.left = flush.left
           /\ flush'.pc \in {flush.pc, "answered"}
           /\ scan' \in Scan /\ (Busy' => Running'.seen = Unseen)
           /\ \A f \in Paths : Called(f) => Called(f)'
           /\ \A i \in DOMAIN chain : i # 1 => /\ i - 1 \in DOMAIN chain' /\ i - 1 \in Nat
                                               /\ chain'[i - 1] = chain[i]
           /\ Running.by # "scan" => scan' = scan
           /\ Running.by = "scan" =>
                 /\ scan.pc = "calling" /\ scan.step = Running.kind
                 /\ \A i \in DOMAIN chain : i # 1 => chain[i].by # "scan"
                 /\ scan'.pc = "answered" /\ scan'.step = scan.step
                 /\ Running.kind = "batch" => scan'.offset = Running.offset
<1>1. ChainOK /\ OpFormed(Running) /\ 1 \in DOMAIN chain /\ chain[1] = Running
    BY HeadFile DEF IndexingInv
<1>2. /\ ChainOK'
      /\ \A i \in DOMAIN chain' : /\ i \in Nat \ {0} /\ i + 1 \in DOMAIN chain
                                  /\ chain'[i] = chain[i + 1]
      /\ \A i \in DOMAIN chain : i # 1 => /\ i - 1 \in DOMAIN chain' /\ i - 1 \in Nat
                                          /\ chain'[i - 1] = chain[i]
      /\ Busy' => Resting(Running')
    BY <1>1, HeadDropped
<1>3. flush' \in Flush /\ flush'.left = flush.left /\ flush'.pc \in {flush.pc, "answered"}
    BY DEF Answered, IndexingInv, IndexingTypes, Flush
<1>4. Busy' => Running'.seen = Unseen
    BY <1>2 DEF Resting
<1>5. ASSUME NEW f \in Paths, Called(f) PROVE Called(f)'
    <2>1. PICK i \in DOMAIN chain : /\ chain[i].kind = "change" /\ chain[i].file = f
                                    /\ chain[i].files # <<>> /\ chain[i].seen = Unseen
        BY <1>5 DEF Called
    <2>2. i # 1
        BY <1>1, <2>1
    <2> QED
        BY <1>2, <2>1, <2>2 DEF Called
<1>6. DOMAIN chain = 1 .. Len(chain) /\ Len(chain) \in Nat
    BY ChainFacts DEF IndexingInv, ChainOK
<1>7. CASE Running.by # "scan"
    <2>1. scan' = scan
        BY <1>7 DEF Answered
    <2>2. scan' \in Scan
        BY <2>1 DEF IndexingInv, IndexingTypes
    <2>3. (\E i \in DOMAIN chain' : chain'[i].by = "scan")
             <=> \E i \in DOMAIN chain : chain[i].by = "scan"
        BY <1>1, <1>2, <1>7
    <2>4. ASSUME NEW i \in DOMAIN chain', chain'[i].by = "scan"
          PROVE  /\ chain'[i].kind = scan.step
                 /\ \A j \in DOMAIN chain' : j > i => chain'[j].kind = "change"
        <3>1. chain[i + 1].by = "scan" /\ i + 1 \in DOMAIN chain /\ i \in Nat
            BY <1>2, <2>4
        <3>2. /\ chain[i + 1].kind = scan.step
              /\ \A j \in DOMAIN chain : j > i + 1 => chain[j].kind = "change"
            BY <3>1 DEF IndexingInv, ScanOK
        <3>3. \A j \in DOMAIN chain' : j > i => j + 1 > i + 1 /\ j + 1 \in DOMAIN chain
            BY <1>2, <3>1
        <3> QED
            BY <1>2, <3>2, <3>3
    <2>5. \A i \in DOMAIN chain' : chain'[i].kind = "prepare" =>
              i + 1 \in DOMAIN chain /\ chain[i + 1].kind = "prepare"
        BY <1>2
    <2>6. ScanOK'
        BY <2>1, <2>3, <2>4, <2>5 DEF IndexingInv, ScanOK
    <2> QED
        BY <1>2, <1>3, <1>4, <1>5, <1>7, <2>1, <2>2, <2>6
<1>8. CASE Running.by = "scan"
    <2>1. /\ scan.pc = "calling" /\ scan.step = Running.kind
          /\ \A j \in DOMAIN chain : j > 1 => chain[j].kind = "change"
        BY <1>1, <1>8 DEF IndexingInv, ScanOK
    <2>2. \A i \in DOMAIN chain : i # 1 => chain[i].kind = "change" /\ chain[i].by # "scan"
        BY <1>6, <2>1 DEF IndexingInv, ChainOK, OpFormed
    <2>3. scan' = [scan EXCEPT !.pc = "answered",
                               !.offset = IF Running.kind = "batch" THEN Running.offset ELSE @]
        BY <1>8 DEF Answered
    <2>4. scan \in Scan /\ Running.offset \in Nat
        BY <1>1 DEF IndexingInv, IndexingTypes, OpFormed, OpRecord
    <2>5. /\ scan' \in Scan /\ scan'.pc = "answered" /\ scan'.step = scan.step
          /\ Running.kind = "batch" => scan'.offset = Running.offset
        BY <2>3, <2>4 DEF Scan
    <2>6. \A i \in DOMAIN chain' : chain'[i].kind = "change" /\ chain'[i].by # "scan"
        <3>1. \A i \in DOMAIN chain' : i + 1 # 1
            BY <1>2
        <3> QED
            BY <1>2, <2>2, <3>1
    <2>7. ScanOK'
        BY <2>5, <2>6 DEF ScanOK
    <2> QED
        BY <1>2, <1>3, <1>4, <1>5, <1>8, <2>1, <2>2, <2>5, <2>7
<1> QED
    BY <1>7, <1>8

LEMMA OpEndsKeeps ==
    ASSUME IndexingInv, OpEnds
    PROVE  IndexingInv'
<1>1. /\ Busy /\ Running.files = <<>> /\ chain' = Tail(chain) /\ Answered(Running)
      /\ Running.kind # "prepare"
      /\ UNCHANGED <<disk, edits, events, life, queue, timer, todo, late, index, meta, healthy,
                     dead, dropped>>
    BY DEF OpEnds, fsVars
<1>2. life # "off" /\ life' # "off"
    BY <1>1, LifeOn
<1>3. /\ ChainOK' /\ ScanOK' /\ flush' \in Flush /\ flush'.left = flush.left
      /\ flush'.pc \in {flush.pc, "answered"}
      /\ scan' \in Scan /\ (Busy' => Running'.seen = Unseen)
      /\ \A f \in Paths : Called(f) => Called(f)'
      /\ \A i \in DOMAIN chain : i # 1 => i - 1 \in DOMAIN chain' /\ chain'[i - 1] = chain[i]
      /\ Running.by # "scan" => scan' = scan
      /\ Running.by = "scan" =>
            /\ scan.pc = "calling" /\ scan.step = Running.kind
            /\ \A i \in DOMAIN chain : i # 1 => chain[i].by # "scan"
            /\ scan'.pc = "answered" /\ scan'.step = scan.step
            /\ Running.kind = "batch" => scan'.offset = Running.offset
    BY <1>1, HeadAnswered
<1>4. chain[1] = Running /\ DOMAIN Running.files = {}
    BY <1>1, HeadFile
<1>5. IndexingTypes'
    BY <1>1, <1>3 DEF IndexingInv, IndexingTypes
<1>6. \A f \in Paths : Waiting(f) => Waiting(f)'
    BY <1>1, <1>3 DEF Waiting
<1>7. \A f \in Paths : ~Handled(f)
    BY <1>1 DEF Handled
<1>8. ASSUME NEW f \in Paths, ScanAhead(f) PROVE ScanAhead(f)'
    <2>1. CASE scan.pc = "calling" /\ scan.step = "batch"
        <3>1. PICK i \in DOMAIN chain :
                  chain[i].by = "scan" /\ (Ahead(f, chain[i].offset) \/ InBatch(f, chain[i]))
            BY <1>8, <2>1 DEF ScanAhead
        <3>2. CASE i = 1
            <4>1. Running.by = "scan" /\ Ahead(f, Running.offset)
                BY <1>4, <3>1, <3>2 DEF InBatch
            <4>2. scan'.pc = "answered" /\ scan'.step = "batch" /\ scan'.offset = Running.offset
                BY <1>3, <2>1, <4>1
            <4> QED
                BY <1>1, <4>1, <4>2 DEF ScanAhead, Ahead
        <3>3. CASE i # 1
            <4>1. scan' = scan /\ i - 1 \in DOMAIN chain' /\ chain'[i - 1] = chain[i]
                BY <1>3, <3>1, <3>3
            <4>2. PICK op : op = chain[i]
                OBVIOUS
            <4>3. Ahead(f, op.offset)' \/ InBatch(f, op)'
                BY <1>1, <3>1, <4>2 DEF Ahead, InBatch
            <4>4. chain'[i - 1] = op /\ op.by = "scan"
                BY <3>1, <4>1, <4>2
            <4> QED
                BY <2>1, <4>1, <4>3, <4>4 DEF ScanAhead
        <3> QED
            BY <3>2, <3>3
    <2>2. CASE ~(scan.pc = "calling" /\ scan.step = "batch")
        <3>1. scan' = scan
            BY <1>1, <1>3, <1>8, <2>2 DEF ScanAhead
        <3> QED
            BY <1>1, <1>8, <2>2, <3>1 DEF ScanAhead, Ahead
    <2> QED
        BY <2>1, <2>2
<1>9. Cleared' => Cleared
    BY <1>1, <1>3 DEF Cleared
<1> QED
    BY <1>1, <1>2, <1>3, <1>5, <1>6, <1>7, <1>8, <1>9, Goes

\* An enumeration without repetition of a finite set misses nothing.
LEMMA ListedAll ==
    ASSUME NEW S, IsFiniteSet(S), NEW s \in [1 .. Cardinality(S) -> S],
           \A i, j \in DOMAIN s : s[i] = s[j] => i = j
    PROVE  \A x \in S : \E i \in DOMAIN s : s[i] = x
<1>1. Cardinality(S) \in Nat
    BY FS_CardinalityType
<1>2. s \in Injection(1 .. Cardinality(S), S)
    BY DEF Injection, IsInjective
<1>3. Cardinality(1 .. Cardinality(S)) = Cardinality(S)
    BY <1>1, FS_Interval
<1>4. s \in Surjection(1 .. Cardinality(S), S)
    BY <1>2, <1>3, FS_Injection
<1> QED
    BY <1>4 DEF Surjection

LEMMA PrepareKeeps ==
    ASSUME IndexingInv, Prepare
    PROVE  IndexingInv'
<1>1. /\ Busy /\ Running.kind = "prepare" /\ chain' = Tail(chain) /\ Answered(Running)
      /\ index' = [f \in Paths |-> NoRow] /\ dropped' = dropped \ {f \in Paths : disk[f] = 0}
      /\ UNCHANGED <<disk, edits, events, life, queue, timer, late, meta, healthy, dead>>
    BY DEF Prepare, fsVars
<1>2. PICK s \in [1 .. Cardinality(Present) -> Present] :
          (\A i, j \in DOMAIN s : s[i] = s[j] => i = j) /\ todo' = s
    BY DEF Prepare
<1>3. life # "off" /\ life' # "off"
    BY <1>1, LifeOn
<1>4. Running.files = <<>> /\ OpFormed(Running) /\ chain[1] = Running /\ 1 \in DOMAIN chain
    BY <1>1, HeadFile DEF OpFormed
<1>5. /\ ChainOK' /\ ScanOK' /\ flush' \in Flush /\ flush'.left = flush.left
      /\ flush'.pc \in {flush.pc, "answered"}
      /\ scan' \in Scan /\ (Busy' => Running'.seen = Unseen)
      /\ Running.by # "scan" => scan' = scan
      /\ Running.by = "scan" => /\ scan.step = Running.kind
                                /\ scan'.pc = "answered" /\ scan'.step = scan.step
    BY <1>1, <1>4, HeadAnswered
<1>6. /\ IsFiniteSet(Present) /\ Present \subseteq Paths /\ Cardinality(Present) \in Nat
    <2>1. Present \in SUBSET Paths /\ IsFiniteSet(Paths)
        BY IndexingAssumption DEF Present
    <2> QED
        BY <2>1, FS_Subset, FS_CardinalityType
<1>7. todo' \in Seq(Paths)
    <2>1. s \in [1 .. Cardinality(Present) -> Paths]
        BY <1>6
    <2> QED
        BY <1>2, <1>6, <2>1, SeqDef
<1>8. \A f \in Present : Ahead(f, 0)'
    <2>1. \A f \in Present : \E i \in DOMAIN s : s[i] = f
        BY <1>2, <1>6, ListedAll
    <2>2. \A i \in DOMAIN s : i > 0
        BY <1>6
    <2> QED
        BY <1>2, <2>1, <2>2 DEF Ahead
<1>9. IndexingTypes'
    <2>1. index' \in [Paths -> Row] /\ dropped' \subseteq Paths
        BY <1>1, Constants DEF IndexingInv, IndexingTypes
    <2> QED
        BY <1>1, <1>5, <1>7, <2>1 DEF IndexingInv, IndexingTypes
<1>10. RowsOK'
    <2>1. edits \in Nat /\ \A f \in Paths : disk[f] \in Nat
        BY Constants DEF IndexingInv, IndexingTypes, Times
    <2>2. \A f \in Paths : index'[f].m = 0 /\ index'[f].v = 0 /\ Past(f, 0)'
        BY <1>1, <2>1, Constants DEF Past
    <2>3. \A f \in Paths : index'[f].m <= index'[f].v /\ Past(f, index[f].v)'
        BY <2>2
    <2> QED
        BY <1>1, <1>5, <2>2, <2>3 DEF IndexingInv, RowsOK, Past
<1>11. StaleSeen' /\ OffOK'
    BY <1>3, <1>5 DEF StaleSeen, OffOK
<1>12. ASSUME NEW f \in Paths, Undone(f)' PROVE Noticed(f)' /\ Reached(f)'
    <2>1. index'[f].m = 0 /\ index'[f].v = 0
        BY <1>1, Constants
    <2>2. f \in Present
        BY <1>1, <1>12, <2>1 DEF Undone, Present
    <2>3. ScanAhead(f)'
        <3>1. CASE Running.by = "scan"
            BY <1>1, <1>5, <1>8, <2>2, <3>1 DEF ScanAhead
        <3>2. CASE Running.by # "scan"
            <4>1. \/ scan.pc = "failed"
                  \/ scan.pc = "idle" /\ ~healthy
                  \/ scan.pc = "calling" /\ scan.step = "prepare"
                BY <1>1, <1>4 DEF IndexingInv, ScanOK
            <4> QED
                BY <1>1, <1>5, <3>2, <4>1 DEF ScanAhead
        <3> QED
            BY <3>1, <3>2
    <2> QED
        BY <2>1, <2>3 DEF Noticed, Reached
<1> QED
    BY <1>5, <1>9, <1>10, <1>11, <1>12 DEF IndexingInv

LEMMA SliceIs ==
    ASSUME IndexingInv, NEW offset \in Nat, NEW n \in 1 .. BatchMax
    PROVE  /\ Slice(offset, n) \in Seq(Paths) /\ NextOffset(offset, n) \in Nat
           /\ \A f \in Paths : Ahead(f, offset) =>
                 \/ Ahead(f, NextOffset(offset, n))
                 \/ \E j \in DOMAIN Slice(offset, n) : Slice(offset, n)[j] = f
<1>1. todo \in Seq(Paths) /\ Len(todo) \in Nat /\ DOMAIN todo = 1 .. Len(todo)
      /\ n \in Nat
    BY IndexingAssumption DEF IndexingInv, IndexingTypes
<1> DEFINE m == IF offset + n < Len(todo) THEN offset + n ELSE Len(todo)
           t == Slice(offset, n)
<1>2. m \in Nat /\ m <= Len(todo) /\ t = SubSeq(todo, offset + 1, m)
    BY <1>1 DEF Slice
<1> HIDE DEF m, t
<1>3. /\ t \in Seq(Paths)
      /\ Len(t) = IF offset + 1 <= m THEN m - offset ELSE 0
      /\ \A j \in 1 .. Len(t) : t[j] = todo[offset + j]
    <2>1. CASE offset + 1 <= m
        <3>1. \A i \in (offset + 1) .. m : todo[i] \in Paths
            BY <1>1, <1>2
        <3>2. /\ t \in Seq(Paths) /\ Len(t) = m - (offset + 1) + 1
              /\ \A i \in 1 .. m - (offset + 1) + 1 : t[i] = todo[offset + 1 + i - 1]
            BY <1>1, <1>2, <2>1
        <3> QED
            BY <1>2, <2>1, <3>2
    <2>2. CASE ~(offset + 1 <= m)
        <3>1. t = <<>>
            BY <1>1, <1>2, <2>2
        <3> QED
            BY <2>2, <3>1
    <2> QED
        BY <2>1, <2>2
<1>4. Len(t) \in Nat /\ DOMAIN t = 1 .. Len(t) /\ NextOffset(offset, n) = offset + Len(t)
    BY <1>3 DEF NextOffset, t
<1>5. ASSUME NEW f \in Paths, NEW i \in DOMAIN todo, i > offset, todo[i] = f,
             ~(i > NextOffset(offset, n))
      PROVE  \E j \in DOMAIN t : t[j] = f
    <2>1. i \in Nat /\ i - offset \in 1 .. Len(t)
        BY <1>1, <1>4, <1>5
    <2>2. offset + (i - offset) = i
        BY <2>1
    <2> QED
        BY <1>3, <1>4, <1>5, <2>1, <2>2
<1>6. NextOffset(offset, n) \in Nat
    BY <1>4
<1> QED
    BY <1>3, <1>5, <1>6 DEF Ahead, t

LEMMA BatchBeginsKeeps ==
    ASSUME IndexingInv, BatchBegins
    PROVE  IndexingInv'
<1>1. /\ Busy /\ Running.kind = "batch" /\ ~Running.begun
      /\ UNCHANGED <<disk, edits, events, life, queue, timer, flush, scan, todo, late, index, meta,
                     healthy, dead, dropped>>
    BY DEF BatchBegins, fsVars
<1>2. PICK n \in 1 .. BatchMax :
          chain' = <<[Running EXCEPT !.begun = TRUE, !.files = Slice(Running.offset, n),
                                     !.offset = NextOffset(Running.offset, n)]>> \o Tail(chain)
    BY DEF BatchBegins
<1>3. life # "off" /\ life' # "off"
    BY <1>1, LifeOn
<1>4. OpFormed(Running) /\ chain[1] = Running /\ 1 \in DOMAIN chain
    BY <1>1, HeadFile
<1>5. /\ Running \in OpRecord /\ Running.offset \in Nat /\ Running.files = <<>>
      /\ Running.seen = Unseen /\ DOMAIN Running.files = {}
    BY <1>1, <1>4 DEF OpFormed, OpRecord
<1> DEFINE t == Slice(Running.offset, n)
           k == NextOffset(Running.offset, n)
           x == [Running EXCEPT !.begun = TRUE, !.files = t, !.offset = k]
<1>6. /\ t \in Seq(Paths) /\ k \in Nat
      /\ \A f \in Paths : Ahead(f, Running.offset) =>
            Ahead(f, k) \/ \E j \in DOMAIN t : t[j] = f
    BY <1>5, SliceIs
<1> HIDE DEF t, k
<1>7. /\ x \in OpRecord /\ x.kind = "batch" /\ x.by = Running.by /\ x.begun /\ x.files = t
      /\ x.offset = k /\ x.seen = Unseen
    BY <1>1, <1>5, <1>6 DEF OpRecord
<1>8. chain' = <<x>> \o Tail(chain)
    BY <1>2 DEF t, k
<1> HIDE DEF x
<1>9. OpFormed(x)
    BY <1>4, <1>7, <1>1 DEF OpFormed
<1>10. /\ ChainOK' /\ Busy' /\ Running' = x /\ chain'[1] = x
       /\ DOMAIN chain' = DOMAIN chain
       /\ \A i \in DOMAIN chain : i # 1 => chain'[i] = chain[i]
    BY <1>1, <1>8, <1>9, HeadReplaced DEF IndexingInv
<1>11. \A i \in DOMAIN chain : /\ chain'[i].kind = chain[i].kind /\ chain'[i].by = chain[i].by
                               /\ chain'[i].seen = chain[i].seen
    BY <1>1, <1>4, <1>5, <1>7, <1>10
<1>12. ScanOK'
    BY <1>1, <1>10, <1>11 DEF IndexingInv, ScanOK
<1>13. IndexingTypes'
    BY <1>1 DEF IndexingInv, IndexingTypes
<1>14. \A f \in Paths : Waiting(f) => Waiting(f)'
    <2>1. ASSUME NEW f \in Paths, Called(f) PROVE Called(f)'
        <3>1. PICK i \in DOMAIN chain : /\ chain[i].kind = "change" /\ chain[i].file = f
                                        /\ chain[i].files # <<>> /\ chain[i].seen = Unseen
            BY <2>1 DEF Called
        <3>2. i # 1
            BY <1>1, <1>4, <3>1
        <3> QED
            BY <1>10, <3>1, <3>2 DEF Called
    <2> QED
        BY <1>1, <2>1 DEF Waiting
<1>15. \A f \in Paths : ~Handled(f)
    BY <1>1 DEF Handled
<1>16. ASSUME NEW f \in Paths, ScanAhead(f) PROVE ScanAhead(f)'
    <2>1. CASE scan.pc = "calling" /\ scan.step = "batch"
        <3>1. PICK i \in DOMAIN chain :
                  chain[i].by = "scan" /\ (Ahead(f, chain[i].offset) \/ InBatch(f, chain[i]))
            BY <1>16, <2>1 DEF ScanAhead
        <3>2. PICK op : op = chain'[i]
            OBVIOUS
        <3>3. CASE i = 1
            <4>1. Ahead(f, Running.offset)
                BY <1>4, <1>5, <3>1, <3>3 DEF InBatch
            <4>2. Ahead(f, op.offset) \/ InBatch(f, op)
                <5>1. op = x
                    BY <1>10, <3>2, <3>3
                <5> QED
                    BY <1>6, <1>7, <4>1, <5>1 DEF InBatch
            <4>3. Ahead(f, op.offset)' \/ InBatch(f, op)'
                BY <1>1, <4>2 DEF Ahead, InBatch
            <4> QED
                BY <1>1, <1>10, <1>11, <2>1, <3>1, <3>2, <4>3 DEF ScanAhead
        <3>4. CASE i # 1
            <4>1. op = chain[i]
                BY <1>10, <3>2, <3>4
            <4>2. Ahead(f, op.offset)' \/ InBatch(f, op)'
                BY <1>1, <3>1, <4>1 DEF Ahead, InBatch
            <4> QED
                BY <1>1, <1>10, <1>11, <2>1, <3>1, <3>2, <4>2 DEF ScanAhead
        <3> QED
            BY <3>3, <3>4
    <2>2. CASE ~(scan.pc = "calling" /\ scan.step = "batch")
        BY <1>1, <1>16, <2>2 DEF ScanAhead, Ahead
    <2> QED
        BY <2>1, <2>2
<1>17. Cleared' => Cleared
    BY <1>1 DEF Cleared
<1> QED
    BY <1>1, <1>3, <1>7, <1>10, <1>12, <1>13, <1>14, <1>15, <1>16, <1>17, Goes

-----------------------------------------------------------------------------
(* Indexing a file.                                                        *)

\* The operation at the head of the chain is replaced, it keeps what it is.
LEMMA HeadGoesOn ==
    ASSUME IndexingInv, HasFile, NEW x, OpFormed(x), chain' = <<x>> \o Tail(chain),
           x.kind = Running.kind, x.by = Running.by, x.file = Running.file,
           x.offset = Running.offset,
           x.files = Running.files \/ x.files = Tail(Running.files),
           x.seen = Unseen \/ (x.files = Running.files /\ x.seen = disk[Head(Running.files)]),
           UNCHANGED <<disk, events, life, queue, timer, flush, scan, todo, meta, healthy>>
    PROVE  /\ ChainOK' /\ ScanOK' /\ Busy' /\ Running' = x
           /\ Head(Running.files) \in Paths
           /\ \A f \in Paths : f # Head(Running.files) \/ Running.kind # "change"
                                 \/ Running.seen # Unseen
                                 \/ (x.seen = Unseen /\ x.files = Running.files)
                 => (Waiting(f) => Waiting(f)')
           /\ \A f \in Paths : f # Head(Running.files) => ~Handled(f)
           /\ \A f \in Paths : f # Head(Running.files) \/ x.files = Running.files
                 => (ScanAhead(f) => ScanAhead(f)')
<1> DEFINE g == Head(Running.files)
<1>1. Busy /\ Running.files # <<>> /\ Running.begun
    BY DEF HasFile
<1>2. /\ OpFormed(Running) /\ 1 \in DOMAIN chain /\ chain[1] = Running /\ g \in Paths
    BY <1>1, HeadFile
<1>3. Running.files \in Seq(Paths)
    BY <1>2 DEF OpFormed, OpRecord
<1>4. /\ ChainOK' /\ Busy' /\ Running' = x /\ chain'[1] = x
      /\ DOMAIN chain' = DOMAIN chain
      /\ \A i \in DOMAIN chain : i # 1 => chain'[i] = chain[i]
    BY <1>1, HeadReplaced DEF IndexingInv
<1>5. \A i \in DOMAIN chain : chain'[i].kind = chain[i].kind /\ chain'[i].by = chain[i].by
    BY <1>2, <1>4
<1>6. ScanOK'
    <2>1. (\E i \in DOMAIN chain' : chain'[i].by = "scan")
             <=> \E i \in DOMAIN chain : chain[i].by = "scan"
        BY <1>4, <1>5
    <2>2. ASSUME NEW i \in DOMAIN chain', chain'[i].by = "scan"
          PROVE  /\ chain'[i].kind = scan.step
                 /\ \A j \in DOMAIN chain' : j > i => chain'[j].kind = "change"
        BY <1>4, <1>5, <2>2 DEF IndexingInv, ScanOK
    <2>3. \A i \in DOMAIN chain' : chain'[i].kind = "prepare" =>
              i \in DOMAIN chain /\ chain[i].kind = "prepare"
        BY <1>4, <1>5
    <2>4. scan' = scan /\ healthy' = healthy
        OBVIOUS
    <2>5. scan'.pc = "calling" <=> \E i \in DOMAIN chain' : chain'[i].by = "scan"
        BY <2>1, <2>4 DEF IndexingInv, ScanOK
    <2>6. \A i \in DOMAIN chain' : chain'[i].kind = "prepare" =>
             \/ scan'.pc = "failed"
             \/ scan'.pc = "idle" /\ ~healthy'
             \/ scan'.pc = "calling" /\ scan'.step = "prepare"
        BY <2>3, <2>4 DEF IndexingInv, ScanOK
    <2> QED
        BY <2>2, <2>4, <2>5, <2>6 DEF ScanOK
<1>7. Running.kind = "change" => Running.file = g
    <2>1. Running.kind = "change" => Running.files = <<Running.file>>
        BY <1>1, <1>2 DEF OpFormed
    <2> QED
        BY <2>1
<1>8. \A f \in Paths : f # g => ~Handled(f)
    BY <1>7 DEF Handled
<1>9. ASSUME NEW f \in Paths, Waiting(f),
             f # g \/ Running.kind # "change" \/ Running.seen # Unseen
               \/ (x.seen = Unseen /\ x.files = Running.files)
      PROVE  Waiting(f)'
    <2>1. CASE Called(f)
        <3>1. PICK i \in DOMAIN chain : /\ chain[i].kind = "change" /\ chain[i].file = f
                                        /\ chain[i].files # <<>> /\ chain[i].seen = Unseen
            BY <2>1 DEF Called
        <3>2. CASE i # 1
            BY <1>4, <3>1, <3>2 DEF Waiting, Called
        <3>3. CASE i = 1
            <4>1. x.seen = Unseen /\ x.files = Running.files
                BY <1>2, <1>7, <1>9, <3>1, <3>3
            <4> QED
                BY <1>1, <1>2, <1>4, <3>1, <3>3, <4>1 DEF Waiting, Called
        <3> QED
            BY <3>2, <3>3
    <2>2. CASE ~Called(f)
        BY <1>9, <2>2 DEF Waiting
    <2> QED
        BY <2>1, <2>2
<1>10. ASSUME NEW f \in Paths, ScanAhead(f), f # g \/ x.files = Running.files
       PROVE  ScanAhead(f)'
    <2>1. CASE scan.pc = "calling" /\ scan.step = "batch"
        <3>1. PICK i \in DOMAIN chain :
                  chain[i].by = "scan" /\ (Ahead(f, chain[i].offset) \/ InBatch(f, chain[i]))
            BY <1>10, <2>1 DEF ScanAhead
        <3>2. PICK op : op = chain'[i]
            OBVIOUS
        <3>3. CASE i = 1
            <4>1. op = x /\ (Ahead(f, x.offset) \/ InBatch(f, Running))
                BY <1>2, <1>4, <3>1, <3>2, <3>3
            <4>2. InBatch(f, Running) => InBatch(f, x)
                <5>1. SUFFICES ASSUME NEW j \in DOMAIN Running.files, Running.files[j] = f,
                                      j = 1 => Running.seen \in {Unseen, disk[f]}
                               PROVE  InBatch(f, x)
                    BY DEF InBatch
                <5>2. CASE x.files = Running.files
                    <6>1. j = 1 => f = g
                        BY <1>3, <5>1
                    <6>2. j = 1 => x.seen \in {Unseen, disk[f]}
                        BY <5>1, <6>1
                    <6> QED
                        BY <5>1, <5>2, <6>2 DEF InBatch
                <5>3. CASE x.files = Tail(Running.files) /\ x.files # Running.files
                    <6>1. j # 1 /\ j \in Nat
                        BY <1>3, <1>10, <5>1, <5>3
                    <6>2. j - 1 \in DOMAIN x.files /\ x.files[j - 1] = f
                        BY <1>1, <1>3, <5>1, <5>3, <6>1, HeadTailProperties
                    <6>3. x.seen = Unseen
                        BY <5>3
                    <6> QED
                        BY <6>2, <6>3 DEF InBatch
                <5> QED
                    BY <5>2, <5>3
            <4>3. Ahead(f, op.offset)' \/ InBatch(f, op)'
                BY <4>1, <4>2 DEF Ahead, InBatch
            <4> QED
                BY <1>4, <1>5, <2>1, <3>1, <3>2, <4>3 DEF ScanAhead
        <3>4. CASE i # 1
            <4>1. op = chain[i]
                BY <1>4, <3>2, <3>4
            <4>2. Ahead(f, op.offset)' \/ InBatch(f, op)'
                BY <3>1, <4>1 DEF Ahead, InBatch
            <4> QED
                BY <1>4, <1>5, <2>1, <3>1, <3>2, <4>2 DEF ScanAhead
        <3> QED
            BY <3>3, <3>4
    <2>2. CASE ~(scan.pc = "calling" /\ scan.step = "batch")
        BY <1>10, <2>2 DEF ScanAhead, Ahead
    <2> QED
        BY <2>1, <2>2
<1> QED
    BY <1>2, <1>4, <1>6, <1>8, <1>9, <1>10

\* A file of the operation is done: what is left to show is that nothing is
\* lost for this one.
LEMMA NextFileKeeps ==
    ASSUME IndexingInv, HasFile, chain' = NextFile, NEW g, g = Head(Running.files),
           UNCHANGED <<disk, edits, events, life, queue, timer, flush, scan, todo, meta, healthy,
                       dead>>,
           index' \in [Paths -> Row], dropped' \subseteq Paths,
           late' \subseteq [file : Paths, m : Times], late \subseteq late',
           \A f \in Paths : f # g =>
              index'[f] = index[f] /\ (f \in dropped => f \in dropped'),
           \A x \in late' : x.m # 0 /\ Past(x.file, x.m),
           index'[g].m <= index'[g].v, Past(g, index'[g].v), index'[g].m = 0 => index'[g].v = 0,
           (Running.kind # "change" \/ Running.seen # Unseen => (Waiting(g) => Waiting(g)'))
              => (Undone(g)' => Noticed(g)' /\ Reached(g)')
    PROVE  IndexingInv'
<1> DEFINE x == [Running EXCEPT !.files = Tail(@), !.seen = Unseen]
<1>1. Busy /\ Running.files # <<>> /\ Running.begun /\ chain' = <<x>> \o Tail(chain)
    BY DEF HasFile, NextFile
<1>2. life # "off" /\ life' # "off"
    BY <1>1, LifeOn
<1>3. OpFormed(Running) /\ g \in Paths
    BY <1>1, HeadFile
<1>4. Running \in OpRecord /\ Running.files \in Seq(Paths) /\ Unseen \in 1 .. Unseen
    BY <1>3, Constants DEF OpFormed, OpRecord
<1>5. Tail(Running.files) \in Seq(Paths)
    BY <1>1, <1>4, HeadTailProperties
<1>6. /\ x \in OpRecord /\ x.kind = Running.kind /\ x.by = Running.by /\ x.file = Running.file
      /\ x.offset = Running.offset /\ x.begun = Running.begun /\ x.files = Tail(Running.files)
      /\ x.seen = Unseen
    BY <1>4, <1>5 DEF OpRecord
<1> HIDE DEF x
<1>7. OpFormed(x)
    <2>1. Running.kind = "change" => x.files = <<>>
        <3>1. Running.kind = "change" => Running.files = <<Running.file>>
            BY <1>1, <1>3 DEF OpFormed
        <3>2. Tail(<<Running.file>>) = <<>>
            OBVIOUS
        <3> QED
            BY <1>6, <3>1, <3>2
    <2>2. Running.kind \notin {"prepare", "finalize"}
        BY <1>1, <1>3 DEF OpFormed
    <2> QED
        BY <1>1, <1>3, <1>6, <2>1, <2>2 DEF OpFormed
<1>8. /\ ChainOK' /\ ScanOK' /\ Busy' /\ Running' = x
      /\ \A f \in Paths : f # g \/ Running.kind # "change" \/ Running.seen # Unseen
            => (Waiting(f) => Waiting(f)')
      /\ \A f \in Paths : f # g => ~Handled(f) /\ (ScanAhead(f) => ScanAhead(f)')
    <2>1. HasFile /\ UNCHANGED <<disk, events, life, queue, timer, flush, scan, todo, meta, healthy>>
        OBVIOUS
    <2>2. /\ ChainOK' /\ ScanOK' /\ Busy' /\ Running' = x
          /\ \A f \in Paths : \/ f # Head(Running.files) \/ Running.kind # "change"
                              \/ Running.seen # Unseen
                              \/ (x.seen = Unseen /\ x.files = Running.files)
                => (Waiting(f) => Waiting(f)')
          /\ \A f \in Paths : f # Head(Running.files) => ~Handled(f)
          /\ \A f \in Paths : f # Head(Running.files) \/ x.files = Running.files
                => (ScanAhead(f) => ScanAhead(f)')
        BY <1>1, <1>6, <1>7, <2>1, HeadGoesOn
    <2> QED
        BY <2>2
<1>9. IndexingTypes'
    BY DEF IndexingInv, IndexingTypes
<1>10. RowsOK'
    <2>1. ASSUME NEW f \in Paths
          PROVE  /\ index'[f].m <= index'[f].v /\ Past(f, index'[f].v)
                 /\ index'[f].m = 0 => index'[f].v = 0
        BY <2>1 DEF IndexingInv, RowsOK
    <2>2. \A f \in Paths : Past(f, index[f].v)'
        BY <2>1 DEF Past
    <2>3. \A y \in late' : y.m # 0 /\ Past(y.file, y.m)'
        BY DEF Past
    <2> QED
        BY <1>6, <1>8, <2>1, <2>2, <2>3 DEF IndexingInv, RowsOK
<1>11. StaleSeen' /\ OffOK'
    BY <1>2, <1>6, <1>8 DEF StaleSeen, OffOK
<1>12. ASSUME NEW f \in Paths, Undone(f)' PROVE Noticed(f)' /\ Reached(f)'
    <2>1. CASE f = g
        <3>1. Running.kind # "change" \/ Running.seen # Unseen => (Waiting(g) => Waiting(g)')
            BY <1>3, <1>8
        <3> QED
            BY <1>12, <2>1, <3>1
    <2>2. CASE f # g
        <3>1. Undone(f) /\ index'[f] = index[f]
            BY <1>12, <2>2 DEF Undone
        <3>2. Coming(f) => Coming(f)'
            BY <1>8, <2>2 DEF Coming
        <3>3. GivenUpLate(f) => GivenUpLate(f)'
            BY DEF GivenUpLate
        <3>4. Noticed(f) => Noticed(f)'
            BY <3>1, <3>2 DEF Noticed, Cleared
        <3>5. Reached(f) => Reached(f)'
            BY <1>8, <2>2, <3>2, <3>3 DEF Reached
        <3> QED
            BY <3>1, <3>4, <3>5 DEF IndexingInv
    <2> QED
        BY <2>1, <2>2
<1> QED
    BY <1>8, <1>9, <1>10, <1>11, <1>12 DEF IndexingInv

\* What holds of a file that is about to be indexed.
LEMMA FileFacts ==
    ASSUME IndexingInv, HasFile, NEW g, g = Head(Running.files)
    PROVE  /\ g \in Paths /\ edits \in Nat /\ disk[g] \in Times /\ disk[g] \in Nat /\ disk[g] <= edits
           /\ index \in [Paths -> Row] /\ index[g].m \in Nat /\ index[g].v \in Nat
           /\ index[g].m <= index[g].v /\ Past(g, index[g].v)
           /\ index[g].m = 0 => index[g].v = 0
           /\ \A x \in late : x.m # 0 /\ Past(x.file, x.m)
           /\ late \subseteq [file : Paths, m : Times] /\ dropped \subseteq Paths
           /\ Running.seen # Unseen =>
                 /\ Running.seen \in Times /\ Running.seen \in Nat /\ Running.seen # 0
                 /\ Past(g, Running.seen)
                 /\ Running.seen # disk[g] => g \in dropped \/ Waiting(g)
<1>1. Busy /\ Running.files # <<>>
    BY DEF HasFile
<1>2. /\ g \in Paths
      /\ Running.seen # Unseen => Running.seen \in Times /\ Running.seen # 0
    BY <1>1, HeadFile
<1>3. /\ edits \in Nat /\ disk[g] \in Times /\ disk[g] \in Nat
      /\ index \in [Paths -> Row] /\ index[g].m \in Nat /\ index[g].v \in Nat
    BY <1>2, Constants DEF IndexingInv, IndexingTypes, Times, Row
<1>4. /\ disk[g] <= edits /\ index[g].m <= index[g].v /\ Past(g, index[g].v)
      /\ index[g].m = 0 => index[g].v = 0
      /\ \A x \in late : x.m # 0 /\ Past(x.file, x.m)
      /\ Running.seen # Unseen => Past(g, Running.seen)
    BY <1>1, <1>2 DEF IndexingInv, RowsOK
<1>5. Running.seen # Unseen /\ Running.seen # disk[g] => g \in dropped \/ Waiting(g)
    BY <1>1 DEF IndexingInv, StaleSeen
<1>6. Running.seen # Unseen => Running.seen \in Nat
    BY <1>2, Constants
<1> QED
    BY <1>2, <1>3, <1>4, <1>5, <1>6 DEF IndexingInv, IndexingTypes

LEMMA SeenKeeps ==
    ASSUME IndexingInv, HasFile, Running.seen = Unseen, NEW g, g = Head(Running.files),
           disk[g] # 0, chain' = <<[Running EXCEPT !.seen = disk[g]]>> \o Tail(chain),
           UNCHANGED <<disk, edits, events, life, queue, timer, flush, scan, todo, late, index, meta,
                       healthy, dead, dropped>>
    PROVE  IndexingInv'
<1> DEFINE x == [Running EXCEPT !.seen = disk[g]]
<1>1. Busy /\ Running.files # <<>> /\ Running.begun /\ chain' = <<x>> \o Tail(chain)
    BY DEF HasFile
<1>2. life # "off" /\ life' # "off"
    BY <1>1, LifeOn
<1>3. OpFormed(Running) /\ Running \in OpRecord /\ chain[1] = Running
    BY <1>1, HeadFile DEF OpFormed
<1>4. g \in Paths /\ disk[g] \in Times /\ disk[g] \in Nat /\ disk[g] <= edits /\ edits \in Nat
    BY FileFacts
<1>5. disk[g] \in 1 .. Unseen /\ disk[g] # Unseen
    BY <1>4, Constants DEF Times
<1>6. /\ x \in OpRecord /\ x.kind = Running.kind /\ x.by = Running.by /\ x.file = Running.file
      /\ x.offset = Running.offset /\ x.begun = Running.begun /\ x.files = Running.files
      /\ x.seen = disk[g]
    BY <1>3, <1>5 DEF OpRecord
<1> HIDE DEF x
<1>7. OpFormed(x)
    BY <1>1, <1>3, <1>6 DEF OpFormed
<1>8. /\ ChainOK' /\ ScanOK' /\ Busy' /\ Running' = x
      /\ \A f \in Paths : f # g \/ Running.kind # "change" => (Waiting(f) => Waiting(f)')
      /\ \A f \in Paths : f # g => ~Handled(f)
      /\ \A f \in Paths : ScanAhead(f) => ScanAhead(f)'
    <2>1. /\ x.files = Running.files /\ x.seen = disk[Head(Running.files)]
          /\ UNCHANGED <<disk, events, life, queue, timer, flush, scan, todo, meta, healthy>>
        BY <1>6
    <2>2. /\ ChainOK' /\ ScanOK' /\ Busy' /\ Running' = x
          /\ \A f \in Paths : \/ f # Head(Running.files) \/ Running.kind # "change"
                              \/ Running.seen # Unseen
                              \/ (x.seen = Unseen /\ x.files = Running.files)
                => (Waiting(f) => Waiting(f)')
          /\ \A f \in Paths : f # Head(Running.files) => ~Handled(f)
          /\ \A f \in Paths : f # Head(Running.files) \/ x.files = Running.files
                => (ScanAhead(f) => ScanAhead(f)')
        BY <1>1, <1>6, <1>7, <2>1, HeadGoesOn
    <2> QED
        BY <1>6, <2>2
<1>9. Running.kind = "change" => Handled(g)'
    <2>1. Running.kind = "change" => Running.file = g
        <3>1. Running.kind = "change" => Running.files = <<Running.file>>
            BY <1>1, <1>3 DEF OpFormed
        <3> QED
            BY <3>1
    <2> QED
        BY <1>1, <1>6, <1>8, <2>1 DEF Handled
<1>10. ~Handled(g)
    BY <1>5 DEF Handled
<1>11. \A f \in Paths : Coming(f) => Coming(f)'
    BY <1>8, <1>9, <1>10 DEF Coming
<1>12. IndexingTypes'
    BY DEF IndexingInv, IndexingTypes
<1>13. RowsOK'
    <2>1. Past(g, disk[g])
        BY <1>4 DEF Past
    <2>2. Head(Running'.files) = g /\ Running'.seen = disk[g]
        BY <1>6, <1>8
    <2> QED
        BY <2>1, <2>2 DEF IndexingInv, RowsOK, Past
<1>14. StaleSeen' /\ OffOK'
    BY <1>2, <1>6, <1>8 DEF StaleSeen, OffOK
<1>15. ASSUME NEW f \in Paths, Undone(f)' PROVE Noticed(f)' /\ Reached(f)'
    <2>1. Undone(f)
        BY <1>15 DEF Undone
    <2>2. Noticed(f) => Noticed(f)'
        BY <1>11 DEF Noticed, Cleared
    <2>3. Reached(f) => Reached(f)'
        BY <1>8, <1>11 DEF Reached, GivenUpLate
    <2> QED
        BY <2>1, <2>2, <2>3 DEF IndexingInv
<1> QED
    BY <1>8, <1>12, <1>13, <1>14, <1>15 DEF IndexingInv

LEMMA StatKeeps ==
    ASSUME IndexingInv, Stat
    PROVE  IndexingInv'
<1>1. PICK g : g = Head(Running.files)
    OBVIOUS
<1>2. /\ HasFile /\ Running.seen = Unseen
      /\ UNCHANGED <<disk, edits, events, life, queue, timer, flush, scan, todo, late, meta,
                     healthy, dead>>
    BY DEF Stat, fsVars
<1>3. CASE disk[g] # 0
    <2>1. /\ chain' = <<[Running EXCEPT !.seen = disk[g]]>> \o Tail(chain)
          /\ UNCHANGED <<index, dropped>>
        BY <1>1, <1>3 DEF Stat
    <2> QED
        BY <1>1, <1>2, <1>3, <2>1, SeenKeeps
<1>4. CASE disk[g] = 0
    <2>1. /\ chain' = NextFile
          /\ index' = IF Running.kind = "change" THEN [index EXCEPT ![g] = NoRow] ELSE index
          /\ dropped' = IF Running.kind = "change" THEN dropped \ {g} ELSE dropped
        BY <1>1, <1>4 DEF Stat
    <2>2. /\ g \in Paths /\ edits \in Nat /\ index \in [Paths -> Row]
          /\ index[g].m <= index[g].v /\ Past(g, index[g].v)
          /\ index[g].m = 0 => index[g].v = 0
          /\ \A x \in late : x.m # 0 /\ Past(x.file, x.m)
          /\ late \subseteq [file : Paths, m : Times] /\ dropped \subseteq Paths
        BY <1>1, <1>2, FileFacts
    <2>3. index' \in [Paths -> Row] /\ dropped' \subseteq Paths
        BY <2>1, <2>2, Constants
    <2>4. \A f \in Paths : f # g => index'[f] = index[f] /\ (f \in dropped => f \in dropped')
        BY <2>1, <2>2
    <2>5. /\ index'[g].m <= index'[g].v /\ Past(g, index'[g].v)
          /\ index'[g].m = 0 => index'[g].v = 0
        <3>1. CASE Running.kind = "change"
            <4>1. index'[g].m = 0 /\ index'[g].v = 0
                BY <2>1, <2>2, <3>1, Constants
            <4>2. 0 <= edits
                BY <2>2
            <4> QED
                BY <1>4, <2>2, <4>1, <4>2 DEF Past
        <3>2. CASE Running.kind # "change"
            BY <2>1, <2>2, <3>2
        <3> QED
            BY <3>1, <3>2
    <2>6. ASSUME Running.kind # "change" \/ Running.seen # Unseen => (Waiting(g) => Waiting(g)'),
                 Undone(g)'
          PROVE  Noticed(g)' /\ Reached(g)'
        <3>1. Running.kind # "change" /\ index' = index /\ dropped' = dropped
            BY <1>2, <1>4, <2>1, <2>2, <2>6, Constants DEF Undone
        <3>2. Undone(g) /\ ~Handled(g)
            BY <1>2, <2>6, <3>1 DEF Undone, Handled
        <3>3. index[g].m # 0
            BY <1>4, <2>2, <3>2 DEF Undone
        <3>4. ~(disk[g] > meta.mtime)
            BY <1>4, Constants DEF IndexingInv, IndexingTypes, Fingerprint, NoPrint, Times
        <3>5. Waiting(g)
            BY <2>2, <3>2, <3>3, <3>4 DEF IndexingInv, Noticed, Coming
        <3> QED
            BY <2>6, <3>1, <3>5 DEF Noticed, Reached, Coming
    <2> QED
        BY <1>1, <1>2, <2>1, <2>2, <2>3, <2>4, <2>5, <2>6, NextFileKeeps
<1> QED
    BY <1>3, <1>4

LEMMA CommitKeeps ==
    ASSUME IndexingInv, Commit
    PROVE  IndexingInv'
<1>1. PICK g : g = Head(Running.files)
    OBVIOUS
<1>2. /\ HasFile /\ Running.seen # Unseen /\ disk[g] # 0 /\ chain' = NextFile
      /\ dropped' = IF disk[g] = Running.seen THEN dropped \ {g} ELSE dropped
      /\ UNCHANGED <<disk, edits, events, life, queue, timer, flush, scan, todo, late, meta,
                     healthy, dead>>
    BY <1>1 DEF Commit, fsVars
<1>3. PICK v \in {Running.seen, disk[g]} : index' = Stored(g, Running.seen, v)
    BY <1>1 DEF Commit
<1>4. /\ g \in Paths /\ edits \in Nat /\ disk[g] \in Times /\ disk[g] \in Nat /\ disk[g] <= edits
      /\ index \in [Paths -> Row] /\ index[g].m \in Nat /\ index[g].v \in Nat
      /\ index[g].m <= index[g].v /\ Past(g, index[g].v)
      /\ index[g].m = 0 => index[g].v = 0
      /\ \A x \in late : x.m # 0 /\ Past(x.file, x.m)
      /\ late \subseteq [file : Paths, m : Times] /\ dropped \subseteq Paths
      /\ Running.seen \in Times /\ Running.seen \in Nat /\ Running.seen # 0
      /\ Past(g, Running.seen)
      /\ Running.seen # disk[g] => g \in dropped \/ Waiting(g)
    BY <1>1, <1>2, FileFacts
<1>5. Running.seen <= disk[g]
    BY <1>2, <1>4 DEF Past
<1>6. /\ \A f \in Paths : f # g => index'[f] = index[f] /\ (f \in dropped => f \in dropped')
      /\ index' \in [Paths -> Row] /\ dropped' \subseteq Paths
      /\ index'[g] = IF index[g].m = Running.seen THEN index[g] ELSE [m |-> Running.seen, v |-> v]
    BY <1>2, <1>3, <1>4 DEF Stored, Row
<1>7. /\ index'[g].m <= index'[g].v /\ Past(g, index'[g].v)
      /\ index'[g].m = 0 => index'[g].v = 0
      /\ Running.seen = disk[g] => index'[g].v = disk[g]
    <2>1. CASE index[g].m = Running.seen
        <3>1. index'[g] = index[g]
            BY <1>6, <2>1
        <3>2. index[g].v <= disk[g]
            BY <1>2, <1>4 DEF Past
        <3>3. Running.seen = disk[g] => index[g].v = disk[g]
            BY <1>4, <2>1, <3>2
        <3> QED
            BY <1>4, <3>1, <3>3
    <2>2. CASE index[g].m # Running.seen
        <3>1. index'[g].m = Running.seen /\ index'[g].v = v
            BY <1>6, <2>2
        <3>2. v \in Nat /\ v <= disk[g] /\ v <= edits /\ Running.seen <= v
            BY <1>3, <1>4, <1>5
        <3>3. Past(g, v)
            BY <3>2 DEF Past
        <3> QED
            BY <1>3, <1>4, <3>1, <3>2, <3>3
    <2> QED
        BY <2>1, <2>2
<1>8. ASSUME Running.kind # "change" \/ Running.seen # Unseen => (Waiting(g) => Waiting(g)'),
             Undone(g)'
      PROVE  Noticed(g)' /\ Reached(g)'
    <2>1. Running.seen # disk[g]
        BY <1>2, <1>7, <1>8 DEF Undone
    <2>2. g \notin dropped
        BY <1>2, <1>8, <2>1 DEF Undone
    <2> QED
        BY <1>2, <1>4, <1>8, <2>1, <2>2 DEF Noticed, Reached, Coming
<1> QED
    BY <1>1, <1>2, <1>4, <1>6, <1>7, <1>8, NextFileKeeps

LEMMA SkipKeeps ==
    ASSUME IndexingInv, Skip
    PROVE  IndexingInv'
<1>1. PICK g : g = Head(Running.files)
    OBVIOUS
<1>2. /\ HasFile /\ Running.seen # Unseen /\ chain' = NextFile
      /\ (disk[g] = 0 /\ dropped' = dropped) \/ dropped' = dropped \cup {g}
      /\ UNCHANGED <<disk, edits, events, life, queue, timer, flush, scan, todo, late, index, meta,
                     healthy, dead>>
    BY <1>1 DEF Skip, fsVars
<1>3. /\ g \in Paths /\ index \in [Paths -> Row] /\ index[g].m <= index[g].v
      /\ Past(g, index[g].v) /\ (index[g].m = 0 => index[g].v = 0)
      /\ \A x \in late : x.m # 0 /\ Past(x.file, x.m)
      /\ late \subseteq [file : Paths, m : Times] /\ dropped \subseteq Paths
      /\ Running.seen # 0
      /\ Running.seen # disk[g] => g \in dropped \/ Waiting(g)
    BY <1>1, <1>2, FileFacts
<1>4. dropped' \subseteq Paths /\ dropped \subseteq dropped'
    BY <1>2, <1>3
<1>5. ASSUME Running.kind # "change" \/ Running.seen # Unseen => (Waiting(g) => Waiting(g)'),
             Undone(g)'
      PROVE  Noticed(g)' /\ Reached(g)'
    <2>1. disk[g] = 0 /\ g \notin dropped
        BY <1>2, <1>4, <1>5 DEF Undone
    <2> QED
        BY <1>2, <1>3, <1>5, <2>1 DEF Noticed, Reached, Coming
<1> QED
    BY <1>1, <1>2, <1>3, <1>4, <1>5, NextFileKeeps

LEMMA GivenUpKeeps ==
    ASSUME IndexingInv, GivenUp
    PROVE  IndexingInv'
<1>1. PICK g : g = Head(Running.files)
    OBVIOUS
<1>2. /\ HasFile /\ Running.seen # Unseen /\ Running.kind = "batch" /\ chain' = NextFile
      /\ late' = late \cup {[file |-> g, m |-> Running.seen]}
      /\ UNCHANGED <<disk, edits, events, life, queue, timer, flush, scan, todo, index, meta,
                     healthy, dead, dropped>>
    BY <1>1 DEF GivenUp, fsVars
<1>3. /\ g \in Paths /\ index \in [Paths -> Row] /\ index[g].m <= index[g].v
      /\ Past(g, index[g].v) /\ (index[g].m = 0 => index[g].v = 0)
      /\ \A x \in late : x.m # 0 /\ Past(x.file, x.m)
      /\ late \subseteq [file : Paths, m : Times] /\ dropped \subseteq Paths
      /\ Running.seen \in Times /\ Running.seen # 0 /\ Past(g, Running.seen)
      /\ Running.seen # disk[g] => g \in dropped \/ Waiting(g)
    BY <1>1, <1>2, FileFacts
<1>4. /\ late' \subseteq [file : Paths, m : Times] /\ late \subseteq late'
      /\ \A x \in late' : x.m # 0 /\ Past(x.file, x.m)
    BY <1>2, <1>3
<1>5. ASSUME Running.kind # "change" \/ Running.seen # Unseen => (Waiting(g) => Waiting(g)'),
             Undone(g)'
      PROVE  Noticed(g)' /\ Reached(g)'
    <2>1. Undone(g) /\ g \notin dropped
        BY <1>2, <1>5 DEF Undone
    <2>2. Coming(g) => Waiting(g)'
        BY <1>2, <1>5 DEF Coming, Handled
    <2>3. Noticed(g)'
        BY <1>2, <1>3, <2>1, <2>2 DEF IndexingInv, Noticed, Coming, Cleared
    <2>4. CASE disk[g] = 0
        <3>1. Coming(g)'
            BY <1>3, <2>1, <2>2, <2>4 DEF Coming
        <3> QED
            BY <2>3, <3>1 DEF Reached
    <2>5. CASE disk[g] # 0
        <3>1. [file |-> g, m |-> Running.seen] \in late'
            BY <1>2
        <3>2. GivenUpLate(g)'
            BY <1>2, <2>5, <3>1 DEF GivenUpLate
        <3> QED
            BY <2>3, <3>2 DEF Reached
    <2> QED
        BY <2>4, <2>5
<1> QED
    BY <1>1, <1>2, <1>3, <1>4, <1>5, NextFileKeeps

LEMMA LateCommitKeeps ==
    ASSUME IndexingInv, NEW x \in late, LateCommit(x)
    PROVE  IndexingInv'
<1>1. /\ late' = late \ {x}
      /\ UNCHANGED <<disk, edits, events, life, queue, timer, flush, scan, chain, todo, meta,
                     healthy, dead>>
    BY DEF LateCommit, fsVars
<1>2. x.file \in Paths /\ x.m \in Times /\ x.m # 0 /\ Past(x.file, x.m) /\ life # "off"
    <2>1. x \in [file : Paths, m : Times] /\ life # "off"
        BY LifeOn DEF IndexingInv, IndexingTypes
    <2> QED
        BY <2>1 DEF IndexingInv, RowsOK
<1>3. /\ \A f \in Paths : f # x.file => index'[f] = index[f]
      /\ disk[x.file] = 0 => UNCHANGED <<index, dropped>>
      /\ disk[x.file] # 0 => /\ index'[x.file] = [m |-> x.m, v |-> x.m]
                             /\ disk[x.file] # x.m => x.file \in dropped'
      /\ dropped \subseteq dropped' /\ dropped' \subseteq Paths /\ index' \in [Paths -> Row]
    <2>1. CASE disk[x.file] = 0
        <3>1. UNCHANGED <<index, dropped>>
            BY <2>1 DEF LateCommit
        <3> QED
            BY <2>1, <3>1 DEF IndexingInv, IndexingTypes
    <2>2. CASE disk[x.file] # 0
        <3>1. /\ index' = [index EXCEPT ![x.file] = [m |-> x.m, v |-> x.m]]
              /\ dropped' = IF disk[x.file] = x.m THEN dropped ELSE dropped \cup {x.file}
            BY <2>2 DEF LateCommit
        <3>2. [m |-> x.m, v |-> x.m] \in Row
            BY <1>2 DEF Row
        <3> QED
            BY <1>2, <2>2, <3>1, <3>2 DEF IndexingInv, IndexingTypes
    <2> QED
        BY <2>1, <2>2
<1>4. ChainOK' /\ ScanOK' /\ (Busy' <=> Busy) /\ Running' = Running
    BY <1>1, ChainSame
<1>5. IndexingTypes'
    BY <1>1, <1>3 DEF IndexingInv, IndexingTypes
<1>6. \A f \in Paths : Coming(f) <=> Coming(f)'
    BY <1>1, <1>4 DEF Coming, Waiting, Called, Handled
<1>7. RowsOK'
    <2>1. x.m \in Nat
        BY <1>2, Constants
    <2>2. ASSUME NEW f \in Paths
          PROVE  /\ disk'[f] <= edits' /\ index'[f].m <= index'[f].v /\ Past(f, index[f].v)'
                 /\ index'[f].m = 0 => index'[f].v = 0
        <3>1. CASE f = x.file /\ disk[f] # 0
            <4>1. index'[f].m = x.m /\ index'[f].v = x.m
                BY <1>3, <3>1
            <4>2. Past(f, index[f].v)'
                BY <1>1, <1>2, <3>1, <4>1 DEF Past
            <4> QED
                BY <1>1, <1>2, <2>1, <4>1, <4>2 DEF IndexingInv, RowsOK
        <3>2. CASE ~(f = x.file /\ disk[f] # 0)
            <4>1. index'[f] = index[f]
                BY <1>3, <3>2
            <4> QED
                BY <1>1, <4>1 DEF IndexingInv, RowsOK, Past
        <3> QED
            BY <3>1, <3>2
    <2>3. \A y \in late' : y.m # 0 /\ Past(y.file, y.m)'
        BY <1>1 DEF IndexingInv, RowsOK, Past
    <2>4. Busy' /\ Running'.seen # Unseen => Past(Head(Running.files), Running.seen)'
        BY <1>1, <1>4 DEF IndexingInv, RowsOK, Past
    <2> QED
        BY <1>1, <1>4, <2>2, <2>3, <2>4 DEF IndexingInv, RowsOK
<1>8. StaleSeen'
    <2>1. \A f \in Paths : Waiting(f) => Waiting(f)'
        BY <1>1 DEF Waiting, Called
    <2> QED
        BY <1>1, <1>3, <1>4, <2>1, HeadFile DEF IndexingInv, StaleSeen
<1>9. OffOK'
    BY <1>1, <1>2 DEF OffOK
<1>10. ASSUME NEW f \in Paths, Undone(f)' PROVE Noticed(f)' /\ Reached(f)'
    <2>1. ~(f = x.file /\ disk[f] # 0)
        <3>1. SUFFICES ASSUME f = x.file, disk[f] # 0 PROVE FALSE
            OBVIOUS
        <3>2. index'[f].v = x.m
            BY <1>3, <3>1
        <3> QED
            BY <1>1, <1>3, <1>10, <3>1, <3>2 DEF Undone
    <2>2. index'[f] = index[f] /\ Undone(f)
        BY <1>1, <1>3, <1>10, <2>1 DEF Undone
    <2>3. GivenUpLate(f) => GivenUpLate(f)'
        BY <1>1, <2>1 DEF GivenUpLate
    <2>4. ScanAhead(f) => ScanAhead(f)'
        BY <1>1 DEF ScanAhead, Ahead, InBatch
    <2>5. Noticed(f) => Noticed(f)'
        BY <1>1, <1>6, <2>2 DEF Noticed, Cleared
    <2> QED
        BY <1>6, <2>2, <2>3, <2>4, <2>5 DEF IndexingInv, Reached
<1> QED
    BY <1>4, <1>5, <1>7, <1>8, <1>9, <1>10 DEF IndexingInv

-----------------------------------------------------------------------------
(* The theorem.                                                            *)

LEMMA IndexingInvInit == IndexingInit => IndexingInv
<1> SUFFICES ASSUME IndexingInit PROVE IndexingInv
    OBVIOUS
<1>1. /\ disk \in [Paths -> {0, 1}] /\ edits = 1 /\ events = {}
      /\ life = "off" /\ queue = {} /\ timer = FALSE
      /\ flush = NoFlush /\ scan = NoScan
      /\ chain = <<>> /\ todo = <<>> /\ late = {}
      /\ index = [f \in Paths |-> NoRow] /\ meta = NoPrint
      /\ healthy = TRUE /\ dead = FALSE /\ dropped = {}
    BY DEF IndexingInit
<1>2. /\ MaxEdits \in Nat /\ MaxEdits # 0 /\ Times = 0 .. MaxEdits /\ NoRow \in Row
      /\ NoRow.m = 0 /\ NoRow.v = 0
    BY IndexingAssumption, Constants DEF Times
<1>3. /\ \A f \in Paths : disk[f] \in {0, 1} /\ index[f].m = 0 /\ index[f].v = 0
      /\ DOMAIN chain = {} /\ ~Busy
      /\ scan.pc = "idle" /\ scan.step = "prepare" /\ meta.mtime = 0
    BY <1>1, <1>2 DEF Busy, NoScan, NoPrint
<1>4. IndexingTypes
    <2>1. disk \in [Paths -> Times] /\ edits \in Times /\ index \in [Paths -> Row]
        BY <1>1, <1>2
    <2>2. flush \in Flush /\ flush.left = {} /\ scan \in Scan /\ todo \in Seq(Paths)
        BY <1>1 DEF NoFlush, Flush, NoScan, Scan
    <2> QED
        BY <1>1, <2>1, <2>2 DEF IndexingTypes
<1>5. ChainOK /\ ScanOK /\ StaleSeen
    BY <1>1, <1>3 DEF ChainOK, ScanOK, StaleSeen
<1>6. RowsOK
    <2>1. \A f \in Paths : disk[f] <= 1 /\ disk[f] \in Nat
        BY <1>3
    <2> QED
        BY <1>1, <1>3, <2>1 DEF RowsOK, Past
<1>7. \A f \in Paths : Undone(f) => disk[f] > meta.mtime
    BY <1>3 DEF Undone
<1>8. OffOK
    BY <1>1, <1>7 DEF OffOK
<1>9. \A f \in Paths : Undone(f) => Noticed(f) /\ Reached(f)
    BY <1>1, <1>3, <1>7 DEF Noticed, Reached, Cleared, ScanAhead
<1> QED
    BY <1>4, <1>5, <1>6, <1>8, <1>9 DEF IndexingInv

LEMMA IndexingInvStep == IndexingInv /\ [IndexingNext]_indexingVars => IndexingInv'
<1> SUFFICES ASSUME IndexingInv, [IndexingNext]_indexingVars PROVE IndexingInv'
    OBVIOUS
<1>1. CASE UNCHANGED indexingVars
    <2>1. UNCHANGED <<disk, edits, events, life, queue, timer, flush, scan, chain, todo, late, index,
                      meta, healthy, dead, dropped>>
        BY <1>1 DEF indexingVars
    <2>2. ChainOK' /\ ScanOK' /\ (Busy' <=> Busy) /\ Running' = Running
        BY <2>1, ChainSame
    <2>3. IndexingTypes' /\ RowsOK' /\ StaleSeen' /\ OffOK'
        BY <2>1, <2>2 DEF IndexingInv, IndexingTypes, RowsOK, Past, StaleSeen, OffOK, Undone,
                          Waiting, Called
    <2>4. \A f \in Paths : Undone(f)' => Noticed(f)' /\ Reached(f)'
        BY <2>1, <2>2 DEF IndexingInv, Undone, Noticed, Reached, Coming, Waiting, Called, Handled,
                          GivenUpLate, ScanAhead, Ahead, InBatch, Cleared
    <2> QED
        BY <2>2, <2>3, <2>4 DEF IndexingInv
<1>2. ASSUME NEW f \in Paths, Edit(f) PROVE IndexingInv'
    BY <1>2, EditKeeps
<1>3. CASE ScanCommand
    <2>1. /\ life # "off" /\ scan.pc = "idle" /\ ScanCall("prepare", 0)
          /\ UNCHANGED <<disk, edits, events, life, queue, timer, flush, todo, late, index, meta,
                         healthy, dead, dropped>>
        BY <1>3 DEF ScanCommand, fsVars, queueVars
    <2>2. life' # "off" /\ life' \in {"check", "up"}
        BY <2>1 DEF IndexingInv, IndexingTypes
    <2> QED
        BY <2>1, <2>2, ScanCommandKeeps
<1>4. CASE Start
    BY <1>4, StartKeeps
<1>5. CASE Stops
    BY <1>5, StopsKeeps
<1>6. CASE Worker
    BY <1>6, PrepareKeeps, BatchBeginsKeeps, StatKeeps, CommitKeeps, SkipKeeps, GivenUpKeeps,
       OpEndsKeeps, LateCommitKeeps DEF Worker
<1>7. CASE Flushes
    BY <1>7, FlushFiresKeeps, FlushGoesOnKeeps, FlushStatsKeeps, FlushFailsKeeps DEF Flushes
<1>8. CASE Scans
    BY <1>8, ScanGoesOnKeeps, ScanCallFailsKeeps, ScanEndsKeeps DEF Scans
<1>9. CASE Runs
    BY <1>6, <1>7, <1>8, <1>9, WatchedKeeps, StartupCheckKeeps DEF Runs
<1> QED
    BY <1>1, <1>2, <1>3, <1>4, <1>5, <1>9 DEF IndexingNext

\* Whatever the disk, the watcher, the flushes, the scans, the failures and the
\* restarts do: an index at rest that passes for healthy lacks no edit but those
\* whose loss is accounted for.
THEOREM EditsAreAccounted == IndexingSpec => []EditsAccounted
<1>1. IndexingInv => EditsAccounted
    <2>1. SUFFICES ASSUME IndexingInv, Idle, healthy, NEW f \in Paths, f \in Outdated
                   PROVE  f \in dropped
        BY DEF EditsAccounted, Outdated
    <2>2. SUFFICES ASSUME f \notin dropped PROVE FALSE
        OBVIOUS
    <2>3. Reached(f)
        BY <2>1, <2>2 DEF IndexingInv, Outdated, Undone
    <2>4. DOMAIN chain = {} /\ chain = <<>> /\ flush.left = {}
        BY <2>1 DEF Idle, IndexingInv, IndexingTypes
    <2>5. ~Coming(f)
        BY <2>1, <2>4 DEF Coming, Waiting, Called, Handled, Busy, Idle
    <2> QED
        BY <2>1, <2>3, <2>5 DEF Reached, GivenUpLate, ScanAhead, Idle
<1> QED
    BY <1>1, IndexingInvInit, IndexingInvStep, PTL DEF IndexingSpec
=============================================================================
