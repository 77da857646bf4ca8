----------------------------- MODULE ToolHooks -----------------------------
(***************************************************************************)
(* The hooks around the tool calls of one session (src/src/index.ts,       *)
(* 'tool.execute.before', 'tool.execute.after' and 'permission.ask'): the  *)
(* restricted shell replaces a command, the loop refuses some tools, and a *)
(* command or a search is run elsewhere, in the container of a sandboxed   *)
(* loop (hooks/sandbox-tools.ts) or by ripgrep (hooks/host-tools.ts).  The *)
(* result then waits in a map, by call, until the after hook puts it in    *)
(* the place of what the builtin tool said; an entry older than five       *)
(* minutes is dropped.  Long results are archived (hooks/tool-archive.ts)  *)
(* and cut (harness/truncation.ts).                                        *)
(*                                                                         *)
(* opencode runs the tool with the arguments the before hooks leave, and   *)
(* runs no after hook when the tool or a before hook throws.  A text is    *)
(* the call it answers and what produced it.                               *)
(***************************************************************************)
EXTENDS Naturals

CONSTANT MaxOpenCalls      \* bounds the calls, the first slots first

VARIABLES loop,        \* the active loop the session belongs to
          box,         \* its container in the sandbox manager
          toolCall,    \* the tool calls
          boxResults,  \* pendingResults of the sandbox hooks
          hostResults  \* pendingResults of the host hooks

ToolCallIds == 1 .. MaxOpenCalls
pipeVars == <<loop, box, toolCall, boxResults, hostResults>>
loopOfCalls == <<loop, box>>
resultVars == <<boxResults, hostResults>>

Shell == {"bash", "push"}
Boxable == Shell \cup {"search"}
Tools == Boxable \cup {"blocked", "other"}
Sources == {"nobody", "host", "box", "search", "none", "echo", "refusal", "failure", "noop"}

\* args: what is left of the arguments; boxed: the hook found a container;
\* ran: where the call's own command ran; late: five minutes have passed since
\* its before hooks; text and part: what the model is shown.
NoToolCall == [pc |-> "free", tool |-> "other", args |-> "own", boxed |-> FALSE, late |-> FALSE,
               ran |-> {}, text |-> "nobody", part |-> "whole"]

PipeInit ==
  /\ loop = "none" /\ box = "off"
  /\ toolCall = [c \in ToolCallIds |-> NoToolCall]
  /\ boxResults = [c \in ToolCallIds |-> "nobody"]
  /\ hostResults = [c \in ToolCallIds |-> "nobody"]

CallGoes(c, pc) == [toolCall EXCEPT ![c].pc = pc]

\* A call that is over: only what the model was shown is kept of it.
Ended(c, shown, part) ==
  [NoToolCall EXCEPT !.pc = "ended", !.text = shown, !.part = part,
                     !.ran = toolCall[c].ran \cap {shown},
                     !.late = (toolCall[c].late /\ shown = "noop")]
Throws(c, shown) == [toolCall EXCEPT ![c] = Ended(c, shown, "whole")]

\* getSandboxForSession: an active, sandboxed loop whose container is known.
SandboxFound == loop = "boxed" /\ box # "off"

-----------------------------------------------------------------------------
(* The loop, its container, the time and the process                       *)

LoopBegins(kind) ==
  /\ loop = "none" /\ box = "off"
  /\ loop' = kind
  /\ box' = IF kind = "boxed" THEN "on" ELSE "off"
  /\ UNCHANGED <<toolCall, resultVars>>

\* A loop that ends is inactive first; its container is removed later.
LoopStops ==
  /\ loop # "none"
  /\ loop' = "none"
  /\ UNCHANGED <<box, toolCall, resultVars>>

BoxRemoved ==
  /\ loop = "none" /\ box # "off"
  /\ box' = "off"
  /\ UNCHANGED <<loop, toolCall, resultVars>>

BoxDies ==
  /\ box = "on"
  /\ box' = "dead"
  /\ UNCHANGED <<loop, toolCall, resultVars>>

\* restore, some time after a start of the process.
BoxRestored ==
  /\ loop = "boxed" /\ box = "off"
  /\ box' = "on"
  /\ UNCHANGED <<loop, toolCall, resultVars>>

\* The process ends: the maps are memory, the loop and the archive rows.
PipeRestarts ==
  /\ \E c \in ToolCallIds : toolCall[c].pc \notin {"free", "ended"}
  /\ box' = "off"
  /\ toolCall' = [c \in ToolCallIds |->
       IF toolCall[c].pc \in {"free", "ended"} THEN toolCall[c] ELSE Ended(c, "failure", "whole")]
  /\ boxResults' = [c \in ToolCallIds |-> "nobody"]
  /\ hostResults' = [c \in ToolCallIds |-> "nobody"]
  /\ UNCHANGED <<loop>>

HasResult(c) == boxResults[c] # "nobody" \/ hostResults[c] # "nobody"

\* Five minutes in which every call stands still, waiting for a permission.
TimePasses ==
  /\ \E c \in ToolCallIds : toolCall[c].pc = "ready"
  /\ \A c \in ToolCallIds : toolCall[c].pc \in {"free", "ready", "ended"}
  /\ toolCall' = [c \in ToolCallIds |->
       [toolCall[c] EXCEPT !.late = (@ \/ toolCall[c].pc = "ready" \/ HasResult(c))]]
  /\ UNCHANGED <<loopOfCalls, resultVars>>

-----------------------------------------------------------------------------
(* Before the tool                                                         *)

\* What parseCommand and the patterns see of a command, by its first word.
ShellCommands == {"dangerous", "listed", "unlisted"}

\* RestrictedShellEnforcer.check: a dangerous command is refused, and so is one
\* that is not in the agent's list.  An agent that has no list, or is not
\* known, may run the others.
ShellAllows(command, list) ==
  /\ command # "dangerous"
  /\ list = "none" \/ command = "listed"

\* The shell hook replaces a refused command by an echo of the refusal; then
\* the graph, harness and delta-read hooks take their time.
CallBegins(c, tool, command, list) ==
  /\ toolCall[c].pc = "free" /\ \A d \in 1 .. c - 1 : toolCall[d].pc # "free"
  /\ toolCall' = [toolCall EXCEPT ![c].pc = "asked", ![c].tool = tool,
       ![c].args = IF tool \in Shell /\ ~ShellAllows(command, list) THEN "echo" ELSE "own"]
  /\ UNCHANGED <<loopOfCalls, resultVars>>

\* An active loop refuses the tools of LOOP_BLOCKED_TOOLS.
LoopBlocks(c) ==
  /\ toolCall[c].pc = "asked" /\ toolCall[c].tool = "blocked" /\ loop # "none"
  /\ toolCall' = Throws(c, "refusal")
  /\ UNCHANGED <<loopOfCalls, resultVars>>

\* ripgrep on the host: what it found, or its error.
RipgrepAnswers == {"search", "none", "failure"}

\* Outside a sandbox ripgrep answers a search at once, if it is installed,
\* and the builtin tool is given a pattern that finds nothing.
HostSearches(c, answer) ==
  /\ toolCall[c].pc = "asked" /\ toolCall[c].tool = "search" /\ ~SandboxFound
  /\ hostResults' = [hostResults EXCEPT ![c] = answer]
  /\ toolCall' = [toolCall EXCEPT ![c].pc = "ready", ![c].args = "noop"]
  /\ UNCHANGED <<loopOfCalls, boxResults>>

\* A defect to check the property with: the command is neutralised only when
\* the container has answered.
BoxTakesLate(c) ==
  LET refused == toolCall[c].tool = "push" /\ toolCall[c].args = "own"
      sent == IF toolCall[c].args = "echo" THEN "echoing" ELSE "boxing"
  IN  /\ toolCall[c].pc = "asked" /\ toolCall[c].tool \in Boxable /\ SandboxFound
      /\ toolCall' = [toolCall EXCEPT ![c].boxed = TRUE,
                                      ![c].pc = IF refused THEN "ready" ELSE sent]
      /\ boxResults' = IF refused THEN [boxResults EXCEPT ![c] = "refusal"] ELSE boxResults
      /\ UNCHANGED <<loopOfCalls, hostResults>>

\* The sandbox hook: the builtin bash is left the command true, a push is
\* refused, and the command or the search is sent to the container.
BoxTakes(c) ==
  LET bash == toolCall[c].tool \in Shell
      refused == toolCall[c].tool = "push" /\ toolCall[c].args = "own"
      sent == IF toolCall[c].args = "echo" THEN "echoing" ELSE "boxing"
  IN  /\ toolCall[c].pc = "asked" /\ toolCall[c].tool \in Boxable /\ SandboxFound
      /\ toolCall' = [toolCall EXCEPT ![c].boxed = TRUE, ![c].pc = IF refused THEN "ready" ELSE sent,
                                      ![c].args = IF bash THEN "noop" ELSE "own"]
      /\ boxResults' = IF refused THEN [boxResults EXCEPT ![c] = "refusal"] ELSE boxResults
      /\ UNCHANGED <<loopOfCalls, hostResults>>

\* No hook takes the call: no container, no ripgrep, or another tool.
NobodyTakes(c) ==
  /\ toolCall[c].pc = "asked"
  /\ ~(toolCall[c].tool = "blocked" /\ loop # "none")
  /\ ~(toolCall[c].tool \in Boxable /\ SandboxFound)
  /\ toolCall' = CallGoes(c, "ready")
  /\ UNCHANGED <<loopOfCalls, resultVars>>

\* docker exec of a command ends, in time or stopped by one of its deadlines.
BoxRuns(c, inTime) ==
  LET own == toolCall[c].pc = "boxing"
  IN  /\ toolCall[c].pc \in {"boxing", "echoing"} /\ toolCall[c].tool # "search" /\ box = "on"
      /\ toolCall' = [toolCall EXCEPT ![c].pc = "ready",
                                      ![c].ran = IF own THEN @ \cup {"box"} ELSE @]
      /\ boxResults' = [boxResults EXCEPT ![c] =
           CASE ~inTime -> "failure" [] inTime /\ own -> "box" [] OTHER -> "echo"]
      /\ UNCHANGED <<loopOfCalls, hostResults>>

\* A search there: its error is not looked at, so one that printed nothing
\* until it was stopped has found nothing.
BoxSearches(c, printed) ==
  /\ toolCall[c].pc = "boxing" /\ toolCall[c].tool = "search" /\ box = "on"
  /\ toolCall' = [toolCall EXCEPT ![c].pc = "ready", ![c].ran = @ \cup {"box"}]
  /\ boxResults' = [boxResults EXCEPT ![c] = IF printed THEN "box" ELSE "none"]
  /\ UNCHANGED <<loopOfCalls, hostResults>>

\* The container is gone by now: exec ends with an error, which a command
\* shows and a search takes for no match.
BoxExecFails(c) ==
  /\ toolCall[c].pc \in {"boxing", "echoing"} /\ box # "on"
  /\ boxResults' = [boxResults EXCEPT ![c] = IF toolCall[c].tool = "search" THEN "none" ELSE "failure"]
  /\ toolCall' = CallGoes(c, "ready")
  /\ UNCHANGED <<loopOfCalls, hostResults>>

-----------------------------------------------------------------------------
(* The tool, and after it                                                  *)

\* The ruleset of a loop session and permission.ask deny a push.
PushRefused(c) == toolCall[c].tool = "push" /\ toolCall[c].args = "own" /\ loop # "none"
PushDenied(c) ==
  /\ toolCall[c].pc = "ready" /\ PushRefused(c)
  /\ toolCall' = Throws(c, "refusal")
  /\ UNCHANGED <<loopOfCalls, resultVars>>

ToolRuns(c) ==
  /\ toolCall[c].pc = "ready"
  /\ ~PushRefused(c)
  /\ toolCall' = [toolCall EXCEPT ![c].pc = "after",
       ![c].ran = IF toolCall[c].args = "own" THEN @ \cup {"host"} ELSE @,
       ![c].text = IF toolCall[c].args = "own" THEN "host" ELSE toolCall[c].args]
  /\ UNCHANGED <<loopOfCalls, resultVars>>

\* The user says no, or the tool fails: no after hook, and a result that
\* waits is left in its map.
ToolThrows(c) ==
  /\ toolCall[c].pc = "ready"
  /\ toolCall' = Throws(c, "failure")
  /\ UNCHANGED <<loopOfCalls, resultVars>>

\* An after hook drops the old results, whosever they are, and takes its own.
Swept(results, c) ==
  [d \in ToolCallIds |-> IF d = c \/ toolCall[d].late THEN "nobody" ELSE results[d]]
Taken(results, c, said) ==
  IF results[c] = "nobody" \/ toolCall[c].late THEN said ELSE results[c]

\* A text of the archive's threshold is stored and its preview shown; a
\* smaller one may still have lines that truncateForTool cuts.
Archived(size) == size = "large"
Clipped(tool, size) == size = "wide" /\ tool \in Boxable

\* The after hooks in their order: sandbox, host, loop, archive, truncation.
AfterHooks(c, size) ==
  LET tool == toolCall[c].tool
      own == toolCall[c].text
      boxText == IF tool \in Boxable THEN Taken(boxResults, c, own) ELSE own
      hostText == IF tool = "search" THEN Taken(hostResults, c, boxText) ELSE boxText
      said == IF tool = "blocked" /\ loop # "none" THEN "refusal" ELSE hostText
      part == CASE Archived(size) -> "preview" [] Clipped(tool, size) -> "cut" [] OTHER -> "whole"
  IN  /\ toolCall[c].pc = "after"
      /\ boxResults' = IF tool \in Boxable THEN Swept(boxResults, c) ELSE boxResults
      /\ hostResults' = IF tool = "search" THEN Swept(hostResults, c) ELSE hostResults
      /\ toolCall' = [toolCall EXCEPT ![c] = Ended(c, said, part)]
      /\ UNCHANGED loopOfCalls

\* The model reads an archived text with expand, until the row expires.
Expand(c) ==
  /\ toolCall[c].part = "preview"
  /\ toolCall' = [toolCall EXCEPT ![c].part = "whole"]
  /\ UNCHANGED <<loopOfCalls, resultVars>>

ArchiveExpires(c) ==
  /\ toolCall[c].part = "preview"
  /\ toolCall' = [toolCall EXCEPT ![c].part = "cut"]
  /\ UNCHANGED <<loopOfCalls, resultVars>>

PipeNext ==
  \/ \E kind \in {"plain", "boxed"} : LoopBegins(kind)
  \/ LoopStops \/ BoxRemoved \/ BoxDies \/ BoxRestored \/ PipeRestarts \/ TimePasses
  \/ \E c \in ToolCallIds :
       \/ \E tool \in Tools, command \in ShellCommands, list \in {"none", "some"} :
            CallBegins(c, tool, command, list)
       \/ \E answer \in RipgrepAnswers : HostSearches(c, answer)
       \/ LoopBlocks(c) \/ BoxTakes(c) \/ NobodyTakes(c)
       \/ BoxExecFails(c) \/ PushDenied(c) \/ ToolRuns(c) \/ ToolThrows(c)
       \/ \E inTime \in BOOLEAN : BoxRuns(c, inTime) \/ BoxSearches(c, inTime)
       \/ \E size \in {"small", "wide", "large"} : AfterHooks(c, size)
       \/ Expand(c) \/ ArchiveExpires(c)

PipeSpec == PipeInit /\ [][PipeNext]_pipeVars

-----------------------------------------------------------------------------
\* The state has the types of the code.
PipeTypeOK ==
  /\ loop \in {"none", "plain", "boxed"} /\ box \in {"off", "on", "dead"}
  /\ toolCall \in [ToolCallIds ->
       [pc : {"free", "asked", "boxing", "echoing", "ready", "after", "ended"}, tool : Tools,
        args : {"own", "echo", "noop"}, boxed : BOOLEAN, late : BOOLEAN,
        ran : SUBSET {"host", "box"}, text : Sources, part : {"whole", "cut", "preview"}]]
  /\ boxResults \in [ToolCallIds -> Sources] /\ hostResults \in [ToolCallIds -> Sources]

(***************************************************************************)
(* A command runs where its result comes from (hooks/sandbox-tools.ts:     *)
(* 30-80, hooks/host-tools.ts:8-13): a bash command never runs twice, one  *)
(* taken by the sandbox never runs on the host, whatever becomes of the    *)
(* container and the loop meanwhile; and the model is never shown as a     *)
(* call's result what did not run, nor the empty answer of the neutralised *)
(* tool unless the result has waited five minutes.                         *)
(***************************************************************************)
RunsWhereShown ==
  \A c \in ToolCallIds :
    /\ toolCall[c].tool \in Shell =>
         /\ toolCall[c].ran # {"host", "box"}
         /\ toolCall[c].boxed => "host" \notin toolCall[c].ran
    /\ toolCall[c].pc = "ended" =>
         /\ toolCall[c].text \in {"host", "box"} => toolCall[c].text \in toolCall[c].ran
         /\ toolCall[c].text = "noop" => toolCall[c].late
=============================================================================
