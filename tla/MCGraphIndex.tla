---------------------------- MODULE MCGraphIndex ----------------------------
(* The tables of the index and the queries over them; sessions, the hooks    *)
(* around their tool calls, the chunks of the embeddings and the language    *)
(* servers, for TLC.  They are checked side by side: a behaviour grows the   *)
(* edges or the calls that the queries walk, or is one of another part.      *)
EXTENDS GraphQueries, DirRollup, GraphTables, Sessions, ToolHooks, Chunks, LspServers, TLC

CONSTANTS a, b, c

VARIABLE part

Names == <<1, 1, 2, 1>>
Homes == <<1, 2, 2, 2>>
Paths == {<<"a">>, <<"d", "b">>, <<"d", "e", "c">>, <<"f", "g">>}

\* a imports x from b or c; b defines x and may export it, c exports it too and
\* tests a.
Defined(name, exported, uses) == [name |-> name, exported |-> exported, uses |-> uses]
Content(function, imports) == [functions |-> {function}, imports |-> imports]
Contents ==
    a :> {Content(Defined("f", TRUE, {"x"}), {[name |-> "x", from |-> p]}) : p \in {b, c}}
    @@ b :> {Content(Defined("x", e, {}), {}) : e \in BOOLEAN}
    @@ c :> {Content(Defined("x", TRUE, {}), {})}
Tests == a :> Absent @@ b :> Absent @@ c :> a
Below == [p \in {a, b, c} |-> {a, b, c}]
Together == {{a, c}}

NoTree == [f \in Tree |-> NotTracked]
Init ==
    /\ part \in {"edges", "calls", "tree", "tables", "sessions", "pipe", "chunks", "servers"}
    /\ QueriesInit /\ DirsInit /\ (part # "tree" => before = NoTree)
    /\ TablesInit /\ IF part = "tables" THEN Cardinality(OnDisk) > 1 ELSE OnDisk = {}
    /\ SessionsInit /\ PipeInit /\ ChunksInit /\ LspInit

Only(p, vars) == part \notin p => UNCHANGED vars

Next ==
    /\ UNCHANGED part
    /\ Only({"edges", "calls"}, queryVars) /\ Only({"tree"}, dirVars) /\ Only({"tables"}, tableVars)
    /\ Only({"sessions"}, sessionVars) /\ Only({"pipe"}, pipeVars)
    /\ Only({"chunks"}, chunkedFile) /\ Only({"servers"}, lspVars)
    /\ \/ part = "edges" /\ EdgeAdded /\ UNCHANGED calls
       \/ part = "calls" /\ CallsNext /\ UNCHANGED edges
       \/ part = "tree" /\ DirsNext
       \/ part = "tables" /\ TablesNext
       \/ part = "sessions" /\ SessionsNext
       \/ part = "pipe" /\ PipeNext
       \/ part = "chunks" /\ FileChunked
       \/ part = "servers" /\ LspNext

Spec == Init /\ [][Next]_<<part, queryVars, dirVars, tableVars, sessionVars, pipeVars,
                           chunkedFile, lspVars>>
=============================================================================
