------------------------------- MODULE MCGraph -------------------------------
(* The calls of the graph's clients, the indexing of a leader, and the hooks *)
(* that tell it of changes, for TLC.  They are checked side by side: a       *)
(* behaviour is one of a single part, chosen at the start.                   *)
EXTENDS GraphCalls, GraphIndexing, GraphHooks, TLC

CONSTANTS p1, p2, query, change, f1, f2, tracked, main, dev

VARIABLE part

KindOfCall == query :> "read" @@ change :> "flush"

CallsRest == /\ ~\E p \in Procs : svc[p].ro
             /\ \A c \in Calls : call[c].of = First
OneFile == Cardinality(Present) = 1
IndexingRest == Present = {}
HooksRest == \A n \in Branches, f \in TreeFiles : tips[n][f] = 0

Init ==
    /\ part \in {"calls", "indexing", "hooks"}
    /\ CallsInit /\ (part # "calls" => CallsRest)
    /\ IndexingInit /\ IF part = "indexing" THEN OneFile ELSE IndexingRest
    /\ HooksInit /\ head.branch = main /\ (part # "hooks" => HooksRest)

Only(p, vars) == part # p => UNCHANGED vars

Next ==
    /\ UNCHANGED part
    /\ Only("calls", callVars) /\ Only("indexing", indexingVars) /\ Only("hooks", hookVars)
    /\ \/ part = "calls" /\ CallsNext
       \/ part = "indexing" /\ IndexingNext
       \/ part = "hooks" /\ HooksNext

Spec == Init /\ [][Next]_<<part, callVars, indexingVars, hookVars>>

SamePaths == Permutations({f1, f2})
=============================================================================
