----------------------------- MODULE MCControl -----------------------------
(* Loops from without, the work they leave, and what surrounds them, for     *)
(* TLC: model calls, plans, the key-value store, what a session reads, the   *)
(* harness and telemetry.  They are checked side by side: a behaviour is one *)
(* of a single part, chosen at the start.                                    *)
EXTENDS LoopControl, LoopEnding, ModelCalls, Plans, KvStore, ToolCalls, Harness,
        Telemetry

CONSTANTS a, b, s1, k1, k2, t

VARIABLE part

Init ==
    /\ part \in {"control", "ending", "model", "plans", "kv", "files", "diffs",
                "harness", "telemetry"}
    /\ ControlInit /\ EndingInit /\ CallInit /\ PlansInit /\ KvInit
    /\ ToolsInit /\ DiffsInit /\ HarnessInit /\ TelemetryInit

Only(p, vars) == part # p => UNCHANGED vars

Next ==
    /\ UNCHANGED part
    /\ Only("control", controlVars) /\ Only("ending", endingVars)
    /\ Only("model", callVars) /\ Only("plans", planVars) /\ Only("kv", kvVars)
    /\ Only("files", toolVars) /\ Only("diffs", compared)
    /\ Only("harness", harnessVars) /\ Only("telemetry", telemetryVars)
    /\ \/ part = "control" /\ ControlNext
       \/ part = "ending" /\ EndingNext
       \/ part = "model" /\ CallNext
       \/ part = "plans" /\ PlansNext
       \/ part = "kv" /\ KvNext
       \/ part = "files" /\ ToolsNext
       \/ part = "diffs" /\ TextsCompared
       \/ part = "harness" /\ HarnessNext
       \/ part = "telemetry" /\ TelemetryNext

Spec == Init /\ [][Next]_<<part, controlVars, endingVars, callVars, planVars, kvVars,
                           toolVars, compared, harnessVars, telemetryVars>>
=============================================================================
