------------------------- MODULE MCBackgroundTasks -------------------------
(* Instances of BackgroundTasks for TLC.                                   *)
EXTENDS BackgroundTasks

(* Two models: at most one task has a model of its own.                    *)
CONSTANTS m1, m2, b1
MCModelOf == [t \in Task |-> IF t = b1 THEN m2 ELSE m1]

MCAllModes == {"full", "lite"}
MCFull == {"full"}
=============================================================================
