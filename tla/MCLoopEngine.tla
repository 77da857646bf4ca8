---------------------------- MODULE MCLoopEngine ----------------------------
(* Instances of LoopEngine for TLC.                                        *)
EXTENDS LoopEngine, TLC

(* A finished turn: plain text, the completion signal, or an error.        *)
Plain == [signal |-> FALSE, err |-> "none"]
Signal == [signal |-> TRUE, err |-> "none"]
ModelError == [signal |-> FALSE, err |-> "model"]
ContextError == [signal |-> FALSE, err |-> "context"]

MCMessages == {Plain, Signal, ModelError, ContextError}
MCBriefMessages == {Signal, ModelError}

MCCancel == {"cancelled"}
MCShutdown == {"shutdown"}
MCAllInterrupts == InterruptKind

Symmetry == Permutations(Session) \cup Permutations(Tick)
=============================================================================
