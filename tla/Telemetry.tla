----------------------------- MODULE Telemetry -----------------------------
(***************************************************************************)
(* The telemetry collector (runtime/telemetry.ts): events are buffered and *)
(* written in batches, on a timer, before a query and at the close.  The   *)
(* rows of a batch are inserted one by one, without a transaction, and the *)
(* buffer is cleared after the last of them: a batch that fails half way   *)
(* is written again from its beginning.  The sums over the rows are those  *)
(* of forge stats and getStats.                                            *)
(***************************************************************************)
EXTENDS Naturals, Sequences, FiniteSets, SequencesExt

CONSTANTS Events,    \* what the emitters record, each once
          BatchSize, \* BATCH_SIZE
          MaxRows    \* bounds the rows of an event, and so the failed batches
ASSUME BatchAssumption == BatchSize \in Nat \ {0}

VARIABLES buffer,      \* the events that wait
          eventRows,   \* how often each event is in telemetry_events
          collector,   \* "fresh", "ready", "failed" or "closed"
          recorded,    \* the events recorded so far
          refused,     \* those that waited when a batch failed
          goneEvents   \* those that waited when a process ended

telemetryVars == <<buffer, eventRows, collector, recorded, refused, goneEvents>>

TelemetryInit ==
  /\ buffer = <<>> /\ eventRows = [e \in Events |-> 0]
  /\ collector = "fresh"
  /\ recorded = {} /\ refused = {} /\ goneEvents = {}

Times(e, batch) == Cardinality({i \in DOMAIN batch : batch[i] = e})

(* The rows of the first n events of a batch.                              *)
Inserted(batch, n) == [e \in Events |-> eventRows[e] + Times(e, SubSeq(batch, 1, n))]

(* Mistake: the buffer is taken before the batch is written.               *)
FlushTakesFirst(batch) ==
  \E n \in 0 .. Len(batch) :
    /\ n > 0 => collector # "closed"
    /\ eventRows' = Inserted(batch, n)
    /\ buffer' = <<>>
    /\ refused' = IF n < Len(batch) THEN refused \cup ToSet(batch) ELSE refused

(* flush of a non-empty buffer: the database fails at any of its rows.     *)
FlushBatch(batch) ==
  \E n \in 0 .. Len(batch) :
    /\ n > 0 => collector # "closed"
    /\ eventRows' = Inserted(batch, n)
    /\ IF n = Len(batch) THEN buffer' = <<>> /\ UNCHANGED refused
       ELSE buffer' = batch /\ refused' = refused \cup ToSet(batch)

(* The rows after a cleanup that found the given events too old.           *)
Retained(old) == [e \in Events |-> IF e \in old THEN 0 ELSE eventRows[e]]

(* init, which ends with a cleanup.  One that fails has its database but   *)
(* neither timer nor queries.                                              *)
CollectorStarts ==
  /\ collector = "fresh"
  /\ \/ collector' = "failed" /\ UNCHANGED <<eventRows, goneEvents>>
     \/ /\ collector' = "ready"
        /\ \E old \in {{}, {e \in Events : eventRows[e] > 0}} :
             /\ eventRows' = Retained(old)
             /\ goneEvents' = goneEvents \cup old
  /\ UNCHANGED <<buffer, recorded, refused>>

(* A collector that has no database keeps what it is given.                *)
RecordEvent(e) ==
  /\ recorded' = recorded \cup {e}
  /\ IF Len(buffer) + 1 >= BatchSize /\ collector # "fresh"
     THEN FlushBatch(Append(buffer, e))
     ELSE buffer' = Append(buffer, e) /\ UNCHANGED <<eventRows, refused>>
  /\ UNCHANGED <<collector, goneEvents>>

(* The timer, or a query or getStats before it reads.                      *)
EventsFlushed ==
  /\ collector = "ready" /\ buffer # <<>>
  /\ FlushBatch(buffer)
  /\ UNCHANGED <<collector, recorded, goneEvents>>

CollectorCloses ==
  /\ collector \in {"ready", "failed"}
  /\ IF buffer = <<>> THEN UNCHANGED <<buffer, eventRows, refused>> ELSE FlushBatch(buffer)
  /\ collector' = "closed"
  /\ UNCHANGED <<recorded, goneEvents>>

(* The process ends, closed or not; the next one has an empty buffer.      *)
CollectorEnds ==
  /\ collector' = "fresh" /\ buffer' = <<>>
  /\ goneEvents' = goneEvents \cup ToSet(buffer)
  /\ UNCHANGED <<eventRows, recorded, refused>>

TelemetryNext ==
  /\ \/ CollectorStarts \/ EventsFlushed \/ CollectorCloses \/ CollectorEnds
     \/ \E e \in Events \ recorded : RecordEvent(e)
  /\ \A e \in Events : eventRows'[e] <= MaxRows

TelemetrySpec == TelemetryInit /\ [][TelemetryNext]_telemetryVars

-----------------------------------------------------------------------------
(***************************************************************************)
(* No event is lost but with its process, and none is counted twice unless *)
(* a batch failed (runtime/telemetry.ts:143-165): a recorded event waits   *)
(* or has its row, and has one place only if no flush failed under it.     *)
(***************************************************************************)
EventsKept ==
  \A e \in recorded \ goneEvents :
    /\ e \in ToSet(buffer) \/ eventRows[e] > 0
    /\ e \notin refused => eventRows[e] + Times(e, buffer) = 1
=============================================================================
