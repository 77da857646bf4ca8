---------------------------- MODULE GraphIndexing ----------------------------
(***************************************************************************)
(* How edits reach the code graph of a leader: the watcher, the queue and  *)
(* the debounced flush of src/graph/service.ts, the scan and the decision  *)
(* to scan at startup, the write chain of worker.ts, and what indexing a   *)
(* file reads and writes (repo-map.ts).  The process may end at any time   *)
(* and start again; the database and the fingerprint survive it.           *)
(*                                                                         *)
(* A file is its modification time, 0 when there is none; an edit takes    *)
(* the next one.                                                           *)
(***************************************************************************)
EXTENDS Naturals, Sequences, FiniteSets

CONSTANTS
    Paths,        \* indexable files of the project
    BatchMax,     \* bound: files of one scanBatch
    MaxEdits,     \* bound: edits, also the largest modification time
    MaxStarts,    \* bound: starts of the process and graph.scan commands
    MaxTroubles,  \* bound: what goes wrong
    Troubles      \* what may go wrong

ASSUME IndexingAssumption ==
    /\ IsFiniteSet(Paths)
    /\ BatchMax \in Nat \ {0}
    /\ MaxEdits \in Nat \ {0} /\ MaxStarts \in Nat /\ MaxTroubles \in Nat
    /\ Troubles \subseteq {"call", "file", "slow", "incomplete"}

VARIABLES
    disk,      \* files on disk
    edits,     \* edits so far: the clock
    events,    \* changes the watcher has not reported yet
    life,      \* "off", "check" (startup decision) or "up"
    queue,     \* pendingQueue
    timer,     \* flushTimer is set
    flush,     \* the flush in progress
    scan,      \* the scan in flight
    chain,     \* writeChain of the worker, the first one runs
    todo,      \* scanFiles
    late,      \* indexing of files given up by a batch, still running
    index,     \* the files table: modification time and version of the content
    meta,      \* fingerprint of the last scan
    healthy,   \* workerHealthy
    dead,      \* the client was told that its worker is dead
    status,    \* the state last emitted
    dropped,   \* files with a change that was given up (history)
    troubles, starts

fsVars == <<disk, edits, events>>
queueVars == <<queue, timer, flush>>
workVars == <<chain, todo, late, index>>
boundVars == <<troubles, starts>>
indexingVars == <<disk, edits, events, life, queue, timer, flush, scan, chain,
                  todo, late, index, meta, healthy, dead, status, dropped,
                  troubles, starts>>

Times == 0 .. MaxEdits
Row == [m : Times, v : Times]
NoRow == [m |-> 0, v |-> 0]
Flush == [pc : {"idle", "calling", "answered", "stats"}, left : SUBSET Paths]
NoFlush == [pc |-> "idle", left |-> {}]
Scan == [pc : {"idle", "calling", "answered", "failed", "stats"},
         step : {"prepare", "batch", "finalize"}, offset : Nat]
NoScan == [pc |-> "idle", step |-> "prepare", offset |-> 0]
Fingerprint == [count : 0 .. Cardinality(Paths), mtime : Times]
NoPrint == [count |-> Cardinality(Paths) + 1, mtime |-> 0]

Present == {f \in Paths : disk[f] # 0}
Newest == CHOOSE t \in Times : /\ \A f \in Paths : disk[f] <= t
                               /\ t = 0 \/ \E f \in Paths : disk[f] = t

\* collectIndexFingerprint
Printed == [count |-> Cardinality(Present), mtime |-> Newest]

Trouble(kind) == kind \in Troubles /\ troubles < MaxTroubles /\ troubles' = troubles + 1

-----------------------------------------------------------------------------
(* Files and the watcher                                                    *)

Edit(f) ==
    /\ edits < MaxEdits
    /\ edits' = edits + 1
    /\ \E t \in {0, edits + 1} :
          /\ disk[f] # 0 \/ t # 0
          /\ disk' = [disk EXCEPT ![f] = t]
    /\ events' = IF life = "off" THEN events ELSE events \cup {f}
    /\ dropped' = IF life = "off" /\ disk'[f] = 0 THEN dropped \cup {f} ELSE dropped
    /\ UNCHANGED <<life, scan, meta, healthy, dead, status>>
    /\ UNCHANGED queueVars /\ UNCHANGED workVars /\ UNCHANGED boundVars

\* enqueueChange: the debounce starts anew with every change.
Watched(f) ==
    /\ f \in events
    /\ events' = events \ {f}
    /\ queue' = queue \cup {f}
    /\ timer' = TRUE
    /\ UNCHANGED <<disk, edits, life, flush, scan, meta, healthy, dead, status, dropped>>
    /\ UNCHANGED workVars /\ UNCHANGED boundVars

-----------------------------------------------------------------------------
(* The write chain of the worker                                            *)

Op(kind, by, file, offset) ==
    [kind |-> kind, by |-> by, file |-> file, offset |-> offset,
     files |-> IF kind = "change" THEN <<file>> ELSE <<>>,
     begun |-> kind = "change", seen |-> MaxEdits + 1]
Unseen == MaxEdits + 1
SomeFile == CHOOSE f \in Paths : TRUE

Running == Head(chain)
Busy == chain # <<>>

\* The caller of an operation that has ended gets its answer.
Answered(op) ==
    /\ flush' = IF op.by = "flush" THEN [flush EXCEPT !.pc = "answered"] ELSE flush
    /\ scan' = IF op.by = "scan"
               THEN [scan EXCEPT !.pc = "answered",
                        !.offset = IF op.kind = "batch" THEN op.offset ELSE @]
               ELSE scan

\* resetGraphDataForFullScan clears every table.
Prepare ==
    /\ Busy /\ Running.kind = "prepare"
    /\ \E s \in [1 .. Cardinality(Present) -> Present] :
          /\ \A i, j \in DOMAIN s : s[i] = s[j] => i = j
          /\ todo' = s
    /\ index' = [f \in Paths |-> NoRow]
    /\ dropped' = dropped \ {f \in Paths : disk[f] = 0}
    /\ chain' = Tail(chain)
    /\ Answered(Running)
    /\ UNCHANGED <<life, queue, timer, late, meta, healthy, dead, status>>
    /\ UNCHANGED fsVars /\ UNCHANGED boundVars

Slice(offset, n) ==
    SubSeq(todo, offset + 1, IF offset + n < Len(todo) THEN offset + n ELSE Len(todo))

NextOffset(offset, n) == offset + Len(Slice(offset, n))

\* scanBatch takes its slice of the list when it runs.
BatchBegins ==
    /\ Busy /\ Running.kind = "batch" /\ ~Running.begun
    /\ \E n \in 1 .. BatchMax :
          chain' = <<[Running EXCEPT !.begun = TRUE,
                                     !.files = Slice(Running.offset, n),
                                     !.offset = NextOffset(Running.offset, n)]>>
                     \o Tail(chain)
    /\ UNCHANGED <<life, queue, timer, flush, scan, todo, late, index, meta,
                   healthy, dead, status, dropped>>
    /\ UNCHANGED fsVars /\ UNCHANGED boundVars

HasFile == Busy /\ Running.begun /\ Running.files # <<>>
NextFile == <<[Running EXCEPT !.files = Tail(@), !.seen = Unseen]>> \o Tail(chain)

\* indexFile asks for the modification time.  A file that is not there is
\* skipped by a scan and removed by a change.
Stat ==
    LET f == Head(Running.files) IN
    /\ HasFile /\ Running.seen = Unseen
    /\ IF disk[f] # 0
       THEN /\ chain' = <<[Running EXCEPT !.seen = disk[f]]>> \o Tail(chain)
            /\ UNCHANGED <<index, dropped>>
       ELSE /\ chain' = NextFile
            /\ index' = IF Running.kind = "change"
                        THEN [index EXCEPT ![f] = NoRow] ELSE index
            /\ dropped' = IF Running.kind = "change" THEN dropped \ {f} ELSE dropped
    /\ UNCHANGED <<life, queue, timer, flush, scan, todo, late, meta, healthy,
                   dead, status>>
    /\ UNCHANGED fsVars /\ UNCHANGED boundVars

\* The transaction of indexFile: nothing to do if the time is that of the row.
Stored(f, m, v) ==
    IF index[f].m = m THEN index ELSE [index EXCEPT ![f] = [m |-> m, v |-> v]]

\* The outline was parsed before the content is read and the row written.
Commit ==
    LET f == Head(Running.files) IN
    /\ HasFile /\ Running.seen # Unseen /\ disk[f] # 0
    /\ \E v \in {Running.seen, disk[f]} : index' = Stored(f, Running.seen, v)
    /\ dropped' = IF disk[f] = Running.seen THEN dropped \ {f} ELSE dropped
    /\ chain' = NextFile
    /\ UNCHANGED <<life, queue, timer, flush, scan, todo, late, meta, healthy,
                   dead, status>>
    /\ UNCHANGED fsVars /\ UNCHANGED boundVars

\* An error of one file (it has gone since, it cannot be parsed, the database
\* is busy) is logged; the operation succeeds.
Skip ==
    LET f == Head(Running.files) IN
    /\ HasFile /\ Running.seen # Unseen
    /\ \/ disk[f] = 0 /\ UNCHANGED <<troubles, dropped>>
       \/ Trouble("file") /\ dropped' = dropped \cup {f}
    /\ chain' = NextFile
    /\ UNCHANGED <<life, queue, timer, flush, scan, todo, late, index, meta,
                   healthy, dead, status, starts>>
    /\ UNCHANGED fsVars

\* indexFileWithTimeout gives a file of a batch up, its indexing goes on.
GivenUp ==
    LET f == Head(Running.files) IN
    /\ HasFile /\ Running.seen # Unseen /\ Running.kind = "batch"
    /\ Trouble("slow")
    /\ late' = late \cup {[file |-> f, m |-> Running.seen]}
    /\ chain' = NextFile
    /\ UNCHANGED <<life, queue, timer, flush, scan, todo, index, meta, healthy,
                   dead, status, dropped, starts>>
    /\ UNCHANGED fsVars

\* It ends outside the chain, maybe after a newer version was indexed.
LateCommit(x) ==
    /\ late' = late \ {x}
    /\ IF disk[x.file] = 0 THEN UNCHANGED <<index, dropped>>
       ELSE /\ index' = [index EXCEPT ![x.file] = [m |-> x.m, v |-> x.m]]
            /\ dropped' = IF disk[x.file] = x.m THEN dropped
                          ELSE dropped \cup {x.file}
    /\ UNCHANGED <<life, queue, timer, flush, scan, chain, todo, meta, healthy,
                   dead, status>>
    /\ UNCHANGED fsVars /\ UNCHANGED boundVars

\* A change, a batch or the derived tables are done.
OpEnds ==
    /\ Busy /\ Running.kind # "prepare"
    /\ Running.kind = "batch" => Running.begun
    /\ Running.files = <<>>
    /\ chain' = Tail(chain)
    /\ Answered(Running)
    /\ UNCHANGED <<life, queue, timer, todo, late, index, meta, healthy, dead,
                   status, dropped>>
    /\ UNCHANGED fsVars /\ UNCHANGED boundVars

-----------------------------------------------------------------------------
(* The flush                                                                *)

\* The next change goes to the worker.
CallNext(taken) ==
    \E f \in taken :
       /\ flush' = [pc |-> "calling", left |-> taken \ {f}]
       /\ chain' = Append(chain, Op("change", "flush", f, 0))

\* The timer fires: flushQueue.
FlushFires ==
    /\ timer /\ timer' = FALSE
    /\ IF healthy /\ flush.pc = "idle" /\ queue # {}
       THEN /\ queue' = {} /\ CallNext(queue) /\ UNCHANGED dropped
       ELSE /\ queue' = IF healthy THEN queue ELSE {}
            /\ dropped' = IF healthy THEN dropped ELSE dropped \cup queue
            /\ UNCHANGED <<flush, chain>>
    /\ UNCHANGED <<life, scan, todo, late, index, meta, healthy, dead, status>>
    /\ UNCHANGED fsVars /\ UNCHANGED boundVars

\* The finally block.  While unhealthy, what is queued stays behind.
FlushReturns ==
    /\ flush' = NoFlush
    /\ timer' = (timer \/ (queue # {} /\ healthy'))
    /\ dropped' = IF healthy' THEN dropped ELSE dropped \cup queue

FlushGoesOn ==
    /\ flush.pc = "answered"
    /\ UNCHANGED healthy
    /\ IF flush.left # {} THEN CallNext(flush.left) /\ UNCHANGED <<timer, dropped>>
       ELSE IF healthy
       THEN /\ flush' = [flush EXCEPT !.pc = "stats"]
            /\ UNCHANGED <<chain, timer, dropped>>
       ELSE FlushReturns /\ UNCHANGED chain
    /\ UNCHANGED <<life, queue, scan, todo, late, index, meta, dead, status>>
    /\ UNCHANGED fsVars /\ UNCHANGED boundVars

\* getStats answers, or fails, or shows an index without edges.
FlushStats ==
    /\ flush.pc = "stats"
    /\ \/ status' = "ready" /\ UNCHANGED <<healthy, troubles>>
       \/ Trouble("call") /\ UNCHANGED <<status, healthy>>
       \/ Trouble("incomplete") /\ status' = "error" /\ healthy' = FALSE
    /\ FlushReturns
    /\ UNCHANGED <<life, queue, scan, meta, dead, starts>>
    /\ UNCHANGED workVars /\ UNCHANGED fsVars

\* Nobody waits for the answer of this caller any more.
Abandoned(by) ==
    [i \in DOMAIN chain |-> IF chain[i].by = by
                            THEN [chain[i] EXCEPT !.by = "none"] ELSE chain[i]]

\* A call of the flush fails, by a timeout for one: the worker is marked dead,
\* which rejects the call of a scan, and every change in hand is given up.
FlushFails ==
    /\ flush.pc \in {"calling", "answered"} /\ Trouble("call")
    /\ healthy' = FALSE /\ dead' = TRUE /\ status' = "error"
    /\ dropped' = dropped \cup queue \cup flush.left
                    \cup {chain[i].file : i \in {j \in DOMAIN chain :
                                                    chain[j].by = "flush"}}
    /\ queue' = {} /\ flush' = NoFlush
    /\ chain' = [i \in DOMAIN chain |-> [chain[i] EXCEPT !.by = "none"]]
    /\ scan' = IF scan.pc = "calling" THEN [scan EXCEPT !.pc = "failed"] ELSE scan
    /\ UNCHANGED <<life, timer, todo, late, index, meta, starts>>
    /\ UNCHANGED fsVars

-----------------------------------------------------------------------------
(* The scan                                                                 *)

ScanCall(step, offset) ==
    /\ scan' = [pc |-> IF dead THEN "failed" ELSE "calling",
                step |-> step, offset |-> offset]
    /\ chain' = IF dead THEN chain ELSE Append(chain, Op(step, "scan", SomeFile, offset))

ScanCommand ==
    /\ life # "off" /\ scan.pc = "idle" /\ starts < MaxStarts
    /\ starts' = starts + 1
    /\ status' = "indexing"
    /\ ScanCall("prepare", 0)
    /\ UNCHANGED <<life, todo, late, index, meta, healthy, dead, dropped, troubles>>
    /\ UNCHANGED queueVars /\ UNCHANGED fsVars

\* One batch after the other, then the derived tables, then the statistics.
ScanGoesOn ==
    /\ scan.pc = "answered"
    /\ CASE scan.step = "prepare" -> ScanCall("batch", 0)
         [] scan.step = "batch" -> ScanCall(
                IF scan.offset < Len(todo) THEN "batch" ELSE "finalize", scan.offset)
         [] scan.step = "finalize" ->
                /\ scan' = [scan EXCEPT !.pc = IF dead THEN "failed" ELSE "stats"]
                /\ UNCHANGED chain
    /\ status' = IF scan.step = "batch" THEN "indexing" ELSE status
    /\ UNCHANGED <<life, todo, late, index, meta, healthy, dead, dropped>>
    /\ UNCHANGED queueVars /\ UNCHANGED fsVars /\ UNCHANGED boundVars

\* A call of the scan fails.
ScanCallFails ==
    /\ scan.pc = "calling" /\ Trouble("call")
    /\ scan' = [scan EXCEPT !.pc = "failed"]
    /\ chain' = Abandoned("scan")
    /\ UNCHANGED <<life, todo, late, index, meta, healthy, dead, status, dropped,
                   starts>>
    /\ UNCHANGED queueVars /\ UNCHANGED fsVars

\* The statistics have come: the fingerprint is taken now, after the files
\* were read.  Or they show an index without edges, or a call has failed.
ScanEnds ==
    /\ \/ /\ scan.pc = "stats"
          /\ healthy' = TRUE /\ status' = "ready" /\ meta' = Printed
          /\ UNCHANGED troubles
       \/ /\ \/ scan.pc = "stats" /\ Trouble("incomplete")
             \/ scan.pc = "failed" /\ UNCHANGED troubles
          /\ healthy' = FALSE /\ status' = "error" /\ meta' = meta
    /\ scan' = NoScan
    /\ UNCHANGED <<life, dead, dropped, starts>>
    /\ UNCHANGED workVars /\ UNCHANGED queueVars /\ UNCHANGED fsVars

-----------------------------------------------------------------------------
(* The process                                                              *)

Indexed == {f \in Paths : index[f].m # 0}

Start ==
    /\ life = "off" /\ starts < MaxStarts
    /\ life' = "check" /\ starts' = starts + 1
    /\ healthy' = TRUE /\ dead' = FALSE /\ status' = "initializing"
    /\ UNCHANGED <<scan, meta, dropped, troubles>>
    /\ UNCHANGED workVars /\ UNCHANGED queueVars /\ UNCHANGED fsVars

\* (mutant) no fingerprint counts as nothing to do
NeedsScanByPrint ==
    meta # NoPrint /\ (Printed.count # meta.count \/ Printed.mtime > meta.mtime)

\* determineStartupScan
NeedsScan ==
    \/ meta = NoPrint
    \/ Indexed = {} /\ Present # {}
    \/ Indexed # {} /\ (Printed.count # meta.count \/ Printed.mtime > meta.mtime)

\* ensureStartupIndex.  A scan in flight is joined.
StartupCheck ==
    /\ life = "check" /\ life' = "up"
    /\ IF dead \/ NeedsScan
       THEN IF scan.pc = "idle" THEN ScanCall("prepare", 0) /\ status' = "indexing"
            ELSE UNCHANGED <<scan, chain, status>>
       ELSE status' = "ready" /\ UNCHANGED <<scan, chain>>
    /\ UNCHANGED <<todo, late, index, meta, healthy, dead, dropped>>
    /\ UNCHANGED queueVars /\ UNCHANGED fsVars /\ UNCHANGED boundVars

InHand == events \cup queue \cup flush.left
            \cup {chain[i].file : i \in {j \in DOMAIN chain : chain[j].kind = "change"}}

\* The process is closed or dies.  close discards the queue; neither the
\* fingerprint nor what a scan has cleared is put back.
Stops ==
    /\ life # "off"
    /\ life' = "off"
    /\ events' = {} /\ queue' = {} /\ timer' = FALSE
    /\ flush' = NoFlush /\ scan' = NoScan
    /\ chain' = <<>> /\ todo' = <<>> /\ late' = {}
    /\ dropped' = dropped \cup InHand \cup (Present \ Indexed)
    /\ UNCHANGED <<disk, edits, index, meta, healthy, dead, status>>
    /\ UNCHANGED boundVars

-----------------------------------------------------------------------------
(* Specification                                                            *)

IndexingInit ==
    /\ disk \in [Paths -> {0, 1}] /\ edits = 1 /\ events = {}
    /\ life = "off" /\ queue = {} /\ timer = FALSE
    /\ flush = NoFlush /\ scan = NoScan
    /\ chain = <<>> /\ todo = <<>> /\ late = {}
    /\ index = [f \in Paths |-> NoRow] /\ meta = NoPrint
    /\ healthy = TRUE /\ dead = FALSE /\ status = "unavailable"
    /\ dropped = {} /\ troubles = 0 /\ starts = 0

Worker == \/ Prepare \/ BatchBegins \/ Stat \/ Commit \/ Skip \/ GivenUp \/ OpEnds
          \/ \E x \in late : LateCommit(x)
Flushes == FlushFires \/ FlushGoesOn \/ FlushStats \/ FlushFails
Scans == ScanGoesOn \/ ScanCallFails \/ ScanEnds
Runs == (\E f \in Paths : Watched(f)) \/ Worker \/ Flushes \/ Scans \/ StartupCheck

IndexingNext ==
    \/ \E f \in Paths : Edit(f)
    \/ ScanCommand \/ Start \/ Stops
    \/ Runs

IndexingSpec == IndexingInit /\ [][IndexingNext]_indexingVars

-----------------------------------------------------------------------------
(* Properties                                                               *)

IndexingTypeOK ==
    /\ disk \in [Paths -> Times] /\ edits \in Times /\ events \subseteq Paths
    /\ life \in {"off", "check", "up"}
    /\ queue \subseteq Paths /\ timer \in BOOLEAN
    /\ flush \in Flush /\ scan \in Scan /\ scan.offset <= Len(todo)
    /\ Len(chain) <= 3 /\ todo \in Seq(Paths)
    /\ index \in [Paths -> Row] /\ meta \in Fingerprint \cup {NoPrint}
    /\ healthy \in BOOLEAN /\ dead \in BOOLEAN
    /\ status \in {"unavailable", "initializing", "indexing", "ready", "error"}
    /\ dropped \subseteq Paths

Idle == /\ life = "up" /\ events = {} /\ ~timer
        /\ flush.pc = "idle" /\ scan.pc = "idle" /\ chain = <<>> /\ late = {}

Outdated == {f \in Paths : index[f].v # disk[f]}

\* When the service has nothing left to do and takes itself for healthy, the
\* index lacks no edit but those given up on the way: discarded by close or a
\* crash, by a failed flush, while unhealthy, by an error of the file, undone
\* by an indexing that had been given up, or the removal of a file while no
\* process ran.  In particular an edit made during a flush or a scan, and a
\* file written while no process ran, is never lost.
EditsAccounted == Idle /\ healthy => Outdated \subseteq dropped

\* A startup that skips the scan finds an index that is up to date, or a change
\* of it in hand.
FreshIsFresh ==
    [][life = "check" /\ life' = "up" /\ scan'.pc = "idle" => Outdated \subseteq InHand]_indexingVars

=============================================================================
