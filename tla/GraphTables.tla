----------------------------- MODULE GraphTables -----------------------------
(* The tables of the graph's index (graph/repo-map.ts): what indexing a file *)
(* stores, how imports are resolved, and how the derived tables - edges,     *)
(* ranks, test links, calls, co-changes, rescued orphans - are rebuilt, step *)
(* by step, after a scan and after a change.  Files change on disk meanwhile,*)
(* and a file whose indexing was given up is stored late, between two steps. *)
(*                                                                           *)
(* A row of files is named by its path: paths are unique, and whatever refers*)
(* to a row is deleted or cleared with it (the foreign keys of               *)
(* graph/database.ts).                                                       *)
EXTENDS Naturals, FiniteSets, Sequences, SequencesExt

CONSTANTS SourceFiles,  \* paths
          Versions,     \* what a path may contain: functions, and imports by relative path
          TestOf,       \* the path a test file's name points at, or Absent
          Beneath,      \* the paths beneath the directory of a path, none if that is the root
          Barrels,      \* the paths that are index files
          CoChanged,    \* pairs of paths that git says change together
          MaxChanges,   \* edits of the files
          MaxLate,      \* files given up by the scan
          Absent

ASSUME TablesAssumption ==
    /\ Versions \in [SourceFiles -> SUBSET UNION {Versions[p] : p \in SourceFiles}]
    /\ TestOf \in [SourceFiles -> SourceFiles \cup {Absent}]
    /\ \A p \in SourceFiles : \A v \in Versions[p] :
          v # Absent /\ \A i \in v.imports : i.from \in SourceFiles
    /\ Barrels \subseteq SourceFiles
    /\ Beneath \in [SourceFiles -> SUBSET SourceFiles]
    /\ \A p \in SourceFiles : \A q \in Beneath[p] : Beneath[q] \subseteq Beneath[p]
    /\ CoChanged \subseteq SUBSET SourceFiles
    /\ MaxChanges \in Nat /\ MaxLate \in Nat
    /\ Absent \notin SourceFiles \cup {"refs", "test", "rescue"}

VARIABLES text,     \* the files on disk
          changes,  \* edits made
          rows,     \* what the rows of files and symbols hold
          current,  \* the rows whose mtime is the file's
          refs,     \* table refs
          linked,   \* table edges: why two files are linked
          called,   \* table calls
          cochanges, ranked,
          todo,     \* files the scan has not reached
          steps,    \* steps of the operation in hand
          lastOp, belated, delays

tableVars == <<text, changes, rows, current, refs, linked, called, cochanges, ranked,
               todo, steps, lastOp, belated, delays>>
diskVars == <<text, changes>>
rowVars == <<rows, current, refs, linked, called, cochanges, ranked>>

OnDisk == {p \in SourceFiles : text[p] # Absent}
Rowed == {p \in SourceFiles : rows[p] # Absent}
Exports(p, name) == rows[p] # Absent /\ \E f \in rows[p].functions : f.name = name /\ f.exported
Defines(p, name) == rows[p] # Absent /\ \E f \in rows[p].functions : f.name = name
Incoming(l, p) == \E q \in SourceFiles : l[q, p] # Absent
AtRest == steps = <<>> /\ todo = {} /\ lastOp # "none"

-----------------------------------------------------------------------------
(* Rows come and go.                                                         *)

\* An import by relative path leads to a file that exists and has a row already.
Imported(p, content) ==
    {[file |-> p, name |-> i.name, from |-> i.from,
      source |-> IF text[i.from] # Absent /\ rows[i.from] # Absent THEN i.from ELSE Absent] :
         i \in content.imports}

\* The row of p goes, and content (if it is one) comes in its place.
Replaced(p, content) ==
    /\ rows' = [rows EXCEPT ![p] = content]
    /\ refs' = {IF r.source = p THEN [r EXCEPT !.source = Absent] ELSE r :
                  r \in {r \in refs : r.file # p}}
               \cup (IF content = Absent THEN {} ELSE Imported(p, content))
    /\ linked' = [e \in DOMAIN linked |-> IF p \in {e[1], e[2]} THEN Absent ELSE linked[e]]
    /\ called' = {IF c.file = p THEN [c EXCEPT !.file = Absent, !.found = FALSE] ELSE c :
                    c \in {c \in called : c.caller[1] # p}}
    /\ cochanges' = {pair \in cochanges : p \notin pair}
    /\ ranked' = ranked \ {p}

Indexed1(p) == Replaced(p, text[p]) /\ current' = current \cup {p}

\* The index of a file that has not changed is left as it is, but its edges go.
EdgesDropped(p) ==
    /\ linked' = [e \in DOMAIN linked |-> IF p \in {e[1], e[2]} THEN Absent ELSE linked[e]]
    /\ UNCHANGED <<rows, current, refs, called, cochanges, ranked>>

-----------------------------------------------------------------------------
(* The steps that rebuild what is derived.                                   *)

\* A ref without a source takes a file that defines its name.
CandidatesDefining(r) == {p \in SourceFiles : Defines(p, r.name)}
\* A ref without a source takes the first file that exports its name.  The path it
\* imports is compared with the end of stored paths, which a path that begins with a
\* dot never is; which file is first the query does not say.
Candidates(r) == {p \in SourceFiles : Exports(p, r.name)}

ResolveUnresolvedRefs ==
    LET open == {r \in refs : r.source = Absent}
    IN /\ \E pick \in [open -> SourceFiles \cup {Absent}] :
             /\ \A r \in open : IF Candidates(r) = {} THEN pick[r] = Absent
                                ELSE pick[r] \in Candidates(r)
             /\ refs' = (refs \ open) \cup {[r EXCEPT !.source = pick[r]] : r \in open}
       /\ UNCHANGED <<linked, ranked, called, cochanges>>

BuildEdges ==
    /\ linked' = [e \in DOMAIN linked |->
                    IF \E r \in refs : r.file = e[1] /\ r.source = e[2] THEN "refs" ELSE linked[e]]
    /\ UNCHANGED <<refs, ranked, called, cochanges>>

ComputePageRank == ranked' = Rowed /\ UNCHANGED <<refs, linked, called, cochanges>>

LinkTestFiles ==
    /\ linked' = [e \in DOMAIN linked |->
                    IF {e[1], e[2]} \subseteq Rowed /\ TestOf[e[1]] = e[2] THEN "test"
                    ELSE linked[e]]
    /\ UNCHANGED <<refs, ranked, called, cochanges>>

\* The text of a function is taken from the file as it is now, by the lines it had when
\* the file was indexed: in a file that has changed since, it may be anything.
BuildCallGraph ==
    /\ \E drifted \in BOOLEAN :
          called' = UNION {UNION {
              {[caller |-> <<p, f.name>>, name |-> r.name, file |-> r.source,
                found |-> Exports(r.source, r.name)] :
                   r \in {r \in refs : /\ r.file = p /\ r.source # Absent /\ r.name # f.name
                                       /\ r.name \in f.uses
                                       /\ text[p] = rows[p] \/ ~drifted}} :
              f \in rows[p].functions} : p \in Rowed \cap OnDisk}
    /\ UNCHANGED <<refs, linked, ranked, cochanges>>

\* Co-changes are deleted first, so a git log that fails leaves none.
BuildCoChanges ==
    /\ cochanges' \in {{}, {pair \in CoChanged : pair \subseteq Rowed}}
    /\ UNCHANGED <<refs, linked, ranked, called>>

\* An orphan is linked from a file it changes with that is none, or else from a file
\* beneath its directory that is linked: already, or since it was rescued before.
RescueOrphans ==
    LET orphans == {p \in Rowed \ Barrels : ~Incoming(linked, p)}
        Partners(p) == {q \in Rowed \ orphans : {p, q} \in cochanges}
        Siblings(p) == (Rowed \cap Beneath[p]) \ {p}
        Earlier(p, order) ==
            {order[i] : i \in {i \in DOMAIN order : \E j \in DOMAIN order : i < j /\ order[j] = p}}
        Rescuable(p, order) ==
            \/ Partners(p) # {}
            \/ \E q \in Siblings(p) :
                  Incoming(linked, q) \/ (q \in Earlier(p, order) /\ Partners(q) # {})
        Helpers(p, order) ==
            IF Partners(p) # {} THEN Partners(p)
            ELSE {q \in Siblings(p) : \/ Incoming(linked, q)
                                     \/ (q \in Earlier(p, order) /\ Rescuable(q, order))}
    IN /\ \E order \in {SetToSeq(orphans), Reverse(SetToSeq(orphans))} :
             linked' = [e \in DOMAIN linked |->
                          IF /\ e[2] \in orphans /\ Helpers(e[2], order) # {}
                             /\ e[1] = CHOOSE q \in Helpers(e[2], order) : TRUE
                          THEN "rescue" ELSE linked[e]]
       /\ UNCHANGED <<refs, ranked, called, cochanges>>

ScanSteps == <<"resolve", "edges", "rank", "tests", "calls", "cochanges", "rescue">>
ChangeStepsSwapped == <<"edges", "resolve", "rank", "calls">>
ChangeSteps == <<"resolve", "edges", "rank", "calls">>
DeleteSteps == <<"edges", "resolve", "rank", "calls">>

Step ==
    /\ steps # <<>> /\ steps' = Tail(steps)
    /\ \/ Head(steps) = "resolve" /\ ResolveUnresolvedRefs
       \/ Head(steps) = "edges" /\ BuildEdges
       \/ Head(steps) = "rank" /\ ComputePageRank
       \/ Head(steps) = "tests" /\ LinkTestFiles
       \/ Head(steps) = "calls" /\ BuildCallGraph
       \/ Head(steps) = "cochanges" /\ BuildCoChanges
       \/ Head(steps) = "rescue" /\ RescueOrphans
    /\ UNCHANGED <<diskVars, rows, current, todo, lastOp, belated, delays>>

-----------------------------------------------------------------------------
(* The operations of the worker, one at a time.                              *)

\* prepareScan lists the files and empties every table.
ScanStarts ==
    /\ steps = <<>> /\ todo = {} /\ OnDisk # {}
    /\ rows' = [p \in SourceFiles |-> Absent] /\ current' = {} /\ refs' = {}
    /\ linked' = [e \in SourceFiles \X SourceFiles |-> Absent]
    /\ called' = {} /\ cochanges' = {} /\ ranked' = {}
    /\ todo' = OnDisk /\ lastOp' = "scan"
    /\ UNCHANGED <<diskVars, steps, belated, delays>>

NextInScan(p) ==
    /\ steps = <<>> /\ p \in todo /\ todo' = todo \ {p}
    /\ steps' = IF todo' = {} THEN ScanSteps ELSE <<>>
    /\ lastOp' = "scan"

ScanFile(p) ==
    /\ NextInScan(p)
    /\ IF p \in OnDisk /\ p \notin current THEN Indexed1(p) ELSE UNCHANGED rowVars
    /\ UNCHANGED <<diskVars, belated, delays>>

\* The indexing of a file takes too long; it goes on behind the scan's back.
ScanGivesUp(p) ==
    /\ NextInScan(p) /\ p \in OnDisk \ current
    /\ delays < MaxLate /\ delays' = delays + 1
    /\ belated' = belated \cup {[path |-> p, content |-> text[p], fresh |-> TRUE]}
    /\ UNCHANGED <<diskVars, rowVars>>

\* What it has read is stored now.  (A store that fails is a store that never comes.)
LateStore(x) ==
    /\ x \in belated /\ belated' = belated \ {x}
    /\ Replaced(x.path, x.content)
    /\ current' = IF x.fresh THEN current \cup {x.path} ELSE current \ {x.path}
    /\ lastOp' = "late"
    /\ UNCHANGED <<diskVars, todo, steps, delays>>

\* onFileChanged, for a file that is there and for one that is gone.
FileReindexed(p) ==
    /\ steps = <<>> /\ p \in OnDisk
    /\ IF p \in current THEN EdgesDropped(p) ELSE Indexed1(p)
    /\ steps' = ChangeSteps /\ lastOp' = "change"
    /\ UNCHANGED <<diskVars, todo, belated, delays>>

FileRemoved(p) ==
    /\ steps = <<>> /\ p \notin OnDisk
    /\ Replaced(p, Absent) /\ current' = current \ {p}
    /\ steps' = DeleteSteps /\ lastOp' = "delete"
    /\ UNCHANGED <<diskVars, todo, belated, delays>>

\* A file is written or deleted by somebody.
FileWritten(p) ==
    /\ changes < MaxChanges /\ changes' = changes + 1
    /\ \E c \in (Versions[p] \cup {Absent}) \ {text[p]} : text' = [text EXCEPT ![p] = c]
    /\ current' = current \ {p}
    /\ belated' = {[x EXCEPT !.fresh = @ /\ x.path # p] : x \in belated}
    /\ UNCHANGED <<rows, refs, linked, called, cochanges, ranked, todo, steps, lastOp, delays>>

TablesInit ==
    /\ text \in [SourceFiles -> {Absent} \cup UNION {Versions[p] : p \in SourceFiles}]
    /\ \A p \in SourceFiles : text[p] \in Versions[p] \cup {Absent}
    /\ changes = 0 /\ rows = [p \in SourceFiles |-> Absent] /\ current = {} /\ refs = {}
    /\ linked = [e \in SourceFiles \X SourceFiles |-> Absent]
    /\ called = {} /\ cochanges = {} /\ ranked = {}
    /\ todo = {} /\ steps = <<>> /\ lastOp = "none" /\ belated = {} /\ delays = 0

TablesNext ==
    \/ Step \/ ScanStarts
    \/ \E p \in SourceFiles : ScanFile(p) \/ ScanGivesUp(p)
    \/ \E p \in SourceFiles : FileReindexed(p) \/ FileRemoved(p) \/ FileWritten(p)
    \/ \E x \in belated : LateStore(x)

TablesSpec == TablesInit /\ [][TablesNext]_tableVars

\* An exported function no resolved import has the name of.
UnusedExports ==
    {x \in UNION {{<<p, f.name>> : f \in rows[p].functions} : p \in Rowed} :
        Exports(x[1], x[2]) /\ ~\E r \in refs : r.name = x[2] /\ r.source # Absent}

-----------------------------------------------------------------------------
(* Properties                                                                *)

\* Every import names a function that the file it names exports, and no two files
\* export one name.
WellFormed ==
    \A p \in Rowed :
        /\ \A i \in rows[p].imports : Exports(i.from, i.name)
        /\ \A f \in rows[p].functions, q \in Rowed : f.exported /\ Exports(q, f.name) => p = q

\* Incremental updates keep up with a scan: whatever files were written, deleted and
\* indexed in whatever order, once the rows are those of the disk and the program on it
\* is well formed, every import leads to the file it names - even one that was
\* led elsewhere while two files exported its name; so that the exports the graph calls
\* unused are those that no file imports.
RefsMatchDisk ==
    AtRest /\ lastOp # "late" /\ Rowed = OnDisk /\ current = OnDisk /\ WellFormed
        => /\ \A r \in refs : r.source = r.from
           /\ \A p \in Rowed : \A f \in rows[p].functions :
                 <<p, f.name>> \in UnusedExports <=>
                     Exports(p, f.name) /\ ~\E q \in Rowed : \E i \in text[q].imports : i.name = f.name

\* What is derived is there when a scan or a change has been worked off: every
\* resolved import has its edge, every edge of imports its import, every file its
\* rank, and a call that found its function names one that is exported.
DerivedIsBuilt ==
    AtRest /\ lastOp \in {"scan", "change"} =>
        /\ \A r \in refs : r.source # Absent => linked[r.file, r.source] # Absent
        /\ \A e \in DOMAIN linked :
              linked[e] = "refs" => \E r \in refs : r.file = e[1] /\ r.source = e[2]
        /\ ranked = Rowed
        /\ \A c \in called : c.found => Exports(c.file, c.name)
=============================================================================
