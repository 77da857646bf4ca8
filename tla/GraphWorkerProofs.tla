------------------------- MODULE GraphWorkerProofs -------------------------
(***************************************************************************)
(* The process that keeps the code graph: how it is elected, for every set *)
(* of processes, and what the tables of its index hold, for every set of   *)
(* files and contents, in whatever order they are written and indexed.     *)
(***************************************************************************)
EXTENDS LeaderLock, GraphTables, SequenceTheorems, FiniteSetTheorems, TLAPS

-----------------------------------------------------------------------------
(* The election.  Type correctness *)

LEMMA InitTyped == Init => TypeOK
  BY LockAssumption DEF Init, TypeOK, NoFile, LockFile, Pc

LEMMA StepTyped ==
  ASSUME TypeOK, [Next]_vars
  PROVE  TypeOK'
<1> USE LockAssumption DEF TypeOK, LockFile, NoFile, Pc, At, Go, files, procs, service
<1>1. ASSUME NEW p \in Proc, Start(p) PROVE TypeOK'
  BY <1>1 DEF Start
<1>2. ASSUME NEW p \in Proc, Acquire(p) PROVE TypeOK'
  <2>1. CASE Create(p)
    <3>1. lock' \in LockFile \cup {NoFile}
      <4>1. CASE lock = NoFile
        <5>1. [by |-> p, full |-> ~SlowCreate, fresh |-> TRUE] \in LockFile
          OBVIOUS
        <5> QED
          BY <2>1, <4>1, <5>1, Zenon DEF Create
      <4>2. CASE lock # NoFile
        BY <2>1, <4>2 DEF Create
      <4> QED
        BY <4>1, <4>2
    <3>2. pc' \in [Proc -> Pc]
      BY <2>1 DEF Create
    <3> QED
      BY <2>1, <3>1, <3>2 DEF Create
  <2>2. CASE Write(p)
    <3>1. lock' \in LockFile \cup {NoFile}
      <4>1. CASE lock.by = p
        <5>1. lock \in LockFile
          BY <4>1
        <5> QED
          BY <2>2, <4>1, <5>1 DEF Write
      <4>2. CASE lock.by # p
        BY <2>2, <4>2 DEF Write
      <4> QED
        BY <4>1, <4>2
    <3> QED
      BY <2>2, <3>1 DEF Write
  <2>3. CASE Inspect(p)
    BY <2>3 DEF Inspect
  <2>4. CASE Unlink(p)
    BY <2>4 DEF Unlink
  <2>5. CASE Read(p)
    BY <2>5 DEF Read
  <2> QED
    BY <1>2, <2>1, <2>2, <2>3, <2>4, <2>5 DEF Acquire
<1>3. ASSUME NEW p \in Proc, Bind(p) \/ SetupFails(p) PROVE TypeOK'
  BY <1>3 DEF Bind, SetupFails
<1>4. ASSUME NEW p \in Proc, Refresh(p) \/ Heartbeat(p) PROVE TypeOK'
  <2>1. CASE Refresh(p) \/ WriteTmp(p)
    BY <2>1 DEF Refresh, WriteTmp
  <2>2. CASE Rename(p)
    <3>1. lock' \in LockFile \cup {NoFile} /\ tmp' \in Proc \cup {NoProc}
      <4>1. CASE tmp = NoProc
        BY <2>2, <4>1 DEF Rename
      <4>2. CASE tmp # NoProc
        <5>1. [by |-> tmp, full |-> TRUE, fresh |-> TRUE] \in LockFile
          BY <4>2
        <5> QED
          BY <2>2, <4>2, <5>1, Zenon DEF Rename
      <4> QED
        BY <4>1, <4>2
    <3> QED
      BY <2>2, <3>1 DEF Rename
  <2> QED
    BY <1>4, <2>1, <2>2 DEF Heartbeat
<1>5. ASSUME NEW p \in Proc, StepDown(p) PROVE TypeOK'
  <2>1. CASE Abdicate(p)
    BY <2>1 DEF Abdicate
  <2>2. CASE StopServer(p)
    BY <2>2 DEF StopServer
  <2>3. CASE Release(p)
    BY <2>3 DEF Release, AfterRelease
  <2>4. CASE UnlinkOwn(p)
    BY <2>4 DEF UnlinkOwn, AfterRelease
  <2> QED
    BY <1>5, <2>1, <2>2, <2>3, <2>4 DEF StepDown
<1>6. ASSUME NEW p \in Proc, Close(p) PROVE TypeOK'
  BY <1>6 DEF Close
<1>7. ASSUME NEW p \in Proc, Follower(p) PROVE TypeOK'
  BY <1>7 DEF Follower, Connect, ConnectFails, ConnectionLost, Reachable
<1>8. ASSUME NEW p \in Proc, Crash(p) PROVE TypeOK'
  BY <1>8 DEF Crash
<1>9. CASE HeartbeatAges
  BY <1>9 DEF HeartbeatAges, Readable
<1>10. CASE UNCHANGED vars
  BY <1>10 DEF vars
<1> QED
  BY <1>1, <1>2, <1>3, <1>4, <1>5, <1>6, <1>7, <1>8, <1>9, <1>10 DEF Next

(* Every variable of the election keeps its type, for any number of        *)
(* processes, crashes and suspensions.                                     *)
THEOREM LockTypeCorrect == Spec => []TypeOK
<1>1. TypeOK /\ [Next]_vars => TypeOK'
  BY StepTyped
<1> QED
  BY InitTyped, <1>1, PTL DEF Spec

-----------------------------------------------------------------------------
(* One leader, as long as the lock file is created in one piece, nobody    *)
(* dies or is suspended, and whoever wins comes up and keeps leading.      *)

Calm == ~SlowCreate /\ ~Suspends /\ ~StepsDown /\ ~PromotionFails /\ MaxCrashes = 0

(***************************************************************************)
(* Whoever leads created the lock; nobody is on a path that ends in an     *)
(* unlink, because a lock that is there is complete, fresh and of a live   *)
(* process; only the leader has a heartbeat, which rewrites the lock with  *)
(* the leader's own payload.                                               *)
(***************************************************************************)
CalmPc == {"idle", "create", "inspect", "connect", "following", "setup", "leading"}

CalmInv ==
  /\ TypeOK
  /\ \A p \in Proc : pc[p] \in CalmPc
  /\ lock # NoFile => lock.full /\ lock.fresh
  /\ \A p \in Proc : Leads(p) => lock.by = p
  /\ \A p \in Proc : pc[p] = "inspect" => lock # NoFile
  /\ \A p \in held : Leads(p)
  /\ \A p \in Proc : beat[p] # "none" => Leads(p)
  /\ tmp # NoProc => \E p \in Proc : Leads(p) /\ tmp = p
  /\ \A p \in Proc : try[p] = 1

LEMMA InitCalm == Init => CalmInv
  BY LockAssumption, InitTyped DEF Init, CalmInv, CalmPc, Leads, NoFile

LEMMA StepCalm ==
  ASSUME Calm, CalmInv, [Next]_vars
  PROVE  CalmInv'
<1> USE LockAssumption DEF CalmInv, CalmPc, TypeOK, LockFile, NoFile, At, Go, files, procs, service, Leads
<1>t. TypeOK'
  BY StepTyped
<1>1. ASSUME NEW p \in Proc, Start(p) PROVE CalmInv'
  BY <1>1, <1>t DEF Start
<1>2. ASSUME NEW p \in Proc, Create(p) PROVE CalmInv'
  BY <1>2, <1>t DEF Create, Calm
<1>3. ASSUME NEW p \in Proc, Inspect(p) PROVE CalmInv'
  <2>1. ~Stale
    BY <1>3 DEF Inspect, Stale, Readable, Alive
  <2> QED
    BY <1>3, <1>t, <2>1 DEF Inspect
<1>4. ASSUME NEW p \in Proc, Bind(p) PROVE CalmInv'
  BY <1>4, <1>t DEF Bind
<1>5. ASSUME NEW p \in Proc, Refresh(p) \/ WriteTmp(p) PROVE CalmInv'
  BY <1>5, <1>t DEF Refresh, WriteTmp
<1>6. ASSUME NEW p \in Proc, Rename(p) PROVE CalmInv'
  BY <1>6, <1>t DEF Rename
<1>7. ASSUME NEW p \in Proc, Follower(p) PROVE CalmInv'
  BY <1>7, <1>t DEF Follower, Connect, ConnectFails, ConnectionLost, Reachable, Serving
<1>8. ASSUME NEW p \in Proc PROVE ~Abdicate(p)
  BY DEF Abdicate, Owns, Readable
<1>9. ASSUME NEW p \in Proc PROVE ~(Write(p) \/ Unlink(p) \/ Read(p))
  BY DEF Write, Unlink, Read
<1>10. ASSUME NEW p \in Proc
       PROVE ~(SetupFails(p) \/ Close(p) \/ StopServer(p) \/ Release(p) \/ UnlinkOwn(p))
  BY DEF SetupFails, Close, StopServer, Release, UnlinkOwn, Calm
<1>11. ASSUME NEW p \in Proc PROVE ~Crash(p)
  <2>1. {q \in Proc : pc[q] = "dead"} = {}
    OBVIOUS
  <2>2. Cardinality({q \in Proc : pc[q] = "dead"}) = 0
    BY <2>1, FS_EmptySet, Zenon
  <2>3. MaxCrashes = 0
    BY DEF Calm
  <2>4. ~(0 < 0)
    OBVIOUS
  <2> QED
    BY <2>2, <2>3, <2>4, Zenon DEF Crash
<1>12. ~HeartbeatAges
  BY DEF HeartbeatAges, Calm
<1>13. CASE UNCHANGED vars
  BY <1>13, <1>t DEF vars
<1> QED
  BY <1>1, <1>2, <1>3, <1>4, <1>5, <1>6, <1>7, <1>8, <1>9, <1>10, <1>11, <1>12, <1>13
  DEF Next, Acquire, Heartbeat, StepDown

(* Under these conditions the exclusive create elects exactly one leader,  *)
(* whatever the number of processes that race for the lock.                *)
THEOREM CalmElection ==
  ASSUME Calm
  PROVE  Spec => []OneLeader
<1>1. CalmInv /\ [Next]_vars => CalmInv'
  BY StepCalm
<1>2. CalmInv => OneLeader
  BY DEF CalmInv, OneLeader
<1> QED
  BY InitCalm, <1>1, <1>2, PTL DEF Spec

-----------------------------------------------------------------------------
(***************************************************************************)
(* The index.  Both invariants hold at rest only, so they are carried by   *)
(* what holds in between: what is not derived yet has the step that        *)
(* derives it still to come (Pending), or a scan under way that will end   *)
(* in one, or a late store that nothing followed yet.  And a ref that      *)
(* leads somewhere leads to the file it names or to one that exports its   *)
(* name now, never to one that did once: that is what makes the refs right *)
(* again, without being resolved anew, when the program on disk is.        *)
(***************************************************************************)
AnyContent == {Absent} \cup UNION {Versions[p] : p \in SourceFiles}

StepNames == {"resolve", "edges", "rank", "tests", "calls", "cochanges", "rescue"}
Pending(x) == \E i \in 1 .. Len(steps) : steps[i] = x
UnderWay == todo # {} \/ lastOp = "late"

RowsOK ==
  /\ text \in [SourceFiles -> AnyContent] /\ rows \in [SourceFiles -> AnyContent]
  /\ \A p \in SourceFiles : text[p] # Absent => text[p] \in Versions[p]
  /\ \A p \in SourceFiles : rows[p] # Absent => rows[p] \in Versions[p]
  /\ \A p \in current : p \in SourceFiles /\ rows[p] = text[p]
  /\ todo \subseteq SourceFiles /\ steps \in Seq(StepNames)

BelatedOK ==
  \A x \in belated :
    /\ x = [path |-> x.path, content |-> x.content, fresh |-> x.fresh]
    /\ x.path \in SourceFiles /\ x.content \in Versions[x.path]
    /\ x.fresh \in BOOLEAN /\ (x.fresh => text[x.path] = x.content)

\* The refs are the imports of the rows, and lead to a file that may be meant.
RefsOK ==
  /\ \A r \in refs :
        /\ r = [file |-> r.file, name |-> r.name, from |-> r.from, source |-> r.source]
        /\ r.file \in Rowed
        /\ \E i \in rows[r.file].imports : i.name = r.name /\ i.from = r.from
        /\ r.source # Absent => r.source \in Rowed /\ (r.source = r.from \/ Exports(r.source, r.name))
  /\ \A p \in Rowed : \A i \in rows[p].imports :
        \E r \in refs : r.file = p /\ r.name = i.name /\ r.from = i.from

LinkedOK ==
  /\ linked \in [SourceFiles \X SourceFiles -> {Absent, "refs", "test", "rescue"}]
  /\ \A e \in SourceFiles \X SourceFiles :
        linked[e] = "refs" => \E r \in refs : r.file = e[1] /\ r.source = e[2]

CalledOK ==
  \A c \in called :
    /\ c = [caller |-> c.caller, name |-> c.name, file |-> c.file, found |-> c.found]
    /\ c.found => c.file \in SourceFiles /\ Exports(c.file, c.name)

Resolved == (\A r \in refs : r.source = Absent => Candidates(r) = {}) \/ Pending("resolve") \/ UnderWay
EdgesBuilt ==
  \/ \A r \in refs : r.source # Absent => linked[r.file, r.source] # Absent
  \/ Pending("edges") \/ UnderWay \/ lastOp = "delete"
Ranked == ranked = Rowed \/ Pending("rank") \/ UnderWay
\* Edges are built after imports have been resolved.
EdgesLast ==
  lastOp \notin {"delete", "late"} =>
    \A i \in 1 .. Len(steps) : steps[i] = "resolve" =>
      \E j \in 1 .. Len(steps) : i < j /\ steps[j] = "edges"

TablesInv == /\ RowsOK /\ BelatedOK /\ RefsOK /\ LinkedOK /\ CalledOK
             /\ Resolved /\ EdgesBuilt /\ Ranked /\ EdgesLast

-----------------------------------------------------------------------------
(* Sequences of steps *)

LEMMA TailOfSteps ==
  ASSUME NEW s \in Seq(StepNames), s # <<>>
  PROVE  /\ Tail(s) \in Seq(StepNames) /\ Len(s) \in Nat \ {0} /\ Len(Tail(s)) = Len(s) - 1
         /\ s[1] = Head(s) /\ \A i \in 1 .. Len(Tail(s)) : Tail(s)[i] = s[i + 1]
<1>1. Tail(s) \in Seq(StepNames) /\ Len(Tail(s)) = Len(s) - 1
  BY HeadTailProperties
<1>2. Len(s) \in Nat \ {0}
  BY EmptySeq
<1> QED
  BY <1>1, <1>2, HeadTailProperties

\* What was pending still is, unless it is the step that was taken.
LEMMA PendingStep ==
  ASSUME steps \in Seq(StepNames), steps # <<>>, steps' = Tail(steps),
         NEW x, Pending(x), Head(steps) # x
  PROVE  \E i \in 1 .. Len(steps') : steps'[i] = x
<1>1. PICK i \in 1 .. Len(steps) : steps[i] = x
  BY DEF Pending
<1>2. i # 1
  BY <1>1, TailOfSteps
<1>3. Len(steps) \in Nat /\ Len(steps') = Len(steps) - 1
  BY TailOfSteps
<1>4. i - 1 \in 1 .. Len(steps')
  BY <1>2, <1>3
<1>5. Tail(steps)[i - 1] = steps[(i - 1) + 1]
  BY <1>4, TailOfSteps
<1>6. (i - 1) + 1 = i
  OBVIOUS
<1> QED
  BY <1>1, <1>4, <1>5, <1>6

\* After the step that resolves imports the one that builds edges still is to come.
LEMMA EdgesStillToCome ==
  ASSUME steps \in Seq(StepNames), steps # <<>>, steps' = Tail(steps),
         EdgesLast, lastOp \notin {"delete", "late"}
  PROVE  /\ \A i \in 1 .. Len(steps') : steps'[i] = "resolve" =>
              \E j \in 1 .. Len(steps') : i < j /\ steps'[j] = "edges"
         /\ Head(steps) = "resolve" => \E j \in 1 .. Len(steps') : steps'[j] = "edges"
<1>1. Len(steps) \in Nat \ {0} /\ Len(steps') = Len(steps) - 1
  BY TailOfSteps
<1>2. ASSUME NEW i \in 1 .. Len(steps), steps[i] = "resolve"
      PROVE  \E j \in 1 .. Len(steps') : i < j + 1 /\ steps'[j] = "edges"
  <2>1. PICK j \in 1 .. Len(steps) : i < j /\ steps[j] = "edges"
    BY <1>2 DEF EdgesLast
  <2>2. j - 1 \in 1 .. Len(steps') /\ i < (j - 1) + 1 /\ (j - 1) + 1 = j
    BY <1>1, <2>1
  <2>3. steps'[j - 1] = steps[(j - 1) + 1]
    BY <2>2, TailOfSteps
  <2> QED
    BY <2>1, <2>2, <2>3
<1>3. Head(steps) = "resolve" => \E j \in 1 .. Len(steps') : steps'[j] = "edges"
  <2> HAVE Head(steps) = "resolve"
  <2>1. steps[1] = "resolve" /\ 1 \in 1 .. Len(steps)
    BY <1>1, TailOfSteps
  <2> QED
    BY <2>1, <1>2
<1>4. ASSUME NEW i \in 1 .. Len(steps'), steps'[i] = "resolve"
      PROVE  \E j \in 1 .. Len(steps') : i < j /\ steps'[j] = "edges"
  <2>1. i + 1 \in 1 .. Len(steps) /\ steps'[i] = steps[i + 1]
    BY <1>1, TailOfSteps
  <2>2. PICK j \in 1 .. Len(steps') : i + 1 < j + 1 /\ steps'[j] = "edges"
    BY <1>2, <1>4, <2>1
  <2> QED
    BY <1>1, <2>2
<1> QED
  BY <1>3, <1>4

-----------------------------------------------------------------------------
(* Rows come and go *)

LEMMA ContentsOf ==
  ASSUME NEW p \in SourceFiles
  PROVE  Absent \in AnyContent /\ \A v \in Versions[p] : v \in AnyContent
<1>1. Absent \in AnyContent
  BY DEF AnyContent
<1>2. ASSUME NEW v \in Versions[p] PROVE v \in AnyContent
  <2>1. v \in UNION {Versions[q] : q \in SourceFiles}
    BY <1>2
  <2> QED
    BY <2>1 DEF AnyContent
<1> QED
  BY <1>1, <1>2

LEMMA Replacing ==
  ASSUME RowsOK, RefsOK, LinkedOK, CalledOK,
         NEW p \in SourceFiles, NEW new \in Versions[p] \cup {Absent}, Replaced(p, new),
         UNCHANGED text
  PROVE  /\ rows' \in [SourceFiles -> AnyContent] /\ rows'[p] = new
         /\ \A q \in SourceFiles : q # p => rows'[q] = rows[q]
         /\ \A q \in SourceFiles : rows'[q] # Absent => rows'[q] \in Versions[q]
         /\ RefsOK' /\ LinkedOK' /\ CalledOK'
<1> USE TablesAssumption DEF RowsOK
<1>1. /\ rows' = [rows EXCEPT ![p] = new]
      /\ linked' = [e \in DOMAIN linked |-> IF p \in {e[1], e[2]} THEN Absent ELSE linked[e]]
      /\ refs' = {IF r.source = p THEN [r EXCEPT !.source = Absent] ELSE r :
                    r \in {r \in refs : r.file # p}}
                 \cup (IF new = Absent THEN {} ELSE Imported(p, new))
      /\ called' = {IF c.file = p THEN [c EXCEPT !.file = Absent, !.found = FALSE] ELSE c :
                      c \in {c \in called : c.caller[1] # p}}
  BY DEF Replaced
<1>2. /\ rows' \in [SourceFiles -> AnyContent] /\ rows'[p] = new
      /\ \A q \in SourceFiles : q # p => rows'[q] = rows[q]
      /\ \A q \in SourceFiles : rows'[q] # Absent => rows'[q] \in Versions[q]
  <2>1. new \in AnyContent
    BY ContentsOf
  <2>2. rows' \in [SourceFiles -> AnyContent] /\ rows'[p] = new
    BY <1>1, <2>1
  <2>3. \A q \in SourceFiles : q # p => rows'[q] = rows[q]
    BY <1>1
  <2> QED
    BY <2>2, <2>3
<1>3. \A q \in SourceFiles : q # p => (q \in Rowed <=> q \in Rowed')
  BY <1>2 DEF Rowed
<1>4. p \in Rowed' <=> new # Absent
  BY <1>2 DEF Rowed
<1>5. RefsOK'
  <2>1. ASSUME NEW s \in refs'
        PROVE  /\ s = [file |-> s.file, name |-> s.name, from |-> s.from, source |-> s.source]
               /\ s.file \in Rowed'
               /\ \E i \in rows'[s.file].imports : i.name = s.name /\ i.from = s.from
               /\ s.source # Absent =>
                    /\ s.source \in Rowed'
                    /\ s.source = s.from \/ (rows'[s.source] # Absent /\
                         \E f \in rows'[s.source].functions : f.name = s.name /\ f.exported)
    <3>1. CASE s \in Imported(p, new) /\ new # Absent
      <4>1. PICK i \in new.imports :
               s = [file |-> p, name |-> i.name, from |-> i.from,
                    source |-> IF text[i.from] # Absent /\ rows[i.from] # Absent
                               THEN i.from ELSE Absent]
        BY <3>1 DEF Imported
      <4>2. s.file = p /\ s.name = i.name /\ s.from = i.from
        BY <4>1
      <4>3. s.source = IF text[i.from] # Absent /\ rows[i.from] # Absent THEN i.from ELSE Absent
        BY <4>1
      <4>4. s = [file |-> s.file, name |-> s.name, from |-> s.from, source |-> s.source]
        BY <4>1, <4>2, <4>3
      <4>5. i.from \in SourceFiles
        BY <3>1
      <4>6. s.source # Absent => s.source \in Rowed' /\ s.source = s.from
        BY <4>2, <4>3, <4>5, <1>3, <1>4, <3>1 DEF Rowed
      <4> QED
        BY <4>2, <4>4, <4>6, <1>2, <1>4, <3>1
    <3>2. ASSUME NEW r \in refs, r.file # p,
                 s = IF r.source = p THEN [r EXCEPT !.source = Absent] ELSE r
          PROVE  /\ s = [file |-> s.file, name |-> s.name, from |-> s.from, source |-> s.source]
                 /\ s.file \in Rowed'
                 /\ \E i \in rows'[s.file].imports : i.name = s.name /\ i.from = s.from
                 /\ s.source # Absent =>
                      /\ s.source \in Rowed'
                      /\ s.source = s.from \/ (rows'[s.source] # Absent /\
                           \E f \in rows'[s.source].functions : f.name = s.name /\ f.exported)
      <4>1. /\ r = [file |-> r.file, name |-> r.name, from |-> r.from, source |-> r.source]
            /\ r.file \in Rowed
            /\ \E i \in rows[r.file].imports : i.name = r.name /\ i.from = r.from
            /\ r.source # Absent =>
                 r.source \in Rowed /\ (r.source = r.from \/ Exports(r.source, r.name))
        BY DEF RefsOK
      <4>2. /\ s = [file |-> s.file, name |-> s.name, from |-> s.from, source |-> s.source]
            /\ s.file = r.file /\ s.name = r.name /\ s.from = r.from
            /\ s.source = IF r.source = p THEN Absent ELSE r.source
        <5>1. CASE r.source = p
          <6>1. s = [r EXCEPT !.source = Absent]
            BY <3>2, <5>1
          <6>2. s = [file |-> r.file, name |-> r.name, from |-> r.from, source |-> Absent]
            BY <6>1, <4>1
          <6> QED
            BY <6>2, <5>1
        <5>2. CASE r.source # p
          BY <3>2, <4>1, <5>2
        <5> QED
          BY <5>1, <5>2
      <4>3. r.file \in SourceFiles /\ r.file \in Rowed' /\ rows'[r.file] = rows[r.file]
        BY <4>1, <1>2, <1>3, <3>2 DEF Rowed
      <4>4. ASSUME s.source # Absent
            PROVE  /\ s.source \in Rowed'
                   /\ s.source = s.from \/ (rows'[s.source] # Absent /\
                        \E f \in rows'[s.source].functions : f.name = s.name /\ f.exported)
        <5>1. s.source = r.source /\ r.source # p /\ r.source \in Rowed
          BY <4>1, <4>2, <4>4
        <5>2. r.source \in SourceFiles /\ rows'[r.source] = rows[r.source]
          BY <5>1, <1>2 DEF Rowed
        <5> QED
          BY <5>1, <5>2, <4>1, <4>2, <1>3 DEF Exports
      <4> QED
        BY <4>1, <4>2, <4>3, <4>4
    <3>3. \/ s \in Imported(p, new) /\ new # Absent
          \/ \E r \in refs : r.file # p /\ s = IF r.source = p THEN [r EXCEPT !.source = Absent] ELSE r
      BY <1>1
    <3> QED
      BY <3>1, <3>2, <3>3
  <2>2. ASSUME NEW q \in Rowed', NEW i \in rows'[q].imports
        PROVE  \E r \in refs' : r.file = q /\ r.name = i.name /\ r.from = i.from
    <3>1. CASE q = p
      <4>1. i \in new.imports /\ new # Absent
        BY <3>1, <1>2, <1>4
      <4> DEFINE src == IF text[i.from] # Absent /\ rows[i.from] # Absent THEN i.from ELSE Absent
                 r == [file |-> p, name |-> i.name, from |-> i.from, source |-> src]
      <4>2. r \in Imported(p, new)
        BY <4>1 DEF Imported
      <4>3. r.file = p /\ r.name = i.name /\ r.from = i.from
        OBVIOUS
      <4> QED
        BY <4>1, <4>2, <4>3, <3>1, <1>1
    <3>2. CASE q # p
      <4>1. q \in Rowed /\ rows'[q] = rows[q]
        BY <3>2, <1>2, <1>3 DEF Rowed
      <4>2. PICK r \in refs : r.file = q /\ r.name = i.name /\ r.from = i.from
        BY <4>1 DEF RefsOK
      <4> DEFINE s == IF r.source = p THEN [r EXCEPT !.source = Absent] ELSE r
      <4>3. s \in refs'
        <5>1. r \in {u \in refs : u.file # p}
          BY <4>2, <3>2
        <5>2. s \in {IF u.source = p THEN [u EXCEPT !.source = Absent] ELSE u :
                       u \in {u \in refs : u.file # p}}
          BY <5>1
        <5> HIDE DEF s
        <5> QED
          BY <1>1, <5>2
      <4>4. s.file = r.file /\ s.name = r.name /\ s.from = r.from
        <5>1. r = [file |-> r.file, name |-> r.name, from |-> r.from, source |-> r.source]
          BY DEF RefsOK
        <5>2. CASE r.source = p
          <6>1. s = [file |-> r.file, name |-> r.name, from |-> r.from, source |-> Absent]
            BY <5>1, <5>2
          <6> QED
            BY <6>1
        <5>3. CASE r.source # p
          BY <5>3
        <5> QED
          BY <5>2, <5>3
      <4> QED
        BY <4>2, <4>3, <4>4
    <3> QED
      BY <3>1, <3>2
  <2> QED
    BY <2>1, <2>2 DEF RefsOK, Exports
<1>6. LinkedOK'
  <2>1. linked' \in [SourceFiles \X SourceFiles -> {Absent, "refs", "test", "rescue"}]
    BY <1>1 DEF LinkedOK
  <2>2. ASSUME NEW e \in SourceFiles \X SourceFiles, linked'[e] = "refs"
        PROVE  \E r \in refs' : r.file = e[1] /\ r.source = e[2]
    <3>1. DOMAIN linked = SourceFiles \X SourceFiles
      BY DEF LinkedOK
    <3>2. p \notin {e[1], e[2]} /\ linked[e] = "refs"
      BY <1>1, <2>2, <3>1
    <3>3. PICK r \in refs : r.file = e[1] /\ r.source = e[2]
      BY <3>2 DEF LinkedOK
    <3>4. r.file # p /\ r.source # p
      BY <3>2, <3>3
    <3>5. r \in {IF s.source = p THEN [s EXCEPT !.source = Absent] ELSE s :
                   s \in {s \in refs : s.file # p}}
      BY <3>4
    <3>6. r \in refs'
      BY <1>1, <3>5
    <3> QED
      BY <3>3, <3>6
  <2> QED
    BY <2>1, <2>2 DEF LinkedOK
<1>7. CalledOK'
  <2>1. ASSUME NEW d \in called'
        PROVE  /\ d = [caller |-> d.caller, name |-> d.name, file |-> d.file, found |-> d.found]
               /\ d.found => d.file \in SourceFiles /\ rows'[d.file] # Absent /\
                               \E f \in rows'[d.file].functions : f.name = d.name /\ f.exported
    <3>1. PICK c \in called : d = IF c.file = p THEN [c EXCEPT !.file = Absent, !.found = FALSE] ELSE c
      BY <1>1
    <3>2. /\ c = [caller |-> c.caller, name |-> c.name, file |-> c.file, found |-> c.found]
          /\ c.found => c.file \in SourceFiles /\ Exports(c.file, c.name)
      BY DEF CalledOK
    <3>3. CASE c.file = p
      <4>1. d = [caller |-> c.caller, name |-> c.name, file |-> Absent, found |-> FALSE]
        BY <3>1, <3>2, <3>3
      <4> QED
        BY <4>1
    <3>4. CASE c.file # p
      <4>1. d = c
        BY <3>1, <3>4
      <4>2. c.found => rows'[c.file] = rows[c.file]
        BY <3>2, <3>4, <1>2
      <4> QED
        BY <4>1, <4>2, <3>2 DEF Exports
    <3> QED
      BY <3>3, <3>4
  <2> QED
    BY <2>1 DEF CalledOK, Exports
<1> QED
  BY <1>2, <1>5, <1>6, <1>7

-----------------------------------------------------------------------------
(* The steps *)

LEMMA Resolving ==
  ASSUME TablesInv, ResolveUnresolvedRefs, UNCHANGED <<rows, text, current>>
  PROVE  /\ RefsOK' /\ LinkedOK' /\ CalledOK'
         /\ \A r \in refs' : r.source = Absent =>
              ~\E p \in SourceFiles : rows'[p] # Absent /\
                  \E f \in rows'[p].functions : f.name = r.name /\ f.exported
<1> USE TablesAssumption
<1> DEFINE open == {r \in refs : r.source = Absent}
<1>1. PICK pick \in [open -> SourceFiles \cup {Absent}] :
        /\ \A r \in open : IF Candidates(r) = {} THEN pick[r] = Absent
                           ELSE pick[r] \in Candidates(r)
        /\ refs' = (refs \ open) \cup {[r EXCEPT !.source = pick[r]] : r \in open}
  BY DEF ResolveUnresolvedRefs
<1>2. UNCHANGED <<linked, called>>
  BY DEF ResolveUnresolvedRefs
<1>3. Rowed' = Rowed
  BY DEF Rowed
<1>4. ASSUME NEW r \in open
      PROVE  /\ [r EXCEPT !.source = pick[r]]
                  = [file |-> r.file, name |-> r.name, from |-> r.from, source |-> pick[r]]
             /\ pick[r] # Absent => pick[r] \in Rowed /\ Exports(pick[r], r.name)
             /\ pick[r] = Absent => \A p \in SourceFiles : ~Exports(p, r.name)
  <2>1. r = [file |-> r.file, name |-> r.name, from |-> r.from, source |-> r.source]
    BY DEF TablesInv, RefsOK
  <2>2. [r EXCEPT !.source = pick[r]]
          = [file |-> r.file, name |-> r.name, from |-> r.from, source |-> pick[r]]
    BY <2>1
  <2>3. CASE Candidates(r) = {}
    BY <1>1, <2>2, <2>3 DEF Candidates
  <2>4. CASE Candidates(r) # {}
    <3>1. pick[r] \in SourceFiles /\ Exports(pick[r], r.name)
      BY <1>1, <2>4 DEF Candidates
    <3> QED
      BY <3>1, <2>2 DEF Exports, Rowed
  <2> QED
    BY <2>3, <2>4
<1>5. ASSUME NEW s \in refs', s \notin refs \/ s.source = Absent
      PROVE  \E r \in open : s = [file |-> r.file, name |-> r.name, from |-> r.from, source |-> pick[r]]
  <2>1. PICK r \in open : s = [r EXCEPT !.source = pick[r]]
    BY <1>1, <1>5
  <2> QED
    BY <2>1, <1>4
<1>6. RefsOK'
  <2>1. ASSUME NEW s \in refs'
        PROVE  /\ s = [file |-> s.file, name |-> s.name, from |-> s.from, source |-> s.source]
               /\ s.file \in Rowed
               /\ \E i \in rows[s.file].imports : i.name = s.name /\ i.from = s.from
               /\ s.source # Absent =>
                    s.source \in Rowed /\ (s.source = s.from \/ Exports(s.source, s.name))
    <3>1. CASE s \in refs
      BY <3>1 DEF TablesInv, RefsOK
    <3>2. CASE s \notin refs
      <4>1. PICK r \in open :
               s = [file |-> r.file, name |-> r.name, from |-> r.from, source |-> pick[r]]
        BY <3>2, <1>5
      <4>2. /\ s.file = r.file /\ s.name = r.name /\ s.from = r.from /\ s.source = pick[r]
            /\ s = [file |-> s.file, name |-> s.name, from |-> s.from, source |-> s.source]
        BY <4>1
      <4>3. r.file \in Rowed /\ \E i \in rows[r.file].imports : i.name = r.name /\ i.from = r.from
        BY DEF TablesInv, RefsOK
      <4> QED
        BY <4>2, <4>3, <1>4
    <3> QED
      BY <3>1, <3>2
  <2>2. ASSUME NEW q \in Rowed, NEW i \in rows[q].imports
        PROVE  \E r \in refs' : r.file = q /\ r.name = i.name /\ r.from = i.from
    <3>1. PICK r \in refs : r.file = q /\ r.name = i.name /\ r.from = i.from
      BY DEF TablesInv, RefsOK
    <3>2. CASE r \notin open
      BY <1>1, <3>1, <3>2
    <3>3. CASE r \in open
      <4> DEFINE s == [r EXCEPT !.source = pick[r]]
      <4>1. s \in refs'
        BY <1>1, <3>3
      <4>2. s.file = r.file /\ s.name = r.name /\ s.from = r.from
        BY <1>4, <3>3
      <4> QED
        BY <3>1, <4>1, <4>2
    <3> QED
      BY <3>2, <3>3
  <2> QED
    BY <2>1, <2>2, <1>3 DEF RefsOK, Exports
<1>7. LinkedOK'
  <2>1. ASSUME NEW e \in SourceFiles \X SourceFiles, linked[e] = "refs"
        PROVE  \E r \in refs' : r.file = e[1] /\ r.source = e[2]
    <3>1. PICK r \in refs : r.file = e[1] /\ r.source = e[2]
      BY <2>1 DEF TablesInv, LinkedOK
    <3>2. r \notin open
      BY <3>1
    <3> QED
      BY <1>1, <3>1, <3>2
  <2> QED
    BY <2>1, <1>2 DEF TablesInv, LinkedOK
<1>8. CalledOK'
  BY <1>2 DEF TablesInv, CalledOK, Exports
<1>9. ASSUME NEW s \in refs', s.source = Absent
      PROVE  \A p \in SourceFiles : ~Exports(p, s.name)
  <2>1. PICK r \in open :
           s = [file |-> r.file, name |-> r.name, from |-> r.from, source |-> pick[r]]
    BY <1>5, <1>9
  <2>2. s.name = r.name /\ s.source = pick[r]
    BY <2>1
  <2> QED
    BY <2>2, <1>4, <1>9
<1> QED
  BY <1>6, <1>7, <1>8, <1>9 DEF Exports

\* The other steps leave the refs, and take no edge away.
LEMMA Deriving ==
  ASSUME TablesInv, Step, Head(steps) # "resolve"
  PROVE  /\ refs' = refs /\ LinkedOK' /\ CalledOK'
         /\ \A e \in SourceFiles \X SourceFiles : linked[e] # Absent => linked'[e] # Absent
         /\ Head(steps) = "edges" =>
              \A r \in refs : r.source # Absent => linked'[r.file, r.source] # Absent
         /\ IF Head(steps) = "rank" THEN ranked' = Rowed ELSE ranked' = ranked
<1> USE TablesAssumption
<1>0. UNCHANGED <<rows, text>>
  BY DEF Step, diskVars
<1>k. /\ \A e \in SourceFiles \X SourceFiles :
           linked[e] = "refs" => \E r \in refs : r.file = e[1] /\ r.source = e[2]
      /\ linked \in [SourceFiles \X SourceFiles -> {Absent, "refs", "test", "rescue"}]
      /\ DOMAIN linked = SourceFiles \X SourceFiles
  BY DEF TablesInv, LinkedOK
<1>c. ASSUME called' = called PROVE CalledOK'
  BY <1>0, <1>c DEF TablesInv, CalledOK, Exports
<1>l. ASSUME UNCHANGED <<refs, linked>> PROVE LinkedOK'
  BY <1>l DEF TablesInv, LinkedOK
<1>1. CASE Head(steps) = "edges" /\ BuildEdges
  <2>1. /\ linked' = [e \in DOMAIN linked |->
                        IF \E r \in refs : r.file = e[1] /\ r.source = e[2] THEN "refs" ELSE linked[e]]
        /\ UNCHANGED <<refs, ranked, called>>
    BY <1>1 DEF BuildEdges
  <2>2. LinkedOK'
    <3>1. linked' \in [SourceFiles \X SourceFiles -> {Absent, "refs", "test", "rescue"}]
      BY <2>1, <1>k
    <3>2. ASSUME NEW e \in SourceFiles \X SourceFiles, linked'[e] = "refs"
          PROVE  \E r \in refs' : r.file = e[1] /\ r.source = e[2]
      BY <2>1, <3>2, <1>k
    <3> QED
      BY <3>1, <3>2 DEF LinkedOK
  <2>3. ASSUME NEW r \in refs, r.source # Absent
        PROVE  linked'[r.file, r.source] # Absent
    <3>1. r.file \in SourceFiles /\ r.source \in SourceFiles
      BY <2>3 DEF TablesInv, RefsOK, Rowed
    <3>2. linked'[<<r.file, r.source>>] = "refs"
      BY <3>1, <2>1, <1>k
    <3> QED
      BY <3>2
  <2>4. \A e \in SourceFiles \X SourceFiles : linked[e] # Absent => linked'[e] # Absent
    BY <2>1, <1>k
  <2> QED
    BY <1>1, <1>c, <2>1, <2>2, <2>3, <2>4
<1>2. CASE Head(steps) = "rank" /\ ComputePageRank
  BY <1>2, <1>c, <1>l DEF ComputePageRank
<1>3. CASE Head(steps) = "tests" /\ LinkTestFiles
  <2>1. /\ linked' = [e \in DOMAIN linked |->
                        IF {e[1], e[2]} \subseteq Rowed /\ TestOf[e[1]] = e[2] THEN "test"
                        ELSE linked[e]]
        /\ UNCHANGED <<refs, ranked, called>>
    BY <1>3 DEF LinkTestFiles
  <2>2. LinkedOK'
    BY <2>1, <1>k DEF LinkedOK
  <2>3. \A e \in SourceFiles \X SourceFiles : linked[e] # Absent => linked'[e] # Absent
    BY <2>1, <1>k
  <2> QED
    BY <1>3, <1>c, <2>1, <2>2, <2>3
<1>4. CASE Head(steps) = "calls" /\ BuildCallGraph
  <2>1. UNCHANGED <<refs, linked, ranked>>
    BY <1>4 DEF BuildCallGraph
  <2>2. CalledOK'
    <3>1. ASSUME NEW d \in called'
          PROVE  /\ d = [caller |-> d.caller, name |-> d.name, file |-> d.file, found |-> d.found]
                 /\ d.found => d.file \in SourceFiles /\ Exports(d.file, d.name)
      <4>1. PICK drifted \in BOOLEAN :
              called' = UNION {UNION {
                {[caller |-> <<p, f.name>>, name |-> r.name, file |-> r.source,
                  found |-> Exports(r.source, r.name)] :
                     r \in {r \in refs : /\ r.file = p /\ r.source # Absent /\ r.name # f.name
                                         /\ r.name \in f.uses
                                         /\ text[p] = rows[p] \/ ~drifted}} :
                f \in rows[p].functions} : p \in Rowed \cap OnDisk}
        BY <1>4, Zenon DEF BuildCallGraph
      <4>2. PICK p \in Rowed \cap OnDisk :
              d \in UNION {{[caller |-> <<p, f.name>>, name |-> r.name, file |-> r.source,
                      found |-> Exports(r.source, r.name)] :
                         r \in {r \in refs : /\ r.file = p /\ r.source # Absent /\ r.name # f.name
                                             /\ r.name \in f.uses
                                             /\ text[p] = rows[p] \/ ~drifted}} :
                      f \in rows[p].functions}
        <5> DEFINE In(p) == UNION {{[caller |-> <<p, f.name>>, name |-> r.name, file |-> r.source,
                      found |-> Exports(r.source, r.name)] :
                         r \in {r \in refs : /\ r.file = p /\ r.source # Absent /\ r.name # f.name
                                             /\ r.name \in f.uses
                                             /\ text[p] = rows[p] \/ ~drifted}} :
                      f \in rows[p].functions}
        <5>1. called' = UNION {In(p) : p \in Rowed \cap OnDisk}
          BY <4>1
        <5> HIDE DEF In
        <5>2. \E p \in Rowed \cap OnDisk : d \in In(p)
          BY <3>1, <5>1
        <5> QED
          BY <5>2 DEF In
      <4>7. PICK f \in rows[p].functions :
              d \in {[caller |-> <<p, f.name>>, name |-> r.name, file |-> r.source,
                      found |-> Exports(r.source, r.name)] :
                         r \in {r \in refs : /\ r.file = p /\ r.source # Absent /\ r.name # f.name
                                             /\ r.name \in f.uses
                                             /\ text[p] = rows[p] \/ ~drifted}}
        BY <4>2
      <4>3. PICK r \in refs : r.source # Absent /\
              d = [caller |-> <<p, f.name>>, name |-> r.name, file |-> r.source,
                   found |-> Exports(r.source, r.name)]
        BY <4>7
      <4>4. r.source \in SourceFiles
        BY <4>3 DEF TablesInv, RefsOK, Rowed
      <4>5. d.name = r.name /\ d.file = r.source /\ d.found = Exports(r.source, r.name)
        BY <4>3
      <4>6. d = [caller |-> d.caller, name |-> d.name, file |-> d.file, found |-> d.found]
        BY <4>3
      <4> QED
        BY <4>4, <4>5, <4>6
    <3> QED
      BY <3>1, <1>0 DEF CalledOK, Exports
  <2> QED
    BY <1>4, <1>l, <2>1, <2>2
<1>5. CASE Head(steps) = "cochanges" /\ BuildCoChanges
  BY <1>5, <1>c, <1>l DEF BuildCoChanges
<1>6. CASE Head(steps) = "rescue" /\ RescueOrphans
  <2> DEFINE orphans == {p \in Rowed \ Barrels : ~Incoming(linked, p)}
  <2>1. /\ linked' \in [SourceFiles \X SourceFiles -> {Absent, "refs", "test", "rescue"}]
        /\ \A e \in SourceFiles \X SourceFiles :
             linked'[e] = linked[e] \/ (linked'[e] = "rescue" /\ e[2] \in orphans)
        /\ UNCHANGED <<refs, ranked, called>>
    BY <1>6, <1>k DEF RescueOrphans
  <2>2. LinkedOK'
    BY <2>1, <1>k DEF LinkedOK
  <2> QED
    BY <1>6, <1>c, <2>1, <2>2
<1> QED
  BY <1>1, <1>2, <1>3, <1>4, <1>5, <1>6 DEF Step

LEMMA StepKeeps ==
  ASSUME TablesInv, Step
  PROVE  TablesInv'
<1>1. /\ steps \in Seq(StepNames) /\ steps # <<>> /\ steps' = Tail(steps)
      /\ UNCHANGED <<text, rows, current, todo, lastOp, belated>>
  BY DEF Step, diskVars, TablesInv, RowsOK
<1>2. RowsOK'
  <2>1. steps' \in Seq(StepNames)
    BY <1>1, TailOfSteps
  <2> QED
    BY <1>1, <2>1 DEF TablesInv, RowsOK
<1>3. BelatedOK'
  BY <1>1 DEF TablesInv, BelatedOK
<1>4. EdgesLast'
  <2>1. CASE lastOp \notin {"delete", "late"}
    <3>1. EdgesLast
      BY DEF TablesInv
    <3>2. \A i \in 1 .. Len(steps') : steps'[i] = "resolve" =>
              \E j \in 1 .. Len(steps') : i < j /\ steps'[j] = "edges"
      BY <1>1, <2>1, <3>1, EdgesStillToCome
    <3> QED
      BY <3>2 DEF EdgesLast
  <2>2. CASE lastOp \in {"delete", "late"}
    BY <1>1, <2>2 DEF EdgesLast
  <2> QED
    BY <2>1, <2>2
<1>5. Rowed' = Rowed
  BY <1>1 DEF Rowed
<1>6. CASE Head(steps) = "resolve"
  <2>1. ResolveUnresolvedRefs
    BY <1>6 DEF Step
  <2>2. /\ RefsOK' /\ LinkedOK' /\ CalledOK'
        /\ \A r \in refs' : r.source = Absent =>
              ~\E p \in SourceFiles : rows'[p] # Absent /\
                  \E f \in rows'[p].functions : f.name = r.name /\ f.exported
    BY <1>1, <2>1, Resolving
  <2>3. Resolved'
    BY <2>2 DEF Resolved, Candidates, Exports
  <2>4. EdgesBuilt'
    <3>1. CASE lastOp \in {"delete", "late"}
      BY <1>1, <3>1 DEF EdgesBuilt, UnderWay
    <3>2. CASE lastOp \notin {"delete", "late"}
      <4>1. EdgesLast
        BY DEF TablesInv
      <4>2. \E j \in 1 .. Len(steps') : steps'[j] = "edges"
        BY <1>1, <1>6, <3>2, <4>1, EdgesStillToCome
      <4> QED
        BY <4>2 DEF EdgesBuilt, Pending
    <3> QED
      BY <3>1, <3>2
  <2>5. Ranked'
    <3>1. ranked' = ranked
      BY <2>1 DEF ResolveUnresolvedRefs
    <3>2. CASE Pending("rank")
      BY <1>1, <1>6, <3>2, PendingStep DEF Ranked, Pending
    <3>3. CASE ~Pending("rank")
      BY <1>1, <1>5, <3>1, <3>3 DEF TablesInv, Ranked, UnderWay
    <3> QED
      BY <3>2, <3>3
  <2> QED
    BY <1>2, <1>3, <1>4, <2>2, <2>3, <2>4, <2>5 DEF TablesInv
<1>7. CASE Head(steps) # "resolve"
  <2>1. /\ refs' = refs /\ LinkedOK' /\ CalledOK'
        /\ \A e \in SourceFiles \X SourceFiles : linked[e] # Absent => linked'[e] # Absent
        /\ Head(steps) = "edges" =>
             \A r \in refs : r.source # Absent => linked'[r.file, r.source] # Absent
        /\ IF Head(steps) = "rank" THEN ranked' = Rowed ELSE ranked' = ranked
    BY <1>7, Deriving
  <2>2. RefsOK'
    BY <1>1, <1>5, <2>1 DEF TablesInv, RefsOK, Exports
  <2>3. Resolved'
    <3>1. CASE Pending("resolve")
      BY <1>1, <1>7, <3>1, PendingStep DEF Resolved, Pending
    <3>2. CASE ~Pending("resolve")
      BY <1>1, <2>1, <3>2 DEF TablesInv, Resolved, UnderWay, Candidates, Exports
    <3> QED
      BY <3>1, <3>2
  <2>4. EdgesBuilt'
    <3>1. CASE Head(steps) = "edges"
      BY <2>1, <3>1 DEF EdgesBuilt
    <3>2. CASE Head(steps) # "edges" /\ Pending("edges")
      BY <1>1, <3>2, PendingStep DEF EdgesBuilt, Pending
    <3>3. CASE Head(steps) # "edges" /\ ~Pending("edges")
      <4>1. CASE UnderWay \/ lastOp = "delete"
        BY <1>1, <4>1 DEF UnderWay, EdgesBuilt
      <4>2. CASE ~UnderWay /\ lastOp # "delete"
        <5>1. \A r \in refs : r.source # Absent => linked[r.file, r.source] # Absent
          BY <3>3, <4>2 DEF TablesInv, EdgesBuilt
        <5>2. ASSUME NEW r \in refs, r.source # Absent
              PROVE  linked'[r.file, r.source] # Absent
          <6>1. r.file \in SourceFiles /\ r.source \in SourceFiles
            BY <5>2 DEF TablesInv, RefsOK, Rowed
          <6>2. linked[<<r.file, r.source>>] # Absent
            BY <5>1, <5>2
          <6>3. linked'[<<r.file, r.source>>] # Absent
            BY <2>1, <6>1, <6>2
          <6> QED
            BY <6>3
        <5> QED
          BY <5>2, <2>1 DEF EdgesBuilt
      <4> QED
        BY <4>1, <4>2
    <3> QED
      BY <3>1, <3>2, <3>3
  <2>5. Ranked'
    <3>1. CASE Head(steps) = "rank"
      BY <1>5, <2>1, <3>1 DEF Ranked
    <3>2. CASE Head(steps) # "rank" /\ Pending("rank")
      BY <1>1, <3>2, PendingStep DEF Ranked, Pending
    <3>3. CASE Head(steps) # "rank" /\ ~Pending("rank")
      BY <1>1, <1>5, <2>1, <3>3 DEF TablesInv, Ranked, UnderWay
    <3> QED
      BY <3>1, <3>2, <3>3
  <2> QED
    BY <1>2, <1>3, <1>4, <2>1, <2>2, <2>3, <2>4, <2>5 DEF TablesInv
<1> QED
  BY <1>6, <1>7

-----------------------------------------------------------------------------
(* The operations *)

\* What a step list begins with is pending, and lists in the right order.
LEMMA ListsOfSteps ==
  ASSUME NEW s \in {ScanSteps, ChangeSteps, DeleteSteps}
  PROVE  /\ s \in Seq(StepNames)
         /\ \A x \in {"resolve", "edges", "rank"} : \E i \in 1 .. Len(s) : s[i] = x
         /\ s # DeleteSteps => \A i \in 1 .. Len(s) : s[i] = "resolve" =>
              \E j \in 1 .. Len(s) : i < j /\ s[j] = "edges"
<1>1. CASE s = ScanSteps
  <2>1. /\ s \in Seq(StepNames) /\ Len(s) = 7 /\ s[1] = "resolve" /\ s[2] = "edges" /\ s[3] = "rank"
        /\ s[4] = "tests" /\ s[5] = "calls" /\ s[6] = "cochanges" /\ s[7] = "rescue"
    BY <1>1 DEF ScanSteps, StepNames
  <2> QED
    BY <2>1
<1>2. CASE s = ChangeSteps
  <2>1. /\ s \in Seq(StepNames) /\ Len(s) = 4
        /\ s[1] = "resolve" /\ s[2] = "edges" /\ s[3] = "rank" /\ s[4] = "calls"
    BY <1>2 DEF ChangeSteps, StepNames
  <2> QED
    BY <2>1
<1>3. CASE s = DeleteSteps
  <2>1. /\ s \in Seq(StepNames) /\ Len(s) = 4
        /\ s[1] = "edges" /\ s[2] = "resolve" /\ s[3] = "rank" /\ s[4] = "calls"
    BY <1>3 DEF DeleteSteps, StepNames
  <2> QED
    BY <1>3, <2>1
<1> QED
  BY <1>1, <1>2, <1>3

\* What begins a list of steps has nothing derived to answer for.
LEMMA ListBegun ==
  ASSUME NEW s \in {ScanSteps, ChangeSteps, DeleteSteps}, steps' = s,
         s = DeleteSteps => lastOp' = "delete"
  PROVE  Resolved' /\ EdgesBuilt' /\ Ranked' /\ EdgesLast'
<1>0. /\ \A x \in {"resolve", "edges", "rank"} : \E i \in 1 .. Len(s) : s[i] = x
      /\ s # DeleteSteps => \A i \in 1 .. Len(s) : s[i] = "resolve" =>
           \E j \in 1 .. Len(s) : i < j /\ s[j] = "edges"
  BY ListsOfSteps, Zenon
<1>1. \A x \in {"resolve", "edges", "rank"} : \E i \in 1 .. Len(steps') : steps'[i] = x
  BY <1>0
<1>2. Resolved' /\ EdgesBuilt' /\ Ranked'
  BY <1>1 DEF Resolved, EdgesBuilt, Ranked, Pending
<1>3. EdgesLast'
  <2>1. CASE s = DeleteSteps
    BY <2>1 DEF EdgesLast
  <2>2. CASE s # DeleteSteps
    <3>1. \A i \in 1 .. Len(steps') : steps'[i] = "resolve" =>
            \E j \in 1 .. Len(steps') : i < j /\ steps'[j] = "edges"
      BY <1>0, <2>2
    <3> QED
      BY <3>1 DEF EdgesLast
  <2> QED
    BY <2>1, <2>2
<1> QED
  BY <1>2, <1>3

\* Nor has a scan that has files to come.
LEMMA ScanUnderWay ==
  ASSUME steps' = <<>>, todo' # {}
  PROVE  Resolved' /\ EdgesBuilt' /\ Ranked' /\ EdgesLast'
<1>1. Len(steps') = 0
  OBVIOUS
<1>2. \A i \in 1 .. Len(steps') : FALSE
  BY <1>1
<1>3. EdgesLast'
  BY <1>2 DEF EdgesLast
<1>4. Resolved' /\ EdgesBuilt' /\ Ranked'
  BY DEF Resolved, EdgesBuilt, Ranked, UnderWay
<1> QED
  BY <1>3, <1>4

LEMMA ScanMovesOn ==
  ASSUME NEW p, RowsOK, NextInScan(p)
  PROVE  /\ Resolved' /\ EdgesBuilt' /\ Ranked' /\ EdgesLast'
         /\ p \in SourceFiles /\ todo' \subseteq SourceFiles /\ steps' \in Seq(StepNames)
<1>1. /\ p \in SourceFiles /\ todo' = todo \ {p} /\ todo' \subseteq SourceFiles
      /\ steps' = IF todo' = {} THEN ScanSteps ELSE <<>>
      /\ lastOp' = "scan"
  BY DEF NextInScan, RowsOK
<1>2. CASE todo' = {}
  <2>1. steps' = ScanSteps /\ ScanSteps # DeleteSteps
    BY <1>1, <1>2 DEF ScanSteps, DeleteSteps
  <2> QED
    BY <1>1, <2>1, ListBegun, ListsOfSteps
<1>3. CASE todo' # {}
  <2>1. steps' = <<>> /\ steps' \in Seq(StepNames)
    BY <1>1, <1>3
  <2> QED
    BY <1>1, <1>3, <2>1, ScanUnderWay
<1> QED
  BY <1>2, <1>3

LEMMA Indexing ==
  ASSUME RowsOK, BelatedOK, RefsOK, LinkedOK, CalledOK, NEW p \in SourceFiles, p \in OnDisk,
         Indexed1(p), UNCHANGED <<text, belated>>,
         todo' \subseteq SourceFiles, steps' \in Seq(StepNames)
  PROVE  RowsOK' /\ BelatedOK' /\ RefsOK' /\ LinkedOK' /\ CalledOK'
<1>1. text[p] \in Versions[p] /\ Replaced(p, text[p]) /\ current' = current \cup {p}
  BY DEF OnDisk, Indexed1, RowsOK
<1>2. /\ rows' \in [SourceFiles -> AnyContent] /\ rows'[p] = text[p]
      /\ \A q \in SourceFiles : q # p => rows'[q] = rows[q]
      /\ \A q \in SourceFiles : rows'[q] # Absent => rows'[q] \in Versions[q]
      /\ RefsOK' /\ LinkedOK' /\ CalledOK'
  BY <1>1, Replacing
<1> QED
  BY <1>1, <1>2 DEF RowsOK, BelatedOK

LEMMA OperationKeeps ==
  ASSUME TablesInv, ScanStarts \/ \E p \in SourceFiles : \/ ScanFile(p) \/ ScanGivesUp(p)
                                                         \/ FileReindexed(p) \/ FileRemoved(p)
  PROVE  TablesInv'
<1> USE TablesAssumption
<1>p. RowsOK /\ BelatedOK /\ RefsOK /\ LinkedOK /\ CalledOK
  BY DEF TablesInv
<1>1. CASE ScanStarts
  <2>1. /\ steps' = <<>> /\ todo' = OnDisk /\ OnDisk # {} /\ refs' = {} /\ called' = {}
        /\ rows' = [q \in SourceFiles |-> Absent] /\ current' = {}
        /\ linked' = [e \in SourceFiles \X SourceFiles |-> Absent]
        /\ UNCHANGED <<text, belated>>
    BY <1>1, Zenon DEF ScanStarts, diskVars, RowsOK
  <2>2. RowsOK'
    <3>1. steps' \in Seq(StepNames) /\ todo' \subseteq SourceFiles
      BY <2>1 DEF OnDisk
    <3>2. rows' \in [SourceFiles -> AnyContent]
      BY <2>1 DEF AnyContent
    <3> QED
      BY <1>p, <2>1, <3>1, <3>2 DEF RowsOK
  <2>3. BelatedOK'
    BY <1>p, <2>1 DEF BelatedOK
  <2>4. RefsOK'
    BY <2>1 DEF RefsOK, Rowed
  <2>5. LinkedOK' /\ CalledOK'
    BY <2>1 DEF LinkedOK, CalledOK
  <2> QED
    BY <2>1, <2>2, <2>3, <2>4, <2>5, ScanUnderWay DEF TablesInv
<1>2. ASSUME NEW p \in SourceFiles, ScanFile(p) PROVE TablesInv'
  <2>1. /\ Resolved' /\ EdgesBuilt' /\ Ranked' /\ EdgesLast'
        /\ todo' \subseteq SourceFiles /\ steps' \in Seq(StepNames)
    BY <1>2, <1>p, ScanMovesOn DEF ScanFile
  <2>2. UNCHANGED <<text, belated>>
    BY <1>2 DEF ScanFile, diskVars
  <2>3. CASE p \in OnDisk /\ p \notin current
    <3>1. Indexed1(p)
      BY <1>2, <2>3 DEF ScanFile
    <3> QED
      BY <1>p, <2>1, <2>2, <2>3, <3>1, Indexing DEF TablesInv
  <2>4. CASE ~(p \in OnDisk /\ p \notin current)
    <3>1. UNCHANGED <<rows, current, refs, linked, called>>
      BY <1>2, <2>4 DEF ScanFile, rowVars
    <3> QED
      BY <1>p, <2>1, <2>2, <3>1
      DEF TablesInv, RowsOK, BelatedOK, RefsOK, LinkedOK, CalledOK, Rowed, Exports
  <2> QED
    BY <2>3, <2>4
<1>3. ASSUME NEW p \in SourceFiles, ScanGivesUp(p) PROVE TablesInv'
  <2>1. /\ Resolved' /\ EdgesBuilt' /\ Ranked' /\ EdgesLast'
        /\ todo' \subseteq SourceFiles /\ steps' \in Seq(StepNames)
    BY <1>3, <1>p, ScanMovesOn DEF ScanGivesUp
  <2>2. /\ UNCHANGED <<text, rows, current, refs, linked, called>> /\ p \in OnDisk
        /\ belated' = belated \cup {[path |-> p, content |-> text[p], fresh |-> TRUE]}
    BY <1>3 DEF ScanGivesUp, diskVars, rowVars
  <2>3. BelatedOK'
    <3>1. text[p] \in Versions[p]
      BY <1>p, <2>2 DEF OnDisk, RowsOK
    <3> DEFINE new == [path |-> p, content |-> text[p], fresh |-> TRUE]
    <3>2. /\ new = [path |-> new.path, content |-> new.content, fresh |-> new.fresh]
          /\ new.path = p /\ new.content = text[p] /\ new.fresh = TRUE
      OBVIOUS
    <3>3. belated' = belated \cup {new} /\ text' = text
      BY <2>2
    <3> HIDE DEF new
    <3> QED
      BY <1>p, <3>1, <3>2, <3>3 DEF BelatedOK
  <2> QED
    BY <1>p, <2>1, <2>2, <2>3 DEF TablesInv, RowsOK, RefsOK, LinkedOK, CalledOK, Rowed, Exports
<1>4. ASSUME NEW p \in SourceFiles, FileReindexed(p) PROVE TablesInv'
  <2>1. /\ steps' = ChangeSteps /\ lastOp' = "change" /\ p \in OnDisk
        /\ UNCHANGED <<text, todo, belated>>
    BY <1>4 DEF FileReindexed, diskVars
  <2>2. Resolved' /\ EdgesBuilt' /\ Ranked' /\ EdgesLast'
    <3>1. ChangeSteps # DeleteSteps
      BY DEF ChangeSteps, DeleteSteps
    <3> QED
      BY <2>1, <3>1, ListBegun
  <2>3. steps' \in Seq(StepNames) /\ todo' \subseteq SourceFiles
    BY <1>p, <2>1, ListsOfSteps DEF RowsOK
  <2>4. CASE p \notin current
    <3>1. Indexed1(p)
      BY <1>4, <2>4 DEF FileReindexed
    <3> QED
      BY <1>p, <2>1, <2>2, <2>3, <3>1, Indexing DEF TablesInv
  <2>5. CASE p \in current
    <3>1. /\ linked' = [e \in DOMAIN linked |-> IF p \in {e[1], e[2]} THEN Absent ELSE linked[e]]
          /\ UNCHANGED <<rows, current, refs, called>>
      BY <1>4, <2>5 DEF FileReindexed, EdgesDropped
    <3>2. LinkedOK'
      BY <1>p, <3>1 DEF LinkedOK
    <3> QED
      BY <1>p, <2>1, <2>2, <2>3, <3>1, <3>2
      DEF TablesInv, RowsOK, BelatedOK, RefsOK, CalledOK, Rowed, Exports
  <2> QED
    BY <2>4, <2>5
<1>5. ASSUME NEW p \in SourceFiles, FileRemoved(p) PROVE TablesInv'
  <2>1. /\ steps' = DeleteSteps /\ lastOp' = "delete" /\ p \notin OnDisk
        /\ Replaced(p, Absent) /\ current' = current \ {p}
        /\ UNCHANGED <<text, todo, belated>>
    BY <1>5 DEF FileRemoved, diskVars
  <2>2. Resolved' /\ EdgesBuilt' /\ Ranked' /\ EdgesLast'
    BY <2>1, ListBegun
  <2>3. steps' \in Seq(StepNames) /\ todo' \subseteq SourceFiles
    BY <1>p, <2>1, ListsOfSteps DEF RowsOK
  <2>4. /\ rows' \in [SourceFiles -> AnyContent] /\ rows'[p] = Absent
        /\ \A q \in SourceFiles : q # p => rows'[q] = rows[q]
        /\ \A q \in SourceFiles : rows'[q] # Absent => rows'[q] \in Versions[q]
        /\ RefsOK' /\ LinkedOK' /\ CalledOK'
    BY <1>p, <2>1, Replacing
  <2>5. RowsOK' /\ BelatedOK'
    BY <1>p, <2>1, <2>3, <2>4 DEF RowsOK, BelatedOK
  <2> QED
    BY <2>2, <2>4, <2>5 DEF TablesInv
<1> QED
  BY <1>1, <1>2, <1>3, <1>4, <1>5

LEMMA LateKeeps ==
  ASSUME TablesInv, NEW x \in belated, LateStore(x)
  PROVE  TablesInv'
<1> USE TablesAssumption
<1>p. RowsOK /\ BelatedOK /\ RefsOK /\ LinkedOK /\ CalledOK
  BY DEF TablesInv
<1>1. /\ Replaced(x.path, x.content) /\ lastOp' = "late" /\ belated' \subseteq belated
      /\ current' = IF x.fresh THEN current \cup {x.path} ELSE current \ {x.path}
      /\ UNCHANGED <<text, todo, steps>>
  BY DEF LateStore, diskVars
<1>2. /\ x.path \in SourceFiles /\ x.content \in Versions[x.path]
      /\ x.fresh \in BOOLEAN /\ (x.fresh => text[x.path] = x.content)
  BY <1>p DEF BelatedOK
<1>3. /\ rows' \in [SourceFiles -> AnyContent] /\ rows'[x.path] = x.content
      /\ \A q \in SourceFiles : q # x.path => rows'[q] = rows[q]
      /\ \A q \in SourceFiles : rows'[q] # Absent => rows'[q] \in Versions[q]
      /\ RefsOK' /\ LinkedOK' /\ CalledOK'
  BY <1>p, <1>1, <1>2, Replacing
<1>4. RowsOK'
  <2>1. ASSUME NEW q \in current' PROVE q \in SourceFiles /\ rows'[q] = text[q]
    BY <1>p, <1>1, <1>2, <1>3, <2>1 DEF RowsOK
  <2> QED
    BY <1>p, <1>1, <1>3, <2>1 DEF RowsOK
<1>5. BelatedOK'
  BY <1>p, <1>1 DEF BelatedOK
<1>6. Resolved' /\ EdgesBuilt' /\ Ranked' /\ EdgesLast'
  BY <1>1 DEF Resolved, EdgesBuilt, Ranked, EdgesLast, UnderWay
<1> QED
  BY <1>3, <1>4, <1>5, <1>6 DEF TablesInv

LEMMA WriteKeeps ==
  ASSUME TablesInv, NEW p \in SourceFiles, FileWritten(p)
  PROVE  TablesInv'
<1> USE TablesAssumption
<1>p. RowsOK /\ BelatedOK /\ RefsOK /\ LinkedOK /\ CalledOK
  BY DEF TablesInv
<1>1. PICK c \in Versions[p] \cup {Absent} : text' = [text EXCEPT ![p] = c]
  BY DEF FileWritten
<1>2. /\ current' = current \ {p}
      /\ belated' = {[x EXCEPT !.fresh = @ /\ x.path # p] : x \in belated}
      /\ UNCHANGED <<rows, refs, linked, called, ranked, todo, steps, lastOp>>
  BY DEF FileWritten
<1>3. /\ text' \in [SourceFiles -> AnyContent] /\ text'[p] = c
      /\ \A q \in SourceFiles : q # p => text'[q] = text[q]
  <2>1. c \in AnyContent
    BY ContentsOf
  <2> QED
    BY <1>p, <1>1, <2>1 DEF RowsOK
<1>4. RowsOK'
  BY <1>p, <1>1, <1>2, <1>3 DEF RowsOK
<1>5. BelatedOK'
  <2>1. ASSUME NEW y \in belated'
        PROVE  /\ y = [path |-> y.path, content |-> y.content, fresh |-> y.fresh]
               /\ y.path \in SourceFiles /\ y.content \in Versions[y.path]
               /\ y.fresh \in BOOLEAN /\ (y.fresh => text'[y.path] = y.content)
    <3>1. PICK x \in belated : y = [x EXCEPT !.fresh = x.fresh /\ x.path # p]
      BY <1>2, <2>1
    <3>2. /\ x = [path |-> x.path, content |-> x.content, fresh |-> x.fresh]
          /\ x.path \in SourceFiles /\ x.content \in Versions[x.path]
          /\ x.fresh \in BOOLEAN /\ (x.fresh => text[x.path] = x.content)
      BY <1>p DEF BelatedOK
    <3>3. y = [path |-> x.path, content |-> x.content, fresh |-> x.fresh /\ x.path # p]
      BY <3>1, <3>2
    <3> QED
      BY <3>2, <3>3, <1>3
  <2> QED
    BY <2>1 DEF BelatedOK
<1>6. RefsOK' /\ LinkedOK' /\ CalledOK'
  BY <1>p, <1>2 DEF RefsOK, LinkedOK, CalledOK, Rowed, Exports
<1>7. Resolved' /\ EdgesBuilt' /\ Ranked' /\ EdgesLast'
  BY <1>2 DEF TablesInv, Resolved, EdgesBuilt, Ranked, EdgesLast, UnderWay, Pending, Candidates,
              Exports, Rowed
<1> QED
  BY <1>4, <1>5, <1>6, <1>7 DEF TablesInv

-----------------------------------------------------------------------------
(* The invariants *)

LEMMA TablesStart == TablesInit => TablesInv
<1> SUFFICES ASSUME TablesInit PROVE TablesInv
  OBVIOUS
<1> USE TablesAssumption
<1>1. /\ text \in [SourceFiles -> {Absent} \cup UNION {Versions[p] : p \in SourceFiles}]
      /\ \A p \in SourceFiles : text[p] \in Versions[p] \cup {Absent}
      /\ rows = [p \in SourceFiles |-> Absent] /\ current = {} /\ refs = {}
      /\ linked = [e \in SourceFiles \X SourceFiles |-> Absent]
      /\ called = {} /\ ranked = {} /\ todo = {} /\ steps = <<>> /\ belated = {}
  BY DEF TablesInit
<1>2. Len(steps) = 0 /\ steps \in Seq(StepNames)
  BY <1>1
<1>3. RowsOK
  <2>1. rows \in [SourceFiles -> AnyContent]
    BY <1>1 DEF AnyContent
  <2> QED
    BY <1>1, <1>2, <2>1 DEF RowsOK, AnyContent
<1>4. Rowed = {}
  BY <1>1 DEF Rowed
<1>5. BelatedOK /\ RefsOK /\ CalledOK /\ Resolved /\ EdgesBuilt /\ Ranked
  BY <1>1, <1>4 DEF BelatedOK, RefsOK, CalledOK, Resolved, EdgesBuilt, Ranked
<1>6. LinkedOK
  BY <1>1 DEF LinkedOK
<1>7. EdgesLast
  <2>1. \A i \in 1 .. Len(steps) : FALSE
    BY <1>2
  <2> QED
    BY <2>1 DEF EdgesLast
<1> QED
  BY <1>3, <1>5, <1>6, <1>7 DEF TablesInv

LEMMA TablesKept == TablesInv /\ [TablesNext]_tableVars => TablesInv'
<1> SUFFICES ASSUME TablesInv, [TablesNext]_tableVars PROVE TablesInv'
  OBVIOUS
<1>1. CASE Step
  BY <1>1, StepKeeps
<1>2. CASE ScanStarts \/ \E p \in SourceFiles : \/ ScanFile(p) \/ ScanGivesUp(p)
                                                \/ FileReindexed(p) \/ FileRemoved(p)
  BY <1>2, OperationKeeps
<1>3. CASE \E p \in SourceFiles : FileWritten(p)
  BY <1>3, WriteKeeps
<1>4. CASE \E x \in belated : LateStore(x)
  BY <1>4, LateKeeps
<1>5. CASE UNCHANGED tableVars
  <2>1. UNCHANGED <<text, rows, current, refs, linked, called, ranked, todo, steps, lastOp, belated>>
    BY <1>5 DEF tableVars
  <2>2. RowsOK' /\ BelatedOK' /\ RefsOK' /\ LinkedOK' /\ CalledOK'
    BY <2>1 DEF TablesInv, RowsOK, BelatedOK, RefsOK, LinkedOK, CalledOK, Rowed, Exports
  <2>3. Resolved' /\ EdgesBuilt' /\ Ranked' /\ EdgesLast'
    BY <2>1 DEF TablesInv, Resolved, EdgesBuilt, Ranked, EdgesLast, UnderWay, Pending,
                Candidates, Exports, Rowed
  <2> QED
    BY <2>2, <2>3 DEF TablesInv
<1> QED
  BY <1>1, <1>2, <1>3, <1>4, <1>5 DEF TablesNext

LEMMA TablesAlways == TablesSpec => []TablesInv
BY TablesStart, TablesKept, PTL DEF TablesSpec

\* Nothing is pending at rest.
LEMMA RestSettled ==
  ASSUME TablesInv, AtRest, lastOp # "late"
  PROVE  /\ \A r \in refs : r.source = Absent => Candidates(r) = {}
         /\ lastOp # "delete" => \A r \in refs : r.source # Absent => linked[r.file, r.source] # Absent
         /\ ranked = Rowed
<1>1. \A x \in StepNames : ~Pending(x)
  <2>1. \A i \in 1 .. Len(steps) : FALSE
    BY DEF AtRest
  <2> QED
    BY <2>1 DEF Pending
<1>2. ~Pending("resolve") /\ ~Pending("edges") /\ ~Pending("rank")
  BY <1>1 DEF StepNames
<1> QED
  BY <1>2 DEF TablesInv, Resolved, EdgesBuilt, Ranked, UnderWay, AtRest

\* When a scan or a change has been worked off, the derived tables are there: every
\* resolved import has its edge, every edge of imports its import, every file its
\* rank, and a call that found its function names one that is exported.
THEOREM DerivedTablesAreBuilt == TablesSpec => []DerivedIsBuilt
<1>1. TablesInv => DerivedIsBuilt
  <2> SUFFICES ASSUME TablesInv, AtRest, lastOp \in {"scan", "change"}
               PROVE  /\ \A r \in refs : r.source # Absent => linked[r.file, r.source] # Absent
                      /\ \A e \in DOMAIN linked :
                           linked[e] = "refs" => \E r \in refs : r.file = e[1] /\ r.source = e[2]
                      /\ ranked = Rowed
                      /\ \A c \in called : c.found => Exports(c.file, c.name)
    BY DEF DerivedIsBuilt
  <2>1. /\ \A r \in refs : r.source # Absent => linked[r.file, r.source] # Absent
        /\ ranked = Rowed
    BY RestSettled
  <2>2. \A e \in DOMAIN linked :
          linked[e] = "refs" => \E r \in refs : r.file = e[1] /\ r.source = e[2]
    BY DEF TablesInv, LinkedOK
  <2>3. \A c \in called : c.found => Exports(c.file, c.name)
    BY DEF TablesInv, CalledOK
  <2> QED
    BY <2>1, <2>2, <2>3
<1> QED
  BY <1>1, TablesAlways, PTL

\* However files were written, deleted and indexed, in whatever order and however
\* late, once the rows are those of a well-formed program on the disk, every import
\* leads to the file it names, and the exports called unused are those nobody imports.
THEOREM IndexKeepsUp == TablesSpec => []RefsMatchDisk
<1>1. TablesInv => RefsMatchDisk
  <2> SUFFICES ASSUME TablesInv, AtRest, lastOp # "late", Rowed = OnDisk, current = OnDisk, WellFormed
               PROVE  /\ \A r \in refs : r.source = r.from
                      /\ \A p \in Rowed : \A f \in rows[p].functions :
                           <<p, f.name>> \in UnusedExports <=>
                             Exports(p, f.name) /\ ~\E q \in Rowed : \E i \in text[q].imports : i.name = f.name
    BY DEF RefsMatchDisk
  <2> USE TablesAssumption
  <2>p. RowsOK /\ RefsOK
    BY DEF TablesInv
  <2>1. ASSUME NEW r \in refs PROVE r.source = r.from /\ r.source # Absent
    <3>1. PICK i \in rows[r.file].imports : i.name = r.name /\ i.from = r.from
      BY <2>p DEF RefsOK
    <3>2. r.file \in Rowed
      BY <2>p DEF RefsOK
    <3>3. Exports(r.from, r.name)
      BY <3>1, <3>2 DEF WellFormed
    <3>4. r.from \in SourceFiles
      BY <3>1, <3>2, <2>p DEF RowsOK, Rowed
    <3>5. r.from \in Candidates(r)
      BY <3>3, <3>4 DEF Candidates
    <3>6. r.source # Absent
      BY <3>5, RestSettled
    <3>7. r.source \in Rowed /\ (r.source = r.from \/ Exports(r.source, r.name))
      BY <3>6, <2>p DEF RefsOK
    <3>8. CASE Exports(r.source, r.name)
      <4>1. PICK f \in rows[r.source].functions : f.name = r.name /\ f.exported
        BY <3>8 DEF Exports
      <4>2. r.from \in Rowed
        BY <3>3, <3>4 DEF Exports, Rowed
      <4>3. r.source = r.from
        BY <3>3, <3>7, <4>1, <4>2 DEF WellFormed
      <4> QED
        BY <3>6, <4>3
    <3> QED
      BY <3>6, <3>7, <3>8
  <2>2. ASSUME NEW p \in Rowed, NEW f \in rows[p].functions
        PROVE  <<p, f.name>> \in UnusedExports <=>
                 Exports(p, f.name) /\ ~\E q \in Rowed : \E i \in text[q].imports : i.name = f.name
    <3>1. (\E r \in refs : r.name = f.name /\ r.source # Absent)
            <=> (\E q \in Rowed : \E i \in text[q].imports : i.name = f.name)
      <4>1. \A q \in Rowed : text[q] = rows[q]
        BY <2>p DEF RowsOK
      <4>2. ASSUME NEW r \in refs, r.name = f.name
            PROVE  \E q \in Rowed : \E i \in text[q].imports : i.name = f.name
        <5>1. r.file \in Rowed /\ \E i \in rows[r.file].imports : i.name = r.name
          BY <2>p DEF RefsOK
        <5> QED
          BY <4>1, <4>2, <5>1
      <4>3. ASSUME NEW q \in Rowed, NEW i \in text[q].imports, i.name = f.name
            PROVE  \E r \in refs : r.name = f.name /\ r.source # Absent
        <5>1. i \in rows[q].imports
          BY <4>1, <4>3
        <5>2. \E r \in refs : r.file = q /\ r.name = i.name /\ r.from = i.from
          BY <5>1, <2>p DEF RefsOK
        <5> QED
          BY <5>2, <4>3, <2>1
      <4> QED
        BY <4>2, <4>3
    <3> DEFINE named == UNION {{<<q, g.name>> : g \in rows[q].functions} : q \in Rowed}
               x == <<p, f.name>>
    <3>2. x \in named
      OBVIOUS
    <3>3. x[1] = p /\ x[2] = f.name
      OBVIOUS
    <3>4. x \in UnusedExports <=>
            x \in named /\ Exports(x[1], x[2]) /\ ~\E r \in refs : r.name = x[2] /\ r.source # Absent
      BY DEF UnusedExports
    <3> QED
      BY <3>1, <3>2, <3>3, <3>4
  <2> QED
    BY <2>1, <2>2
<1> QED
  BY <1>1, TablesAlways, PTL
=============================================================================
