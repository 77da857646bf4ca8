----------------------------- MODULE LeaderLock -----------------------------
(***************************************************************************)
(* Leader election of the code graph: the opencode processes of a project  *)
(* share one graph directory, and the file graph.lock in it says which of  *)
(* them runs the graph worker and serves the others over a Unix socket.    *)
(*                                                                         *)
(* The processes synchronise through the file system only, so an action is *)
(* one file system call with the code around it up to the next call.  A    *)
(* process executes the calls of one function without running any of its   *)
(* other callbacks, but the other processes run in between.                *)
(*                                                                         *)
(* Wall-clock time is abstracted: a heartbeat is fresh or it is not, and   *)
(* Suspends says whether a live process can be kept from refreshing its    *)
(* lock for staleMs (machine asleep, event loop blocked).                  *)
(***************************************************************************)
EXTENDS FiniteSets, Naturals

CONSTANTS
  Proc,        \* the processes, each one pid
  NoProc,      \* not a process
  SlowCreate,  \* TRUE: others run between openSync(wx) and the write
  Suspends,    \* TRUE: the lock of a live process can go stale
  StepsDown,   \* TRUE: a service may close, or fail to come up as leader
  PromotionFails,  \* TRUE: a follower may fail to come up as leader
  MaxCrashes   \* bound: processes that are killed

ASSUME LockAssumption ==
  /\ NoProc \notin Proc
  /\ SlowCreate \in BOOLEAN
  /\ Suspends \in BOOLEAN
  /\ StepsDown \in BOOLEAN
  /\ PromotionFails \in BOOLEAN
  /\ MaxCrashes \in Nat

VARIABLES
  lock,       \* graph.lock: who created it, its payload, its heartbeat
  tmp,        \* graph.lock.tmp: whose payload it holds
  sock,       \* the socket path: whose server is bound to it
  pc,         \* where the graph service of each process is
  try,        \* the attempt acquireLeader is at
  beat,       \* where the heartbeat callback of each process is
  held,       \* processes with a leader handle, whose heartbeat runs
  inited,     \* processes whose service is initialized
  conn,       \* the server a follower is connected to
  abdicated,  \* processes whose abdicated flag is set
  quit        \* processes whose service is closing

files == <<lock, tmp, sock>>
service == <<held, inited, conn, abdicated, quit>>
procs == <<pc, try, beat, service>>
vars == <<files, procs>>

Pc == {"idle", "create", "write", "inspect", "unlink", "read", "connect",
       "following", "setup", "leading", "abdicating", "closing",
       "release", "unlinkOwn", "exited", "dead"}

LockFile == [by : Proc, full : BOOLEAN, fresh : BOOLEAN]
NoFile == [by |-> NoProc, full |-> FALSE, fresh |-> FALSE]

TypeOK ==
  /\ lock \in LockFile \cup {NoFile}
  /\ tmp \in Proc \cup {NoProc}
  /\ sock \in Proc \cup {NoProc}
  /\ pc \in [Proc -> Pc]
  /\ try \in [Proc -> 1..3]
  /\ beat \in [Proc -> {"none", "tmp", "rename"}]
  /\ held \subseteq Proc
  /\ inited \subseteq Proc
  /\ conn \in [Proc -> Proc \cup {NoProc}]
  /\ abdicated \subseteq Proc
  /\ quit \subseteq Proc

-----------------------------------------------------------------------------
Alive(p) == pc[p] \notin {"exited", "dead"}
Leads(p) == pc[p] \in {"setup", "leading"}
Serving(p) == pc[p] = "leading"

(* p is in none of its heartbeat callbacks: it can run other code.         *)
At(p, where) == pc[p] = where /\ beat[p] = "none"
Go(p, where) == pc' = [pc EXCEPT ![p] = where]

(* readLeaderInfo gives a record                                           *)
Readable == lock # NoFile /\ lock.full

(* Mistake: a lock that cannot be read is somebody's.                      *)
StaleIfReadable == Readable /\ (~Alive(lock.by) \/ ~lock.fresh)

(* isStale, of what readLeaderInfo gives                                   *)
Stale == ~Readable \/ ~Alive(lock.by) \/ ~lock.fresh

(* validateOwnership of the handle p holds                                 *)
Owns(p) == Readable /\ lock.by = p

Init ==
  /\ lock = NoFile
  /\ tmp = NoProc
  /\ sock = NoProc
  /\ pc = [p \in Proc |-> "idle"]
  /\ try = [p \in Proc |-> 1]
  /\ beat = [p \in Proc |-> "none"]
  /\ held = {}
  /\ inited = {}
  /\ conn = [p \in Proc |-> NoProc]
  /\ abdicated = {}
  /\ quit = {}

-----------------------------------------------------------------------------
(* acquireLeader *)

(* initialize, or the next attempt of runFailover, calls acquireLeader.    *)
Start(p) ==
  /\ At(p, "idle")
  /\ Go(p, "create")
  /\ try' = [try EXCEPT ![p] = 1]
  /\ UNCHANGED <<files, beat, service>>

(* Mistake: openSync(w), which does not mind that the file exists.         *)
CreateOverwrites(p) ==
  /\ At(p, "create")
  /\ lock' = [by |-> p, full |-> ~SlowCreate, fresh |-> TRUE]
  /\ held' = IF SlowCreate THEN held ELSE held \cup {p}
  /\ Go(p, IF SlowCreate THEN "write" ELSE "setup")
  /\ UNCHANGED <<tmp, sock, try, beat, inited, conn, abdicated, quit>>

(* openSync(wx) of tryCreateLock.                                          *)
Create(p) ==
  /\ At(p, "create")
  /\ \/ /\ lock = NoFile
        /\ lock' = [by |-> p, full |-> ~SlowCreate, fresh |-> TRUE]
        /\ held' = IF SlowCreate THEN held ELSE held \cup {p}
        /\ Go(p, IF SlowCreate THEN "write" ELSE "setup")
     \/ /\ lock # NoFile
        /\ Go(p, IF try[p] = 3 THEN "read" ELSE "inspect")
        /\ UNCHANGED <<lock, held>>
  /\ UNCHANGED <<tmp, sock, try, beat, inited, conn, abdicated, quit>>

(* The payload goes to the file p opened, whether or not the path still    *)
(* names it.                                                               *)
Write(p) ==
  /\ At(p, "write")
  /\ lock' = IF lock.by = p THEN [lock EXCEPT !.full = TRUE] ELSE lock
  /\ held' = held \cup {p}
  /\ Go(p, "setup")
  /\ UNCHANGED <<tmp, sock, try, beat, inited, conn, abdicated, quit>>

Inspect(p) ==
  /\ At(p, "inspect")
  /\ Go(p, IF Stale THEN "unlink" ELSE "connect")
  /\ UNCHANGED <<files, try, beat, service>>

(* The unlink removes what the path names by now.                          *)
Unlink(p) ==
  /\ At(p, "unlink")
  /\ lock' = NoFile
  /\ try' = [try EXCEPT ![p] = 2]
  /\ Go(p, IF try[p] = 1 THEN "create" ELSE "read")
  /\ UNCHANGED <<tmp, sock, beat, service>>

(* The race is lost twice: follow whoever holds the lock, stale or not;    *)
(* with no lock to read, one last attempt, and then the call fails.        *)
Read(p) ==
  /\ At(p, "read")
  /\ \/ /\ Readable
        /\ Go(p, "connect")
        /\ UNCHANGED try
     \/ /\ ~Readable /\ try[p] = 2
        /\ Go(p, "create")
        /\ try' = [try EXCEPT ![p] = 3]
     \/ /\ ~Readable /\ try[p] = 3
        /\ Go(p, "idle")
        /\ UNCHANGED try
  /\ UNCHANGED <<files, beat, service>>

-----------------------------------------------------------------------------
(* The leader *)

(* Mistake: leading without a server.                                      *)
BindNothing(p) ==
  /\ At(p, "setup")
  /\ inited' = inited \cup {p}
  /\ Go(p, "leading")
  /\ UNCHANGED <<files, try, beat, held, conn, abdicated, quit>>

(* setupLeader: the worker is up, the server binds the socket path after   *)
(* removing what was there.                                                *)
Bind(p) ==
  /\ At(p, "setup")
  /\ sock' = p
  /\ inited' = inited \cup {p}
  /\ Go(p, "leading")
  /\ UNCHANGED <<lock, tmp, try, beat, held, conn, abdicated, quit>>

(* The worker or the server did not start: initialize gives the lock back; *)
(* runFailover keeps it, heartbeat and all, and goes on to its next try.   *)
SetupFails(p) ==
  /\ At(p, "setup")
  /\ IF p \in inited THEN PromotionFails ELSE StepsDown
  /\ Go(p, IF p \in inited THEN "idle" ELSE "release")
  /\ UNCHANGED <<files, try, beat, service>>

(* The heartbeat: validate the ownership, write graph.lock.tmp, rename it. *)
(* It runs when p awaits something, whatever that is.                      *)
Waiting == {"idle", "connect", "following", "setup", "leading", "abdicating", "closing"}

Refresh(p) ==
  /\ p \in held
  /\ pc[p] \in Waiting
  /\ beat[p] = "none"
  /\ Owns(p)
  /\ beat' = [beat EXCEPT ![p] = "tmp"]
  /\ UNCHANGED <<files, pc, try, service>>

WriteTmp(p) ==
  /\ beat[p] = "tmp"
  /\ tmp' = p
  /\ beat' = [beat EXCEPT ![p] = "rename"]
  /\ UNCHANGED <<lock, sock, pc, try, service>>

(* A rename of a file that is no longer there fails silently.              *)
Rename(p) ==
  /\ beat[p] = "rename"
  /\ IF tmp = NoProc
     THEN UNCHANGED <<lock, tmp>>
     ELSE /\ lock' = [by |-> tmp, full |-> TRUE, fresh |-> TRUE]
          /\ tmp' = NoProc
  /\ beat' = [beat EXCEPT ![p] = "none"]
  /\ UNCHANGED <<sock, pc, try, service>>

(* Mistake: a lock that is gone is not a lock lost.                        *)
AbdicateIfTaken(p) ==
  /\ At(p, "leading")
  /\ Readable /\ ~Owns(p)
  /\ p \notin abdicated
  /\ abdicated' = abdicated \cup {p}
  /\ Go(p, "abdicating")
  /\ UNCHANGED <<files, try, beat, held, inited, conn, quit>>

(* The ownership watchdog finds the lock lost: abdicate, once.             *)
Abdicate(p) ==
  /\ At(p, "leading")
  /\ ~Owns(p)
  /\ p \notin abdicated
  /\ abdicated' = abdicated \cup {p}
  /\ Go(p, "abdicating")
  /\ UNCHANGED <<files, try, beat, held, inited, conn, quit>>

(* close of the service: a leader stops its server first, whoever has a    *)
(* leader handle releases it.                                              *)
Close(p) ==
  /\ StepsDown
  /\ \/ At(p, "leading") /\ Go(p, "closing")
     \/ At(p, "following") /\ Go(p, IF p \in held THEN "release" ELSE "exited")
  /\ quit' = quit \cup {p}
  /\ conn' = [conn EXCEPT ![p] = NoProc]
  /\ UNCHANGED <<files, try, beat, held, inited, abdicated>>

(* The server has closed: it removes the socket path, whoever bound it.    *)
(* Abdication drops the handle and leaves the lock alone.                  *)
StopServer(p) ==
  /\ \/ At(p, "closing") /\ Go(p, "release") /\ UNCHANGED <<held, inited>>
     \/ /\ At(p, "abdicating")
        /\ Go(p, "idle")
        /\ held' = held \ {p}
        /\ inited' = inited \ {p}
  /\ sock' = NoProc
  /\ UNCHANGED <<lock, tmp, try, beat, conn, abdicated, quit>>

(* release: validate the ownership, then unlink.                           *)
AfterRelease(p) == IF p \in quit THEN "exited" ELSE "idle"

Release(p) ==
  /\ At(p, "release")
  /\ held' = held \ {p}
  /\ Go(p, IF Owns(p) THEN "unlinkOwn" ELSE AfterRelease(p))
  /\ UNCHANGED <<files, try, beat, inited, conn, abdicated, quit>>

UnlinkOwn(p) ==
  /\ At(p, "unlinkOwn")
  /\ lock' = NoFile
  /\ Go(p, AfterRelease(p))
  /\ UNCHANGED <<tmp, sock, try, beat, service>>

-----------------------------------------------------------------------------
(* The followers *)

Reachable == sock # NoProc /\ Serving(sock)

(* connectWithRetry, then setTransport; runFailover does the same.         *)
Connect(p) ==
  /\ At(p, "connect")
  /\ Reachable
  /\ conn' = [conn EXCEPT ![p] = sock]
  /\ inited' = inited \cup {p}
  /\ Go(p, "following")
  /\ UNCHANGED <<files, try, beat, held, abdicated, quit>>

(* Nobody answered on the socket path for FOLLOWER_CONNECT_TIMEOUT_MS.     *)
ConnectFails(p) ==
  /\ At(p, "connect")
  /\ ~Reachable
  /\ Go(p, "idle")
  /\ UNCHANGED <<files, try, beat, service>>

(* The connection closes with its server: the client runs runFailover.     *)
ConnectionLost(p) ==
  /\ At(p, "following")
  /\ ~Serving(conn[p])
  /\ conn' = [conn EXCEPT ![p] = NoProc]
  /\ Go(p, "create")
  /\ try' = [try EXCEPT ![p] = 1]
  /\ UNCHANGED <<files, beat, held, inited, abdicated, quit>>

-----------------------------------------------------------------------------
(* The environment *)

Crash(p) ==
  /\ Alive(p)
  /\ Cardinality({q \in Proc : pc[q] = "dead"}) < MaxCrashes
  /\ Go(p, "dead")
  /\ beat' = [beat EXCEPT ![p] = "none"]
  /\ conn' = [conn EXCEPT ![p] = NoProc]
  /\ held' = held \ {p}
  /\ inited' = inited \ {p}
  /\ UNCHANGED <<files, try, abdicated, quit>>

(* staleMs pass without a heartbeat.                                       *)
HeartbeatAges ==
  /\ Suspends
  /\ Readable
  /\ lock' = [lock EXCEPT !.fresh = FALSE]
  /\ UNCHANGED <<tmp, sock, procs>>

Acquire(p) == Create(p) \/ Write(p) \/ Inspect(p) \/ Unlink(p) \/ Read(p)
Heartbeat(p) == WriteTmp(p) \/ Rename(p)
Follower(p) == Connect(p) \/ ConnectFails(p) \/ ConnectionLost(p)
StepDown(p) == Abdicate(p) \/ StopServer(p) \/ Release(p) \/ UnlinkOwn(p)

Next ==
  \/ \E p \in Proc :
       \/ Start(p)
       \/ Acquire(p)
       \/ Bind(p)
       \/ SetupFails(p)
       \/ Refresh(p)
       \/ Heartbeat(p)
       \/ StepDown(p)
       \/ Close(p)
       \/ Follower(p)
       \/ Crash(p)
  \/ HeartbeatAges

Spec == Init /\ [][Next]_vars

(***************************************************************************)
(* Fairness: a running process goes on, its queries bring the service up   *)
(* again after a failure, its ownership watchdog fires, a worker that is   *)
(* started again and again comes up at some point, and heartbeats do not   *)
(* keep the other callbacks of their process from running.                 *)
(***************************************************************************)
Fairness ==
  /\ \A p \in Proc :
       /\ WF_vars(Start(p))
       /\ WF_vars(Acquire(p))
       /\ SF_vars(Bind(p))
       /\ WF_vars(Heartbeat(p))
       /\ WF_vars(Abdicate(p))
       /\ WF_vars(StopServer(p) \/ Release(p) \/ UnlinkOwn(p))
       /\ WF_vars(Follower(p))
  /\ SF_vars(\E p \in held : Start(p) \/ Follower(p) \/ StopServer(p))

FairSpec == Spec /\ Fairness

-----------------------------------------------------------------------------
(* Properties *)

(* At most one process is the leader of the graph directory.               *)
OneLeader == \A p, q \in Proc : Leads(p) /\ Leads(q) => p = q

(* A leader that lost the lock the first time stops leading, or gets the   *)
(* lock back: a split brain does not last.                                 *)
LoserAbdicates ==
  \A p \in Proc :
    (Serving(p) /\ ~Owns(p) /\ p \notin abdicated) ~> ~(Serving(p) /\ ~Owns(p))

(* A lock whose leader is dead, or that nobody finished writing, does not  *)
(* keep the others out: while a process asks for the graph, somebody ends  *)
(* up leading.                                                             *)
LeaderElected ==
  \A p \in Proc : pc[p] = "create" ~> (\E q \in Proc : Serving(q)) \/ ~Alive(p)

(* Whoever asks for the graph gets it.                                     *)
EveryoneServed ==
  \A p \in Proc : pc[p] = "create" ~> pc[p] \in {"following", "leading", "exited"}
=============================================================================
