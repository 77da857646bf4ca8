----------------------------- MODULE GraphCalls -----------------------------
(***************************************************************************)
(* Calls of the code graph: src/graph/client.ts, rpc.ts, ipc-transport.ts, *)
(* ipc-server.ts, worker.ts and the failover of service.ts.                *)
(*                                                                         *)
(* A process either leads (its client speaks to its own worker, and its    *)
(* IPC server forwards what followers ask) or follows (its client speaks   *)
(* to the leader's socket).  The election is that of LeaderLock, taken     *)
(* here as one step on `owner`.  A link is one RpcClient with its          *)
(* transport; a client that reconnects gets a new link, and the handlers   *)
(* of the old one stay attached.                                           *)
(*                                                                         *)
(* JavaScript runs a callback to its end, and one callback can reject      *)
(* pending calls, start a failover and install a worker.  Such chains are  *)
(* written as operators from a state record s to a state record; an action *)
(* then takes the result over with Become.                                 *)
(***************************************************************************)
EXTENDS Naturals, FiniteSets

CONSTANTS
    Procs,        \* processes that share one graph directory
    First,        \* the one that leads at the start
    Calls,        \* calls made of the typed methods of a GraphClient
    Kind,         \* what each call is: "read", "write", or a "flush" of a change
    MaxLinks,     \* bound: links that are ever opened
    MaxRelayed,   \* bound: call ids up to which a link forwards requests
    MaxFaults,    \* bound: faults of the environment
    Faults,       \* which faults may happen
    MaxAttempts,  \* FAILOVER_MAX_ATTEMPTS
    None

ASSUME CallAssumption ==
    /\ None \notin Procs /\ First \in Procs
    /\ Kind \in [Calls -> {"read", "write", "flush"}]
    /\ Faults \subseteq {"crash", "cut", "error", "close"}
    /\ MaxLinks \in Nat /\ MaxRelayed \in Nat /\ MaxFaults \in Nat
    /\ MaxAttempts \in Nat \ {0}

VARIABLES
    svc,     \* per process: its client and the failover of its service
    link,    \* the links, open and closed
    pend,    \* per link: pendingCalls of the RpcClient
    wire,    \* requests and answers under way, in no order
    call,    \* per call: how far invoke() is
    owner,   \* who holds the leader lock
    alive,   \* processes that have not crashed
    ran,     \* how often a worker has executed a call (history)
    faults   \* faults so far

callVars == <<svc, link, pend, wire, call, owner, alive, ran, faults>>

Links == 1 .. MaxLinks
Ids == 1 .. MaxRelayed + 2 * Cardinality(Calls)
Here == [link |-> 0, id |-> 0]
Pc == {"idle", "entry", "local", "before", "sent", "retry", "resent", "done"}
Reply == {"none", "ok", "app", "timeout", "transport", "up", "down"}
Outcome == {"none", "ok", "app", "timeout", "transport", "lost", "gone"}

Service == [mode : {"leader", "follower", "none"}, cur : 0 .. MaxLinks,
            ready : BOOLEAN, provider : BOOLEAN, ro : BOOLEAN,
            serving : BOOLEAN, closed : BOOLEAN,
            failover : {"idle", "connecting", "asleep", "serving"},
            target : Procs \cup {None}, attempt : 0 .. MaxAttempts]
Link == [of : Procs \cup {None}, peer : Procs \cup {None},
         kind : {"worker", "socket"}, next : Ids,
         closed : BOOLEAN, errored : BOOLEAN, terminated : BOOLEAN,
         cut : BOOLEAN]
Via == [link : 0 .. MaxLinks, id : {0} \cup Ids]
Entry == [id : Ids, call : Calls, via : Via]
Message == [link : Links, id : Ids, dir : {"request", "answer"},
            call : Calls, res : {"none", "ok", "app", "timeout", "transport"}]
Call == [of : Procs, pc : Pc, reply : Reply,
         got : Calls \cup {None}, sends : 0 .. 3, outcome : Outcome]

-----------------------------------------------------------------------------
(* States as records                                                        *)

Now == [svc |-> svc, link |-> link, pend |-> pend, wire |-> wire,
        call |-> call, owner |-> owner]

\* What a closed connection still carried is lost.
Lost(s, m) ==
    LET l == s.link[m.link] IN
    \/ l.cut
    \/ l.closed /\ (l.kind = "worker" \/ m.dir = "answer")

Become(s) == /\ svc' = s.svc
             /\ link' = s.link
             /\ pend' = s.pend
             /\ wire' = {m \in s.wire : ~Lost(s, m)}
             /\ call' = s.call
             /\ owner' = s.owner

UnusedLink == [of |-> None, peer |-> None, kind |-> "worker", next |-> 1,
               closed |-> FALSE, errored |-> FALSE, terminated |-> FALSE,
               cut |-> FALSE]
Opened(p, q, kind) ==
    [UnusedLink EXCEPT !.of = p, !.peer = q, !.kind = kind]
Room(s) == \E l \in Links : s.link[l].of = None
Fresh(s) == CHOOSE l \in Links : s.link[l].of = None

\* RpcClient.isHealthy with that of its transport.
Healthy(s, l) ==
    l # 0 /\ ~s.link[l].closed /\ ~s.link[l].errored /\ ~s.link[l].terminated
\* What RpcClient.call asks before it sends.
Sendable(s, l) == ~s.link[l].errored /\ ~s.link[l].terminated

Answer(via, c, res) ==
    [link |-> via.link, id |-> via.id, dir |-> "answer", call |-> c, res |-> res]

\* (mutant) pending calls are forgotten without being rejected
RejectSilently(s, l, why) == [s EXCEPT !.pend[l] = {}]

\* rejectAllPending: calls made here fail, forwarded ones are answered with
\* the text of the error.
Reject(s, l, why) ==
    [s EXCEPT
        !.call = [c \in Calls |->
            IF \E e \in s.pend[l] : e.call = c /\ e.via = Here
            THEN [s.call[c] EXCEPT !.reply = why] ELSE s.call[c]],
        !.wire = @ \cup {Answer(e.via, e.call, why) :
                            e \in {x \in s.pend[l] : x.via # Here}},
        !.pend[l] = {}]

\* A transport closes: its RpcClient is terminated and rejects what is pending.
Shut(s, l) ==
    IF l = 0 \/ s.link[l].closed THEN s
    ELSE Reject([s EXCEPT !.link[l].closed = TRUE,
                          !.link[l].terminated = TRUE], l, "transport")

\* The promise of the failover settles; the calls that await it go on.
Settled(s, p, how) ==
    [s EXCEPT
        !.svc[p] = [@ EXCEPT !.failover = "idle", !.target = None, !.attempt = 0],
        !.call = [c \in Calls |->
            IF s.call[c].of = p /\ s.call[c].pc \in {"entry", "before", "retry"}
            THEN [s.call[c] EXCEPT !.reply = how] ELSE s.call[c]]]

\* An attempt of runFailover fails: it sleeps, or gives up after the last.
AttemptFails(s, p) ==
    IF s.svc[p].attempt + 1 < MaxAttempts
    THEN [s EXCEPT !.svc[p].attempt = @ + 1, !.svc[p].failover = "asleep"]
    ELSE Settled(s, p, "down")

\* acquireLeader was won: promoteToLeader closes the old link and installs
\* the worker, before the first await of setupLeader.
Promote(s, p) ==
    IF ~Room(s) THEN AttemptFails(s, p)
    ELSE LET t == Shut(s, s.svc[p].cur)
             n == Fresh(t)
         IN  [t EXCEPT !.link[n] = Opened(p, p, "worker"),
                       !.owner = p,
                       !.svc[p] = [@ EXCEPT !.mode = "leader", !.cur = n,
                                            !.ready = TRUE, !.ro = FALSE,
                                            !.failover = "serving"]]

\* (mutant) a lock that is there is always respected
AttemptTrusting(s, p) ==
    IF s.owner = None THEN Promote(s, p)
    ELSE [s EXCEPT !.svc[p].failover = "connecting", !.svc[p].target = s.owner]

\* One attempt up to its first await.  The lock of a live owner is respected,
\* the process's own lock included.
Attempt(s, p) ==
    IF s.owner = None \/ ~alive[s.owner]
    THEN Promote(s, p)
    ELSE [s EXCEPT !.svc[p].failover = "connecting", !.svc[p].target = s.owner]

\* runFailover of the client: one at a time, and its first attempt is made
\* before the caller goes on.
StartFailover(s, p) ==
    IF s.svc[p].failover # "idle" THEN s
    ELSE Attempt([s EXCEPT !.svc[p].attempt = 0], p)

\* The exit handler of a link, whether it is the current one or not.
Exited(s, p) ==
    LET t == [s EXCEPT !.svc[p].ready = FALSE]
    IN  IF t.svc[p].mode = "follower" /\ t.svc[p].provider
        THEN StartFailover(t, p) ELSE t

\* markWorkerDead: the RpcClient is terminated, its transport stays open.
MarkDead(s, p) ==
    LET l == s.svc[p].cur
        t == [s EXCEPT !.svc[p].ready = FALSE]
    IN  IF l = 0 THEN t
        ELSE Reject([t EXCEPT !.link[l].terminated = TRUE], l, "transport")

\* A call returns.  flushQueue marks the worker dead whatever the error was.
Finish(s, c, outcome) ==
    LET t == [s EXCEPT !.call[c] = [@ EXCEPT !.pc = "done", !.reply = "none",
                                             !.outcome = outcome]]
    IN  IF Kind[c] = "flush" /\ outcome # "ok"
        THEN MarkDead(t, s.call[c].of) ELSE t

GoTo(s, c, pc) == [s EXCEPT !.call[c].pc = pc, !.call[c].reply = "none"]

\* RpcClient.call on the current link.
Send(s, c, pc) ==
    LET l == s.svc[s.call[c].of].cur
        i == s.link[l].next
        t == GoTo(s, c, pc)
    IN  IF l = 0 THEN Finish(s, c, "lost")
        ELSE IF ~Sendable(s, l) THEN [t EXCEPT !.call[c].reply = "transport"]
        ELSE [t EXCEPT
                !.call[c].sends = @ + 1,
                !.link[l].next = @ + 1,
                !.pend[l] = @ \cup {[id |-> i, call |-> c, via |-> Here]},
                !.wire = @ \cup {[link |-> l, id |-> i, dir |-> "request",
                                  call |-> c, res |-> "none"]}]

\* Promise reactions run before the next event of their process.
Quiet(p) == alive[p] /\ \A c \in Calls : call[c].of = p => call[c].reply = "none"

-----------------------------------------------------------------------------
(* invoke()                                                                 *)

\* A dead transport: reads wait for the failover, writes only start it.
Remote(s, c) ==
    LET p == s.call[c].of IN
    IF s.svc[p].cur = 0 THEN Finish(s, c, "app")
    ELSE IF Healthy(s, s.svc[p].cur) \/ ~s.svc[p].provider THEN Send(s, c, "sent")
    ELSE IF Kind[c] = "read"
         THEN StartFailover(GoTo(s, c, "before"), p)
         ELSE Finish(StartFailover(s, p), c, "lost")

\* A follower serves a read from its own handle while its link is healthy.
Dispatch(s, c) ==
    LET p == s.call[c].of IN
    IF s.svc[p].cur = 0 THEN Finish(s, c, "app")
    ELSE IF /\ s.svc[p].ro /\ Kind[c] = "read"
            /\ Healthy(s, s.svc[p].cur)
         THEN GoTo(s, c, "local")
         ELSE Remote(s, c)

\* (mutant) writes are sent again, too
FailedRetriesAll(s, c) ==
    LET p == s.call[c].of IN
    IF ~s.svc[p].provider THEN Finish(s, c, "transport")
    ELSE StartFailover(GoTo(s, c, "retry"), p)

\* The call failed on a dead transport for the first time.
Failed(s, c) ==
    LET p == s.call[c].of IN
    IF ~s.svc[p].provider
    THEN Finish(s, c, IF Kind[c] = "read" THEN "transport" ELSE "lost")
    ELSE IF Kind[c] = "read"
         THEN StartFailover(GoTo(s, c, "retry"), p)
         ELSE Finish(StartFailover(s, p), c, "lost")

Invoke(c) ==
    LET p == call[c].of IN
    /\ call[c].pc = "idle" /\ Quiet(p) /\ ~svc[p].closed
    /\ Become(IF Kind[c] = "flush" /\ ~svc[p].ready
              THEN Finish(Now, c, "app")
              ELSE IF svc[p].failover # "idle" THEN GoTo(Now, c, "entry")
              ELSE Dispatch(Now, c))
    /\ UNCHANGED <<alive, ran, faults>>

LocalRead(c) ==
    /\ call[c].pc = "local" /\ Quiet(call[c].of)
    /\ \/ Become(Finish(Now, c, "ok"))
       \/ Become(Remote(Now, c))
    /\ UNCHANGED <<alive, ran, faults>>

\* What a call does with the end of the failover it waited for.
AfterFailover(s, c) ==
    IF s.call[c].pc = "entry" THEN Dispatch(s, c)
    ELSE IF s.call[c].reply = "down" THEN Finish(s, c, "lost")
    ELSE Send(s, c, IF s.call[c].pc = "before" THEN "sent" ELSE "resent")

Resume(c) ==
    /\ call[c].pc \in {"entry", "before", "retry"} /\ call[c].reply # "none"
    /\ alive[call[c].of]
    /\ Become(AfterFailover(Now, c))
    /\ UNCHANGED <<alive, ran, faults>>

\* What a call does with its answer.
Returns(c) ==
    /\ call[c].pc \in {"sent", "resent"} /\ call[c].reply # "none"
    /\ alive[call[c].of]
    /\ Become(IF call[c].pc = "sent" /\ call[c].reply = "transport"
              THEN Failed(Now, c) ELSE Finish(Now, c, call[c].reply))
    /\ UNCHANGED <<alive, ran, faults>>

-----------------------------------------------------------------------------
(* Messages                                                                 *)

\* The worker runs a request; its handler may throw.
Work(m) ==
    /\ m.dir = "request" /\ link[m.link].kind = "worker"
    /\ ~link[m.link].closed /\ alive[link[m.link].of]
    /\ ran' = [ran EXCEPT ![m.call] = @ + 1]
    /\ \E res \in {"ok", "app"} :
          wire' = (wire \ {m}) \cup
                    {Answer([link |-> m.link, id |-> m.id], m.call, res)}
    /\ UNCHANGED <<svc, link, pend, call, owner, alive, faults>>

\* (mutant) the follower's id is used on the leader's link
ForwardedSameId(s, m, k) ==
    IF k = 0 THEN [s EXCEPT !.wire = (@ \ {m}) \cup {Answer(m, m.call, "app")}]
    ELSE [s EXCEPT
            !.pend[k] = @ \cup {[id |-> m.id, call |-> m.call,
                                 via |-> [link |-> m.link, id |-> m.id]]},
            !.wire = (@ \ {m}) \cup
                {[link |-> k, id |-> m.id, dir |-> "request",
                  call |-> m.call, res |-> "none"]}]

\* The IPC server hands a follower's request to its own client (forward).
Forwarded(s, m, k) ==
    IF k = 0 THEN [s EXCEPT !.wire = (@ \ {m}) \cup {Answer(m, m.call, "app")}]
    ELSE IF ~Sendable(s, k)
    THEN [s EXCEPT !.wire = (@ \ {m}) \cup {Answer(m, m.call, "transport")}]
    ELSE LET i == s.link[k].next
             via == [link |-> m.link, id |-> m.id]
         IN  [s EXCEPT
                !.link[k].next = @ + 1,
                !.pend[k] = @ \cup {[id |-> i, call |-> m.call, via |-> via]},
                !.wire = (@ \ {m}) \cup
                    {[link |-> k, id |-> i, dir |-> "request",
                      call |-> m.call, res |-> "none"]}]

\* The bound on ids: only a leader that forwards to itself reaches it.
CanForward(k) == IF k = 0 THEN TRUE ELSE link[k].next <= MaxRelayed

Relay(m) ==
    LET q == link[m.link].peer IN
    /\ m.dir = "request" /\ link[m.link].kind = "socket"
    /\ ~link[m.link].cut /\ Quiet(q) /\ svc[q].serving
    /\ CanForward(svc[q].cur)
    /\ Become(Forwarded(Now, m, svc[q].cur))
    /\ UNCHANGED <<alive, ran, faults>>

\* An answer reaches the RpcClient: it settles the pending call of its id,
\* or is dropped when there is none.
Delivered(s, m) ==
    LET t == [s EXCEPT !.wire = @ \ {m}] IN
    IF \E e \in s.pend[m.link] : e.id = m.id
    THEN LET e == CHOOSE x \in s.pend[m.link] : x.id = m.id
             u == [t EXCEPT !.pend[m.link] = @ \ {e}]
         IN  IF e.via = Here
             THEN [u EXCEPT !.call[e.call] =
                        [@ EXCEPT !.reply = m.res, !.got = m.call]]
             ELSE [u EXCEPT !.wire = @ \cup {Answer(e.via, m.call, m.res)}]
    ELSE t

Arrive(m) ==
    /\ m.dir = "answer" /\ Quiet(link[m.link].of)
    /\ ~link[m.link].cut
    /\ Become(Delivered(Now, m))
    /\ UNCHANGED <<alive, ran, faults>>

\* The timer of a pending call.  The text of its error is not one of a
\* transport failure; a forwarded call is answered with it.
Timeout(l, e) ==
    /\ e \in pend[l] /\ Quiet(link[l].of)
    /\ Become(LET t == [Now EXCEPT !.pend[l] = @ \ {e}]
              IN  IF e.via = Here THEN [t EXCEPT !.call[e.call].reply = "timeout"]
                  ELSE [t EXCEPT !.wire = @ \cup {Answer(e.via, e.call, "app")}])
    /\ UNCHANGED <<alive, ran, faults>>

-----------------------------------------------------------------------------
(* Failover of the service                                                  *)

\* The IPC server of the promoted process listens: setupLeader returns.
ServerUp(p) ==
    /\ Quiet(p) /\ svc[p].failover = "serving"
    /\ Become(Settled([Now EXCEPT !.svc[p].serving = TRUE], p, "up"))
    /\ UNCHANGED <<alive, ran, faults>>

Reachable(q) == alive[q] /\ svc[q].serving

\* connectWithRetry returns: setTransport installs the new link.  The old
\* one is not closed, and ready is not set.
Connected(p) ==
    LET q == svc[p].target
        n == Fresh(Now)
    IN
    /\ Quiet(p) /\ svc[p].failover = "connecting" /\ Reachable(q) /\ Room(Now)
    /\ \E ro \in BOOLEAN :
          Become(Settled([Now EXCEPT !.link[n] = Opened(p, q, "socket"),
                                     !.svc[p] = [@ EXCEPT !.mode = "follower",
                                                          !.cur = n, !.ro = ro]],
                         p, "up"))
    /\ UNCHANGED <<alive, ran, faults>>

ConnectFails(p) ==
    /\ Quiet(p) /\ svc[p].failover = "connecting"
    /\ ~(Reachable(svc[p].target) /\ Room(Now))
    /\ Become(AttemptFails(Now, p))
    /\ UNCHANGED <<alive, ran, faults>>

NextAttempt(p) ==
    /\ Quiet(p) /\ svc[p].failover = "asleep"
    /\ Become(IF svc[p].closed THEN Settled(Now, p, "down") ELSE Attempt(Now, p))
    /\ UNCHANGED <<alive, ran, faults>>

\* The close event of a link whose other end has gone.
LinkClosed(l) ==
    /\ link[l].cut /\ ~link[l].closed /\ Quiet(link[l].of)
    /\ Become(Exited(Shut(Now, l), link[l].of))
    /\ UNCHANGED <<alive, ran, faults>>

-----------------------------------------------------------------------------
(* Faults                                                                   *)

CanFail(kind) == kind \in Faults /\ faults < MaxFaults /\ faults' = faults + 1

CutLinksTo(s, p) ==
    [s EXCEPT !.link = [l \in Links |->
        IF s.link[l].peer = p /\ s.link[l].kind = "socket"
        THEN [s.link[l] EXCEPT !.cut = TRUE] ELSE s.link[l]]]

Crash(p) ==
    /\ alive[p] /\ \E q \in Procs \ {p} : alive[q]
    /\ CanFail("crash")
    /\ alive' = [alive EXCEPT ![p] = FALSE]
    /\ Become([CutLinksTo(Now, p) EXCEPT
                 !.pend = [l \in Links |-> IF link[l].of = p THEN {} ELSE pend[l]],
                 !.wire = {m \in wire : link[m.link].of # p},
                 !.call = [c \in Calls |->
                     IF call[c].of = p
                     THEN [call[c] EXCEPT !.pc = "done", !.reply = "none",
                             !.outcome = IF @ = "none" THEN "gone" ELSE @]
                     ELSE call[c]]])
    /\ UNCHANGED ran

\* A follower's connection is gone while both ends live (heartbeat timeout).
Cut(l) ==
    /\ link[l].kind = "socket" /\ link[l].of # None /\ ~link[l].cut
    /\ alive[link[l].of]
    /\ CanFail("cut")
    /\ Become([Now EXCEPT !.link[l].cut = TRUE])
    /\ UNCHANGED <<alive, ran>>

\* An error event without a close: an error the worker did not catch, or the
\* error event of a socket.
LinkError(l) ==
    /\ link[l].of # None /\ ~link[l].closed /\ ~link[l].errored
    /\ Quiet(link[l].of)
    /\ CanFail("error")
    /\ Become([Reject([Now EXCEPT !.link[l].errored = TRUE], l, "transport")
                 EXCEPT !.svc[link[l].of].ready = FALSE])
    /\ UNCHANGED <<alive, ran>>

\* close() of the service: the server says goodbye, the client closes its
\* link, the lock is released.  A failover in progress is not stopped.
Close(p) ==
    /\ Quiet(p) /\ ~svc[p].closed
    /\ CanFail("close")
    /\ Become([Shut(IF svc[p].serving THEN CutLinksTo(Now, p) ELSE Now, svc[p].cur)
                 EXCEPT !.owner = IF @ = p THEN None ELSE @,
                        !.svc[p] = [@ EXCEPT !.closed = TRUE, !.provider = FALSE,
                                             !.ro = FALSE, !.cur = 0,
                                             !.ready = FALSE, !.mode = "none",
                                             !.serving = FALSE]])
    /\ UNCHANGED <<alive, ran>>

-----------------------------------------------------------------------------
(* Specification                                                            *)

Leading == [mode |-> "leader", cur |-> 1, ready |-> TRUE, provider |-> TRUE,
            ro |-> FALSE, serving |-> TRUE, closed |-> FALSE,
            failover |-> "idle", target |-> None, attempt |-> 0]
Following(l, ro) == [Leading EXCEPT !.mode = "follower", !.cur = l, !.ro = ro,
                                    !.serving = FALSE]

\* Every process has initialized its service: one leads, the others follow.
CallsInit ==
    \E p \in {First}, num \in [Procs -> Links], ro \in [Procs -> BOOLEAN] :
        /\ num[p] = 1 /\ \A q, r \in Procs : num[q] = num[r] => q = r
        /\ \A q \in Procs : num[q] <= Cardinality(Procs)
        /\ owner = p
        /\ svc = [q \in Procs |-> IF q = p THEN Leading
                                  ELSE Following(num[q], ro[q])]
        /\ ro[p] = FALSE
        /\ link = [l \in Links |->
                IF \E q \in Procs : num[q] = l
                THEN LET q == CHOOSE q \in Procs : num[q] = l
                     IN  Opened(q, p, IF q = p THEN "worker" ELSE "socket")
                ELSE UnusedLink]
        /\ pend = [l \in Links |-> {}]
        /\ wire = {}
        /\ \E of \in [Calls -> Procs] :
              call = [c \in Calls |->
                  [of |-> of[c], pc |-> "idle",
                   reply |-> "none", got |-> None, sends |-> 0,
                   outcome |-> "none"]]
        /\ alive = [q \in Procs |-> TRUE]
        /\ ran = [c \in Calls |-> 0]
        /\ faults = 0

Caller(c) == Invoke(c) \/ LocalRead(c) \/ Resume(c) \/ Returns(c)
Deliver(m) == Work(m) \/ Relay(m) \/ Arrive(m)
Recover(p) == ServerUp(p) \/ Connected(p) \/ ConnectFails(p) \/ NextAttempt(p)
Fault ==
    \/ \E p \in Procs : Crash(p) \/ Close(p)
    \/ \E l \in Links : Cut(l) \/ LinkError(l)

CallsNext ==
    \/ \E c \in Calls : Caller(c)
    \/ \E m \in wire : Deliver(m)
    \/ \E l \in Links : LinkClosed(l) \/ \E e \in pend[l] : Timeout(l, e)
    \/ \E p \in Procs : Recover(p)
    \/ Fault

CallsSpec == CallsInit /\ [][CallsNext]_callVars

-----------------------------------------------------------------------------
(* Properties                                                               *)

CallsTypeOK ==
    /\ svc \in [Procs -> Service]
    /\ link \in [Links -> Link]
    /\ \A l \in Links : pend[l] \subseteq Entry
    /\ wire \subseteq Message
    /\ call \in [Calls -> Call]
    /\ owner \in Procs \cup {None}
    /\ alive \in [Procs -> BOOLEAN]
    /\ ran \in [Calls -> Nat]
    /\ faults \in 0 .. MaxFaults

\* A write is sent once and run once, whatever happens to the leader in
\* between; a read is sent at most twice (client.ts, invoke).
WritesRunOnce ==
    \A c \in Calls :
        IF Kind[c] = "read" THEN call[c].sends <= 2
        ELSE call[c].sends <= 1 /\ ran[c] <= 1

\* A caller gets the answer to its own call, though ids start again with
\* every link, followers and local callers share the leader's link, and
\* answers come late and in any order (rpc.ts, service.ts forward).
AnswersMatch ==
    \A c \in Calls :
        /\ call[c].got \in {None, c}
        /\ call[c].outcome = "ok" /\ Kind[c] # "read" => ran[c] > 0

\* Nobody waits in vain: whoever awaits an answer has a timer that will fire,
\* and whoever awaits a failover has one in progress, whose attempts are
\* bounded (rpc.ts, rejectAllPending and the timers; client.ts, runFailover).
NobodyWaitsInVain ==
    \A c \in Calls :
        /\ call[c].reply = "none"
        => /\ call[c].pc \in {"sent", "resent"} =>
                 \E l \in Links : /\ link[l].of = call[c].of
                                  /\ \E e \in pend[l] : e.call = c /\ e.via = Here
           /\ call[c].pc \in {"entry", "before", "retry"} =>
                 svc[call[c].of].failover # "idle"

\* A leader that crashes, or a lost connection, does not fail a read of
\* another process: it waits for the failover and is sent again (client.ts,
\* invoke; service.ts, runFailover).  Not so when a worker or socket reports an
\* error, when a service is closed, or once a failed flush has marked the link
\* dead: a leader then follows itself.  Nor where two followers are left: one
\* may give up before the other serves (FAILOVER_MAX_ATTEMPTS).
ReadsSurvive ==
    /\ faults <= 1
    /\ \A l \in Links : ~link[l].errored
    /\ \A p \in Procs : ~svc[p].closed
    /\ \A c \in Calls : Kind[c] = "flush" => call[c].outcome \in {"none", "ok"}
    /\ alive[First] \/ Cardinality(Procs) = 2
    => \A c \in Calls :
          Kind[c] = "read" => call[c].outcome \notin {"lost", "transport"}
=============================================================================
