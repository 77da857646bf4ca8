------------------------- MODULE GraphCallsProofs --------------------------
(***************************************************************************)
(* Writes run once, answers match and nobody waits in vain, for every      *)
(* number of processes, calls, links and faults.                           *)
(*                                                                         *)
(* An action of GraphCalls calls several operators one after the other,    *)
(* each of which takes the state as a record and returns the next one.  So *)
(* does the proof: Good is stated of such a record, a lemma per operator   *)
(* says that it keeps Good, and an action is a chain of these lemmas.      *)
(* Good says that a message or a pending call belongs to the call its      *)
(* place (link, id) was handed out for, although ids start again with      *)
(* every link, and that a write that was sent is one request somewhere or  *)
(* has run, never both.  Served, that whoever awaits a failover has one,   *)
(* is broken inside an action, while the process that fails over gives up  *)
(* its calls: ServedBut is what holds there.                               *)
(*                                                                         *)
(* That a read survives one fault is proved of finitely many processes     *)
(* with room for one more link, in the second half: a run is calm until it *)
(* is doomed, that is, until what ReadsSurvive excludes has happened.      *)
(***************************************************************************)
EXTENDS GraphCalls, FiniteSetTheorems, TLAPS

Ids1 == Nat \ {0}
\* Whoever connects has somebody to connect to.
ServiceRec == {v \in Service : v.failover = "connecting" => v.target # None}
\* Only a link that somebody opened is cut.
LinkRec == {k \in [of : Procs \cup {None}, peer : Procs \cup {None},
                   kind : {"worker", "socket"}, next : Ids1, closed : BOOLEAN,
                   errored : BOOLEAN, terminated : BOOLEAN, cut : BOOLEAN] :
                k.cut => k.of # None}
EntryRec == [id : Nat, call : Calls, via : [link : 0 .. MaxLinks, id : Nat]]
MessageRec == [link : Links, id : Nat, dir : {"request", "answer"},
               call : Calls, res : {"none", "ok", "app", "timeout", "transport"}]
CallRec == [of : Procs, pc : Pc, reply : Reply,
            got : Calls \cup {None}, sends : Nat, outcome : Outcome \cup Reply]

State == [svc : [Procs -> ServiceRec], link : [Links -> LinkRec],
          pend : [Links -> SUBSET EntryRec], wire : SUBSET MessageRec,
          call : [Calls -> CallRec], owner : Procs \cup {None}]

-----------------------------------------------------------------------------
(* A process's current link is its own; a link is numbered from 1 when it  *)
(* is opened, and has two ends from then on.                               *)
Linked(s) ==
    /\ \A p \in Procs : s.svc[p].cur = 0 \/ s.link[s.svc[p].cur].of = p
    /\ \A l \in Links : /\ s.link[l].of = None => s.link[l].next = 1
                        /\ s.link[l].of = None <=> s.link[l].peer = None

\* The place (l, i) has been handed out, and if a call is pending there it is c.
Place(s, l, i, c) ==
    /\ l \in Links /\ i \in 1 .. s.link[l].next - 1
    /\ \A x \in s.pend[l] : x.id = i => x.call = c

\* Messages and pending calls of one place belong to one call.
Numbered(s) ==
    /\ \A l \in Links : \A e \in s.pend[l] :
          /\ e.id < s.link[l].next
          /\ e.via = Here \/ Place(s, e.via.link, e.via.id, e.call)
    /\ \A m \in s.wire : /\ Place(s, m.link, m.id, m.call)
                         /\ m.dir = "answer" <=> m.res # "none"

SendsOf(s, c) ==
    /\ s.call[c].pc \in {"idle", "entry", "local", "before"} => s.call[c].sends = 0
    /\ s.call[c].pc \in {"sent", "retry"} => s.call[c].sends <= 1
    /\ s.call[c].sends <= 2
    /\ Kind[c] # "read" => /\ s.call[c].pc \notin {"local", "before", "retry", "resent"}
                           /\ s.call[c].sends <= 1

Requests(s, c) == {m \in s.wire : m.dir = "request" /\ m.call = c}

\* A write that was sent is one request somewhere, or has run.
Once(s, r, c) ==
    /\ s.call[c].sends = 0 => r[c] = 0 /\ Requests(s, c) = {}
    /\ r[c] <= 1
    /\ r[c] = 1 => Requests(s, c) = {}
    /\ \A m, n \in Requests(s, c) : m = n

\* What was answered with a result has run.
Answered(s, r) ==
    /\ \A m \in s.wire : m.res = "ok" => r[m.call] > 0
    /\ \A c \in Calls : /\ s.call[c].got \in {None, c}
                        /\ s.call[c].reply = "ok" => r[c] > 0
                        /\ s.call[c].outcome = "ok" /\ Kind[c] # "read" => r[c] > 0

Pending(s, c) ==
    \E l \in Links : /\ s.link[l].of = s.call[c].of
                     /\ \E e \in s.pend[l] : e.call = c /\ e.via = Here

Good(s, r) ==
    /\ s \in State /\ r \in [Calls -> Nat]
    /\ Linked(s) /\ Numbered(s)
    /\ \A c \in Calls : SendsOf(s, c) /\ (Kind[c] # "read" => Once(s, r, c))
    /\ Answered(s, r)
    /\ \A c \in Calls : s.call[c].pc \in {"sent", "resent"} /\ s.call[c].reply = "none"
                        => Pending(s, c)

Waits(s, c) == s.call[c].pc \in {"entry", "before", "retry"} /\ s.call[c].reply = "none"

\* Whoever waits for a failover has one.
Served(s) == \A c \in Calls : Waits(s, c) => s.svc[s.call[c].of].failover # "idle"

\* The same of the calls of the other processes than p.
ServedBut(s, p) ==
    \A c \in Calls : Waits(s, c) /\ s.call[c].of # p => s.svc[s.call[c].of].failover # "idle"

-----------------------------------------------------------------------------
LEMMA SvcGood ==
    ASSUME NEW s, NEW r, Good(s, r), NEW p \in Procs, NEW x \in ServiceRec,
           x.cur = 0 \/ s.link[x.cur].of = p
    PROVE  /\ Good([s EXCEPT !.svc[p] = x], r)
           /\ Served(s) /\ (x.failover = s.svc[p].failover \/ x.failover # "idle")
              => Served([s EXCEPT !.svc[p] = x])
           /\ ServedBut(s, p) => ServedBut([s EXCEPT !.svc[p] = x], p)
           /\ ServedBut(s, p) /\ x.failover # "idle" => Served([s EXCEPT !.svc[p] = x])
<1> DEFINE t == [s EXCEPT !.svc[p] = x]
<1>1. /\ t \in State /\ t.link = s.link /\ t.pend = s.pend /\ t.wire = s.wire
      /\ t.call = s.call /\ t.owner = s.owner /\ t.svc = [s.svc EXCEPT ![p] = x]
    BY DEF Good, State
<1> HIDE DEF t
<1>2. Linked(t)
    BY <1>1 DEF Good, State, Linked
<1>3. Numbered(t)
    BY <1>1 DEF Good, Numbered, Place
<1>4. \A c \in Calls : SendsOf(t, c) /\ (Kind[c] # "read" => Once(t, r, c))
    BY <1>1 DEF Good, SendsOf, Once, Requests
<1>5. Answered(t, r)
    BY <1>1 DEF Good, Answered
<1>6. \A c \in Calls : t.call[c].pc \in {"sent", "resent"} /\ t.call[c].reply = "none"
                       => Pending(t, c)
    BY <1>1 DEF Good, Pending
<1>7. Good(t, r)
    BY <1>1, <1>2, <1>3, <1>4, <1>5, <1>6 DEF Good
<1>8. s.svc \in [Procs -> ServiceRec] /\ \A c \in Calls : s.call[c].of \in Procs
    BY DEF Good, State, CallRec
<1>9. /\ Served(s) /\ (x.failover = s.svc[p].failover \/ x.failover # "idle") => Served(t)
      /\ ServedBut(s, p) => ServedBut(t, p)
      /\ ServedBut(s, p) /\ x.failover # "idle" => Served(t)
    BY <1>1, <1>8 DEF Served, ServedBut, Waits
<1> QED
    BY <1>7, <1>9 DEF t

\* Marks on a link change nothing that the invariant speaks of.
LEMMA MarkedGood ==
    ASSUME NEW s, NEW r, Good(s, r), NEW l \in Links, NEW x \in LinkRec,
           x.of = s.link[l].of, x.next = s.link[l].next, x.peer = s.link[l].peer
    PROVE  /\ Good([s EXCEPT !.link[l] = x], r)
           /\ Served(s) => Served([s EXCEPT !.link[l] = x])
           /\ \A p : ServedBut(s, p) => ServedBut([s EXCEPT !.link[l] = x], p)
<1> DEFINE t == [s EXCEPT !.link[l] = x]
<1>1. /\ t \in State /\ t.svc = s.svc /\ t.pend = s.pend /\ t.wire = s.wire
      /\ t.call = s.call /\ t.owner = s.owner /\ t.link = [s.link EXCEPT ![l] = x]
    BY DEF Good, State
<1>0. s.link \in [Links -> LinkRec]
    BY DEF Good, State
<1> HIDE DEF t
<1>2. \A k \in Links : /\ t.link[k].of = s.link[k].of /\ t.link[k].next = s.link[k].next
                       /\ t.link[k].peer = s.link[k].peer
    BY <1>0, <1>1
<1>3. Linked(t)
    <2>1. \A p \in Procs : s.svc[p].cur = 0 \/ s.svc[p].cur \in Links
        BY DEF Good, State, Service, ServiceRec, Links
    <2> QED
        BY <1>1, <1>2, <2>1 DEF Good, Linked
<1>4. \A k, i, c : Place(s, k, i, c) => Place(t, k, i, c)
    BY <1>1, <1>2 DEF Place
<1>5. Numbered(t)
    BY <1>1, <1>2, <1>4 DEF Good, Numbered
<1>6. \A c \in Calls : SendsOf(t, c) /\ (Kind[c] # "read" => Once(t, r, c))
    BY <1>1 DEF Good, SendsOf, Once, Requests
<1>7. Answered(t, r)
    BY <1>1 DEF Good, Answered
<1>8. \A c \in Calls : t.call[c].pc \in {"sent", "resent"} /\ t.call[c].reply = "none"
                       => Pending(t, c)
    BY <1>1, <1>2 DEF Good, Pending
<1>9. Good(t, r)
    BY <1>1, <1>3, <1>5, <1>6, <1>7, <1>8 DEF Good
<1> QED
    BY <1>1, <1>9 DEF t, Served, ServedBut, Waits

\* The calls of a set get a reply that is no result.
Replied(s, C, why) ==
    [s EXCEPT !.call = [c \in Calls |->
        IF c \in C THEN [s.call[c] EXCEPT !.reply = why] ELSE s.call[c]]]

LEMMA RepliedGood ==
    ASSUME NEW s, NEW r, Good(s, r), NEW C, NEW why \in Reply \ {"none", "ok"}
    PROVE  /\ Good(Replied(s, C, why), r)
           /\ \A c \in C : c \in Calls => Replied(s, C, why).call[c].reply # "none"
           /\ Served(s) => Served(Replied(s, C, why))
           /\ \A p : ServedBut(s, p) => ServedBut(Replied(s, C, why), p)
           /\ \A c \in Calls : Replied(s, C, why).call[c].of = s.call[c].of
<1> DEFINE k == [c \in Calls |->
                   IF c \in C THEN [s.call[c] EXCEPT !.reply = why] ELSE s.call[c]]
           t == [s EXCEPT !.call = k]
<1>0. /\ s \in State /\ s.call \in [Calls -> CallRec]
    BY DEF Good, State
<1>1. /\ k \in [Calls -> CallRec]
      /\ \A c \in Calls : /\ k[c].of = s.call[c].of /\ k[c].pc = s.call[c].pc
                          /\ k[c].got = s.call[c].got /\ k[c].sends = s.call[c].sends
                          /\ k[c].outcome = s.call[c].outcome
                          /\ k[c].reply = s.call[c].reply \/ k[c].reply = why
                          /\ c \in C => k[c].reply = why
    BY <1>0 DEF CallRec
<1>2. why # "none" /\ why # "ok"
    OBVIOUS
<1> HIDE DEF k
<1>3. /\ t \in State /\ t.svc = s.svc /\ t.pend = s.pend /\ t.wire = s.wire
      /\ t.link = s.link /\ t.owner = s.owner /\ t.call = k
    BY <1>0, <1>1 DEF State
<1> HIDE DEF t
<1>4. Linked(t)
    BY <1>3 DEF Good, Linked
<1>5. Numbered(t)
    BY <1>3 DEF Good, Numbered, Place
<1>6. \A c \in Calls : SendsOf(t, c) /\ (Kind[c] # "read" => Once(t, r, c))
    BY <1>1, <1>3 DEF Good, SendsOf, Once, Requests
<1>7. Answered(t, r)
    BY <1>1, <1>2, <1>3 DEF Good, Answered
<1>8. \A c \in Calls : t.call[c].pc \in {"sent", "resent"} /\ t.call[c].reply = "none"
                       => Pending(t, c)
    BY <1>1, <1>2, <1>3 DEF Good, Pending
<1>9. Good(t, r)
    BY <1>3, <1>4, <1>5, <1>6, <1>7, <1>8 DEF Good
<1>10. /\ Served(s) => Served(t)
       /\ \A p : ServedBut(s, p) => ServedBut(t, p)
    BY <1>1, <1>2, <1>3 DEF Served, ServedBut, Waits
<1> QED
    BY <1>1, <1>2, <1>3, <1>9, <1>10 DEF t, k, Replied

\* What was forwarded and is rejected is answered, and nothing is pending on l.
Abandoned(s, l) ==
    [s EXCEPT !.wire = @ \cup {Answer(e.via, e.call, "transport") :
                                  e \in {x \in s.pend[l] : x.via # Here}},
              !.pend[l] = {}]

LEMMA AbandonedGood ==
    ASSUME NEW s, NEW r, Good(s, r), NEW l \in Links,
           \A e \in s.pend[l] : e.via = Here => s.call[e.call].reply # "none"
    PROVE  /\ Good(Abandoned(s, l), r) /\ Abandoned(s, l).call = s.call
           /\ Abandoned(s, l).svc = s.svc /\ Abandoned(s, l).link = s.link
<1> DEFINE new == {Answer(e.via, e.call, "transport") : e \in {x \in s.pend[l] : x.via # Here}}
           t == [s EXCEPT !.wire = @ \cup new, !.pend[l] = {}]
<1>0. s \in State
    BY DEF Good
<1>1. ASSUME NEW m \in new
      PROVE  /\ m \in MessageRec /\ m.dir = "answer" /\ m.res = "transport"
             /\ Place(s, m.link, m.id, m.call)
    <2>1. PICK e \in s.pend[l] : e.via # Here /\ m = Answer(e.via, e.call, "transport")
        OBVIOUS
    <2>2. Place(s, e.via.link, e.via.id, e.call)
        BY <2>1 DEF Good, Numbered
    <2>3. e \in EntryRec
        BY <1>0 DEF State
    <2> QED
        BY <2>1, <2>2, <2>3 DEF Answer, EntryRec, MessageRec, Place
<1> HIDE DEF new
<1>2. /\ t.svc = s.svc /\ t.pend = [s.pend EXCEPT ![l] = {}] /\ t.wire = s.wire \cup new
      /\ t.link = s.link /\ t.owner = s.owner /\ t.call = s.call
    BY <1>0 DEF State
<1>3. t \in State
    <2>1. s.wire \cup new \subseteq MessageRec
        BY <1>0, <1>1 DEF State
    <2>2. [s.pend EXCEPT ![l] = {}] \in [Links -> SUBSET EntryRec]
        BY <1>0 DEF State
    <2> QED
        BY <1>0, <2>1, <2>2 DEF State
<1> HIDE DEF t
<1>4. \A k \in Links : t.pend[k] \subseteq s.pend[k] /\ (k # l => t.pend[k] = s.pend[k])
    BY <1>0, <1>2 DEF State
<1>5. \A k, i, c : Place(s, k, i, c) => Place(t, k, i, c)
    BY <1>2, <1>4 DEF Place
<1>6. Linked(t)
    BY <1>2 DEF Good, Linked
<1>7. Numbered(t)
    BY <1>1, <1>2, <1>4, <1>5 DEF Good, Numbered
<1>8. \A c \in Calls : SendsOf(t, c) /\ (Kind[c] # "read" => Once(t, r, c))
    <2>1. \A c \in Calls : Requests(t, c) = Requests(s, c)
        BY <1>1, <1>2 DEF Requests
    <2> QED
        BY <1>2, <2>1 DEF Good, SendsOf, Once
<1>9. Answered(t, r)
    BY <1>1, <1>2 DEF Good, Answered
<1>10. ASSUME NEW c \in Calls, t.call[c].pc \in {"sent", "resent"}, t.call[c].reply = "none"
       PROVE  Pending(t, c)
    <2>1. PICK k \in Links : /\ s.link[k].of = s.call[c].of
                             /\ \E e \in s.pend[k] : e.call = c /\ e.via = Here
        BY <1>2, <1>10 DEF Good, Pending
    <2>2. k # l
        BY <1>2, <1>10, <2>1
    <2> QED
        BY <1>2, <1>4, <2>1, <2>2 DEF Pending
<1>11. Good(t, r)
    BY <1>3, <1>6, <1>7, <1>8, <1>9, <1>10 DEF Good
<1> QED
    BY <1>2, <1>11 DEF t, new, Abandoned

-----------------------------------------------------------------------------
(* The operators of a chain of callbacks                                   *)

\* What the recovery of a process's link leaves as it was.
Keeps(s, t) == \A c \in Calls : t.call[c].of = s.call[c].of

LEMMA RejectGood ==
    ASSUME NEW s, NEW r, Good(s, r), NEW l \in Links
    PROVE  /\ Good(Reject(s, l, "transport"), r)
           /\ Served(s) => Served(Reject(s, l, "transport"))
           /\ \A p : ServedBut(s, p) => ServedBut(Reject(s, l, "transport"), p)
           /\ Reject(s, l, "transport").svc = s.svc
           /\ Reject(s, l, "transport").link = s.link
           /\ Keeps(s, Reject(s, l, "transport"))
<1> DEFINE C == {c \in Calls : \E e \in s.pend[l] : e.call = c /\ e.via = Here}
           u == Replied(s, C, "transport")
           t == Abandoned(u, l)
<1>0. s \in State
    BY DEF Good
<1>1. "transport" \in Reply \ {"none", "ok"}
    BY DEF Reply
<1>2. /\ Good(u, r) /\ \A c \in C : c \in Calls => u.call[c].reply # "none"
      /\ Served(s) => Served(u)
      /\ \A p : ServedBut(s, p) => ServedBut(u, p)
      /\ \A c \in Calls : u.call[c].of = s.call[c].of
    <2> HIDE DEF C
    <2> QED
        BY <1>1, RepliedGood
<1>3. /\ u.pend = s.pend /\ u.wire = s.wire /\ u.svc = s.svc /\ u.link = s.link
      /\ u.owner = s.owner /\ u \in State
    BY <1>0, <1>2 DEF State, Replied, Good
<1>4. \A e \in u.pend[l] : e.via = Here => u.call[e.call].reply # "none"
    <2>1. \A e \in s.pend[l] : e.call \in Calls
        BY <1>0 DEF State, EntryRec
    <2> QED
        BY <1>2, <1>3, <2>1 DEF C
<1>5. Reject(s, l, "transport") = t
    <2>1. [c \in Calls |-> IF \E e \in s.pend[l] : e.call = c /\ e.via = Here
                           THEN [s.call[c] EXCEPT !.reply = "transport"] ELSE s.call[c]]
          = [c \in Calls |-> IF c \in C THEN [s.call[c] EXCEPT !.reply = "transport"] ELSE s.call[c]]
        OBVIOUS
    <2> HIDE DEF C
    <2> QED
        BY <1>0, <1>3, <2>1 DEF Reject, Replied, Abandoned, State
<1> HIDE DEF u
<1>7. Good(t, r) /\ t.call = u.call /\ t.svc = u.svc /\ t.link = u.link
    BY <1>2, <1>4, AbandonedGood
<1> HIDE DEF t
<1>8. /\ Served(u) => Served(t)
      /\ \A p : ServedBut(u, p) => ServedBut(t, p)
    BY <1>7 DEF Served, ServedBut, Waits
<1> QED
    BY <1>2, <1>3, <1>5, <1>7, <1>8 DEF Keeps

LEMMA ShutGood ==
    ASSUME NEW s, NEW r, Good(s, r), NEW l \in 0 .. MaxLinks
    PROVE  /\ Good(Shut(s, l), r)
           /\ Served(s) => Served(Shut(s, l))
           /\ \A p : ServedBut(s, p) => ServedBut(Shut(s, l), p)
           /\ Shut(s, l).svc = s.svc /\ Keeps(s, Shut(s, l))
           /\ \A k \in Links : Shut(s, l).link[k].of = s.link[k].of
<1>1. CASE l = 0 \/ s.link[l].closed
    BY <1>1 DEF Shut, Keeps
<1>2. CASE ~(l = 0 \/ s.link[l].closed)
    <2> DEFINE x == [s.link[l] EXCEPT !.closed = TRUE, !.terminated = TRUE]
               u == [s EXCEPT !.link[l] = x]
    <2>0. l \in Links /\ s \in State
        BY <1>2 DEF Links, Good
    <2>1. s.link[l] \in LinkRec /\ s.link \in [Links -> LinkRec]
        BY <2>0 DEF State
    <2>2. x \in LinkRec /\ x.of = s.link[l].of /\ x.next = s.link[l].next /\ x.peer = s.link[l].peer
        BY <2>1 DEF LinkRec
    <2> HIDE DEF x
    <2>3. /\ Good(u, r) /\ (Served(s) => Served(u))
          /\ \A p : ServedBut(s, p) => ServedBut(u, p)
        BY <2>0, <2>2, MarkedGood
    <2>4. /\ u.svc = s.svc /\ u.call = s.call
          /\ \A k \in Links : u.link[k].of = s.link[k].of
        BY <2>0, <2>1, <2>2 DEF State
    <2>5. u = [s EXCEPT !.link[l].closed = TRUE, !.link[l].terminated = TRUE]
        BY <2>0, <2>1 DEF x, State, LinkRec
    <2> HIDE DEF u
    <2>6. Shut(s, l) = Reject(u, l, "transport")
        BY <1>2, <2>5 DEF Shut
    <2> QED
        BY <2>0, <2>3, <2>4, <2>6, RejectGood DEF Keeps
<1> QED
    BY <1>1, <1>2

LEMMA MarkDeadGood ==
    ASSUME NEW s, NEW r, Good(s, r), NEW p \in Procs
    PROVE  Good(MarkDead(s, p), r) /\ (Served(s) => Served(MarkDead(s, p)))
<1> DEFINE y == [s.svc[p] EXCEPT !.ready = FALSE]
           t == [s EXCEPT !.svc[p] = y]
           l == s.svc[p].cur
<1>0. s \in State /\ s.svc[p] \in ServiceRec /\ s.svc \in [Procs -> ServiceRec]
    BY DEF Good, State
<1>1. /\ y \in ServiceRec /\ y.cur = l /\ y.failover = s.svc[p].failover
      /\ l = 0 \/ (l \in Links /\ s.link[l].of = p)
    <2>1. y \in ServiceRec /\ y.cur = l /\ y.failover = s.svc[p].failover
        BY <1>0 DEF Service, ServiceRec
    <2>2. l \in 0 .. MaxLinks
        BY <1>0 DEF Service, ServiceRec
    <2>3. l = 0 \/ s.link[l].of = p
        BY DEF Good, Linked
    <2> QED
        BY <2>1, <2>2, <2>3, CallAssumption DEF Links
<1>2. t = [s EXCEPT !.svc[p].ready = FALSE]
    BY <1>0 DEF State, Service, ServiceRec
<1> HIDE DEF y
<1>3. Good(t, r) /\ (Served(s) => Served(t))
    BY <1>0, <1>1, SvcGood
<1>4. t.link = s.link
    BY <1>0 DEF State
<1> HIDE DEF t
<1>5. CASE l = 0
    BY <1>2, <1>3, <1>5 DEF MarkDead
<1>6. CASE l # 0
    <2> DEFINE x == [t.link[l] EXCEPT !.terminated = TRUE]
               u == [t EXCEPT !.link[l] = x]
    <2>0. t \in State /\ l \in Links
        BY <1>1, <1>3, <1>6 DEF Good
    <2>1. t.link[l] \in LinkRec
        BY <2>0 DEF State
    <2>2. x \in LinkRec /\ x.of = t.link[l].of /\ x.next = t.link[l].next /\ x.peer = t.link[l].peer
        BY <2>1 DEF LinkRec
    <2>3. u = [t EXCEPT !.link[l].terminated = TRUE]
        BY <2>0, <2>1 DEF State, LinkRec
    <2> HIDE DEF x
    <2>4. Good(u, r) /\ (Served(t) => Served(u))
        BY <1>3, <2>0, <2>2, MarkedGood
    <2> HIDE DEF u
    <2>5. MarkDead(s, p) = Reject(u, l, "transport")
        BY <1>2, <1>6, <2>3 DEF MarkDead
    <2> QED
        BY <1>3, <2>0, <2>4, <2>5, RejectGood
<1> QED
    BY <1>5, <1>6

LEMMA SettledGood ==
    ASSUME NEW s, NEW r, Good(s, r), NEW p \in Procs, NEW how \in {"up", "down"}
    PROVE  Good(Settled(s, p, how), r) /\ (ServedBut(s, p) => Served(Settled(s, p, how)))
<1> DEFINE y == [s.svc[p] EXCEPT !.failover = "idle", !.target = None, !.attempt = 0]
           C == {c \in Calls : s.call[c].of = p /\ s.call[c].pc \in {"entry", "before", "retry"}}
<1>0. /\ s \in State /\ s.svc[p] \in ServiceRec /\ s.svc \in [Procs -> ServiceRec]
      /\ s.call \in [Calls -> CallRec]
    BY DEF Good, State
<1>1. y \in ServiceRec /\ y.cur = s.svc[p].cur
    <2>1. 0 \in 0 .. MaxAttempts
        BY CallAssumption
    <2> QED
        BY <1>0, <2>1 DEF Service, ServiceRec
<1>2. how \in Reply \ {"none", "ok"}
    BY DEF Reply
<1>u. PICK u : u = Replied(s, C, how)
    OBVIOUS
<1>3. Good(u, r) /\ \A c \in C : c \in Calls => u.call[c].reply # "none"
    <2> HIDE DEF C
    <2> QED
        BY SMTT(30), <1>2, <1>u, RepliedGood
<1>4. u.svc = s.svc /\ u.link = s.link /\ u \in State
    BY Zenon, <1>0, <1>3, <1>u DEF State, Good, Replied
<1>5. \A c \in Calls : /\ u.call[c].of = s.call[c].of /\ u.call[c].pc = s.call[c].pc
                       /\ u.call[c].reply = s.call[c].reply \/ u.call[c].reply = how
    BY <1>0, <1>u DEF State, CallRec, Replied
<1> DEFINE t == [u EXCEPT !.svc[p] = y]
<1>6. Settled(s, p, how) = t
    <2>1. [c \in Calls |->
             IF s.call[c].of = p /\ s.call[c].pc \in {"entry", "before", "retry"}
             THEN [s.call[c] EXCEPT !.reply = how] ELSE s.call[c]] =
          [c \in Calls |->
             IF c \in C THEN [s.call[c] EXCEPT !.reply = how] ELSE s.call[c]]
        OBVIOUS
    <2> HIDE DEF C
    <2> QED
        BY <1>0, <1>u, <2>1 DEF Settled, State, Replied
<1> HIDE DEF y
<1>7. Good(t, r)
    <2>1. y.cur = 0 \/ u.link[y.cur].of = p
        BY <1>1, <1>4 DEF Good, Linked
    <2> QED
        BY <1>1, <1>3, <2>1, SvcGood
<1>9. /\ t.svc = [s.svc EXCEPT ![p] = y]
      /\ \A c \in Calls : /\ t.call[c].of = s.call[c].of /\ t.call[c].pc = s.call[c].pc
                          /\ t.call[c].reply = s.call[c].reply \/ t.call[c].reply = how
                          /\ c \in C => t.call[c].reply # "none"
    <2>1. t.call = u.call /\ t.svc = [s.svc EXCEPT ![p] = y]
        BY <1>4 DEF State
    <2> HIDE DEF t, C
    <2>2. ASSUME NEW c \in Calls
          PROVE  /\ t.call[c].of = s.call[c].of /\ t.call[c].pc = s.call[c].pc
                 /\ t.call[c].reply = s.call[c].reply \/ t.call[c].reply = how
                 /\ c \in C => t.call[c].reply # "none"
        <3>1. t.call[c] = u.call[c]
            BY <2>1
        <3> QED
            BY <1>3, <1>5, <3>1
    <2> QED
        BY <2>1, <2>2
<1> HIDE DEF t
<1>8. ASSUME ServedBut(s, p) PROVE Served(t)
    <2>2. ASSUME NEW c \in Calls, Waits(t, c)
          PROVE  t.svc[t.call[c].of].failover # "idle"
        <3>0. t.call[c].of = s.call[c].of
            BY <1>9
        <3>1. s.call[c].of # p
            BY <1>9, <2>2 DEF Waits
        <3>2. Waits(s, c)
            BY <1>9, <1>2, <2>2 DEF Waits
        <3>3. s.call[c].of \in Procs
            BY <1>0 DEF CallRec
        <3> QED
            BY <1>0, <1>8, <1>9, <3>0, <3>1, <3>2, <3>3 DEF ServedBut
    <2> QED
        BY <2>2 DEF Served
<1> QED
    BY <1>6, <1>7, <1>8

LEMMA OwnedGood ==
    ASSUME NEW s, NEW r, Good(s, r), NEW o \in Procs \cup {None}
    PROVE  /\ Good([s EXCEPT !.owner = o], r)
           /\ Served(s) => Served([s EXCEPT !.owner = o])
           /\ \A p : ServedBut(s, p) => ServedBut([s EXCEPT !.owner = o], p)
<1> DEFINE t == [s EXCEPT !.owner = o]
<1>1. /\ t \in State /\ t.svc = s.svc /\ t.link = s.link /\ t.pend = s.pend
      /\ t.wire = s.wire /\ t.call = s.call
    BY DEF Good, State
<1> HIDE DEF t
<1>2. Good(t, r)
    BY <1>1 DEF Good, Linked, Numbered, Place, SendsOf, Once, Requests, Answered, Pending
<1> QED
    BY <1>1, <1>2 DEF t, Served, ServedBut, Waits

\* A link that nobody has opened yet carries nothing.
LEMMA OpenedGood ==
    ASSUME NEW s, NEW r, Good(s, r), NEW n \in Links, s.link[n].of = None,
           NEW p \in Procs, NEW q \in Procs, NEW kind \in {"worker", "socket"}
    PROVE  /\ Good([s EXCEPT !.link[n] = Opened(p, q, kind)], r)
           /\ Served(s) => Served([s EXCEPT !.link[n] = Opened(p, q, kind)])
           /\ \A o : ServedBut(s, o) => ServedBut([s EXCEPT !.link[n] = Opened(p, q, kind)], o)
<1> DEFINE x == Opened(p, q, kind)
           t == [s EXCEPT !.link[n] = x]
<1>0. /\ s \in State /\ s.link \in [Links -> LinkRec] /\ None \notin Procs
      /\ s.link[n].next = 1
    BY CallAssumption DEF Good, State, Linked
<1>1. x \in LinkRec /\ x.of = p /\ x.peer = q /\ x.next = 1
    <2>1. UnusedLink \in LinkRec /\ UnusedLink.next = 1
        BY DEF UnusedLink, LinkRec, Ids1
    <2> QED
        BY <1>0, <2>1 DEF Opened, LinkRec, UnusedLink
<1> HIDE DEF x
<1>2. /\ t \in State /\ t.svc = s.svc /\ t.pend = s.pend /\ t.wire = s.wire
      /\ t.call = s.call /\ t.owner = s.owner /\ t.link = [s.link EXCEPT ![n] = x]
    BY <1>0, <1>1 DEF State
<1> HIDE DEF t
<1>3. /\ \A k \in Links : /\ t.link[k].next = s.link[k].next
                          /\ k # n => /\ t.link[k].of = s.link[k].of
                                      /\ t.link[k].peer = s.link[k].peer
      /\ t.link[n].of = p /\ t.link[n].peer = q
    BY <1>0, <1>1, <1>2
<1>4. Linked(t)
    <2>1. ASSUME NEW o \in Procs, t.svc[o].cur # 0
          PROVE  t.link[t.svc[o].cur].of = o
        <3>1. s.link[s.svc[o].cur].of = o /\ s.svc[o].cur \in Links
            BY <1>0, <1>2, <2>1, CallAssumption DEF Good, State, Linked, Service, ServiceRec, Links
        <3>2. s.svc[o].cur # n
            BY <1>0, <3>1
        <3> QED
            BY <1>2, <1>3, <3>1, <3>2
    <2>2. \A l \in Links : /\ t.link[l].of = None => t.link[l].next = 1
                           /\ t.link[l].of = None <=> t.link[l].peer = None
        BY <1>0, <1>1, <1>2, <1>3 DEF Good, Linked
    <2> QED
        BY <2>1, <2>2 DEF Linked
<1>5. \A k, i, c : Place(s, k, i, c) => Place(t, k, i, c)
    BY <1>2, <1>3 DEF Place
<1>6. Numbered(t)
    BY <1>2, <1>3, <1>5 DEF Good, Numbered
<1>7. \A c \in Calls : SendsOf(t, c) /\ (Kind[c] # "read" => Once(t, r, c))
    BY <1>2 DEF Good, SendsOf, Once, Requests
<1>8. Answered(t, r)
    BY <1>2 DEF Good, Answered
<1>9. ASSUME NEW c \in Calls, t.call[c].pc \in {"sent", "resent"}, t.call[c].reply = "none"
      PROVE  Pending(t, c)
    <2>1. PICK k \in Links : /\ s.link[k].of = s.call[c].of
                             /\ \E e \in s.pend[k] : e.call = c /\ e.via = Here
        BY <1>2, <1>9 DEF Good, Pending
    <2>2. k # n
        BY <1>0, <2>1 DEF State, CallRec
    <2> QED
        BY <1>2, <1>3, <2>1, <2>2 DEF Pending
<1>10. Good(t, r)
    BY <1>2, <1>4, <1>6, <1>7, <1>8, <1>9 DEF Good
<1> QED
    BY <1>2, <1>10 DEF t, x, Served, ServedBut, Waits

LEMMA AttemptFailsGood ==
    ASSUME NEW s, NEW r, Good(s, r), NEW p \in Procs
    PROVE  Good(AttemptFails(s, p), r) /\ (ServedBut(s, p) => Served(AttemptFails(s, p)))
<1> DEFINE v == s.svc[p]
           y == [v EXCEPT !.attempt = @ + 1, !.failover = "asleep"]
           t == [s EXCEPT !.svc[p] = y]
<1>0. s \in State /\ v \in ServiceRec /\ s.svc \in [Procs -> ServiceRec]
    BY DEF Good, State
<1>1. CASE v.attempt + 1 < MaxAttempts
    <2>1. v.attempt + 1 \in 0 .. MaxAttempts
        BY <1>0, <1>1, CallAssumption DEF Service, ServiceRec
    <2>2. y \in ServiceRec /\ y.cur = v.cur /\ y.failover = "asleep"
        BY <1>0, <2>1 DEF Service, ServiceRec
    <2>3. AttemptFails(s, p) = t
        BY <1>0, <1>1 DEF AttemptFails, State, Service, ServiceRec
    <2> HIDE DEF y
    <2>4. y.cur = 0 \/ s.link[y.cur].of = p
        BY <2>2 DEF Good, Linked
    <2> QED
        BY <2>2, <2>3, <2>4, SvcGood
<1>2. CASE ~(v.attempt + 1 < MaxAttempts)
    BY <1>2, SettledGood DEF AttemptFails
<1> QED
    BY <1>1, <1>2

LEMMA PromoteGood ==
    ASSUME NEW s, NEW r, Good(s, r), NEW p \in Procs
    PROVE  Good(Promote(s, p), r) /\ (ServedBut(s, p) => Served(Promote(s, p)))
<1>1. CASE ~Room(s)
    BY <1>1, AttemptFailsGood DEF Promote
<1>2. CASE Room(s)
    <2>0. s.svc[p].cur \in 0 .. MaxLinks
        BY DEF Good, State, Service, ServiceRec
    <2>1. PICK t : t = Shut(s, s.svc[p].cur)
        OBVIOUS
    <2>2. /\ Good(t, r) /\ (ServedBut(s, p) => ServedBut(t, p)) /\ t.svc = s.svc
          /\ \A k \in Links : t.link[k].of = s.link[k].of
        BY <2>0, <2>1, ShutGood
    <2>3. PICK n \in Links : n = Fresh(t) /\ t.link[n].of = None
        BY <1>2, <2>2 DEF Room, Fresh
    <2>4. PICK u : u = [t EXCEPT !.link[n] = Opened(p, p, "worker")]
        OBVIOUS
    <2>5. Good(u, r) /\ (ServedBut(t, p) => ServedBut(u, p))
        BY <2>2, <2>3, <2>4, OpenedGood
    <2>6. PICK w : w = [u EXCEPT !.owner = p]
        OBVIOUS
    <2>7. Good(w, r) /\ (ServedBut(u, p) => ServedBut(w, p))
        BY <2>5, <2>6, OwnedGood
    <2> DEFINE y == [s.svc[p] EXCEPT !.mode = "leader", !.cur = n, !.ready = TRUE,
                                     !.ro = FALSE, !.failover = "serving"]
    <2>8. t \in State /\ u \in State /\ w \in State /\ s.svc[p] \in ServiceRec
        BY <2>2, <2>5, <2>7 DEF Good, State
    <2>9. y \in ServiceRec /\ y.cur = n /\ y.failover = "serving"
        <3>1. n \in 0 .. MaxLinks
            BY CallAssumption DEF Links
        <3> QED
            BY Zenon, <2>8, <3>1 DEF Service, ServiceRec
    <2>10. Promote(s, p) = [w EXCEPT !.svc[p] = y]
        BY Zenon, <1>2, <2>1, <2>2, <2>3, <2>4, <2>6, <2>8 DEF Promote, State
    <2>11. w.link[n].of = p
        BY <2>4, <2>6, <2>8 DEF State, Opened, UnusedLink
    <2> HIDE DEF y
    <2> QED
        BY <2>2, <2>5, <2>7, <2>9, <2>10, <2>11, SvcGood
<1> QED
    BY <1>1, <1>2

LEMMA AttemptGood ==
    ASSUME NEW s, NEW r, Good(s, r), NEW p \in Procs
    PROVE  Good(Attempt(s, p), r) /\ (ServedBut(s, p) => Served(Attempt(s, p)))
<1> DEFINE v == s.svc[p]
           y == [v EXCEPT !.failover = "connecting", !.target = s.owner]
<1>0. /\ s \in State /\ v \in ServiceRec /\ s.svc \in [Procs -> ServiceRec]
      /\ s.owner \in Procs \cup {None}
    BY DEF Good, State
<1>1. CASE s.owner = None \/ ~alive[s.owner]
    BY <1>1, PromoteGood DEF Attempt
<1>2. CASE ~(s.owner = None \/ ~alive[s.owner])
    <2>1. y \in ServiceRec /\ y.cur = v.cur /\ y.failover = "connecting"
        BY <1>0, <1>2 DEF Service, ServiceRec
    <2>2. Attempt(s, p) = [s EXCEPT !.svc[p] = y]
        BY <1>0, <1>2 DEF Attempt, State, Service, ServiceRec
    <2> HIDE DEF y
    <2>3. y.cur = 0 \/ s.link[y.cur].of = p
        BY <2>1 DEF Good, Linked
    <2> QED
        BY <2>1, <2>2, <2>3, SvcGood
<1> QED
    BY <1>1, <1>2

LEMMA StartFailoverGood ==
    ASSUME NEW s, NEW r, Good(s, r), NEW p \in Procs
    PROVE  Good(StartFailover(s, p), r) /\ (ServedBut(s, p) => Served(StartFailover(s, p)))
<1> DEFINE v == s.svc[p]
           y == [v EXCEPT !.attempt = 0]
<1>0. s \in State /\ v \in ServiceRec /\ s.svc \in [Procs -> ServiceRec]
    BY DEF Good, State
<1>1. CASE v.failover # "idle"
    BY <1>1 DEF StartFailover, Served, ServedBut
<1>2. CASE v.failover = "idle"
    <2>1. y \in ServiceRec /\ y.cur = v.cur
        <3>1. 0 \in 0 .. MaxAttempts
            BY CallAssumption
        <3> QED
            BY <1>0, <3>1 DEF Service, ServiceRec
    <2>2. PICK t : t = [s EXCEPT !.svc[p] = y]
        OBVIOUS
    <2>3. StartFailover(s, p) = Attempt(t, p)
        BY <1>0, <1>2, <2>2 DEF StartFailover, State, Service, ServiceRec
    <2> HIDE DEF y
    <2>4. y.cur = 0 \/ s.link[y.cur].of = p
        BY <2>1 DEF Good, Linked
    <2>5. Good(t, r) /\ (ServedBut(s, p) => ServedBut(t, p))
        BY <2>1, <2>2, <2>4, SvcGood
    <2> QED
        BY <2>3, <2>5, AttemptGood
<1> QED
    BY <1>1, <1>2

LEMMA ServedFromOthers ==
    ASSUME NEW s, Served(s), NEW p
    PROVE  ServedBut(s, p)
    BY DEF Served, ServedBut

LEMMA ExitedGood ==
    ASSUME NEW s, NEW r, Good(s, r), NEW p \in Procs
    PROVE  Good(Exited(s, p), r) /\ (Served(s) => Served(Exited(s, p)))
<1> DEFINE v == s.svc[p]
           y == [v EXCEPT !.ready = FALSE]
<1>0. s \in State /\ v \in ServiceRec /\ s.svc \in [Procs -> ServiceRec]
    BY DEF Good, State
<1>1. y \in ServiceRec /\ y.cur = v.cur /\ y.failover = v.failover
    BY <1>0 DEF Service, ServiceRec
<1>2. PICK t : t = [s EXCEPT !.svc[p] = y]
    OBVIOUS
<1>3. t = [s EXCEPT !.svc[p].ready = FALSE]
    BY <1>0, <1>2 DEF State, Service, ServiceRec
<1> HIDE DEF y
<1>4. y.cur = 0 \/ s.link[y.cur].of = p
    BY <1>1 DEF Good, Linked
<1>5. Good(t, r) /\ (Served(s) => Served(t))
    BY <1>1, <1>2, <1>4, SvcGood
<1>6. Exited(s, p) = t \/ Exited(s, p) = StartFailover(t, p)
    BY <1>3 DEF Exited
<1> QED
    BY <1>5, <1>6, StartFailoverGood, ServedFromOthers

-----------------------------------------------------------------------------
(* A call goes on                                                          *)

\* A call goes to another place, or returns, or fails to be sent.
LEMMA MovedGood ==
    ASSUME NEW s, NEW r, Good(s, r), NEW c \in Calls, NEW x \in CallRec,
           x.of = s.call[c].of, x.got = s.call[c].got, x.sends = s.call[c].sends,
           x.reply \in {"none", "transport"}, x.pc \in {"sent", "resent"} => x.reply = "transport",
           x.outcome = "ok" /\ Kind[c] # "read" => r[c] > 0,
           x.pc \in {"entry", "local", "before"} => x.sends = 0,
           x.pc = "idle" => x.sends = 0,
           x.pc \in {"retry", "sent"} => x.sends <= 1,
           Kind[c] # "read" => x.pc \notin {"local", "before", "retry", "resent"}
    PROVE  /\ Good([s EXCEPT !.call[c] = x], r)
           /\ ServedBut([s EXCEPT !.call[c] = x], x.of) <=> ServedBut(s, x.of)
           /\ Served(s) /\ x.pc \notin {"entry", "before", "retry"}
              => Served([s EXCEPT !.call[c] = x])
           /\ Served(s) /\ s.svc[x.of].failover # "idle" => Served([s EXCEPT !.call[c] = x])
<1> DEFINE t == [s EXCEPT !.call[c] = x]
<1>0. /\ s \in State /\ s.call \in [Calls -> CallRec] /\ s.call[c] \in CallRec
      /\ r \in [Calls -> Nat]
    BY DEF Good, State
<1>1. /\ t \in State /\ t.svc = s.svc /\ t.link = s.link /\ t.pend = s.pend
      /\ t.wire = s.wire /\ t.owner = s.owner /\ t.call = [s.call EXCEPT ![c] = x]
    BY <1>0 DEF State
<1> HIDE DEF t
<1>2. /\ t.call[c] = x
      /\ \A d \in Calls : d # c => t.call[d] = s.call[d]
      /\ \A d \in Calls : t.call[d].of = s.call[d].of
    BY <1>0, <1>1
<1>3. Linked(t)
    BY <1>1 DEF Good, Linked
<1>4. Numbered(t)
    BY <1>1 DEF Good, Numbered, Place
<1>5. ASSUME NEW d \in Calls
      PROVE  SendsOf(t, d) /\ (Kind[d] # "read" => Once(t, r, d))
    <2>1. SendsOf(s, d) /\ (Kind[d] # "read" => Once(s, r, d))
        BY DEF Good
    <2>2. t.call[d].sends = s.call[d].sends
        BY <1>2
    <2>3. Kind[d] # "read" => Once(t, r, d)
        BY <1>1, <2>1, <2>2 DEF Once, Requests
    <2>4. CASE d = c
        BY <1>2, <2>1, <2>3, <2>4 DEF SendsOf
    <2>5. CASE d # c
        BY <1>2, <2>1, <2>3, <2>5 DEF SendsOf
    <2> QED
        BY <2>4, <2>5
<1>6. Answered(t, r)
    BY <1>1, <1>2 DEF Good, Answered
<1>7. ASSUME NEW d \in Calls, t.call[d].pc \in {"sent", "resent"}, t.call[d].reply = "none"
      PROVE  Pending(t, d)
    <2>1. d # c
        BY <1>2, <1>7
    <2>2. Pending(s, d)
        BY <1>2, <1>7, <2>1 DEF Good
    <2> QED
        BY <1>1, <1>2, <2>2 DEF Pending
<1>8. Good(t, r)
    BY <1>1, <1>3, <1>4, <1>5, <1>6, <1>7 DEF Good
<1>9. \A d \in Calls : Waits(t, d) => d = c \/ Waits(s, d)
    BY <1>2 DEF Waits
<1>10. \A d \in Calls : Waits(s, d) => d = c \/ Waits(t, d)
    BY <1>2 DEF Waits
<1>11. ServedBut(t, x.of) <=> ServedBut(s, x.of)
    BY <1>1, <1>2, <1>9, <1>10 DEF ServedBut
<1>12. ASSUME Served(s), x.pc \notin {"entry", "before", "retry"} \/ s.svc[x.of].failover # "idle"
       PROVE  Served(t)
    <2> SUFFICES ASSUME NEW d \in Calls, Waits(t, d)
                 PROVE  t.svc[t.call[d].of].failover # "idle"
        BY DEF Served
    <2>1. CASE d = c
        BY <1>1, <1>2, <1>12, <2>1 DEF Waits
    <2>2. CASE d # c
        BY <1>1, <1>2, <1>9, <1>12, <2>2 DEF Served
    <2> QED
        BY <2>1, <2>2
<1> QED
    BY <1>8, <1>11, <1>12 DEF t

LEMMA FinishGood ==
    ASSUME NEW s, NEW r, Good(s, r), NEW c \in Calls, NEW outcome \in Outcome \cup Reply,
           outcome = "ok" /\ Kind[c] # "read" => r[c] > 0
    PROVE  Good(Finish(s, c, outcome), r) /\ (Served(s) => Served(Finish(s, c, outcome)))
<1> DEFINE x == [s.call[c] EXCEPT !.pc = "done", !.reply = "none", !.outcome = outcome]
<1>0. s \in State /\ s.call[c] \in CallRec
    BY DEF Good, State
<1>1. /\ x \in CallRec /\ x.of = s.call[c].of /\ x.got = s.call[c].got
      /\ x.sends = s.call[c].sends /\ x.reply = "none" /\ x.pc = "done" /\ x.outcome = outcome
    BY <1>0 DEF CallRec, Pc, Reply
<1>2. PICK t : t = [s EXCEPT !.call[c] = x]
    OBVIOUS
<1>3. Finish(s, c, outcome) \in {t, MarkDead(t, s.call[c].of)}
    BY <1>2 DEF Finish
<1> HIDE DEF x
<1>4. Good(t, r) /\ (Served(s) => Served(t))
    BY <1>1, <1>2, MovedGood
<1>5. s.call[c].of \in Procs
    BY <1>0 DEF CallRec
<1> QED
    BY <1>3, <1>4, <1>5, MarkDeadGood

\* Where a call waits: a read that has not been sent, or has been sent once.
CanWait(s, c, pc) ==
    /\ pc \in {"entry", "local", "before", "retry"}
    /\ pc \in {"local", "before", "retry"} => Kind[c] = "read"
    /\ s.call[c].sends = 0 \/ (pc = "retry" /\ s.call[c].sends <= 1)

LEMMA GoToGood ==
    ASSUME NEW s, NEW r, Good(s, r), NEW c \in Calls, NEW pc, CanWait(s, c, pc)
    PROVE  /\ Good(GoTo(s, c, pc), r)
           /\ Served(s) => ServedBut(GoTo(s, c, pc), s.call[c].of)
           /\ Served(s) /\ (pc = "local" \/ s.svc[s.call[c].of].failover # "idle")
              => Served(GoTo(s, c, pc))
<1> DEFINE x == [s.call[c] EXCEPT !.pc = pc, !.reply = "none"]
<1>0. s \in State /\ s.call[c] \in CallRec
    BY DEF Good, State
<1>1. /\ x \in CallRec /\ x.of = s.call[c].of /\ x.got = s.call[c].got
      /\ x.sends = s.call[c].sends /\ x.reply = "none" /\ x.pc = pc
      /\ x.outcome = s.call[c].outcome
    BY <1>0 DEF CallRec, Pc, Reply, CanWait
<1>2. PICK t : t = [s EXCEPT !.call[c] = x]
    OBVIOUS
<1>3. GoTo(s, c, pc) = t
    BY <1>0, <1>2 DEF GoTo, State, CallRec
<1> HIDE DEF x
<1>4. x.sends \in Nat
    BY <1>1 DEF CallRec
<1>5. /\ Good(t, r)
      /\ ServedBut(t, x.of) <=> ServedBut(s, x.of)
      /\ Served(s) /\ x.pc \notin {"entry", "before", "retry"} => Served(t)
      /\ Served(s) /\ s.svc[x.of].failover # "idle" => Served(t)
    <2>1. x.outcome = "ok" /\ Kind[c] # "read" => r[c] > 0
        BY <1>1 DEF Good, Answered
    <2> QED
        BY <1>1, <1>2, <1>4, <2>1, MovedGood DEF CanWait
<1> QED
    BY <1>1, <1>3, <1>5, ServedFromOthers

\* What may be sent: a call for the first time, a read for the second.
CanSend(s, c, pc) ==
    \/ pc = "sent" /\ s.call[c].sends = 0
    \/ pc = "resent" /\ s.call[c].sends <= 1 /\ Kind[c] = "read"

\* A request that is pending where its answer will arrive.
Sent(s, c, x, l) ==
    LET i == s.link[l].next IN
    [svc |-> s.svc, owner |-> s.owner,
     call |-> [s.call EXCEPT ![c] = x],
     link |-> [s.link EXCEPT ![l].next = @ + 1],
     pend |-> [s.pend EXCEPT ![l] = @ \cup {[id |-> i, call |-> c, via |-> Here]}],
     wire |-> s.wire \cup {[link |-> l, id |-> i, dir |-> "request",
                            call |-> c, res |-> "none"]}]

LEMMA SentGood ==
    ASSUME NEW s, NEW r, Good(s, r), NEW c \in Calls, NEW pc, CanSend(s, c, pc),
           NEW l \in Links, s.link[l].of = s.call[c].of, NEW x \in CallRec,
           x = [s.call[c] EXCEPT !.pc = pc, !.reply = "none", !.sends = @ + 1]
    PROVE  Good(Sent(s, c, x, l), r) /\ (Served(s) => Served(Sent(s, c, x, l)))
<1> DEFINE i == s.link[l].next
           new == [id |-> i, call |-> c, via |-> Here]
           msg == [link |-> l, id |-> i, dir |-> "request", call |-> c, res |-> "none"]
<1>0. /\ s \in State /\ s.call \in [Calls -> CallRec] /\ s.call[c] \in CallRec
      /\ s.link \in [Links -> LinkRec] /\ s.pend \in [Links -> SUBSET EntryRec]
      /\ s.link[l] \in LinkRec /\ i \in Nat \ {0} /\ s.wire \subseteq MessageRec
      /\ r \in [Calls -> Nat] /\ s.link[l].of # None
    BY CallAssumption DEF Good, State, LinkRec, Ids1, CallRec
<1>1. /\ x.of = s.call[c].of /\ x.got = s.call[c].got /\ x.outcome = s.call[c].outcome
      /\ x.sends = s.call[c].sends + 1 /\ x.reply = "none" /\ x.pc = pc
      /\ s.call[c].sends \in Nat
    BY <1>0 DEF CallRec, CanSend
<1>2. new \in EntryRec /\ msg \in MessageRec
    <2>1. Here \in [link : 0 .. MaxLinks, id : Nat]
        BY CallAssumption DEF Here
    <2> QED
        BY <1>0, <2>1 DEF EntryRec, MessageRec
<1>3. PICK t : t = Sent(s, c, x, l)
    OBVIOUS
<1>4. /\ t.svc = s.svc /\ t.owner = s.owner /\ t.call = [s.call EXCEPT ![c] = x]
      /\ t.link = [s.link EXCEPT ![l] = [s.link[l] EXCEPT !.next = i + 1]]
      /\ t.pend = [s.pend EXCEPT ![l] = @ \cup {new}]
      /\ t.wire = s.wire \cup {msg}
    BY <1>0, <1>3 DEF Sent, State
<1>5. t \in State
    <2>1. [s.link[l] EXCEPT !.next = i + 1] \in LinkRec
        BY <1>0 DEF LinkRec, Ids1
    <2>2. t.link \in [Links -> LinkRec]
        BY <1>0, <1>4, <2>1
    <2>3. t.pend \in [Links -> SUBSET EntryRec] /\ t.wire \subseteq MessageRec
        BY <1>0, <1>2, <1>4
    <2>4. t.call \in [Calls -> CallRec]
        BY <1>0, <1>4
    <2>5. t = [svc |-> t.svc, link |-> t.link, pend |-> t.pend, wire |-> t.wire,
               call |-> t.call, owner |-> t.owner]
        BY <1>0, <1>3 DEF Sent, State
    <2> QED
        BY <1>0, <1>4, <2>2, <2>3, <2>4, <2>5 DEF State
<1>6. /\ t.call[c] = x
      /\ \A d \in Calls : d # c => t.call[d] = s.call[d]
      /\ \A d \in Calls : t.call[d].of = s.call[d].of
    BY <1>0, <1>1, <1>4
<1>7. /\ \A k \in Links : /\ t.link[k].of = s.link[k].of /\ t.link[k].peer = s.link[k].peer
                          /\ k # l => t.link[k].next = s.link[k].next
                          /\ k # l => t.pend[k] = s.pend[k]
      /\ t.link[l].next = i + 1 /\ t.pend[l] = s.pend[l] \cup {new}
    BY <1>0, <1>4 DEF LinkRec
<1>8. new.id = i /\ new.call = c /\ new.via = Here
      /\ msg.link = l /\ msg.id = i /\ msg.dir = "request" /\ msg.call = c /\ msg.res = "none"
    OBVIOUS
<1> HIDE DEF new, msg
<1>9. Linked(t)
    <2>1. \A p \in Procs : s.svc[p].cur = 0 \/ s.svc[p].cur \in Links
        BY CallAssumption DEF Good, State, Service, ServiceRec, Links
    <2> QED
        BY <1>0, <1>4, <1>7, <2>1 DEF Good, Linked
<1>10. \A k, j, d : Place(s, k, j, d) => Place(t, k, j, d)
    <2> SUFFICES ASSUME NEW k, NEW j, NEW d, Place(s, k, j, d) PROVE Place(t, k, j, d)
        OBVIOUS
    <2>1. k \in Links /\ j \in 1 .. s.link[k].next - 1 /\ s.link[k].next \in Nat
        BY <1>0 DEF Place, LinkRec, Ids1
    <2>2. j \in 1 .. t.link[k].next - 1
        BY <1>0, <1>7, <2>1
    <2>3. ASSUME NEW y \in t.pend[k], y.id = j PROVE y.call = d
        <3>1. ~(k = l /\ y = new)
            BY <1>8, <2>1, <2>3
        <3> QED
            BY <1>7, <2>3, <3>1 DEF Place
    <2> QED
        BY <2>1, <2>2, <2>3 DEF Place
<1>11. Place(t, l, i, c)
    <2>1. i \in 1 .. t.link[l].next - 1
        BY <1>0, <1>7
    <2>2. ASSUME NEW y \in t.pend[l], y.id = i PROVE y.call = c
        <3>1. y \in s.pend[l] => y.id < i
            BY DEF Good, Numbered
        <3>2. i \in Nat /\ (y \in s.pend[l] => y.id \in Nat)
            BY <1>0 DEF EntryRec
        <3> QED
            BY <1>7, <1>8, <2>2, <3>1, <3>2
    <2> QED
        BY <2>1, <2>2 DEF Place
<1>12. Numbered(t)
    <2>1. ASSUME NEW k \in Links, NEW e \in t.pend[k]
          PROVE  /\ e.id < t.link[k].next
                 /\ e.via = Here \/ Place(t, e.via.link, e.via.id, e.call)
        <3>1. CASE e \in s.pend[k]
            <4>1. e.id \in Nat /\ s.link[k].next \in Nat
                BY <1>0, <3>1 DEF EntryRec, LinkRec, Ids1
            <4>2. e.id < s.link[k].next
                BY <3>1 DEF Good, Numbered
            <4> QED
                BY <1>0, <1>7, <1>10, <3>1, <4>1, <4>2 DEF Good, Numbered
        <3>2. CASE e \notin s.pend[k]
            <4>1. k = l /\ e = new
                BY <1>7, <2>1, <3>2
            <4> QED
                BY <1>0, <1>7, <1>8, <4>1
        <3> QED
            BY <3>1, <3>2
    <2>2. ASSUME NEW m \in t.wire
          PROVE  Place(t, m.link, m.id, m.call) /\ (m.dir = "answer" <=> m.res # "none")
        BY <1>4, <1>8, <1>10, <1>11 DEF Good, Numbered
    <2> QED
        BY <2>1, <2>2 DEF Numbered
<1>13. ASSUME NEW d \in Calls
       PROVE  SendsOf(t, d) /\ (Kind[d] # "read" => Once(t, r, d))
    <2>1. SendsOf(s, d) /\ (Kind[d] # "read" => Once(s, r, d))
        BY DEF Good
    <2>2. CASE d # c
        <3>1. Requests(t, d) = Requests(s, d)
            BY <1>4, <1>8, <2>2 DEF Requests
        <3> QED
            BY <1>6, <2>1, <2>2, <3>1 DEF SendsOf, Once
    <2>3. CASE d = c
        <3>1. SendsOf(t, c)
            BY <1>1, <1>6 DEF SendsOf, CanSend
        <3>2. ASSUME Kind[c] # "read" PROVE Once(t, r, c)
            <4>1. s.call[c].sends = 0 /\ Once(s, r, c)
                BY <2>1, <2>3, <3>2 DEF CanSend
            <4>2. Requests(t, c) = {msg}
                BY <1>4, <1>8, <4>1 DEF Requests, Once
            <4> QED
                BY <1>1, <1>6, <4>1, <4>2 DEF Once
        <3> QED
            BY <2>3, <3>1, <3>2
    <2> QED
        BY <2>2, <2>3
<1>14. Answered(t, r)
    <2>1. \A m \in t.wire : m.res = "ok" => r[m.call] > 0
        BY <1>4, <1>8 DEF Good, Answered
    <2>2. \A d \in Calls : /\ t.call[d].got \in {None, d}
                           /\ t.call[d].reply = "ok" => r[d] > 0
                           /\ t.call[d].outcome = "ok" /\ Kind[d] # "read" => r[d] > 0
        <3>1. \A d \in Calls : /\ t.call[d].got = s.call[d].got
                               /\ t.call[d].outcome = s.call[d].outcome
                               /\ t.call[d].reply = s.call[d].reply \/ t.call[d].reply = "none"
            BY <1>1, <1>6
        <3> QED
            BY <3>1 DEF Good, Answered
    <2> QED
        BY <2>1, <2>2 DEF Answered
<1>15. ASSUME NEW d \in Calls, t.call[d].pc \in {"sent", "resent"}, t.call[d].reply = "none"
       PROVE  Pending(t, d)
    <2>1. CASE d = c
        BY <1>1, <1>6, <1>7, <1>8, <2>1 DEF Pending
    <2>2. CASE d # c
        <3>1. Pending(s, d)
            BY <1>6, <1>15, <2>2 DEF Good
        <3> QED
            BY <1>6, <1>7, <3>1 DEF Pending
    <2> QED
        BY <2>1, <2>2
<1>16. Good(t, r)
    BY <1>0, <1>5, <1>9, <1>12, <1>13, <1>14, <1>15 DEF Good
<1>17. Served(s) => Served(t)
    <2>1. pc \notin {"entry", "before", "retry"}
        BY DEF CanSend
    <2> QED
        BY <1>1, <1>4, <1>6, <2>1 DEF Served, Waits
<1> QED
    BY <1>3, <1>16, <1>17

LEMMA CurrentLink ==
    ASSUME NEW s, NEW r, Good(s, r), NEW p \in Procs, s.svc[p].cur # 0
    PROVE  s.svc[p].cur \in Links /\ s.link[s.svc[p].cur].of = p
    BY CallAssumption DEF Good, State, Service, ServiceRec, Linked, Links

LEMMA SendGood ==
    ASSUME NEW s, NEW r, Good(s, r), NEW c \in Calls, NEW pc, CanSend(s, c, pc)
    PROVE  Good(Send(s, c, pc), r) /\ (Served(s) => Served(Send(s, c, pc)))
<1> DEFINE l == s.svc[s.call[c].of].cur
           i == s.link[l].next
           f == [s.call[c] EXCEPT !.pc = pc, !.reply = "transport"]
           x == [s.call[c] EXCEPT !.pc = pc, !.reply = "none", !.sends = @ + 1]
<1>0. /\ s \in State /\ s.call[c] \in CallRec /\ s.call[c].of \in Procs
      /\ s.call \in [Calls -> CallRec] /\ pc \in Pc
    BY DEF Good, State, CallRec, CanSend, Pc
<1>1. CASE l = 0
    <2>1. Send(s, c, pc) = Finish(s, c, "lost") /\ "lost" \in Outcome
        BY <1>1 DEF Send, Outcome
    <2> QED
        BY <2>1, FinishGood
<1>2. CASE l # 0 /\ ~Sendable(s, l)
    <2>1. /\ f \in CallRec /\ f.of = s.call[c].of /\ f.got = s.call[c].got
          /\ f.sends = s.call[c].sends /\ f.reply = "transport" /\ f.pc = pc
          /\ f.outcome = s.call[c].outcome
        BY <1>0 DEF CallRec, Reply
    <2>2. Send(s, c, pc) = [s EXCEPT !.call[c] = f]
        <3> DEFINE g == [s.call[c] EXCEPT !.pc = pc, !.reply = "none"]
        <3>1. GoTo(s, c, pc) = [s EXCEPT !.call[c] = g]
            BY <1>0 DEF GoTo, State, CallRec
        <3>2. f = [g EXCEPT !.reply = "transport"] /\ g \in CallRec
            BY <1>0 DEF CallRec, Reply
        <3> HIDE DEF f, g
        <3>3. Send(s, c, pc) = [[s EXCEPT !.call[c] = g] EXCEPT !.call[c].reply = "transport"]
            BY <1>2, <3>1 DEF Send
        <3> QED
            BY <1>0, <3>2, <3>3 DEF State
    <2> HIDE DEF f
    <2>3. f.outcome = "ok" /\ Kind[c] # "read" => r[c] > 0
        BY Zenon, <2>1 DEF Good, Answered
    <2>4. f.sends \in Nat
        BY <2>1 DEF CallRec
    <2> QED
        BY <2>1, <2>2, <2>3, <2>4, MovedGood DEF CanSend
<1>3. CASE l # 0 /\ Sendable(s, l)
    <2>1. l \in Links /\ s.link[l].of = s.call[c].of
        BY Zenon, <1>0, <1>3, CurrentLink
    <2>2. x \in CallRec
        <3>1. s.call[c].sends + 1 \in Nat /\ "none" \in Reply
            BY <1>0 DEF CallRec, Reply
        <3> QED
            BY Zenon, <1>0, <3>1 DEF CallRec
    <2>3. Send(s, c, pc) = Sent(s, c, x, l)
        <3> DEFINE g == [s.call[c] EXCEPT !.pc = pc, !.reply = "none"]
        <3>1. GoTo(s, c, pc) = [s EXCEPT !.call[c] = g]
            BY <1>0 DEF GoTo, State, CallRec
        <3>2. x = [g EXCEPT !.sends = @ + 1] /\ g \in CallRec
            BY <1>0 DEF CallRec, Reply
        <3>3. PICK t : t = GoTo(s, c, pc)
            OBVIOUS
        <3> HIDE DEF x, g
        <3>4. /\ t \in State /\ t.call = [s.call EXCEPT ![c] = g] /\ t.link = s.link
              /\ t.pend = s.pend /\ t.wire = s.wire /\ t.svc = s.svc /\ t.owner = s.owner
            BY SMTT(30), <1>0, <3>1, <3>2, <3>3 DEF State
        <3>5. Send(s, c, pc) =
                [t EXCEPT
                   !.call[c].sends = @ + 1,
                   !.link[l].next = @ + 1,
                   !.pend[l] = @ \cup {[id |-> i, call |-> c, via |-> Here]},
                   !.wire = @ \cup {[link |-> l, id |-> i, dir |-> "request",
                                     call |-> c, res |-> "none"]}]
            BY SMTT(30), <1>3, <3>3 DEF Send
        <3>6. PICK u : u = Send(s, c, pc)
            OBVIOUS
        <3>7. PICK new, msg : /\ new = [id |-> i, call |-> c, via |-> Here]
                              /\ msg = [link |-> l, id |-> i, dir |-> "request",
                                        call |-> c, res |-> "none"]
            BY Zenon
        <3>8. u = [t EXCEPT !.call[c].sends = @ + 1, !.link[l].next = @ + 1,
                            !.pend[l] = @ \cup {new}, !.wire = @ \cup {msg}]
            BY Zenon, <3>5, <3>6, <3>7
        <3>9. /\ u.svc = t.svc /\ u.owner = t.owner
              /\ u.call = [t.call EXCEPT ![c].sends = @ + 1]
              /\ u.link = [t.link EXCEPT ![l].next = @ + 1]
              /\ u.pend = [t.pend EXCEPT ![l] = @ \cup {new}]
              /\ u.wire = t.wire \cup {msg}
            BY Zenon, <3>4, <3>8 DEF State
        <3>10. u = [svc |-> u.svc, owner |-> u.owner, call |-> u.call,
                    link |-> u.link, pend |-> u.pend, wire |-> u.wire]
            BY Zenon, <3>4, <3>8 DEF State
        <3>11. [[s.call EXCEPT ![c] = g] EXCEPT ![c].sends = @ + 1] = [s.call EXCEPT ![c] = x]
            <4>1. [s.call EXCEPT ![c] = g][c] = g
                BY <1>0
            <4>2. x = [g EXCEPT !.sends = @ + 1]
                BY <3>2
            <4> QED
                BY <1>0, <4>1, <4>2
        <3>12. u = [svc |-> s.svc, owner |-> s.owner, call |-> [s.call EXCEPT ![c] = x],
                    link |-> [s.link EXCEPT ![l].next = @ + 1],
                    pend |-> [s.pend EXCEPT ![l] = @ \cup {new}],
                    wire |-> s.wire \cup {msg}]
            BY Zenon, <3>4, <3>9, <3>10, <3>11
        <3> QED
            BY Zenon, <3>6, <3>7, <3>12 DEF Sent
    <2> QED
        BY Zenon, <2>1, <2>2, <2>3, SentGood
<1> QED
    BY <1>1, <1>2, <1>3

LEMMA RemoteGood ==
    ASSUME NEW s, NEW r, Good(s, r), NEW c \in Calls, s.call[c].sends = 0, Served(s)
    PROVE  Good(Remote(s, c), r) /\ Served(Remote(s, c))
<1> DEFINE p == s.call[c].of
<1>0. p \in Procs
    BY DEF Good, State, CallRec
<1>1. /\ {"app", "lost"} \subseteq Outcome /\ CanSend(s, c, "sent")
      /\ (Kind[c] = "read" => CanWait(s, c, "before"))
    BY DEF Outcome, CanSend, CanWait
<1>2. CASE s.svc[p].cur = 0
    BY <1>1, <1>2, FinishGood DEF Remote
<1>3. CASE s.svc[p].cur # 0 /\ (Healthy(s, s.svc[p].cur) \/ ~s.svc[p].provider)
    BY <1>1, <1>3, SendGood DEF Remote
<1>4. CASE /\ s.svc[p].cur # 0 /\ ~(Healthy(s, s.svc[p].cur) \/ ~s.svc[p].provider)
           /\ Kind[c] = "read"
    <2>1. Remote(s, c) = StartFailover(GoTo(s, c, "before"), p)
        BY <1>4 DEF Remote
    <2>2. Good(GoTo(s, c, "before"), r) /\ ServedBut(GoTo(s, c, "before"), p)
        BY <1>1, <1>4, GoToGood
    <2> QED
        BY <1>0, <2>1, <2>2, StartFailoverGood
<1>5. CASE /\ s.svc[p].cur # 0 /\ ~(Healthy(s, s.svc[p].cur) \/ ~s.svc[p].provider)
           /\ Kind[c] # "read"
    <2>1. Remote(s, c) = Finish(StartFailover(s, p), c, "lost")
        BY <1>5 DEF Remote
    <2>2. Good(StartFailover(s, p), r) /\ Served(StartFailover(s, p))
        BY <1>0, StartFailoverGood, ServedFromOthers
    <2> QED
        BY <1>1, <2>1, <2>2, FinishGood
<1> QED
    BY <1>2, <1>3, <1>4, <1>5

LEMMA DispatchGood ==
    ASSUME NEW s, NEW r, Good(s, r), NEW c \in Calls, s.call[c].sends = 0, Served(s)
    PROVE  Good(Dispatch(s, c), r) /\ Served(Dispatch(s, c))
<1>1. \/ Dispatch(s, c) = Finish(s, c, "app") \/ Dispatch(s, c) = Remote(s, c)
      \/ (Kind[c] = "read" /\ Dispatch(s, c) = GoTo(s, c, "local"))
    BY DEF Dispatch
<1>2. "app" \in Outcome /\ (Kind[c] = "read" => CanWait(s, c, "local"))
    BY DEF Outcome, CanWait
<1> QED
    BY <1>1, <1>2, FinishGood, RemoteGood, GoToGood

LEMMA FailedGood ==
    ASSUME NEW s, NEW r, Good(s, r), NEW c \in Calls, s.call[c].pc = "sent", Served(s)
    PROVE  Good(Failed(s, c), r) /\ Served(Failed(s, c))
<1> DEFINE p == s.call[c].of
<1>0. p \in Procs /\ {"transport", "lost"} \subseteq Outcome
    BY DEF Good, State, CallRec, Outcome
<1>1. Kind[c] = "read" => CanWait(s, c, "retry")
    BY DEF Good, SendsOf, CanWait
<1>2. CASE ~s.svc[p].provider
    <2>1. Failed(s, c) \in {Finish(s, c, "transport"), Finish(s, c, "lost")}
        BY <1>2 DEF Failed
    <2> QED
        BY <1>0, <2>1, FinishGood
<1>3. CASE s.svc[p].provider /\ Kind[c] = "read"
    <2>1. Failed(s, c) = StartFailover(GoTo(s, c, "retry"), p)
        BY <1>3 DEF Failed
    <2>2. Good(GoTo(s, c, "retry"), r) /\ ServedBut(GoTo(s, c, "retry"), p)
        BY <1>1, <1>3, GoToGood
    <2> QED
        BY <1>0, <2>1, <2>2, StartFailoverGood
<1>4. CASE s.svc[p].provider /\ Kind[c] # "read"
    <2>1. Failed(s, c) = Finish(StartFailover(s, p), c, "lost")
        BY <1>4 DEF Failed
    <2>2. Good(StartFailover(s, p), r) /\ Served(StartFailover(s, p))
        BY <1>0, StartFailoverGood, ServedFromOthers
    <2> QED
        BY <1>0, <2>1, <2>2, FinishGood
<1> QED
    BY <1>2, <1>3, <1>4

LEMMA AfterFailoverGood ==
    ASSUME NEW s, NEW r, Good(s, r), NEW c \in Calls,
           s.call[c].pc \in {"entry", "before", "retry"}, Served(s)
    PROVE  Good(AfterFailover(s, c), r) /\ Served(AfterFailover(s, c))
<1>0. SendsOf(s, c)
    BY DEF Good
<1>1. CASE s.call[c].pc = "entry"
    BY <1>0, <1>1, DispatchGood DEF AfterFailover, SendsOf
<1>2. CASE s.call[c].pc \in {"before", "retry"}
    <2>1. \/ AfterFailover(s, c) = Finish(s, c, "lost")
          \/ s.call[c].pc = "before" /\ AfterFailover(s, c) = Send(s, c, "sent")
          \/ s.call[c].pc = "retry" /\ AfterFailover(s, c) = Send(s, c, "resent")
        BY <1>2 DEF AfterFailover
    <2>2. /\ s.call[c].pc = "before" => CanSend(s, c, "sent")
          /\ s.call[c].pc = "retry" => CanSend(s, c, "resent")
        BY <1>0 DEF SendsOf, CanSend
    <2>3. "lost" \in Outcome
        BY DEF Outcome
    <2> QED
        BY <1>2, <2>1, <2>2, <2>3, FinishGood, SendGood
<1> QED
    BY <1>1, <1>2

-----------------------------------------------------------------------------
(* The steps                                                               *)

CallsInv == Good(Now, ran) /\ Served(Now)

\* Losing messages does no harm.
LEMMA LosingGood ==
    ASSUME NEW s, NEW r, Good(s, r), NEW W \in SUBSET s.wire
    PROVE  /\ Good([s EXCEPT !.wire = W], r)
           /\ Served(s) => Served([s EXCEPT !.wire = W])
<1>0. PICK t : t = [s EXCEPT !.wire = W]
    OBVIOUS
<1>1. /\ t \in State /\ t.svc = s.svc /\ t.link = s.link /\ t.pend = s.pend
      /\ t.call = s.call /\ t.owner = s.owner /\ t.wire = W
    BY <1>0 DEF Good, State
<1>2. Linked(t)
    BY <1>1 DEF Good, Linked
<1>3. Numbered(t)
    BY <1>1 DEF Good, Numbered, Place
<1>4. ASSUME NEW c \in Calls
      PROVE  SendsOf(t, c) /\ (Kind[c] # "read" => Once(t, r, c))
    <2>1. Requests(t, c) \subseteq Requests(s, c)
        BY <1>1 DEF Requests
    <2> QED
        BY <1>1, <2>1 DEF Good, SendsOf, Once
<1>5. Answered(t, r)
    BY <1>1 DEF Good, Answered
<1>6. \A c \in Calls : t.call[c].pc \in {"sent", "resent"} /\ t.call[c].reply = "none"
                       => Pending(t, c)
    BY <1>1 DEF Good, Pending
<1>7. Good(t, r)
    BY <1>1, <1>2, <1>3, <1>4, <1>5, <1>6 DEF Good
<1> QED
    BY <1>0, <1>1, <1>7 DEF Served, Waits

LEMMA BecomeGood ==
    ASSUME NEW s, Good(s, ran), Served(s), Become(s), ran' = ran
    PROVE  CallsInv'
<1>1. PICK W : W = {m \in s.wire : ~Lost(s, m)}
    OBVIOUS
<1>2. PICK t : t = [s EXCEPT !.wire = W]
    OBVIOUS
<1>3. Good(t, ran) /\ Served(t)
    BY <1>1, <1>2, LosingGood
<1>4. t = [svc |-> svc', link |-> link', pend |-> pend', wire |-> wire',
           call |-> call', owner |-> owner']
    <2>1. s \in State
        BY DEF Good
    <2>2. /\ t.svc = svc' /\ t.link = link' /\ t.pend = pend' /\ t.wire = wire'
          /\ t.call = call' /\ t.owner = owner' /\ t \in State
        BY <1>1, <1>2, <1>3, <2>1 DEF Become, State, Good
    <2> QED
        BY <2>2 DEF State
<1>5. Now' = t
    BY <1>4 DEF Now
<1> QED
    BY <1>3, <1>5 DEF CallsInv

LEMMA NowGood ==
    ASSUME CallsInv
    PROVE  /\ Now \in State /\ Good(Now, ran) /\ Served(Now)
           /\ Now.svc = svc /\ Now.link = link /\ Now.pend = pend /\ Now.wire = wire
           /\ Now.call = call /\ Now.owner = owner
    BY DEF CallsInv, Good, Now

LEMMA InvokeGood ==
    ASSUME CallsInv, NEW c \in Calls, Invoke(c)
    PROVE  CallsInv'
<1>0. PICK s : s = Now
    OBVIOUS
<1>1. Good(s, ran) /\ Served(s) /\ s.svc = svc /\ s.call = call
    BY <1>0, NowGood
<1>2. s.call[c].sends = 0 /\ "app" \in Outcome \cup Reply /\ CanWait(s, c, "entry")
    BY <1>1 DEF Invoke, Good, SendsOf, CanWait, Outcome
<1>3. CASE Become(Finish(s, c, "app"))
    BY <1>1, <1>2, <1>3, FinishGood, BecomeGood DEF Invoke
<1>4. CASE svc[call[c].of].failover # "idle" /\ Become(GoTo(s, c, "entry"))
    BY <1>1, <1>2, <1>4, GoToGood, BecomeGood DEF Invoke
<1>5. CASE Become(Dispatch(s, c))
    BY <1>1, <1>2, <1>5, DispatchGood, BecomeGood DEF Invoke
<1> QED
    BY <1>0, <1>3, <1>4, <1>5 DEF Invoke

LEMMA LocalReadGood ==
    ASSUME CallsInv, NEW c \in Calls, LocalRead(c)
    PROVE  CallsInv'
<1>0. PICK s : s = Now
    OBVIOUS
<1>1. Good(s, ran) /\ Served(s) /\ s.svc = svc /\ s.call = call
    BY <1>0, NowGood
<1>2. s.call[c].sends = 0 /\ Kind[c] = "read" /\ "ok" \in Outcome \cup Reply
    BY <1>1 DEF LocalRead, Good, SendsOf, Outcome
<1>3. CASE Become(Finish(s, c, "ok"))
    BY <1>1, <1>2, <1>3, FinishGood, BecomeGood DEF LocalRead
<1>4. CASE Become(Remote(s, c))
    BY <1>1, <1>2, <1>4, RemoteGood, BecomeGood DEF LocalRead
<1> QED
    BY <1>0, <1>3, <1>4 DEF LocalRead

LEMMA ResumeGood ==
    ASSUME CallsInv, NEW c \in Calls, Resume(c)
    PROVE  CallsInv'
<1>0. PICK s : s = Now
    OBVIOUS
<1>1. Good(s, ran) /\ Served(s) /\ s.call = call
    BY <1>0, NowGood
<1> QED
    BY <1>0, <1>1, AfterFailoverGood, BecomeGood DEF Resume

LEMMA ReturnsGood ==
    ASSUME CallsInv, NEW c \in Calls, Returns(c)
    PROVE  CallsInv'
<1>0. PICK s : s = Now
    OBVIOUS
<1>1. Good(s, ran) /\ Served(s) /\ s.call = call
    BY <1>0, NowGood
<1>2. s.call[c].reply \in Reply /\ (s.call[c].reply = "ok" => ran[c] > 0)
    BY <1>1 DEF Good, State, CallRec, Answered
<1>3. CASE s.call[c].pc = "sent" /\ Become(Failed(s, c))
    BY <1>1, <1>3, FailedGood, BecomeGood DEF Returns
<1>4. CASE Become(Finish(s, c, s.call[c].reply))
    BY <1>1, <1>2, <1>4, FinishGood, BecomeGood DEF Returns
<1> QED
    BY <1>0, <1>1, <1>3, <1>4 DEF Returns

-----------------------------------------------------------------------------
(* Messages                                                                *)

\* A pending call is taken out of its table: it was forwarded, or it has a reply.
LEMMA TakenGood ==
    ASSUME NEW s, NEW r, Good(s, r), NEW l \in Links, NEW e \in s.pend[l],
           e.via = Here => s.call[e.call].reply # "none"
    PROVE  /\ Good([s EXCEPT !.pend[l] = @ \ {e}], r)
           /\ Served(s) => Served([s EXCEPT !.pend[l] = @ \ {e}])
<1>0. PICK t : t = [s EXCEPT !.pend[l] = @ \ {e}]
    OBVIOUS
<1>1. /\ t \in State /\ t.svc = s.svc /\ t.link = s.link /\ t.wire = s.wire
      /\ t.call = s.call /\ t.owner = s.owner /\ t.pend = [s.pend EXCEPT ![l] = @ \ {e}]
      /\ s.pend \in [Links -> SUBSET EntryRec]
    BY <1>0 DEF Good, State
<1>2. /\ \A k \in Links : t.pend[k] \subseteq s.pend[k] /\ (k # l => t.pend[k] = s.pend[k])
      /\ t.pend[l] = s.pend[l] \ {e}
    BY <1>1
<1>3. Linked(t)
    BY <1>1 DEF Good, Linked
<1>4. \A k, i, c : Place(s, k, i, c) => Place(t, k, i, c)
    BY <1>1, <1>2 DEF Place
<1>5. Numbered(t)
    BY <1>1, <1>2, <1>4 DEF Good, Numbered
<1>6. \A c \in Calls : SendsOf(t, c) /\ (Kind[c] # "read" => Once(t, r, c))
    BY <1>1 DEF Good, SendsOf, Once, Requests
<1>7. Answered(t, r)
    BY <1>1 DEF Good, Answered
<1>8. ASSUME NEW c \in Calls, t.call[c].pc \in {"sent", "resent"}, t.call[c].reply = "none"
      PROVE  Pending(t, c)
    <2>1. PICK k \in Links : /\ s.link[k].of = s.call[c].of
                             /\ \E x \in s.pend[k] : x.call = c /\ x.via = Here
        BY <1>1, <1>8 DEF Good, Pending
    <2>2. PICK x \in s.pend[k] : x.call = c /\ x.via = Here
        BY <2>1
    <2>3. x \in t.pend[k]
        BY <1>1, <1>2, <1>8, <2>2
    <2> QED
        BY <1>1, <2>1, <2>2, <2>3 DEF Pending
<1>9. Good(t, r)
    BY <1>1, <1>3, <1>5, <1>6, <1>7, <1>8 DEF Good
<1> QED
    BY <1>0, <1>1, <1>9 DEF Served, Waits

\* An answer to a call at its place.
LEMMA AnsweringGood ==
    ASSUME NEW s, NEW r, Good(s, r), NEW m \in MessageRec, m.dir = "answer", m.res # "none",
           Place(s, m.link, m.id, m.call), m.res = "ok" => r[m.call] > 0
    PROVE  /\ Good([s EXCEPT !.wire = @ \cup {m}], r)
           /\ Served(s) => Served([s EXCEPT !.wire = @ \cup {m}])
<1>0. PICK t : t = [s EXCEPT !.wire = @ \cup {m}]
    OBVIOUS
<1>1. /\ t \in State /\ t.svc = s.svc /\ t.link = s.link /\ t.pend = s.pend
      /\ t.call = s.call /\ t.owner = s.owner /\ t.wire = s.wire \cup {m}
    BY <1>0 DEF Good, State
<1>2. Linked(t)
    BY <1>1 DEF Good, Linked
<1>3. \A k, i, c : Place(s, k, i, c) => Place(t, k, i, c)
    BY <1>1 DEF Place
<1>4. Numbered(t)
    BY <1>1, <1>3 DEF Good, Numbered
<1>5. ASSUME NEW c \in Calls
      PROVE  SendsOf(t, c) /\ (Kind[c] # "read" => Once(t, r, c))
    <2>1. Requests(t, c) = Requests(s, c)
        BY <1>1 DEF Requests
    <2> QED
        BY <1>1, <2>1 DEF Good, SendsOf, Once
<1>6. Answered(t, r)
    BY <1>1 DEF Good, Answered
<1>7. \A c \in Calls : t.call[c].pc \in {"sent", "resent"} /\ t.call[c].reply = "none"
                       => Pending(t, c)
    BY <1>1 DEF Good, Pending
<1>8. Good(t, r)
    BY <1>1, <1>2, <1>4, <1>5, <1>6, <1>7 DEF Good
<1> QED
    BY <1>0, <1>1, <1>8 DEF Served, Waits

\* A call gets a reply that it may have.
LEMMA HeardGood ==
    ASSUME NEW s, NEW r, Good(s, r), NEW c \in Calls, NEW x \in CallRec,
           x.of = s.call[c].of, x.pc = s.call[c].pc, x.sends = s.call[c].sends,
           x.outcome = s.call[c].outcome, x.got \in {None, c},
           x.reply # "none", x.reply = "ok" => r[c] > 0
    PROVE  /\ Good([s EXCEPT !.call[c] = x], r)
           /\ Served(s) => Served([s EXCEPT !.call[c] = x])
<1>0. PICK t : t = [s EXCEPT !.call[c] = x]
    OBVIOUS
<1>1. /\ t \in State /\ t.svc = s.svc /\ t.link = s.link /\ t.pend = s.pend /\ t.wire = s.wire
      /\ t.owner = s.owner /\ t.call = [s.call EXCEPT ![c] = x]
      /\ s.call \in [Calls -> CallRec]
    BY <1>0 DEF Good, State
<1>2. /\ t.call[c] = x
      /\ \A d \in Calls : d # c => t.call[d] = s.call[d]
    BY <1>1
<1>3. Linked(t)
    BY <1>1 DEF Good, Linked
<1>4. Numbered(t)
    BY <1>1 DEF Good, Numbered, Place
<1>5. ASSUME NEW d \in Calls
      PROVE  SendsOf(t, d) /\ (Kind[d] # "read" => Once(t, r, d))
    <2>1. t.call[d].pc = s.call[d].pc /\ t.call[d].sends = s.call[d].sends
        BY <1>2
    <2> QED
        BY <1>1, <2>1 DEF Good, SendsOf, Once, Requests
<1>6. Answered(t, r)
    BY <1>1, <1>2 DEF Good, Answered
<1>7. ASSUME NEW d \in Calls, t.call[d].pc \in {"sent", "resent"}, t.call[d].reply = "none"
      PROVE  Pending(t, d)
    <2>1. d # c
        BY <1>2, <1>7
    <2> QED
        BY <1>1, <1>2, <1>7, <2>1 DEF Good, Pending
<1>8. Good(t, r)
    BY <1>1, <1>3, <1>4, <1>5, <1>6, <1>7 DEF Good
<1>9. Served(s) => Served(t)
    BY <1>1, <1>2 DEF Served, Waits
<1> QED
    BY <1>0, <1>8, <1>9

\* A worker runs a request: a write has not run before, and is no request any more.
WorkedOff(s, m, a) == [s EXCEPT !.wire = (@ \ {m}) \cup {a}]

LEMMA WorkedOffGood ==
    ASSUME NEW s, NEW r, Good(s, r), NEW m \in s.wire, m.dir = "request",
           NEW a \in MessageRec, a.link = m.link, a.id = m.id, a.call = m.call,
           a.dir = "answer", a.res # "none"
    PROVE  /\ Good(WorkedOff(s, m, a), [r EXCEPT ![m.call] = @ + 1])
           /\ Served(s) => Served(WorkedOff(s, m, a))
<1>0. PICK t, q : t = WorkedOff(s, m, a) /\ q = [r EXCEPT ![m.call] = @ + 1]
    OBVIOUS
<1>1. /\ t \in State /\ t.svc = s.svc /\ t.link = s.link /\ t.pend = s.pend
      /\ t.call = s.call /\ t.owner = s.owner /\ t.wire = (s.wire \ {m}) \cup {a}
    BY <1>0 DEF Good, State, WorkedOff
<1>2. m \in MessageRec /\ m.call \in Calls /\ r \in [Calls -> Nat] /\ q \in [Calls -> Nat]
    BY <1>0 DEF Good, State, MessageRec
<1>3. /\ q[m.call] = r[m.call] + 1
      /\ \A c \in Calls : c # m.call => q[c] = r[c]
      /\ \A c \in Calls : r[c] > 0 => q[c] > 0
      /\ q[m.call] > 0
    BY <1>0, <1>2
<1>4. Linked(t)
    BY <1>1 DEF Good, Linked
<1>5. \A k, i, c : Place(s, k, i, c) => Place(t, k, i, c)
    BY <1>1 DEF Place
<1>6. Numbered(t)
    BY <1>1, <1>5 DEF Good, Numbered
<1>7. ASSUME NEW c \in Calls
      PROVE  SendsOf(t, c) /\ (Kind[c] # "read" => Once(t, q, c))
    <2>1. SendsOf(s, c) /\ (Kind[c] # "read" => Once(s, r, c))
        BY DEF Good
    <2>2. CASE c # m.call
        <3>1. Requests(t, c) = Requests(s, c) /\ q[c] = r[c]
            BY <1>1, <1>3, <2>2 DEF Requests
        <3> QED
            BY <1>1, <2>1, <3>1 DEF SendsOf, Once
    <2>3. CASE c = m.call
        <3>1. ASSUME Kind[c] # "read" PROVE Once(t, q, c)
            <4>1. m \in Requests(s, c)
                BY <2>3 DEF Requests
            <4>2. r[c] = 0 /\ s.call[c].sends # 0
                BY <1>2, <2>1, <3>1, <4>1 DEF Once
            <4>3. Requests(t, c) = {}
                BY <1>1, <2>1, <3>1, <4>1 DEF Requests, Once
            <4>4. q[c] = 1
                BY <1>3, <2>3, <4>2
            <4> QED
                BY <1>1, <4>2, <4>3, <4>4 DEF Once
        <3> QED
            BY <1>1, <2>1, <3>1 DEF SendsOf
    <2> QED
        BY <2>2, <2>3
<1>8. Answered(t, q)
    <2>1. \A n \in t.wire : n.res = "ok" => q[n.call] > 0
        <3>1. \A n \in s.wire : n.call \in Calls
            BY DEF Good, State, MessageRec
        <3> QED
            BY <1>1, <1>3, <3>1 DEF Good, Answered
    <2>2. \A c \in Calls : /\ t.call[c].got \in {None, c}
                           /\ t.call[c].reply = "ok" => q[c] > 0
                           /\ t.call[c].outcome = "ok" /\ Kind[c] # "read" => q[c] > 0
        BY <1>1, <1>3 DEF Good, Answered
    <2> QED
        BY <2>1, <2>2 DEF Answered
<1>9. \A c \in Calls : t.call[c].pc \in {"sent", "resent"} /\ t.call[c].reply = "none"
                       => Pending(t, c)
    BY <1>1 DEF Good, Pending
<1>10. Good(t, q)
    BY <1>1, <1>2, <1>4, <1>6, <1>7, <1>8, <1>9 DEF Good
<1> QED
    BY <1>0, <1>1, <1>10 DEF Served, Waits

LEMMA WorkGood ==
    ASSUME CallsInv, NEW m \in wire, Work(m)
    PROVE  CallsInv'
<1>0. PICK s : s = Now
    OBVIOUS
<1>1. Good(s, ran) /\ Served(s) /\ s \in State /\ s.wire = wire
    BY <1>0, NowGood
<1>2. PICK res \in {"ok", "app"} :
          wire' = (wire \ {m}) \cup {Answer([link |-> m.link, id |-> m.id], m.call, res)}
    BY DEF Work
<1>3. PICK a : a = Answer([link |-> m.link, id |-> m.id], m.call, res)
    OBVIOUS
<1>4. m \in MessageRec
    BY <1>1 DEF State
<1>5. /\ a \in MessageRec /\ a.link = m.link /\ a.id = m.id /\ a.call = m.call
      /\ a.dir = "answer" /\ a.res # "none"
    BY <1>3, <1>4 DEF Answer, MessageRec
<1>6. Now' = WorkedOff(s, m, a)
    BY <1>0, <1>2, <1>3 DEF Now, WorkedOff, Work
<1>7. m.dir = "request" /\ ran' = [ran EXCEPT ![m.call] = @ + 1]
    BY DEF Work
<1>8. Good(WorkedOff(s, m, a), ran') /\ Served(WorkedOff(s, m, a))
    BY <1>1, <1>5, <1>7, WorkedOffGood
<1> QED
    BY <1>6, <1>8 DEF CallsInv

\* A request goes on over the link k, and its answer will come back to where it was.
PassedOn(s, m, k) ==
    LET i == s.link[k].next IN
    [svc |-> s.svc, owner |-> s.owner, call |-> s.call,
     link |-> [s.link EXCEPT ![k].next = @ + 1],
     pend |-> [s.pend EXCEPT ![k] = @ \cup {[id |-> i, call |-> m.call,
                                             via |-> [link |-> m.link, id |-> m.id]]}],
     wire |-> (s.wire \ {m}) \cup {[link |-> k, id |-> i, dir |-> "request",
                                    call |-> m.call, res |-> "none"]}]

LEMMA PassedOnGood ==
    ASSUME NEW s, NEW r, Good(s, r), NEW m \in s.wire, m.dir = "request",
           NEW k \in Links, s.link[k].of # None
    PROVE  Good(PassedOn(s, m, k), r) /\ (Served(s) => Served(PassedOn(s, m, k)))
<1> DEFINE i == s.link[k].next
<1>v. PICK via : via = [link |-> m.link, id |-> m.id]
    OBVIOUS
<1>n. PICK new, msg : /\ new = [id |-> i, call |-> m.call, via |-> via]
                      /\ msg = [link |-> k, id |-> i, dir |-> "request",
                                call |-> m.call, res |-> "none"]
    OBVIOUS
<1>0. /\ s \in State /\ s.link \in [Links -> LinkRec] /\ s.pend \in [Links -> SUBSET EntryRec]
      /\ s.link[k] \in LinkRec /\ i \in Nat \ {0} /\ s.wire \subseteq MessageRec
      /\ m \in MessageRec /\ m.call \in Calls /\ Place(s, m.link, m.id, m.call)
    BY DEF Good, State, LinkRec, Ids1, MessageRec, Numbered
<1>2. new \in EntryRec /\ msg \in MessageRec /\ via # Here
    <2>1. m.link \in Links /\ m.id \in Nat
        BY <1>0 DEF MessageRec
    <2>2. via \in [link : 0 .. MaxLinks, id : Nat] /\ via.link # 0
        BY <1>v, <2>1, CallAssumption DEF Links
    <2> QED
        BY <1>0, <1>n, <2>2 DEF EntryRec, MessageRec, Here
<1>3. PICK t : t = PassedOn(s, m, k)
    OBVIOUS
<1>4. /\ t.svc = s.svc /\ t.owner = s.owner /\ t.call = s.call
      /\ t.link = [s.link EXCEPT ![k] = [s.link[k] EXCEPT !.next = i + 1]]
      /\ t.pend = [s.pend EXCEPT ![k] = @ \cup {new}]
      /\ t.wire = (s.wire \ {m}) \cup {msg}
    BY <1>0, <1>v, <1>n, <1>3 DEF PassedOn, State
<1>5. t \in State
    <2>1. [s.link[k] EXCEPT !.next = i + 1] \in LinkRec
        BY <1>0 DEF LinkRec, Ids1
    <2>2. t.link \in [Links -> LinkRec]
        BY <1>0, <1>4, <2>1
    <2>3. t.pend \in [Links -> SUBSET EntryRec] /\ t.wire \subseteq MessageRec
        BY <1>0, <1>2, <1>4
    <2>5. t = [svc |-> t.svc, link |-> t.link, pend |-> t.pend, wire |-> t.wire,
               call |-> t.call, owner |-> t.owner]
        BY <1>0, <1>3 DEF PassedOn, State
    <2> QED
        BY <1>0, <1>4, <2>2, <2>3, <2>5 DEF State
<1>7. /\ \A j \in Links : /\ t.link[j].of = s.link[j].of /\ t.link[j].peer = s.link[j].peer
                          /\ j # k => t.link[j].next = s.link[j].next
                          /\ j # k => t.pend[j] = s.pend[j]
      /\ t.link[k].next = i + 1 /\ t.pend[k] = s.pend[k] \cup {new}
    BY <1>0, <1>4 DEF LinkRec
<1>8. /\ new.id = i /\ new.call = m.call /\ new.via = via
      /\ via.link = m.link /\ via.id = m.id
      /\ msg.link = k /\ msg.id = i /\ msg.dir = "request" /\ msg.call = m.call
      /\ msg.res = "none"
    BY <1>v, <1>n
<1>9. Linked(t)
    <2>1. \A p \in Procs : s.svc[p].cur = 0 \/ s.svc[p].cur \in Links
        BY CallAssumption DEF Good, State, Service, ServiceRec, Links
    <2> QED
        BY <1>0, <1>4, <1>7, <2>1 DEF Good, Linked
<1>10. \A j, n, d : Place(s, j, n, d) => Place(t, j, n, d)
    <2> SUFFICES ASSUME NEW j, NEW n, NEW d, Place(s, j, n, d) PROVE Place(t, j, n, d)
        OBVIOUS
    <2>1. j \in Links /\ n \in 1 .. s.link[j].next - 1 /\ s.link[j].next \in Nat
        BY <1>0 DEF Place, LinkRec, Ids1
    <2>2. n \in 1 .. t.link[j].next - 1
        BY <1>0, <1>7, <2>1
    <2>3. ASSUME NEW y \in t.pend[j], y.id = n PROVE y.call = d
        <3>1. ~(j = k /\ y = new)
            BY <1>8, <2>1, <2>3
        <3> QED
            BY <1>7, <2>3, <3>1 DEF Place
    <2> QED
        BY <2>1, <2>2, <2>3 DEF Place
<1>11. Place(t, k, i, m.call)
    <2>1. i \in 1 .. t.link[k].next - 1
        BY <1>0, <1>7
    <2>2. ASSUME NEW y \in t.pend[k], y.id = i PROVE y.call = m.call
        <3>1. y \in s.pend[k] => y.id < i
            BY DEF Good, Numbered
        <3>2. i \in Nat /\ (y \in s.pend[k] => y.id \in Nat)
            BY <1>0 DEF EntryRec
        <3> QED
            BY <1>7, <1>8, <2>2, <3>1, <3>2
    <2> QED
        BY <2>1, <2>2 DEF Place
<1>12. Numbered(t)
    <2>1. ASSUME NEW j \in Links, NEW e \in t.pend[j]
          PROVE  /\ e.id < t.link[j].next
                 /\ e.via = Here \/ Place(t, e.via.link, e.via.id, e.call)
        <3>1. CASE e \in s.pend[j]
            <4>1. e.id \in Nat /\ s.link[j].next \in Nat
                BY <1>0, <3>1 DEF EntryRec, LinkRec, Ids1
            <4>2. e.id < s.link[j].next
                BY <3>1 DEF Good, Numbered
            <4> QED
                BY <1>0, <1>7, <1>10, <3>1, <4>1, <4>2 DEF Good, Numbered
        <3>2. CASE e \notin s.pend[j]
            <4>1. j = k /\ e = new
                BY <1>7, <2>1, <3>2
            <4>2. Place(t, m.link, m.id, m.call)
                BY <1>0, <1>10
            <4> QED
                BY <1>0, <1>7, <1>8, <4>1, <4>2
        <3> QED
            BY <3>1, <3>2
    <2>2. ASSUME NEW n \in t.wire
          PROVE  Place(t, n.link, n.id, n.call) /\ (n.dir = "answer" <=> n.res # "none")
        BY <1>4, <1>8, <1>10, <1>11 DEF Good, Numbered
    <2> QED
        BY <2>1, <2>2 DEF Numbered
<1>13. ASSUME NEW d \in Calls
       PROVE  SendsOf(t, d) /\ (Kind[d] # "read" => Once(t, r, d))
    <2>1. SendsOf(s, d) /\ (Kind[d] # "read" => Once(s, r, d))
        BY DEF Good
    <2>2. CASE d # m.call
        <3>1. Requests(t, d) = Requests(s, d)
            BY <1>4, <1>8, <2>2 DEF Requests
        <3> QED
            BY <1>4, <2>1, <2>2, <3>1 DEF SendsOf, Once
    <2>3. CASE d = m.call
        <3>1. m \in Requests(s, d)
            BY <2>3 DEF Requests
        <3>2. ASSUME Kind[d] # "read" PROVE Once(t, r, d)
            <4>1. Requests(t, d) = {msg}
                BY <1>4, <1>8, <2>1, <2>3, <3>1, <3>2 DEF Requests, Once
            <4> QED
                BY <1>4, <2>1, <3>1, <3>2, <4>1 DEF Once
        <3> QED
            BY <1>4, <2>1, <3>2 DEF SendsOf
    <2> QED
        BY <2>2, <2>3
<1>14. Answered(t, r)
    BY <1>4, <1>8 DEF Good, Answered
<1>15. ASSUME NEW d \in Calls, t.call[d].pc \in {"sent", "resent"}, t.call[d].reply = "none"
       PROVE  Pending(t, d)
    <2>1. Pending(s, d)
        BY <1>4, <1>15 DEF Good
    <2> QED
        BY <1>4, <1>7, <2>1 DEF Pending
<1>16. Good(t, r)
    <2>1. r \in [Calls -> Nat]
        BY DEF Good
    <2> QED
        BY <1>5, <1>9, <1>12, <1>13, <1>14, <1>15, <2>1 DEF Good
<1> QED
    BY <1>3, <1>4, <1>16 DEF Served, Waits

LEMMA ForwardedGood ==
    ASSUME NEW s, NEW r, Good(s, r), NEW m \in s.wire, m.dir = "request",
           NEW k \in 0 .. MaxLinks, k = 0 \/ s.link[k].of # None
    PROVE  Good(Forwarded(s, m, k), r) /\ (Served(s) => Served(Forwarded(s, m, k)))
<1>0. s \in State /\ m \in MessageRec
    BY DEF Good, State
<1>1. ASSUME NEW res \in {"app", "transport"},
             Forwarded(s, m, k) = [s EXCEPT !.wire = (@ \ {m}) \cup {Answer(m, m.call, res)}]
      PROVE  Good(Forwarded(s, m, k), r) /\ (Served(s) => Served(Forwarded(s, m, k)))
    <2>1. PICK a : a = Answer(m, m.call, res)
        OBVIOUS
    <2>2. /\ a \in MessageRec /\ a.dir = "answer" /\ a.res = res
          /\ Place(s, a.link, a.id, a.call)
        BY <1>0, <2>1 DEF Answer, MessageRec, Good, Numbered
    <2>3. PICK u : u = [s EXCEPT !.wire = @ \cup {a}]
        OBVIOUS
    <2>4. Good(u, r) /\ (Served(s) => Served(u))
        BY <2>2, <2>3, AnsweringGood
    <2>5. PICK W : W = (s.wire \ {m}) \cup {a}
        OBVIOUS
    <2>6. W \subseteq u.wire /\ Forwarded(s, m, k) = [u EXCEPT !.wire = W]
        BY <1>0, <1>1, <2>1, <2>3, <2>5 DEF State
    <2> QED
        BY <2>4, <2>6, LosingGood
<1>2. CASE k = 0
    BY <1>1, <1>2 DEF Forwarded
<1>3. CASE k # 0 /\ ~Sendable(s, k)
    BY <1>1, <1>3 DEF Forwarded
<1>4. CASE k # 0 /\ Sendable(s, k)
    <2>1. k \in Links
        BY <1>4, CallAssumption DEF Links
    <2>2. Forwarded(s, m, k) = PassedOn(s, m, k)
        <3>1. PICK u, i, via, new, msg :
                 /\ u = Forwarded(s, m, k) /\ i = s.link[k].next
                 /\ via = [link |-> m.link, id |-> m.id]
                 /\ new = [id |-> i, call |-> m.call, via |-> via]
                 /\ msg = [link |-> k, id |-> i, dir |-> "request", call |-> m.call, res |-> "none"]
            OBVIOUS
        <3>2. u = [s EXCEPT !.link[k].next = @ + 1, !.pend[k] = @ \cup {new},
                            !.wire = (@ \ {m}) \cup {msg}]
            BY <1>4, <3>1 DEF Forwarded
        <3>3. /\ u.svc = s.svc /\ u.owner = s.owner /\ u.call = s.call
              /\ u.link = [s.link EXCEPT ![k].next = @ + 1]
              /\ u.pend = [s.pend EXCEPT ![k] = @ \cup {new}]
              /\ u.wire = (s.wire \ {m}) \cup {msg}
            BY <1>0, <3>2 DEF State
        <3>4. u = [svc |-> u.svc, owner |-> u.owner, call |-> u.call,
                   link |-> u.link, pend |-> u.pend, wire |-> u.wire]
            BY <1>0, <3>2 DEF State
        <3> QED
            BY <3>1, <3>3, <3>4 DEF PassedOn
    <2> QED
        BY <1>4, <2>1, <2>2, PassedOnGood
<1> QED
    BY <1>2, <1>3, <1>4

LEMMA RelayGood ==
    ASSUME CallsInv, NEW m \in wire, Relay(m)
    PROVE  CallsInv'
<1> DEFINE q == link[m.link].peer
           k == svc[q].cur
<1>0. PICK s : s = Now
    OBVIOUS
<1>1. /\ Good(s, ran) /\ Served(s) /\ s \in State /\ s.wire = wire /\ s.link = link
      /\ s.svc = svc
    BY <1>0, NowGood
<1>2. q \in Procs
    <2>1. m.link \in Links /\ m.id \in 1 .. link[m.link].next - 1
        BY <1>1 DEF Good, Numbered, Place
    <2>2. link[m.link] \in LinkRec
        BY <1>1, <2>1 DEF State
    <2>3. link[m.link].next # 1
        BY <2>1, <2>2 DEF LinkRec, Ids1
    <2>4. link[m.link].peer # None
        BY <1>1, <2>1, <2>3 DEF Good, Linked
    <2> QED
        BY <2>2, <2>4 DEF LinkRec
<1>3. k \in 0 .. MaxLinks /\ (k = 0 \/ s.link[k].of # None)
    <2>1. k \in 0 .. MaxLinks
        BY <1>1, <1>2 DEF State, Service, ServiceRec
    <2>2. k = 0 \/ s.link[k].of = q
        BY <1>1, <1>2 DEF Good, Linked
    <2> QED
        BY <1>2, <2>1, <2>2, CallAssumption
<1>4. Good(Forwarded(s, m, k), ran) /\ Served(Forwarded(s, m, k))
    BY <1>1, <1>3, ForwardedGood DEF Relay
<1>5. Become(Forwarded(s, m, k)) /\ ran' = ran
    BY <1>0 DEF Relay
<1> QED
    BY <1>4, <1>5, BecomeGood

\* A pending call is settled with the text of an answer, or an answer is passed back.
SettledWith(s, l, e, res, got) ==
    LET t == [s EXCEPT !.pend[l] = @ \ {e}] IN
    IF e.via = Here
    THEN [t EXCEPT !.call[e.call] = [@ EXCEPT !.reply = res, !.got = got]]
    ELSE [t EXCEPT !.wire = @ \cup {Answer(e.via, e.call, res)}]

LEMMA SettledWithGood ==
    ASSUME NEW s, NEW r, Good(s, r), NEW l \in Links, NEW e \in s.pend[l],
           NEW res \in {"ok", "app", "timeout", "transport"}, res = "ok" => r[e.call] > 0,
           NEW got \in {None, e.call}
    PROVE  /\ Good(SettledWith(s, l, e, res, got), r)
           /\ Served(s) => Served(SettledWith(s, l, e, res, got))
<1>0. /\ s \in State /\ e \in EntryRec /\ e.call \in Calls
      /\ s.pend \in [Links -> SUBSET EntryRec]
      /\ s.call \in [Calls -> CallRec] /\ s.call[e.call] \in CallRec
    BY DEF Good, State, EntryRec
<1>1. CASE e.via = Here
    <2>1. PICK x : x = [s.call[e.call] EXCEPT !.reply = res, !.got = got]
        OBVIOUS
    <2>2. /\ x \in CallRec /\ x.of = s.call[e.call].of /\ x.pc = s.call[e.call].pc
          /\ x.sends = s.call[e.call].sends /\ x.outcome = s.call[e.call].outcome
          /\ x.got = got /\ x.reply = res /\ res # "none"
        BY <1>0, <2>1 DEF CallRec, Reply
    <2>3. PICK u : u = [s EXCEPT !.call[e.call] = x]
        OBVIOUS
    <2>4. Good(u, r) /\ (Served(s) => Served(u))
        BY <1>0, <2>2, <2>3, HeardGood
    <2>5. u.call[e.call].reply # "none" /\ u.pend = s.pend
        BY <1>0, <2>2, <2>3 DEF State
    <2>6. PICK t : t = [u EXCEPT !.pend[l] = @ \ {e}]
        OBVIOUS
    <2>7. Good(t, r) /\ (Served(u) => Served(t))
        BY <2>4, <2>5, <2>6, TakenGood
    <2>8. SettledWith(s, l, e, res, got) = t
        BY <1>0, <1>1, <2>1, <2>3, <2>6 DEF SettledWith, State
    <2> QED
        BY <2>4, <2>7, <2>8
<1>2. CASE e.via # Here
    <2>1. PICK a : a = Answer(e.via, e.call, res)
        OBVIOUS
    <2>2. Place(s, e.via.link, e.via.id, e.call)
        BY <1>2 DEF Good, Numbered
    <2>3. /\ a \in MessageRec /\ a.dir = "answer" /\ a.res = res /\ a.call = e.call
          /\ Place(s, a.link, a.id, a.call)
        BY <1>0, <2>1, <2>2 DEF Answer, MessageRec, EntryRec, Place
    <2>4. PICK u : u = [s EXCEPT !.wire = @ \cup {a}]
        OBVIOUS
    <2>5. Good(u, r) /\ (Served(s) => Served(u))
        BY <2>3, <2>4, AnsweringGood
    <2>6. u.pend = s.pend
        BY <1>0, <2>4 DEF State
    <2>7. PICK t : t = [u EXCEPT !.pend[l] = @ \ {e}]
        OBVIOUS
    <2>8. Good(t, r) /\ (Served(u) => Served(t))
        BY <1>2, <2>5, <2>6, <2>7, TakenGood
    <2>9. SettledWith(s, l, e, res, got) = t
        BY <1>0, <1>2, <2>1, <2>4, <2>7 DEF SettledWith, State
    <2> QED
        BY <2>5, <2>8, <2>9
<1> QED
    BY <1>1, <1>2

LEMMA DeliveredGood ==
    ASSUME NEW s, NEW r, Good(s, r), NEW m \in s.wire, m.dir = "answer"
    PROVE  Good(Delivered(s, m), r) /\ (Served(s) => Served(Delivered(s, m)))
<1>0. /\ s \in State /\ m \in MessageRec /\ m.res # "none" /\ Place(s, m.link, m.id, m.call)
      /\ (m.res = "ok" => r[m.call] > 0)
    BY DEF Good, State, Numbered, Answered
<1>1. m.link \in Links /\ m.res \in {"ok", "app", "timeout", "transport"}
    BY <1>0 DEF MessageRec
<1>2. CASE ~\E e \in s.pend[m.link] : e.id = m.id
    <2>1. PICK W : W = s.wire \ {m}
        OBVIOUS
    <2>2. Delivered(s, m) = [s EXCEPT !.wire = W]
        BY <1>0, <1>2, <2>1 DEF Delivered, State
    <2> QED
        BY <2>1, <2>2, LosingGood
<1>3. CASE \E e \in s.pend[m.link] : e.id = m.id
    <2>1. PICK e \in s.pend[m.link] :
              e.id = m.id /\ e = CHOOSE x \in s.pend[m.link] : x.id = m.id
        BY <1>3
    <2>2. e.call = m.call
        BY <1>0, <2>1 DEF Place
    <2>3. PICK t : t = SettledWith(s, m.link, e, m.res, m.call)
        OBVIOUS
    <2>4. Good(t, r) /\ (Served(s) => Served(t))
        BY <1>0, <1>1, <2>1, <2>2, <2>3, SettledWithGood
    <2>5. PICK W : W = IF e.via = Here THEN s.wire \ {m}
                       ELSE (s.wire \ {m}) \cup {Answer(e.via, m.call, m.res)}
        OBVIOUS
    <2>6. W \subseteq t.wire
        BY <1>0, <2>2, <2>3, <2>5 DEF SettledWith, State
    <2>7. Delivered(s, m) = [t EXCEPT !.wire = W]
        <3>1. PICK u : u = [[s EXCEPT !.wire = @ \ {m}] EXCEPT !.pend[m.link] = @ \ {e}]
            OBVIOUS
        <3>2. Delivered(s, m) =
                IF e.via = Here
                THEN [u EXCEPT !.call[e.call] = [@ EXCEPT !.reply = m.res, !.got = m.call]]
                ELSE [u EXCEPT !.wire = @ \cup {Answer(e.via, m.call, m.res)}]
            BY <1>3, <2>1, <3>1 DEF Delivered
        <3> QED
            BY <1>0, <2>2, <2>3, <2>5, <3>1, <3>2 DEF SettledWith, State
    <2>8. Good([t EXCEPT !.wire = W], r) /\ (Served(t) => Served([t EXCEPT !.wire = W]))
        BY <2>4, <2>6, LosingGood
    <2> QED
        BY <2>4, <2>7, <2>8
<1> QED
    BY <1>2, <1>3

LEMMA ArriveGood ==
    ASSUME CallsInv, NEW m \in wire, Arrive(m)
    PROVE  CallsInv'
<1>0. PICK s : s = Now
    OBVIOUS
<1>1. Good(s, ran) /\ Served(s) /\ s.wire = wire
    BY <1>0, NowGood
<1> QED
    BY <1>0, <1>1, DeliveredGood, BecomeGood DEF Arrive

LEMMA TimeoutGood ==
    ASSUME CallsInv, NEW l \in Links, NEW e, Timeout(l, e)
    PROVE  CallsInv'
<1>0. PICK s : s = Now
    OBVIOUS
<1>1. /\ Good(s, ran) /\ Served(s) /\ s \in State /\ s.pend = pend
      /\ e \in s.pend[l]
    BY <1>0, NowGood DEF Timeout
<1>2. PICK got : got = IF e.via = Here THEN s.call[e.call].got ELSE None
    OBVIOUS
<1>3. PICK res : res = IF e.via = Here THEN "timeout" ELSE "app"
    OBVIOUS
<1>4. PICK t : t = SettledWith(s, l, e, res, got)
    OBVIOUS
<1>5. e.call \in Calls
    BY <1>1 DEF State, EntryRec
<1>6. Good(t, ran) /\ Served(t)
    <2>1. got \in {None, e.call}
        BY <1>1, <1>2, <1>5 DEF Good, Answered
    <2>2. res \in {"ok", "app", "timeout", "transport"} /\ res # "ok"
        BY <1>3
    <2> QED
        BY <1>1, <1>4, <2>1, <2>2, SettledWithGood
<1>7. Become(t)
    <2>1. PICK u : u = [s EXCEPT !.pend[l] = @ \ {e}]
        OBVIOUS
    <2>2. Become(IF e.via = Here THEN [u EXCEPT !.call[e.call].reply = "timeout"]
                 ELSE [u EXCEPT !.wire = @ \cup {Answer(e.via, e.call, "app")}])
        BY <1>0, <2>1 DEF Timeout
    <2>3. CASE e.via = Here
        <3>1. u.call = s.call /\ s.call \in [Calls -> CallRec]
            BY <1>1, <2>1 DEF State
        <3>2. [s.call[e.call] EXCEPT !.reply = "timeout"]
              = [s.call[e.call] EXCEPT !.reply = res, !.got = got]
            BY <1>2, <1>3, <1>5, <2>3, <3>1 DEF CallRec
        <3>3. t = [u EXCEPT !.call[e.call] = [s.call[e.call] EXCEPT !.reply = res, !.got = got]]
            BY <1>4, <2>1, <2>3, <3>1 DEF SettledWith
        <3> QED
            BY <2>2, <2>3, <3>1, <3>2, <3>3
    <2>4. CASE e.via # Here
        BY <1>3, <1>4, <2>1, <2>2, <2>4 DEF SettledWith
    <2> QED
        BY <2>3, <2>4
<1> QED
    BY <1>6, <1>7, BecomeGood DEF Timeout

-----------------------------------------------------------------------------
(* Failover                                                                *)

LEMMA ServerUpGood ==
    ASSUME CallsInv, NEW p \in Procs, ServerUp(p)
    PROVE  CallsInv'
<1>0. PICK s : s = Now
    OBVIOUS
<1>1. Good(s, ran) /\ Served(s) /\ s \in State
    BY <1>0, NowGood
<1>2. PICK y : y = [s.svc[p] EXCEPT !.serving = TRUE]
    OBVIOUS
<1>3. s.svc \in [Procs -> ServiceRec] /\ s.svc[p] \in ServiceRec
    BY <1>1 DEF State
<1>4. y \in ServiceRec /\ y.cur = s.svc[p].cur /\ y.failover = s.svc[p].failover
    BY <1>2, <1>3 DEF Service, ServiceRec
<1>5. PICK t : t = [s EXCEPT !.svc[p] = y]
    OBVIOUS
<1>6. y.cur = 0 \/ s.link[y.cur].of = p
    BY <1>1, <1>4 DEF Good, Linked
<1>7. Good(t, ran) /\ Served(t)
    BY <1>1, <1>4, <1>5, <1>6, SvcGood
<1>8. t = [s EXCEPT !.svc[p].serving = TRUE]
    BY <1>1, <1>2, <1>3, <1>5 DEF State, Service, ServiceRec
<1>9. Good(Settled(t, p, "up"), ran) /\ Served(Settled(t, p, "up"))
    BY <1>7, SettledGood, ServedFromOthers
<1>10. Become(Settled(t, p, "up")) /\ ran' = ran
    BY <1>0, <1>8 DEF ServerUp
<1> QED
    BY <1>9, <1>10, BecomeGood

LEMMA ConnectedGood ==
    ASSUME CallsInv, NEW p \in Procs, Connected(p)
    PROVE  CallsInv'
<1>0. PICK s : s = Now
    OBVIOUS
<1>1. Good(s, ran) /\ Served(s) /\ s \in State /\ s.svc = svc
    BY <1>0, NowGood
<1>2. s.svc \in [Procs -> ServiceRec] /\ s.svc[p] \in ServiceRec
    BY <1>1 DEF State
<1>3. PICK q : q = svc[p].target
    OBVIOUS
<1>4. PICK n \in Links : n = Fresh(s) /\ s.link[n].of = None
    BY <1>0 DEF Connected, Room, Fresh
<1>5. PICK ro \in BOOLEAN :
        Become(Settled([s EXCEPT !.link[n] = Opened(p, q, "socket"),
                                 !.svc[p] = [@ EXCEPT !.mode = "follower",
                                                      !.cur = n, !.ro = ro]], p, "up"))
    BY <1>0, <1>3, <1>4 DEF Connected
<1>6. PICK u : u = [s EXCEPT !.link[n] = Opened(p, q, "socket")]
    OBVIOUS
<1>7. q \in Procs
    BY <1>1, <1>2, <1>3 DEF Connected, Service, ServiceRec
<1> QED
    <2>1. Good(u, ran) /\ Served(u)
        BY <1>1, <1>4, <1>6, <1>7, OpenedGood
    <2>2. PICK y : y = [s.svc[p] EXCEPT !.mode = "follower", !.cur = n, !.ro = ro]
        OBVIOUS
    <2>3. y \in ServiceRec /\ y.cur = n /\ y.failover = s.svc[p].failover
        <3>1. n \in 0 .. MaxLinks
            BY CallAssumption DEF Links
        <3> QED
            BY <1>2, <2>2, <3>1 DEF Service, ServiceRec
    <2>4. u.svc = s.svc /\ u.link[n].of = p
        BY <1>1, <1>6 DEF State, Opened, UnusedLink
    <2>5. PICK t : t = [u EXCEPT !.svc[p] = y]
        OBVIOUS
    <2>6. Good(t, ran) /\ Served(t)
        BY <2>1, <2>3, <2>4, <2>5, SvcGood
    <2>7. t = [s EXCEPT !.link[n] = Opened(p, q, "socket"),
                        !.svc[p] = [@ EXCEPT !.mode = "follower", !.cur = n, !.ro = ro]]
        BY <1>1, <1>2, <1>6, <2>2, <2>5 DEF State
    <2>8. Good(Settled(t, p, "up"), ran) /\ Served(Settled(t, p, "up"))
        BY <2>6, SettledGood, ServedFromOthers
    <2> QED
        BY <1>5, <2>7, <2>8, BecomeGood DEF Connected

LEMMA ConnectFailsGood ==
    ASSUME CallsInv, NEW p \in Procs, ConnectFails(p)
    PROVE  CallsInv'
<1>0. PICK s : s = Now
    OBVIOUS
<1>1. Good(s, ran) /\ Served(s)
    BY <1>0, NowGood
<1> QED
    BY <1>0, <1>1, AttemptFailsGood, ServedFromOthers, BecomeGood DEF ConnectFails

LEMMA NextAttemptGood ==
    ASSUME CallsInv, NEW p \in Procs, NextAttempt(p)
    PROVE  CallsInv'
<1>0. PICK s : s = Now
    OBVIOUS
<1>1. Good(s, ran) /\ Served(s)
    BY <1>0, NowGood
<1>2. Become(Settled(s, p, "down")) \/ Become(Attempt(s, p))
    BY <1>0 DEF NextAttempt
<1>3. ServedBut(s, p)
    BY <1>1, ServedFromOthers
<1>4. /\ Good(Settled(s, p, "down"), ran) /\ Served(Settled(s, p, "down"))
      /\ Good(Attempt(s, p), ran) /\ Served(Attempt(s, p))
    BY <1>1, <1>3, SettledGood, AttemptGood
<1> QED
    BY <1>2, <1>4, BecomeGood DEF NextAttempt

LEMMA LinkClosedGood ==
    ASSUME CallsInv, NEW l \in Links, LinkClosed(l)
    PROVE  CallsInv'
<1>0. PICK s, t : s = Now /\ t = Shut(s, l)
    OBVIOUS
<1>1. Good(s, ran) /\ Served(s) /\ s \in State /\ s.link = link
    BY <1>0, NowGood
<1>2. link[l].of \in Procs
    BY <1>1 DEF LinkClosed, State, LinkRec
<1>3. Good(t, ran) /\ Served(t)
    <2>1. l \in 0 .. MaxLinks
        BY CallAssumption DEF Links
    <2> QED
        BY <1>0, <1>1, <2>1, ShutGood
<1>4. Good(Exited(t, link[l].of), ran) /\ Served(Exited(t, link[l].of))
    BY <1>2, <1>3, ExitedGood
<1>5. Become(Exited(t, link[l].of)) /\ ran' = ran
    BY <1>0 DEF LinkClosed
<1> QED
    BY <1>4, <1>5, BecomeGood

-----------------------------------------------------------------------------
(* Faults                                                                  *)

\* Connections are cut at the other end.
LEMMA CutLinksGood ==
    ASSUME NEW s, NEW r, Good(s, r), NEW p \in Procs
    PROVE  /\ Good(CutLinksTo(s, p), r)
           /\ Served(s) => Served(CutLinksTo(s, p))
           /\ CutLinksTo(s, p).svc = s.svc /\ CutLinksTo(s, p).pend = s.pend
           /\ CutLinksTo(s, p).wire = s.wire /\ CutLinksTo(s, p).call = s.call
           /\ CutLinksTo(s, p).owner = s.owner
           /\ \A l \in Links : /\ CutLinksTo(s, p).link[l].of = s.link[l].of
                               /\ CutLinksTo(s, p).link[l].next = s.link[l].next
<1>0. s \in State /\ s.link \in [Links -> LinkRec]
    BY DEF Good, State
<1>1. PICK k : k = [l \in Links |->
                      IF s.link[l].peer = p /\ s.link[l].kind = "socket"
                      THEN [s.link[l] EXCEPT !.cut = TRUE] ELSE s.link[l]]
    OBVIOUS
<1>2. ASSUME NEW l \in Links
      PROVE  /\ k[l] \in LinkRec /\ k[l].of = s.link[l].of /\ k[l].peer = s.link[l].peer
             /\ k[l].next = s.link[l].next
    <2>1. s.link[l].peer = p => s.link[l].of # None
        BY CallAssumption DEF Good, Linked
    <2>2. s.link[l] \in LinkRec
        BY <1>0
    <2> QED
        BY <1>1, <2>1, <2>2 DEF LinkRec
<1>3. k \in [Links -> LinkRec]
    BY <1>1, <1>2
<1>4. PICK t : t = [s EXCEPT !.link = k]
    OBVIOUS
<1>5. t = CutLinksTo(s, p)
    BY <1>1, <1>4 DEF CutLinksTo
<1>6. /\ t \in State /\ t.svc = s.svc /\ t.pend = s.pend /\ t.wire = s.wire
      /\ t.call = s.call /\ t.owner = s.owner /\ t.link = k
    BY <1>0, <1>3, <1>4 DEF State
<1>7. Linked(t)
    <2>1. \A q \in Procs : s.svc[q].cur = 0 \/ s.svc[q].cur \in Links
        BY CallAssumption DEF Good, State, Service, ServiceRec, Links
    <2> QED
        BY <1>2, <1>6, <2>1 DEF Good, Linked
<1>8. \A j, i, c : Place(s, j, i, c) => Place(t, j, i, c)
    BY <1>2, <1>6 DEF Place
<1>9. Numbered(t)
    BY <1>2, <1>6, <1>8 DEF Good, Numbered
<1>10. \A c \in Calls : SendsOf(t, c) /\ (Kind[c] # "read" => Once(t, r, c))
    BY <1>6 DEF Good, SendsOf, Once, Requests
<1>11. Answered(t, r)
    BY <1>6 DEF Good, Answered
<1>12. \A c \in Calls : t.call[c].pc \in {"sent", "resent"} /\ t.call[c].reply = "none"
                        => Pending(t, c)
    BY <1>2, <1>6 DEF Good, Pending
<1>13. Good(t, r)
    BY <1>6, <1>7, <1>9, <1>10, <1>11, <1>12 DEF Good
<1> QED
    BY <1>2, <1>5, <1>6, <1>13 DEF Served, Waits

LEMMA CutGood ==
    ASSUME CallsInv, NEW l \in Links, Cut(l)
    PROVE  CallsInv'
<1>0. PICK s : s = Now
    OBVIOUS
<1>1. Good(s, ran) /\ Served(s) /\ s \in State /\ s.link = link
    BY <1>0, NowGood
<1>2. PICK x : x = [s.link[l] EXCEPT !.cut = TRUE]
    OBVIOUS
<1>3. s.link[l] \in LinkRec /\ s.link[l].of # None
    BY <1>1 DEF State, Cut
<1>4. /\ x \in LinkRec /\ x.of = s.link[l].of /\ x.next = s.link[l].next
      /\ x.peer = s.link[l].peer
    BY <1>2, <1>3 DEF LinkRec
<1>5. PICK t : t = [s EXCEPT !.link[l] = x]
    OBVIOUS
<1>6. Good(t, ran) /\ Served(t)
    BY <1>1, <1>4, <1>5, MarkedGood
<1>7. t = [s EXCEPT !.link[l].cut = TRUE]
    BY <1>1, <1>2, <1>3, <1>5 DEF State, LinkRec
<1>8. Become(t) /\ ran' = ran
    BY <1>0, <1>7 DEF Cut
<1> QED
    BY <1>6, <1>8, BecomeGood

LEMMA LinkErrorGood ==
    ASSUME CallsInv, NEW l \in Links, LinkError(l)
    PROVE  CallsInv'
<1> DEFINE p == link[l].of
<1>0. PICK s : s = Now
    OBVIOUS
<1>1. Good(s, ran) /\ Served(s) /\ s \in State /\ s.link = link
    BY <1>0, NowGood
<1>2. PICK x : x = [s.link[l] EXCEPT !.errored = TRUE]
    OBVIOUS
<1>3. s.link[l] \in LinkRec /\ p \in Procs
    BY <1>1 DEF State, LinkError, LinkRec
<1>4. /\ x \in LinkRec /\ x.of = s.link[l].of /\ x.next = s.link[l].next
      /\ x.peer = s.link[l].peer
    BY <1>2, <1>3 DEF LinkRec
<1>5. PICK t : t = [s EXCEPT !.link[l] = x]
    OBVIOUS
<1>6. Good(t, ran) /\ Served(t)
    BY <1>1, <1>4, <1>5, MarkedGood
<1>7. t = [s EXCEPT !.link[l].errored = TRUE]
    BY <1>1, <1>2, <1>3, <1>5 DEF State, LinkRec
<1>8. PICK u : u = Reject(t, l, "transport")
    OBVIOUS
<1>9. Good(u, ran) /\ Served(u) /\ u \in State
    BY <1>6, <1>8, RejectGood DEF Good
<1>10. u.svc \in [Procs -> ServiceRec] /\ u.svc[p] \in ServiceRec
    BY <1>3, <1>9 DEF State
<1>11. PICK y : y = [u.svc[p] EXCEPT !.ready = FALSE]
    OBVIOUS
<1>12. y \in ServiceRec /\ y.cur = u.svc[p].cur /\ y.failover = u.svc[p].failover
    BY <1>10, <1>11 DEF Service, ServiceRec
<1>13. y.cur = 0 \/ u.link[y.cur].of = p
    BY <1>3, <1>9, <1>12 DEF Good, Linked
<1>14. PICK v : v = [u EXCEPT !.svc[p] = y]
    OBVIOUS
<1>15. Good(v, ran) /\ Served(v)
    BY <1>3, <1>9, <1>12, <1>13, <1>14, SvcGood
<1>16. v = [u EXCEPT !.svc[p].ready = FALSE]
    BY <1>3, <1>9, <1>10, <1>11, <1>14 DEF State, Service, ServiceRec
<1>17. Become(v) /\ ran' = ran
    BY <1>0, <1>7, <1>8, <1>16 DEF LinkError
<1> QED
    BY <1>15, <1>17, BecomeGood

LEMMA CloseGood ==
    ASSUME CallsInv, NEW p \in Procs, Close(p)
    PROVE  CallsInv'
<1>0. PICK s : s = Now
    OBVIOUS
<1>1. Good(s, ran) /\ Served(s) /\ s \in State /\ s.svc = svc
    BY <1>0, NowGood
<1>2. PICK t : t = IF svc[p].serving THEN CutLinksTo(s, p) ELSE s
    OBVIOUS
<1>3. Good(t, ran) /\ Served(t) /\ t.svc = s.svc
    BY <1>1, <1>2, CutLinksGood
<1>4. PICK u : u = Shut(t, svc[p].cur)
    OBVIOUS
<1>5. Good(u, ran) /\ Served(u) /\ u.svc = s.svc /\ u \in State
    <2>1. svc[p].cur \in 0 .. MaxLinks
        BY <1>1 DEF State, Service, ServiceRec
    <2>2. Good(u, ran) /\ Served(u) /\ u.svc = s.svc
        BY <1>3, <1>4, <2>1, ShutGood
    <2> QED
        BY <2>2 DEF Good
<1>6. PICK o : o = IF u.owner = p THEN None ELSE u.owner
    OBVIOUS
<1>7. PICK w : w = [u EXCEPT !.owner = o]
    OBVIOUS
<1>8. Good(w, ran) /\ Served(w) /\ w.svc = s.svc
    <2>1. o \in Procs \cup {None}
        BY <1>5, <1>6 DEF State
    <2>2. w.svc = s.svc
        BY <1>5, <1>7 DEF State
    <2> QED
        BY <1>5, <1>7, <2>1, <2>2, OwnedGood
<1>9. PICK y : y = [s.svc[p] EXCEPT !.closed = TRUE, !.provider = FALSE, !.ro = FALSE,
                                    !.cur = 0, !.ready = FALSE, !.mode = "none",
                                    !.serving = FALSE]
    OBVIOUS
<1>10. y \in ServiceRec /\ y.cur = 0 /\ y.failover = s.svc[p].failover
    <2>1. s.svc[p] \in ServiceRec /\ 0 \in 0 .. MaxLinks
        BY <1>1, CallAssumption DEF State
    <2> QED
        BY <1>9, <2>1 DEF Service, ServiceRec
<1>11. PICK v : v = [w EXCEPT !.svc[p] = y]
    OBVIOUS
<1>12. Good(v, ran) /\ Served(v)
    BY <1>8, <1>10, <1>11, SvcGood
<1>13. v = [u EXCEPT !.owner = IF @ = p THEN None ELSE @,
                     !.svc[p] = [@ EXCEPT !.closed = TRUE, !.provider = FALSE,
                                          !.ro = FALSE, !.cur = 0, !.ready = FALSE,
                                          !.mode = "none", !.serving = FALSE]]
    BY <1>1, <1>5, <1>6, <1>7, <1>9, <1>11 DEF State
<1>14. Become(v) /\ ran' = ran
    BY <1>0, <1>2, <1>4, <1>13 DEF Close
<1> QED
    BY <1>12, <1>14, BecomeGood

\* What a process had under way is gone with it.
Gone(s, P, W, K) == [s EXCEPT !.pend = P, !.wire = W, !.call = K]

LEMMA GoneGood ==
    ASSUME NEW s, NEW r, Good(s, r), NEW p \in Procs, NEW W \in SUBSET s.wire,
           NEW P \in [Links -> SUBSET EntryRec],
           \A l \in Links : P[l] \subseteq s.pend[l] /\ (s.link[l].of # p => P[l] = s.pend[l]),
           NEW K \in [Calls -> CallRec],
           \A c \in Calls :
              /\ K[c].of = s.call[c].of /\ K[c].got = s.call[c].got
              /\ K[c].sends = s.call[c].sends
              /\ s.call[c].of # p => K[c] = s.call[c]
              /\ s.call[c].of = p => /\ K[c].pc = "done" /\ K[c].reply = "none"
                                     /\ K[c].outcome \in {"gone", s.call[c].outcome}
    PROVE  Good(Gone(s, P, W, K), r) /\ (Served(s) => Served(Gone(s, P, W, K)))
<1>0. s \in State
    BY DEF Good
<1>4. PICK t : t = Gone(s, P, W, K)
    OBVIOUS
<1>5. /\ t.svc = s.svc /\ t.link = s.link /\ t.owner = s.owner
      /\ t.pend = P /\ t.wire = W /\ t.call = K /\ t \in State
    <2>1. W \subseteq MessageRec
        BY <1>0 DEF State
    <2> QED
        BY <1>0, <1>4, <2>1 DEF State, Gone
<1>6. Linked(t)
    BY <1>5 DEF Good, Linked
<1>7. \A j, i, c : Place(s, j, i, c) => Place(t, j, i, c)
    BY <1>5 DEF Place
<1>8. Numbered(t)
    BY <1>5, <1>7 DEF Good, Numbered
<1>9. ASSUME NEW c \in Calls
      PROVE  SendsOf(t, c) /\ (Kind[c] # "read" => Once(t, r, c))
    <2>1. Requests(t, c) \subseteq Requests(s, c)
        BY <1>5 DEF Requests
    <2>2. SendsOf(s, c) /\ (Kind[c] # "read" => Once(s, r, c))
        BY DEF Good
    <2>3. Kind[c] # "read" => Once(t, r, c)
        BY <1>5, <2>1, <2>2 DEF Once
    <2>4. SendsOf(t, c)
        BY <1>5, <2>2 DEF SendsOf
    <2> QED
        BY <2>3, <2>4
<1>10. Answered(t, r)
    <2>1. \A m \in W : m.res = "ok" => r[m.call] > 0
        BY DEF Good, Answered
    <2>2. ASSUME NEW c \in Calls
          PROVE  /\ K[c].got \in {None, c} /\ (K[c].reply = "ok" => r[c] > 0)
                 /\ K[c].outcome = "ok" /\ Kind[c] # "read" => r[c] > 0
        BY DEF Good, Answered
    <2> QED
        BY <1>5, <2>1, <2>2 DEF Answered
<1>11. ASSUME NEW c \in Calls, t.call[c].pc \in {"sent", "resent"}, t.call[c].reply = "none"
       PROVE  Pending(t, c)
    <2>1. s.call[c].of # p /\ K[c] = s.call[c]
        BY <1>5, <1>11
    <2>2. PICK k \in Links : /\ s.link[k].of = s.call[c].of
                             /\ \E e \in s.pend[k] : e.call = c /\ e.via = Here
        BY <1>5, <1>11, <2>1 DEF Good, Pending
    <2>3. P[k] = s.pend[k]
        BY <2>1, <2>2
    <2> QED
        BY <1>5, <2>1, <2>2, <2>3 DEF Pending
<1>12. Good(t, r)
    BY <1>5, <1>6, <1>8, <1>9, <1>10, <1>11 DEF Good
<1>13. Served(s) => Served(t)
    <2> SUFFICES ASSUME Served(s), NEW c \in Calls, Waits(t, c)
                 PROVE  t.svc[t.call[c].of].failover # "idle"
        BY DEF Served
    <2>1. K[c] = s.call[c]
        BY <1>5 DEF Waits
    <2> QED
        BY <1>5, <2>1 DEF Served, Waits
<1> QED
    BY <1>4, <1>12, <1>13

LEMMA CrashGood ==
    ASSUME CallsInv, NEW p \in Procs, Crash(p)
    PROVE  CallsInv'
<1>0. PICK s, t : s = Now /\ t = CutLinksTo(s, p)
    OBVIOUS
<1>1. /\ Good(s, ran) /\ Served(s) /\ s.link = link /\ s.pend = pend /\ s.wire = wire
      /\ s.call = call
    BY <1>0, NowGood
<1>2. /\ Good(t, ran) /\ Served(t) /\ t.pend = pend /\ t.wire = wire /\ t.call = call
      /\ \A l \in Links : t.link[l].of = link[l].of
    BY <1>0, <1>1, CutLinksGood
<1>3. PICK P, W, K :
        /\ P = [l \in Links |-> IF link[l].of = p THEN {} ELSE pend[l]]
        /\ W = {m \in wire : link[m.link].of # p}
        /\ K = [c \in Calls |->
                  IF call[c].of = p
                  THEN [call[c] EXCEPT !.pc = "done", !.reply = "none",
                                       !.outcome = IF @ = "none" THEN "gone" ELSE @]
                  ELSE call[c]]
    OBVIOUS
<1>4. /\ t \in State /\ W \subseteq t.wire
      /\ t.pend \in [Links -> SUBSET EntryRec] /\ t.call \in [Calls -> CallRec]
    BY <1>2, <1>3 DEF Good, State
<1>8. /\ P \in [Links -> SUBSET EntryRec]
      /\ \A l \in Links : P[l] \subseteq t.pend[l] /\ (t.link[l].of # p => P[l] = t.pend[l])
    BY <1>2, <1>3, <1>4
<1>9. ASSUME NEW c \in Calls
      PROVE  /\ K[c] \in CallRec /\ K[c].of = t.call[c].of /\ K[c].got = t.call[c].got
             /\ K[c].sends = t.call[c].sends
             /\ t.call[c].of # p => K[c] = t.call[c]
             /\ t.call[c].of = p => /\ K[c].pc = "done" /\ K[c].reply = "none"
                                    /\ K[c].outcome \in {"gone", t.call[c].outcome}
    <2>1. t.call[c] \in CallRec /\ t.call[c] = call[c]
        BY <1>2, <1>4
    <2>2. K[c] = IF t.call[c].of = p
                 THEN [t.call[c] EXCEPT !.pc = "done", !.reply = "none",
                                        !.outcome = IF @ = "none" THEN "gone" ELSE @]
                 ELSE t.call[c]
        BY <1>3, <2>1
    <2> QED
        BY ZenonT(30), <2>1, <2>2 DEF CallRec, Pc, Reply, Outcome
<1>10. K \in [Calls -> CallRec]
    BY Zenon, <1>3, <1>9
<1>5. PICK u : u = [t EXCEPT !.pend = P, !.wire = W, !.call = K]
    OBVIOUS
<1>6. Good(u, ran) /\ Served(u)
    <2>1. u = Gone(t, P, W, K)
        BY <1>5 DEF Gone
    <2>2. Good(Gone(t, P, W, K), ran) /\ (Served(t) => Served(Gone(t, P, W, K)))
        BY <1>2, <1>4, <1>8, <1>9, <1>10, GoneGood
    <2> QED
        BY <1>2, <2>1, <2>2
<1>7. Become(u) /\ ran' = ran
    BY <1>0, <1>3, <1>5 DEF Crash
<1> QED
    BY <1>6, <1>7, BecomeGood

-----------------------------------------------------------------------------
(* The theorems                                                            *)

LEMMA CallsInvInit == CallsInit => CallsInv
<1> SUFFICES ASSUME CallsInit PROVE CallsInv
    OBVIOUS
<1>1. PICK p \in {First}, num \in [Procs -> Links], ro \in [Procs -> BOOLEAN] :
        /\ num[p] = 1 /\ \A q, r \in Procs : num[q] = num[r] => q = r
        /\ \A q \in Procs : num[q] <= Cardinality(Procs)
        /\ owner = p
        /\ svc = [q \in Procs |-> IF q = p THEN Leading ELSE Following(num[q], ro[q])]
        /\ ro[p] = FALSE
        /\ link = [l \in Links |->
                IF \E q \in Procs : num[q] = l
                THEN LET q == CHOOSE q \in Procs : num[q] = l
                     IN  Opened(q, p, IF q = p THEN "worker" ELSE "socket")
                ELSE UnusedLink]
        /\ pend = [l \in Links |-> {}]
        /\ wire = {}
        /\ \E of \in [Calls -> Procs] :
              call = [c \in Calls |->
                  [of |-> of[c], pc |-> "idle", reply |-> "none", got |-> None,
                   sends |-> 0, outcome |-> "none"]]
        /\ alive = [q \in Procs |-> TRUE]
        /\ ran = [c \in Calls |-> 0]
        /\ faults = 0
    BY Zenon DEF CallsInit
<1>2. p \in Procs /\ None \notin Procs
    BY <1>1, CallAssumption
<1>3. ASSUME NEW q \in Procs
      PROVE  /\ svc[q] \in ServiceRec /\ svc[q].cur = num[q]
    <2>1. num[q] \in 0 .. MaxLinks /\ num[p] \in Links /\ 1 \in 0 .. MaxLinks
        BY <1>1, <1>2, CallAssumption DEF Links
    <2>2. Leading \in ServiceRec /\ Leading.cur = 1
        BY <2>1, CallAssumption DEF Leading, Service, ServiceRec
    <2>3. Following(num[q], ro[q]) \in ServiceRec /\ Following(num[q], ro[q]).cur = num[q]
        BY <1>1, <2>1, <2>2 DEF Following, Leading, Service, ServiceRec
    <2>4. svc[q] = IF q = p THEN Leading ELSE Following(num[q], ro[q])
        BY <1>1
    <2> QED
        BY <1>1, <2>2, <2>3, <2>4
<1>4. ASSUME NEW l \in Links
      PROVE  /\ link[l] \in LinkRec /\ link[l].next = 1
             /\ link[l].of = None <=> link[l].peer = None
             /\ \A q \in Procs : num[q] = l => link[l].of = q
    <2>1. /\ UnusedLink \in LinkRec /\ UnusedLink.next = 1
          /\ UnusedLink.of = None /\ UnusedLink.peer = None
        BY DEF UnusedLink, LinkRec, Ids1
    <2>2. CASE ~\E q \in Procs : num[q] = l
        BY <1>1, <2>1, <2>2
    <2>3. CASE \E q \in Procs : num[q] = l
        <3>1. PICK q \in Procs : /\ num[q] = l
                                 /\ link[l] = Opened(q, p, IF q = p THEN "worker" ELSE "socket")
            BY <1>1, <2>3
        <3>2. PICK kind \in {"worker", "socket"} : link[l] = Opened(q, p, kind)
            BY <3>1
        <3>3. link[l] \in LinkRec /\ link[l].next = 1 /\ link[l].of = q /\ link[l].peer = p
            BY <1>2, <2>1, <3>2 DEF Opened, LinkRec, UnusedLink
        <3> QED
            BY <1>1, <1>2, <3>1, <3>3
    <2> QED
        BY <2>2, <2>3
<1>5. ASSUME NEW c \in Calls
      PROVE  /\ call[c] \in CallRec /\ call[c].pc = "idle" /\ call[c].reply = "none"
             /\ call[c].got = None /\ call[c].sends = 0 /\ call[c].outcome = "none"
    BY <1>1 DEF CallRec, Pc, Reply, Outcome
<1>6. PICK s : s = Now
    OBVIOUS
<1>7. /\ s.svc = svc /\ s.link = link /\ s.pend = pend /\ s.wire = wire
      /\ s.call = call /\ s.owner = owner
    BY <1>6 DEF Now
<1>8. s \in State
    <2>1. svc \in [Procs -> ServiceRec]
        BY <1>1, <1>3
    <2>2. link \in [Links -> LinkRec]
        BY <1>1, <1>4
    <2>3. call \in [Calls -> CallRec]
        BY <1>1, <1>5
    <2>4. pend \in [Links -> SUBSET EntryRec] /\ wire = {} /\ owner \in Procs \cup {None}
        BY <1>1, <1>2
    <2> QED
        BY <1>6, <2>1, <2>2, <2>3, <2>4 DEF Now, State
<1>9. Linked(s)
    <2>1. ASSUME NEW q \in Procs PROVE link[svc[q].cur].of = q
        <3>1. num[q] \in Links /\ svc[q].cur = num[q]
            BY <1>1, <1>3
        <3> QED
            BY <1>4, <3>1
    <2>2. \A l \in Links : /\ link[l].of = None => link[l].next = 1
                           /\ link[l].of = None <=> link[l].peer = None
        BY <1>4
    <2> QED
        BY <1>7, <2>1, <2>2 DEF Linked
<1>10. Numbered(s)
    BY <1>1, <1>7 DEF Numbered
<1>11. ran \in [Calls -> Nat] /\ \A c \in Calls : ran[c] = 0
    BY <1>1
<1>12. ASSUME NEW c \in Calls
       PROVE  SendsOf(s, c) /\ (Kind[c] # "read" => Once(s, ran, c))
    <2>1. Requests(s, c) = {}
        BY <1>1, <1>7 DEF Requests
    <2> QED
        BY <1>5, <1>7, <1>11, <2>1 DEF SendsOf, Once
<1>13. Answered(s, ran)
    BY <1>1, <1>5, <1>7 DEF Answered
<1>14. Good(s, ran)
    BY <1>5, <1>7, <1>8, <1>9, <1>10, <1>11, <1>12, <1>13 DEF Good
<1>15. Served(s)
    BY <1>5, <1>7 DEF Served, Waits
<1> QED
    BY <1>6, <1>14, <1>15 DEF CallsInv

LEMMA CallsInvStep == CallsInv /\ [CallsNext]_callVars => CallsInv'
<1> SUFFICES ASSUME CallsInv, [CallsNext]_callVars PROVE CallsInv'
    OBVIOUS
<1>1. ASSUME NEW c \in Calls, Caller(c) PROVE CallsInv'
    BY <1>1, InvokeGood, LocalReadGood, ResumeGood, ReturnsGood DEF Caller
<1>2. ASSUME NEW m \in wire, Deliver(m) PROVE CallsInv'
    BY <1>2, WorkGood, RelayGood, ArriveGood DEF Deliver
<1>3. ASSUME NEW l \in Links, LinkClosed(l) \/ \E e \in pend[l] : Timeout(l, e) PROVE CallsInv'
    BY <1>3, LinkClosedGood, TimeoutGood
<1>4. ASSUME NEW p \in Procs, Recover(p) PROVE CallsInv'
    BY <1>4, ServerUpGood, ConnectedGood, ConnectFailsGood, NextAttemptGood DEF Recover
<1>5. CASE Fault
    BY <1>5, CrashGood, CloseGood, CutGood, LinkErrorGood DEF Fault
<1>6. CASE UNCHANGED callVars
    <2>1. Now' = Now /\ ran' = ran
        BY <1>6 DEF callVars, Now
    <2> QED
        BY <2>1 DEF CallsInv
<1> QED
    BY <1>1, <1>2, <1>3, <1>4, <1>5, <1>6 DEF CallsNext

LEMMA CallsInvariant == CallsSpec => []CallsInv
<1> QED
    BY CallsInvInit, CallsInvStep, PTL DEF CallsSpec

\* However often the leader changes while a write is under way, it is sent at
\* most once and a worker executes it at most once; a read is sent at most
\* twice (client.ts, invoke).
THEOREM WritesRunAtMostOnce == CallsSpec => []WritesRunOnce
<1>1. CallsInv => WritesRunOnce
    <2> SUFFICES ASSUME CallsInv PROVE WritesRunOnce
        OBVIOUS
    <2>1. Now.call = call
        BY NowGood
    <2> QED
        BY <2>1 DEF CallsInv, Good, SendsOf, Once, WritesRunOnce
<1> QED
    BY <1>1, CallsInvariant, PTL

\* With any number of followers that share the leader's worker, and ids that
\* start again with every link, a caller hears only of its own call, and a
\* write that succeeded has been executed (rpc.ts; service.ts, forward).
THEOREM AnswersReachTheirCaller == CallsSpec => []AnswersMatch
<1>1. CallsInv => AnswersMatch
    <2> SUFFICES ASSUME CallsInv PROVE AnswersMatch
        OBVIOUS
    <2>1. Now.call = call
        BY NowGood
    <2> QED
        BY <2>1 DEF CallsInv, Good, Answered, AnswersMatch
<1> QED
    BY <1>1, CallsInvariant, PTL

\* Whoever awaits an answer has a timer, and whoever awaits a failover has one
\* in progress (rpc.ts, rejectAllPending; client.ts, runFailover).
THEOREM EveryWaitIsServed == CallsSpec => []NobodyWaitsInVain
<1>1. CallsInv => NobodyWaitsInVain
    <2> SUFFICES ASSUME CallsInv PROVE NobodyWaitsInVain
        OBVIOUS
    <2>1. /\ Now.call = call /\ Now.link = link /\ Now.pend = pend /\ Now.svc = svc
          /\ Good(Now, ran) /\ Served(Now)
        BY NowGood
    <2>2. ASSUME NEW c \in Calls, call[c].reply = "none", call[c].pc \in {"sent", "resent"}
          PROVE  \E l \in Links : /\ link[l].of = call[c].of
                                  /\ \E e \in pend[l] : e.call = c /\ e.via = Here
        BY <2>1, <2>2 DEF Good, Pending
    <2>3. ASSUME NEW c \in Calls, call[c].reply = "none",
                 call[c].pc \in {"entry", "before", "retry"}
          PROVE  svc[call[c].of].failover # "idle"
        BY <2>1, <2>3 DEF Served, Waits
    <2> QED
        BY <2>2, <2>3 DEF NobodyWaitsInVain
<1> QED
    BY <1>1, CallsInvariant, PTL

-----------------------------------------------------------------------------
(***************************************************************************)
(* A read survives one crash or one lost connection.  Doomed is what       *)
(* ReadsSurvive does not speak of, and it is for good; until then the      *)
(* processes are calm: the first leads while it lives, everybody else's    *)
(* sockets lead to it, at most one process has lost its link, and only a   *)
(* call that was sent on that link and not sent again learns of it.        *)
(***************************************************************************)
FlushFailed(s, c) ==
    /\ Kind[c] = "flush" /\ s.call[c].pc = "done"
    /\ s.call[c].outcome \notin {"none", "ok"}

Doomed(s, A, f) ==
    \/ f > 1
    \/ \E l \in Links : s.link[l].errored /\ s.link[l].of # None
    \/ \E p \in Procs : s.svc[p].closed
    \/ \E c \in Calls : FlushFailed(s, c)
    \/ ~A[First] /\ Cardinality(Procs) # 2

\* A link is closed when it was cut, and the only fault is why it was; a
\* process closes every link it no longer uses.
CalmLink(s, A, f, l) ==
    LET k == s.link[l] IN
    /\ ~k.errored /\ k.terminated = k.closed
    /\ k.closed => k.cut
    /\ k.cut => f = 1 /\ k.kind = "socket"
    /\ k.of = None => s.pend[l] = {}
    /\ k.of # None /\ k.kind = "socket" => k.peer = First
    /\ k.of # None /\ A[k.of] => s.svc[k.of].cur = l \/ k.closed

\* A process follows or leads, connects again, or takes over.
CalmProc(s, A, f, p) ==
    LET v == s.svc[p]
        k == s.link[v.cur]
    IN
    /\ v.provider /\ v.cur # 0
    /\ k.kind = "socket" => v.mode = "follower" /\ p # First
    /\ \/ v.failover = "idle" /\ ~k.closed
       \/ v.failover = "connecting" /\ k.closed /\ v.target = First /\ A[First] /\ p # First
       \/ v.failover = "serving" /\ k.kind = "worker" /\ f = 1 /\ p # First

CutOff(s, p) == s.link[s.svc[p].cur].cut

\* The failover, of one process at most.
CalmLead(s, A, f) ==
    /\ f \in {0, 1}
    /\ IF A[First] THEN s.svc[First].serving /\ s.owner = First
                   ELSE f = 1 /\ Cardinality(Procs) = 2
    /\ \/ s.owner = First
       \/ s.owner \in Procs /\ A[s.owner] /\ s.link[s.svc[s.owner].cur].kind = "worker"
    /\ \A p, q \in Procs : A[p] /\ A[q] /\ CutOff(s, p) /\ CutOff(s, q) => p = q
    /\ \/ \A l \in Links : s.link[l].of # None => l <= Cardinality(Procs)
       \/ f = 1 /\ \A p \in Procs : A[p] => ~CutOff(s, p)

\* A call whose process lives learns of a lost link only while that process
\* fails over, and is sent again only on a link that lasts.
CalmCall(s, A, f, c) ==
    LET x == s.call[c] IN
    /\ Kind[c] = "read" => x.outcome \notin {"lost", "transport"}
    /\ ~A[x.of] => x.pc = "done"
    /\ x.pc \in {"idle", "local", "done"} => x.reply = "none"
    /\ x.pc \in {"entry", "before", "retry"} => x.reply \in {"none", "up"}
    /\ x.pc \in {"sent", "resent"} => x.reply \in {"none", "ok", "app", "timeout", "transport"}
    /\ x.reply = "transport" => x.pc = "sent" /\ s.svc[x.of].failover # "idle"
    /\ x.pc = "resent" \/ (x.pc \in {"before", "retry"} /\ x.reply = "up")
         => f = 1 /\ ~CutOff(s, x.of)

\* A pending call of a link's own process is one that awaits its answer, at
\* this place only; the others are pending on a worker's link.
CalmPending(s) ==
    \A l \in Links : \A e \in s.pend[l] :
        IF e.via = Here
        THEN /\ s.call[e.call].of = s.link[l].of
             /\ s.call[e.call].pc \in {"sent", "resent"} /\ s.call[e.call].reply = "none"
             /\ \A k \in Links : \A x \in s.pend[k] :
                   x.via = Here /\ x.call = e.call => k = l /\ x = e
        ELSE s.link[l].kind = "worker"

\* Nobody is told of a lost link.
CalmWire(s) == \A m \in s.wire : m.res # "transport"

Calm(s, A, f) ==
    /\ \A l \in Links : CalmLink(s, A, f, l)
    /\ \A p \in Procs : A[p] => CalmProc(s, A, f, p)
    /\ CalmLead(s, A, f)
    /\ \A c \in Calls : CalmCall(s, A, f, c)
    /\ CalmPending(s) /\ CalmWire(s)

ReadsInv ==
    /\ faults \in Nat /\ alive \in [Procs -> BOOLEAN]
    /\ Doomed(Now, alive, faults) \/ Calm(Now, alive, faults)

-----------------------------------------------------------------------------
(* What dooms a run does not go away                                       *)

\* Errors, closes and failed flushes stay.
Marks(s, t) ==
    /\ \A l \in Links : s.link[l].of # None =>
          /\ t.link[l].of # None
          /\ s.link[l].errored => t.link[l].errored
    /\ \A p \in Procs : s.svc[p].closed => t.svc[p].closed
    /\ \A c \in Calls : FlushFailed(s, c) => FlushFailed(t, c)

LEMMA MarksPass ==
    ASSUME NEW s, NEW t, NEW u, Marks(s, t), Marks(t, u)
    PROVE  Marks(s, u)
    BY DEF Marks

\* A record that differs in one place.
LEMMA SvcMarks ==
    ASSUME NEW s \in State, NEW p \in Procs, NEW x, s.svc[p].closed => x.closed
    PROVE  Marks(s, [s EXCEPT !.svc[p] = x])
<1>1. PICK t : t = [s EXCEPT !.svc[p] = x]
    OBVIOUS
<1>2. t.link = s.link /\ t.call = s.call /\ t.svc = [s.svc EXCEPT ![p] = x]
    BY <1>1 DEF State
<1> QED
    BY <1>1, <1>2 DEF Marks, State, FlushFailed

LEMMA CallMarks ==
    ASSUME NEW s \in State, NEW c \in Calls, NEW x,
           FlushFailed(s, c) => x.pc = "done" /\ x.outcome \notin {"none", "ok"}
    PROVE  Marks(s, [s EXCEPT !.call[c] = x])
<1>1. PICK t : t = [s EXCEPT !.call[c] = x]
    OBVIOUS
<1>2. t.link = s.link /\ t.svc = s.svc /\ t.call = [s.call EXCEPT ![c] = x]
    BY <1>1 DEF State
<1>3. \A b \in Calls : FlushFailed(s, b) => FlushFailed(t, b)
    BY <1>2 DEF FlushFailed, State
<1> QED
    BY <1>1, <1>2, <1>3 DEF Marks

LEMMA LinkMarks ==
    ASSUME NEW s \in State, NEW l \in Links, NEW x,
           s.link[l].of # None => x.of # None /\ (s.link[l].errored => x.errored)
    PROVE  Marks(s, [s EXCEPT !.link[l] = x])
<1>1. PICK t : t = [s EXCEPT !.link[l] = x]
    OBVIOUS
<1>2. t.svc = s.svc /\ t.call = s.call /\ t.link = [s.link EXCEPT ![l] = x]
    BY <1>1 DEF State
<1> QED
    BY <1>1, <1>2 DEF Marks, State, FlushFailed

LEMMA SameMarks ==
    ASSUME NEW s, NEW t, t.svc = s.svc,
           \A l \in Links : t.link[l].of = s.link[l].of /\ t.link[l].errored = s.link[l].errored,
           \A c \in Calls : t.call[c].pc = s.call[c].pc /\ t.call[c].outcome = s.call[c].outcome
    PROVE  Marks(s, t)
    BY DEF Marks, FlushFailed

LEMMA RejectMarks ==
    ASSUME NEW s \in State, NEW l \in Links, NEW why
    PROVE  Marks(s, Reject(s, l, why))
<1>1. PICK t : t = Reject(s, l, why)
    OBVIOUS
<1>2. /\ t.link = s.link /\ t.svc = s.svc
      /\ t.call = [c \in Calls |->
            IF \E e \in s.pend[l] : e.call = c /\ e.via = Here
            THEN [s.call[c] EXCEPT !.reply = why] ELSE s.call[c]]
    BY <1>1 DEF State, Reject
<1>3. \A c \in Calls : /\ t.call[c].pc = s.call[c].pc
                       /\ t.call[c].outcome = s.call[c].outcome
    BY <1>2 DEF State, CallRec
<1> QED
    BY <1>1, <1>2, <1>3 DEF Marks, FlushFailed

LEMMA ShutMarks ==
    ASSUME NEW s \in State, NEW l \in 0 .. MaxLinks
    PROVE  Marks(s, Shut(s, l))
<1>1. CASE l = 0 \/ s.link[l].closed
    BY <1>1, SameMarks DEF Shut
<1>2. CASE ~(l = 0 \/ s.link[l].closed)
    <2> DEFINE x == [s.link[l] EXCEPT !.closed = TRUE, !.terminated = TRUE]
    <2>1. l \in Links
        BY <1>2, CallAssumption DEF Links
    <2>2. s.link[l] \in LinkRec
        BY <2>1 DEF State
    <2>3. x.of = s.link[l].of /\ x.errored = s.link[l].errored /\ x \in LinkRec
        BY <2>2 DEF LinkRec
    <2>4. PICK t : t = [s EXCEPT !.link[l] = x]
        OBVIOUS
    <2>5. [s EXCEPT !.link[l].closed = TRUE, !.link[l].terminated = TRUE] = t
        BY <2>1, <2>2, <2>4 DEF State, LinkRec
    <2>6. Shut(s, l) = Reject(t, l, "transport")
        BY <1>2, <2>5 DEF Shut
    <2> HIDE DEF x
    <2>7. t \in State /\ Marks(s, t)
        BY <2>1, <2>3, <2>4, LinkMarks DEF State
    <2> QED
        BY <2>1, <2>6, <2>7, RejectMarks, MarksPass
<1> QED
    BY <1>1, <1>2

LEMMA SettledMarks ==
    ASSUME NEW s \in State, NEW p \in Procs, NEW how
    PROVE  Marks(s, Settled(s, p, how))
<1>1. PICK t : t = Settled(s, p, how)
    OBVIOUS
<1>2. /\ t.link = s.link
      /\ t.svc = [s.svc EXCEPT ![p] = [@ EXCEPT !.failover = "idle", !.target = None, !.attempt = 0]]
      /\ t.call = [c \in Calls |->
            IF s.call[c].of = p /\ s.call[c].pc \in {"entry", "before", "retry"}
            THEN [s.call[c] EXCEPT !.reply = how] ELSE s.call[c]]
    BY <1>1 DEF State, Settled
<1>3. \A c \in Calls : /\ t.call[c].pc = s.call[c].pc
                       /\ t.call[c].outcome = s.call[c].outcome
    BY <1>2 DEF State, CallRec
<1>4. \A q \in Procs : t.svc[q].closed = s.svc[q].closed
    BY <1>2 DEF State, Service, ServiceRec
<1> QED
    BY <1>1, <1>2, <1>3, <1>4 DEF Marks, FlushFailed

LEMMA AttemptFailsMarks ==
    ASSUME NEW s \in State, NEW p \in Procs
    PROVE  Marks(s, AttemptFails(s, p))
<1> DEFINE x == [s.svc[p] EXCEPT !.attempt = @ + 1, !.failover = "asleep"]
<1>0. s.svc[p] \in ServiceRec
    BY DEF State
<1>1. CASE s.svc[p].attempt + 1 < MaxAttempts
    <2>1. AttemptFails(s, p) = [s EXCEPT !.svc[p] = x]
        BY <1>0, <1>1 DEF AttemptFails, State, Service, ServiceRec
    <2>2. x.closed = s.svc[p].closed
        BY <1>0 DEF Service, ServiceRec
    <2> HIDE DEF x
    <2> QED
        BY <2>1, <2>2, SvcMarks
<1>2. CASE ~(s.svc[p].attempt + 1 < MaxAttempts)
    BY <1>2, SettledMarks DEF AttemptFails
<1> QED
    BY <1>1, <1>2

LEMMA PromoteMarks ==
    ASSUME NEW s, NEW r, Good(s, r), NEW p \in Procs
    PROVE  Marks(s, Promote(s, p))
<1>0. s \in State /\ s.svc[p].cur \in 0 .. MaxLinks
    BY DEF Good, State, Service, ServiceRec
<1>1. CASE ~Room(s)
    BY <1>0, <1>1, AttemptFailsMarks DEF Promote
<1>2. CASE Room(s)
    <2>1. PICK t : t = Shut(s, s.svc[p].cur)
        OBVIOUS
    <2>2. /\ Good(t, r) /\ t.svc = s.svc /\ Marks(s, t)
          /\ \A k \in Links : t.link[k].of = s.link[k].of
        BY <1>0, <2>1, ShutGood, ShutMarks
    <2>3. PICK n \in Links : n = Fresh(t) /\ t.link[n].of = None
        BY <1>2, <2>2 DEF Room, Fresh
    <2> DEFINE k == Opened(p, p, "worker")
    <2>4. PICK u : u = [t EXCEPT !.link[n] = k]
        OBVIOUS
    <2>5. t \in State /\ Good(u, r)
        <3>1. Good(u, r)
            BY <2>2, <2>3, <2>4, OpenedGood
        <3> QED
            BY <2>2, <3>1 DEF Good
    <2>6. Marks(t, u)
        <3> HIDE DEF k
        <3> QED
            BY <2>3, <2>4, <2>5, LinkMarks
    <2>7. PICK w : w = [u EXCEPT !.owner = p]
        OBVIOUS
    <2>8. w \in State /\ u \in State /\ Marks(u, w) /\ w.svc = s.svc
        <3>1. u \in State
            BY <2>5 DEF Good
        <3>2. /\ w \in State /\ w.link = u.link /\ w.svc = u.svc /\ w.call = u.call
            BY SMTT(30), <2>7, <3>1 DEF State
        <3>3. u.svc = t.svc
            BY <2>4, <2>5 DEF State
        <3> QED
            BY <2>2, <3>1, <3>2, <3>3, SameMarks
    <2> DEFINE y == [s.svc[p] EXCEPT !.mode = "leader", !.cur = n, !.ready = TRUE,
                                     !.ro = FALSE, !.failover = "serving"]
    <2>9. Promote(s, p) = [w EXCEPT !.svc[p] = y]
        BY Zenon, <1>0, <1>2, <2>1, <2>2, <2>3, <2>4, <2>5, <2>7, <2>8 DEF Promote, State
    <2>10. y.closed = s.svc[p].closed
        BY <1>0 DEF State, Service, ServiceRec
    <2> HIDE DEF y
    <2>11. Marks(w, [w EXCEPT !.svc[p] = y])
        BY <2>8, <2>10, SvcMarks
    <2> QED
        BY <2>2, <2>6, <2>8, <2>9, <2>11, MarksPass
<1> QED
    BY <1>1, <1>2

LEMMA AttemptMarks ==
    ASSUME NEW s, NEW r, Good(s, r), NEW p \in Procs
    PROVE  Marks(s, Attempt(s, p))
<1> DEFINE y == [s.svc[p] EXCEPT !.failover = "connecting", !.target = s.owner]
<1>0. s \in State /\ s.svc[p] \in ServiceRec
    BY DEF Good, State
<1>1. CASE s.owner = None \/ ~alive[s.owner]
    BY <1>1, PromoteMarks DEF Attempt
<1>2. CASE ~(s.owner = None \/ ~alive[s.owner])
    <2>1. Attempt(s, p) = [s EXCEPT !.svc[p] = y]
        BY <1>0, <1>2 DEF Attempt, State, Service, ServiceRec
    <2>2. y.closed = s.svc[p].closed
        BY <1>0 DEF Service, ServiceRec
    <2> HIDE DEF y
    <2> QED
        BY <1>0, <2>1, <2>2, SvcMarks
<1> QED
    BY <1>1, <1>2

LEMMA StartFailoverMarks ==
    ASSUME NEW s, NEW r, Good(s, r), NEW p \in Procs
    PROVE  Marks(s, StartFailover(s, p))
<1> DEFINE y == [s.svc[p] EXCEPT !.attempt = 0]
<1>0. s \in State /\ s.svc[p] \in ServiceRec
    BY DEF Good, State
<1>1. CASE s.svc[p].failover # "idle"
    BY <1>1, SameMarks DEF StartFailover
<1>2. CASE s.svc[p].failover = "idle"
    <2>1. y \in ServiceRec /\ y.cur = s.svc[p].cur /\ y.closed = s.svc[p].closed
        <3>1. 0 \in 0 .. MaxAttempts
            BY CallAssumption
        <3> QED
            BY <1>0, <3>1 DEF Service, ServiceRec
    <2>2. PICK t : t = [s EXCEPT !.svc[p] = y]
        OBVIOUS
    <2>3. StartFailover(s, p) = Attempt(t, p)
        BY <1>0, <1>2, <2>2 DEF StartFailover, State, Service, ServiceRec
    <2> HIDE DEF y
    <2>4. y.cur = 0 \/ s.link[y.cur].of = p
        BY <2>1 DEF Good, Linked
    <2>5. Good(t, r) /\ Marks(s, t)
        BY <1>0, <2>1, <2>2, <2>4, SvcGood, SvcMarks
    <2> QED
        BY <2>3, <2>5, AttemptMarks, MarksPass
<1> QED
    BY <1>1, <1>2

LEMMA ExitedMarks ==
    ASSUME NEW s, NEW r, Good(s, r), NEW p \in Procs
    PROVE  Marks(s, Exited(s, p))
<1> DEFINE y == [s.svc[p] EXCEPT !.ready = FALSE]
<1>0. s \in State /\ s.svc[p] \in ServiceRec
    BY DEF Good, State
<1>1. y \in ServiceRec /\ y.cur = s.svc[p].cur /\ y.closed = s.svc[p].closed
    BY <1>0 DEF Service, ServiceRec
<1>2. PICK t : t = [s EXCEPT !.svc[p] = y]
    OBVIOUS
<1>3. t = [s EXCEPT !.svc[p].ready = FALSE]
    BY <1>0, <1>2 DEF State, Service, ServiceRec
<1> HIDE DEF y
<1>4. y.cur = 0 \/ s.link[y.cur].of = p
    BY <1>1 DEF Good, Linked
<1>5. Good(t, r) /\ Marks(s, t)
    BY <1>0, <1>1, <1>2, <1>4, SvcGood, SvcMarks
<1>6. Exited(s, p) = t \/ Exited(s, p) = StartFailover(t, p)
    BY <1>3 DEF Exited
<1> QED
    BY <1>5, <1>6, StartFailoverMarks, MarksPass

LEMMA MarkDeadMarks ==
    ASSUME NEW s \in State, NEW p \in Procs
    PROVE  Marks(s, MarkDead(s, p))
<1> DEFINE y == [s.svc[p] EXCEPT !.ready = FALSE]
           l == s.svc[p].cur
           x == [s.link[l] EXCEPT !.terminated = TRUE]
<1>0. s.svc[p] \in ServiceRec
    BY DEF State
<1>1. y \in ServiceRec /\ y.closed = s.svc[p].closed
    BY <1>0 DEF Service, ServiceRec
<1>2. PICK t : t = [s EXCEPT !.svc[p] = y]
    OBVIOUS
<1>3. t = [s EXCEPT !.svc[p].ready = FALSE]
    BY <1>0, <1>2 DEF State, Service, ServiceRec
<1> HIDE DEF y
<1>4. t \in State /\ Marks(s, t) /\ t.link = s.link
    BY <1>1, <1>2, SvcMarks DEF State
<1>5. CASE l = 0
    BY <1>3, <1>4, <1>5 DEF MarkDead
<1>6. CASE l # 0
    <2>1. l \in Links
        BY <1>0, <1>6, CallAssumption DEF Links, Service, ServiceRec
    <2>2. x \in LinkRec /\ x.of = s.link[l].of /\ x.errored = s.link[l].errored
        <3>1. s.link[l] \in LinkRec
            BY <2>1 DEF State
        <3> HIDE DEF l
        <3> QED
            BY <3>1 DEF LinkRec
    <2>3. PICK u : u = [t EXCEPT !.link[l] = x]
        OBVIOUS
    <2>4. u = [t EXCEPT !.link[l].terminated = TRUE]
        BY <1>4, <2>1, <2>3 DEF State, LinkRec
    <2>5. MarkDead(s, p) = Reject(u, l, "transport")
        BY <1>3, <1>6, <2>4 DEF MarkDead
    <2> HIDE DEF x, l
    <2>6. u \in State
        BY <1>4, <2>1, <2>2, <2>3 DEF State
    <2>7. Marks(t, u)
        BY <1>4, <2>1, <2>2, <2>3, LinkMarks
    <2> QED
        BY <1>4, <2>1, <2>5, <2>6, <2>7, RejectMarks, MarksPass
<1> QED
    BY <1>5, <1>6

\* A call that is done stays as it is.
LEMMA GoToMarks ==
    ASSUME NEW s \in State, NEW c \in Calls, NEW pc, s.call[c].pc # "done"
    PROVE  Marks(s, GoTo(s, c, pc))
<1> DEFINE x == [s.call[c] EXCEPT !.pc = pc, !.reply = "none"]
<1>1. GoTo(s, c, pc) = [s EXCEPT !.call[c] = x]
    BY DEF GoTo, State, CallRec
<1>2. ~FlushFailed(s, c)
    BY DEF FlushFailed
<1> HIDE DEF x
<1> QED
    BY <1>1, <1>2, CallMarks

\* A flush that fails is marked.
LEMMA FinishMarks ==
    ASSUME NEW s \in State, NEW c \in Calls, NEW outcome \in Outcome \cup Reply,
           s.call[c].pc # "done" \/ outcome \notin {"none", "ok"}
    PROVE  /\ Marks(s, Finish(s, c, outcome))
           /\ Kind[c] = "flush" /\ outcome \notin {"none", "ok"} => FlushFailed(Finish(s, c, outcome), c)
<1> DEFINE x == [s.call[c] EXCEPT !.pc = "done", !.reply = "none", !.outcome = outcome]
<1>0. s.call[c] \in CallRec /\ s.call[c].of \in Procs
    BY DEF State, CallRec
<1>1. x \in CallRec /\ x.pc = "done" /\ x.outcome = outcome
    BY <1>0 DEF CallRec, Pc, Reply
<1>2. PICK t : t = [s EXCEPT !.call[c] = x]
    OBVIOUS
<1>3. Finish(s, c, outcome) \in {t, MarkDead(t, s.call[c].of)}
    BY <1>2 DEF Finish
<1>4. FlushFailed(s, c) => x.pc = "done" /\ x.outcome \notin {"none", "ok"}
    BY <1>1 DEF FlushFailed
<1> HIDE DEF x
<1>5. t \in State /\ Marks(s, t) /\ t.call[c] = x
    BY <1>1, <1>2, <1>4, CallMarks DEF State
<1>6. Kind[c] = "flush" /\ outcome \notin {"none", "ok"} => FlushFailed(t, c)
    BY <1>1, <1>5 DEF FlushFailed
<1>7. Marks(t, t) /\ Marks(t, MarkDead(t, s.call[c].of))
    BY <1>0, <1>5, MarkDeadMarks, SameMarks
<1>8. PICK u : u = Finish(s, c, outcome)
    OBVIOUS
<1>9. Marks(t, u)
    BY <1>3, <1>7, <1>8
<1>10. Marks(s, u) /\ (FlushFailed(t, c) => FlushFailed(u, c))
    BY <1>5, <1>9, MarksPass DEF Marks
<1> QED
    BY <1>6, <1>8, <1>10

SentCall(k, pc) == [k EXCEPT !.pc = pc, !.reply = "none", !.sends = @ + 1]

\* What Send comes to on a link that takes the call.
LEMMA SendSent ==
    ASSUME NEW s \in State, NEW c \in Calls, NEW pc, NEW l, l = s.svc[s.call[c].of].cur,
           l # 0, Sendable(s, l),
           NEW x, x = SentCall(s.call[c], pc)
    PROVE  Send(s, c, pc) = Sent(s, c, x, l)
<1> DEFINE g == [s.call[c] EXCEPT !.pc = pc, !.reply = "none"]
           i == s.link[l].next
<1>0. s.call \in [Calls -> CallRec] /\ s.call[c] \in CallRec
    BY DEF State
<1>1. GoTo(s, c, pc) = [s EXCEPT !.call[c] = g]
    BY <1>0 DEF GoTo, State, CallRec
<1>2. x = [g EXCEPT !.sends = @ + 1]
    BY <1>0 DEF CallRec, SentCall
<1>3. PICK t : t = GoTo(s, c, pc)
    OBVIOUS
<1> HIDE DEF g
<1>4. /\ t.call = [s.call EXCEPT ![c] = g] /\ t.link = s.link
      /\ t.pend = s.pend /\ t.wire = s.wire /\ t.svc = s.svc /\ t.owner = s.owner
      /\ t = [s EXCEPT !.call = t.call]
    BY SMTT(30), <1>1, <1>3 DEF State
<1>5. Send(s, c, pc) =
        [t EXCEPT
           !.call[c].sends = @ + 1,
           !.link[l].next = @ + 1,
           !.pend[l] = @ \cup {[id |-> i, call |-> c, via |-> Here]},
           !.wire = @ \cup {[link |-> l, id |-> i, dir |-> "request",
                             call |-> c, res |-> "none"]}]
    BY SMTT(30), <1>3 DEF Send
<1>6. PICK u : u = Send(s, c, pc)
    OBVIOUS
<1>7. PICK new, msg : /\ new = [id |-> i, call |-> c, via |-> Here]
                      /\ msg = [link |-> l, id |-> i, dir |-> "request",
                                call |-> c, res |-> "none"]
    BY Zenon
<1>8. u = [t EXCEPT !.call[c].sends = @ + 1, !.link[l].next = @ + 1,
                    !.pend[l] = @ \cup {new}, !.wire = @ \cup {msg}]
    BY Zenon, <1>5, <1>6, <1>7
<1>9. /\ u.svc = t.svc /\ u.owner = t.owner
      /\ u.call = [t.call EXCEPT ![c].sends = @ + 1]
      /\ u.link = [t.link EXCEPT ![l].next = @ + 1]
      /\ u.pend = [t.pend EXCEPT ![l] = @ \cup {new}]
      /\ u.wire = t.wire \cup {msg}
    BY Zenon, <1>4, <1>8 DEF State
<1>10. u = [svc |-> u.svc, owner |-> u.owner, call |-> u.call,
            link |-> u.link, pend |-> u.pend, wire |-> u.wire]
    BY Zenon, <1>4, <1>8 DEF State
<1>11. [[s.call EXCEPT ![c] = g] EXCEPT ![c].sends = @ + 1] = [s.call EXCEPT ![c] = x]
    <2>1. [s.call EXCEPT ![c] = g][c] = g
        BY Zenon, <1>0
    <2> QED
        BY <1>0, <1>2, <2>1
<1>12. u = [svc |-> s.svc, owner |-> s.owner, call |-> [s.call EXCEPT ![c] = x],
            link |-> [s.link EXCEPT ![l].next = @ + 1],
            pend |-> [s.pend EXCEPT ![l] = @ \cup {new}],
            wire |-> s.wire \cup {msg}]
    BY Zenon, <1>4, <1>9, <1>10, <1>11
<1> QED
    BY Zenon, <1>6, <1>7, <1>12 DEF Sent

\* And on one that does not.
LEMMA SendFails ==
    ASSUME NEW s \in State, NEW c \in Calls, NEW pc \in Pc,
           NEW l, l = s.svc[s.call[c].of].cur, l # 0, ~Sendable(s, l),
           NEW f, f = [s.call[c] EXCEPT !.pc = pc, !.reply = "transport"],
           NEW t, t = [s EXCEPT !.call[c] = f]
    PROVE  Send(s, c, pc) = t
<1> DEFINE g == [s.call[c] EXCEPT !.pc = pc, !.reply = "none"]
<1>0. s.call \in [Calls -> CallRec] /\ s.call[c] \in CallRec
    BY DEF State
<1>1. GoTo(s, c, pc) = [s EXCEPT !.call[c] = g]
    BY <1>0 DEF GoTo, State, CallRec
<1>2. f = [g EXCEPT !.reply = "transport"] /\ g \in CallRec
    BY <1>0 DEF CallRec, Reply
<1> HIDE DEF g
<1>3. Send(s, c, pc) = [[s EXCEPT !.call[c] = g] EXCEPT !.call[c].reply = "transport"]
    BY <1>1 DEF Send
<1> QED
    BY <1>0, <1>2, <1>3 DEF State

LEMMA SendMarks ==
    ASSUME NEW s \in State, NEW c \in Calls, NEW pc \in Pc, s.call[c].pc # "done"
    PROVE  Marks(s, Send(s, c, pc))
<1> DEFINE l == s.svc[s.call[c].of].cur
<1>0. s.call[c] \in CallRec /\ s.call[c].of \in Procs /\ s.svc[s.call[c].of] \in ServiceRec
    BY DEF State, CallRec
<1>1. CASE l = 0
    BY <1>1, FinishMarks DEF Send, Outcome
<1>2. CASE l # 0 /\ ~Sendable(s, l)
    <2>1. PICK f : f = [s.call[c] EXCEPT !.pc = pc, !.reply = "transport"]
        OBVIOUS
    <2>2. Send(s, c, pc) = [s EXCEPT !.call[c] = f]
        <3>1. PICK k : k = s.svc[s.call[c].of].cur
            OBVIOUS
        <3>2. k # 0 /\ ~Sendable(s, k)
            BY <1>2, <3>1
        <3>3. PICK t : t = [s EXCEPT !.call[c] = f]
            BY Zenon
        <3> HIDE DEF l
        <3>4. Send(s, c, pc) = t
            BY Zenon, <2>1, <3>1, <3>2, <3>3, SendFails
        <3> QED
            BY <3>3, <3>4
    <2>3. ~FlushFailed(s, c)
        BY DEF FlushFailed
    <2> QED
        BY <2>2, <2>3, CallMarks
<1>3. CASE l # 0 /\ Sendable(s, l)
    <2>1. PICK x : x = SentCall(s.call[c], pc)
        OBVIOUS
    <2>2. Send(s, c, pc) = Sent(s, c, x, l)
        BY <1>3, <2>1, SendSent
    <2>3. PICK u : u = Sent(s, c, x, l)
        BY Zenon
    <2>4. l \in Links
        BY <1>0, <1>3, CallAssumption DEF Links, Service, ServiceRec
    <2> HIDE DEF l
    <2>5. /\ u.svc = s.svc /\ u.call = [s.call EXCEPT ![c] = x]
          /\ u.link = [s.link EXCEPT ![l].next = @ + 1]
        BY <2>3 DEF Sent
    <2>6. ASSUME NEW k \in Links
          PROVE  u.link[k].of = s.link[k].of /\ u.link[k].errored = s.link[k].errored
        <3>1. s.link[k] \in LinkRec
            BY DEF State
        <3> QED
            BY <2>4, <2>5, <3>1 DEF State, LinkRec
    <2>7. \A b \in Calls : FlushFailed(s, b) => FlushFailed(u, b)
        <3>1. ~FlushFailed(s, c)
            BY DEF FlushFailed
        <3>2. \A b \in Calls : b # c => u.call[b] = s.call[b]
            BY <2>5 DEF State
        <3> QED
            BY <3>1, <3>2 DEF FlushFailed
    <2> QED
        BY <2>2, <2>3, <2>5, <2>6, <2>7 DEF Marks
<1> QED
    BY <1>1, <1>2, <1>3

\* A call that is not a read is given up, whether or not a failover starts.
LEMMA LostMarks ==
    ASSUME NEW s, NEW r, Good(s, r), Served(s), NEW c \in Calls, NEW p \in Procs
    PROVE  Marks(s, Finish(StartFailover(s, p), c, "lost"))
<1>1. PICK t : t = StartFailover(s, p)
    OBVIOUS
<1>2. t \in State /\ Marks(s, t)
    <2>1. Good(t, r)
        BY <1>1, StartFailoverGood, ServedFromOthers
    <2> QED
        BY <1>1, <2>1, StartFailoverMarks DEF Good
<1>3. Marks(t, Finish(t, c, "lost"))
    <2>1. "lost" \in Outcome \cup Reply
        BY DEF Outcome
    <2> QED
        BY <1>2, <2>1, FinishMarks
<1> QED
    BY <1>1, <1>2, <1>3, MarksPass

\* What Forwarded comes to on a link that takes the request.
LEMMA PassingOn ==
    ASSUME NEW s \in State, NEW m, NEW k, k # 0, Sendable(s, k)
    PROVE  Forwarded(s, m, k) = PassedOn(s, m, k)
<1>1. PICK u, i, via, new, msg :
         /\ u = Forwarded(s, m, k) /\ i = s.link[k].next
         /\ via = [link |-> m.link, id |-> m.id]
         /\ new = [id |-> i, call |-> m.call, via |-> via]
         /\ msg = [link |-> k, id |-> i, dir |-> "request", call |-> m.call, res |-> "none"]
    OBVIOUS
<1>2. u = [s EXCEPT !.link[k].next = @ + 1, !.pend[k] = @ \cup {new},
                    !.wire = (@ \ {m}) \cup {msg}]
    BY <1>1 DEF Forwarded
<1>3. /\ u.svc = s.svc /\ u.owner = s.owner /\ u.call = s.call
      /\ u.link = [s.link EXCEPT ![k].next = @ + 1]
      /\ u.pend = [s.pend EXCEPT ![k] = @ \cup {new}]
      /\ u.wire = (s.wire \ {m}) \cup {msg}
    BY <1>2 DEF State
<1>4. u = [svc |-> u.svc, owner |-> u.owner, call |-> u.call,
           link |-> u.link, pend |-> u.pend, wire |-> u.wire]
    BY <1>2 DEF State
<1> QED
    BY <1>1, <1>3, <1>4 DEF PassedOn

LEMMA RemoteMarks ==
    ASSUME NEW s, NEW r, Good(s, r), NEW c \in Calls, s.call[c].sends = 0, Served(s),
           s.call[c].pc # "done"
    PROVE  Marks(s, Remote(s, c))
<1> DEFINE p == s.call[c].of
<1>0. p \in Procs /\ s \in State /\ {"app", "lost"} \subseteq Outcome /\ "sent" \in Pc
    BY DEF Good, State, CallRec, Outcome, Pc
<1>1. CASE s.svc[p].cur = 0
    BY <1>0, <1>1, FinishMarks DEF Remote
<1>2. CASE s.svc[p].cur # 0 /\ (Healthy(s, s.svc[p].cur) \/ ~s.svc[p].provider)
    BY <1>0, <1>2, SendMarks DEF Remote
<1>3. CASE /\ s.svc[p].cur # 0 /\ ~(Healthy(s, s.svc[p].cur) \/ ~s.svc[p].provider)
           /\ Kind[c] = "read"
    <2>1. Remote(s, c) = StartFailover(GoTo(s, c, "before"), p)
        BY <1>3 DEF Remote
    <2>2. Good(GoTo(s, c, "before"), r)
        <3>1. CanWait(s, c, "before")
            BY <1>3 DEF CanWait
        <3> QED
            BY <3>1, GoToGood
    <2>3. Marks(s, GoTo(s, c, "before"))
        BY <1>0, GoToMarks
    <2> QED
        BY <1>0, <2>1, <2>2, <2>3, StartFailoverMarks, MarksPass
<1>4. CASE /\ s.svc[p].cur # 0 /\ ~(Healthy(s, s.svc[p].cur) \/ ~s.svc[p].provider)
           /\ Kind[c] # "read"
    <2>1. Remote(s, c) = Finish(StartFailover(s, p), c, "lost")
        BY <1>4 DEF Remote
    <2> QED
        BY <1>0, <2>1, LostMarks
<1> QED
    BY <1>1, <1>2, <1>3, <1>4

LEMMA DispatchMarks ==
    ASSUME NEW s, NEW r, Good(s, r), NEW c \in Calls, s.call[c].sends = 0, Served(s),
           s.call[c].pc # "done"
    PROVE  Marks(s, Dispatch(s, c))
<1>1. \/ Dispatch(s, c) = Finish(s, c, "app") \/ Dispatch(s, c) = Remote(s, c)
      \/ Dispatch(s, c) = GoTo(s, c, "local")
    BY DEF Dispatch
<1>2. "app" \in Outcome /\ s \in State
    BY DEF Outcome, Good
<1> QED
    BY <1>1, <1>2, FinishMarks, RemoteMarks, GoToMarks

LEMMA FailedMarks ==
    ASSUME NEW s, NEW r, Good(s, r), NEW c \in Calls, s.call[c].pc = "sent", Served(s)
    PROVE  Marks(s, Failed(s, c))
<1> DEFINE p == s.call[c].of
<1>0. p \in Procs /\ s \in State /\ {"transport", "lost"} \subseteq Outcome
    BY DEF Good, State, CallRec, Outcome
<1>1. CASE ~s.svc[p].provider
    <2>1. Failed(s, c) \in {Finish(s, c, "transport"), Finish(s, c, "lost")}
        BY <1>1 DEF Failed
    <2> QED
        BY <1>0, <2>1, FinishMarks
<1>2. CASE s.svc[p].provider /\ Kind[c] = "read"
    <2>1. Failed(s, c) = StartFailover(GoTo(s, c, "retry"), p)
        BY <1>2 DEF Failed
    <2>2. Good(GoTo(s, c, "retry"), r)
        <3>1. CanWait(s, c, "retry")
            BY <1>2 DEF Good, SendsOf, CanWait
        <3> QED
            BY <3>1, GoToGood
    <2>3. Marks(s, GoTo(s, c, "retry"))
        BY <1>0, GoToMarks
    <2> QED
        BY <1>0, <2>1, <2>2, <2>3, StartFailoverMarks, MarksPass
<1>3. CASE s.svc[p].provider /\ Kind[c] # "read"
    <2>1. Failed(s, c) = Finish(StartFailover(s, p), c, "lost")
        BY <1>3 DEF Failed
    <2> QED
        BY <1>0, <2>1, LostMarks
<1> QED
    BY <1>1, <1>2, <1>3

LEMMA AfterFailoverMarks ==
    ASSUME NEW s, NEW r, Good(s, r), NEW c \in Calls,
           s.call[c].pc \in {"entry", "before", "retry"}, Served(s)
    PROVE  Marks(s, AfterFailover(s, c))
<1>0. s \in State /\ "lost" \in Outcome /\ {"sent", "resent"} \subseteq Pc
    BY DEF Good, Outcome, Pc
<1>1. CASE s.call[c].pc = "entry"
    <2>1. s.call[c].sends = 0
        BY <1>1 DEF Good, SendsOf
    <2> QED
        BY <1>1, <2>1, DispatchMarks DEF AfterFailover
<1>2. CASE s.call[c].pc # "entry"
    <2>1. AfterFailover(s, c) \in {Finish(s, c, "lost"), Send(s, c, "sent"), Send(s, c, "resent")}
        BY <1>2 DEF AfterFailover
    <2> QED
        BY <1>0, <2>1, FinishMarks, SendMarks
<1> QED
    BY <1>1, <1>2

LEMMA ForwardedMarks ==
    ASSUME NEW s \in State, NEW m \in s.wire, NEW k \in 0 .. MaxLinks
    PROVE  Marks(s, Forwarded(s, m, k))
<1>1. CASE k = 0 \/ ~Sendable(s, k)
    <2>1. PICK res, W : /\ Forwarded(s, m, k) = [s EXCEPT !.wire = W]
                        /\ W = (s.wire \ {m}) \cup {Answer(m, m.call, res)}
        BY <1>1 DEF Forwarded, State
    <2>2. PICK t : t = [s EXCEPT !.wire = W]
        OBVIOUS
    <2>3. t.svc = s.svc /\ t.link = s.link /\ t.call = s.call
        BY <2>2 DEF State
    <2> QED
        BY <2>1, <2>2, <2>3, SameMarks
<1>2. CASE k # 0 /\ Sendable(s, k)
    <2>1. PICK t : t = PassedOn(s, m, k)
        OBVIOUS
    <2>2. k \in Links
        BY <1>2, CallAssumption DEF Links
    <2>3. Forwarded(s, m, k) = PassedOn(s, m, k)
        BY <1>2, PassingOn
    <2>4. t.svc = s.svc /\ t.call = s.call /\ t.link = [s.link EXCEPT ![k].next = @ + 1]
        BY <2>1 DEF PassedOn
    <2>5. ASSUME NEW l \in Links
          PROVE  t.link[l].of = s.link[l].of /\ t.link[l].errored = s.link[l].errored
        <3>1. s.link[l] \in LinkRec
            BY DEF State
        <3> QED
            BY <2>2, <2>4, <3>1 DEF State, LinkRec
    <2> QED
        <3>1. Marks(s, t)
            BY <2>4, <2>5, SameMarks
        <3> QED
            BY <2>1, <2>3, <3>1
<1> QED
    BY <1>1, <1>2

LEMMA SettledWithMarks ==
    ASSUME NEW s \in State, NEW l \in Links, NEW e \in s.pend[l], NEW res, NEW got
    PROVE  Marks(s, SettledWith(s, l, e, res, got))
<1>0. e \in EntryRec
    BY DEF State
<1>1. PICK t : t = [s EXCEPT !.pend[l] = @ \ {e}]
    OBVIOUS
<1>2. t.svc = s.svc /\ t.link = s.link /\ t.call = s.call /\ t.wire = s.wire
    BY <1>1 DEF State
<1>3. CASE e.via = Here
    <2>1. PICK x : x = [s.call[e.call] EXCEPT !.reply = res, !.got = got]
        OBVIOUS
    <2>2. PICK u : u = [t EXCEPT !.call[e.call] = x]
        OBVIOUS
    <2>3. u.svc = s.svc /\ u.link = s.link /\ u.call = [s.call EXCEPT ![e.call] = x]
        BY <1>1, <1>2, <2>2 DEF State
    <2>4. SettledWith(s, l, e, res, got) = u
        BY <1>1, <1>2, <1>3, <2>1, <2>2 DEF SettledWith
    <2>5. ASSUME NEW c \in Calls
          PROVE  u.call[c].pc = s.call[c].pc /\ u.call[c].outcome = s.call[c].outcome
        <3>1. s.call[c] \in CallRec
            BY DEF State
        <3> QED
            BY <2>1, <2>3, <3>1 DEF State, CallRec
    <2> QED
        <3>1. Marks(s, u)
            BY <2>3, <2>5 DEF Marks, FlushFailed
        <3> QED
            BY <2>4, <3>1
<1>4. CASE e.via # Here
    <2>1. PICK u, W : u = [t EXCEPT !.wire = W] /\ W = t.wire \cup {Answer(e.via, e.call, res)}
        OBVIOUS
    <2>2. u.svc = s.svc /\ u.link = s.link /\ u.call = s.call
        BY <1>1, <1>2, <2>1 DEF State
    <2>3. SettledWith(s, l, e, res, got) = u
        BY <1>1, <1>4, <2>1 DEF SettledWith
    <2> QED
        BY <2>2, <2>3, SameMarks
<1> QED
    BY <1>3, <1>4

LEMMA CutLinksMarks ==
    ASSUME NEW s, NEW r, Good(s, r), NEW p \in Procs
    PROVE  Marks(s, CutLinksTo(s, p))
<1>0. s \in State
    BY DEF Good
<1>1. PICK t : t = CutLinksTo(s, p)
    OBVIOUS
<1>2. /\ t.svc = s.svc /\ t.call = s.call
      /\ t.link = [l \in Links |-> IF s.link[l].peer = p /\ s.link[l].kind = "socket"
                                   THEN [s.link[l] EXCEPT !.cut = TRUE] ELSE s.link[l]]
    BY <1>0, <1>1 DEF CutLinksTo, State
<1>3. ASSUME NEW l \in Links
      PROVE  t.link[l].of = s.link[l].of /\ t.link[l].errored = s.link[l].errored
    <2>1. s.link[l] \in LinkRec
        BY <1>0 DEF State
    <2> QED
        BY <1>2, <2>1 DEF LinkRec
<1> QED
    BY <1>1, <1>2, <1>3, SameMarks

\* Who is asked to forward a request is a process.
LEMMA RelayPeer ==
    ASSUME CallsInv, NEW m \in wire
    PROVE  m.link \in Links /\ link[m.link].of \in Procs /\ link[m.link].peer \in Procs
<1>0. PICK s : s = Now
    OBVIOUS
<1>1. Good(s, ran) /\ s \in State /\ s.wire = wire /\ s.link = link
    BY <1>0, NowGood
<1>2. m.link \in Links /\ m.id \in 1 .. link[m.link].next - 1
    BY <1>1 DEF Good, Numbered, Place
<1>3. link[m.link] \in LinkRec
    BY <1>1, <1>2 DEF State
<1>4. link[m.link].next # 1
    BY <1>2, <1>3 DEF LinkRec, Ids1
<1>5. link[m.link].peer # None /\ link[m.link].of # None
    BY <1>1, <1>2, <1>4 DEF Good, Linked
<1> QED
    BY <1>2, <1>3, <1>5 DEF LinkRec

\* An answer settles a pending call, or is dropped.
LEMMA DeliveredSettles ==
    ASSUME NEW s, NEW r, Good(s, r), NEW m \in s.wire, m.dir = "answer"
    PROVE  \E t, W : /\ Delivered(s, m) = [t EXCEPT !.wire = W] /\ W \subseteq t.wire
                     /\ \/ t = s
                        \/ \E e \in s.pend[m.link] : t = SettledWith(s, m.link, e, m.res, m.call)
<1>0. /\ s \in State /\ m \in MessageRec /\ m.link \in Links /\ Place(s, m.link, m.id, m.call)
    BY DEF Good, State, Numbered, MessageRec
<1>2. CASE ~\E e \in s.pend[m.link] : e.id = m.id
    <2>1. PICK W : W = s.wire \ {m}
        OBVIOUS
    <2>2. Delivered(s, m) = [s EXCEPT !.wire = W]
        BY <1>0, <1>2, <2>1 DEF Delivered, State
    <2> QED
        BY <2>1, <2>2
<1>3. CASE \E e \in s.pend[m.link] : e.id = m.id
    <2>1. PICK e \in s.pend[m.link] :
              e.id = m.id /\ e = CHOOSE x \in s.pend[m.link] : x.id = m.id
        BY <1>3
    <2>2. e.call = m.call
        BY <1>0, <2>1 DEF Place
    <2>3. PICK t : t = SettledWith(s, m.link, e, m.res, m.call)
        OBVIOUS
    <2>5. PICK W : W = IF e.via = Here THEN s.wire \ {m}
                       ELSE (s.wire \ {m}) \cup {Answer(e.via, m.call, m.res)}
        OBVIOUS
    <2>6. W \subseteq t.wire
        BY <1>0, <2>2, <2>3, <2>5 DEF SettledWith, State
    <2>7. Delivered(s, m) = [t EXCEPT !.wire = W]
        <3>1. PICK u : u = [[s EXCEPT !.wire = @ \ {m}] EXCEPT !.pend[m.link] = @ \ {e}]
            OBVIOUS
        <3>2. Delivered(s, m) =
                IF e.via = Here
                THEN [u EXCEPT !.call[e.call] = [@ EXCEPT !.reply = m.res, !.got = m.call]]
                ELSE [u EXCEPT !.wire = @ \cup {Answer(e.via, m.call, m.res)}]
            BY <1>3, <2>1, <3>1 DEF Delivered
        <3> QED
            BY <1>0, <2>2, <2>3, <2>5, <3>1, <3>2 DEF SettledWith, State
    <2> QED
        BY <2>3, <2>6, <2>7
<1> QED
    BY <1>2, <1>3

LEMMA DeliveredMarks ==
    ASSUME NEW s, NEW r, Good(s, r), NEW m \in s.wire, m.dir = "answer"
    PROVE  Marks(s, Delivered(s, m))
<1>0. s \in State /\ m.link \in Links
    BY DEF Good, State, MessageRec
<1>1. PICK t, W : /\ Delivered(s, m) = [t EXCEPT !.wire = W]
                  /\ \/ t = s
                     \/ \E e \in s.pend[m.link] : t = SettledWith(s, m.link, e, m.res, m.call)
    BY DeliveredSettles
<1>2. Marks(s, t)
    BY <1>0, <1>1, SameMarks, SettledWithMarks
<1>3. PICK u : u = [t EXCEPT !.wire = W]
    OBVIOUS
<1>4. u.svc = t.svc /\ u.link = t.link /\ u.call = t.call
    BY <1>3
<1>5. Marks(t, u)
    BY <1>4 DEF Marks, FlushFailed
<1> QED
    BY <1>1, <1>2, <1>3, <1>5, MarksPass

\* A timer settles a pending call with the text of its error.
LEMMA TimedOut ==
    ASSUME CallsInv, NEW l \in Links, NEW e, Timeout(l, e)
    PROVE  \E res \in {"timeout", "app"}, got \in {None, e.call} :
              Become(SettledWith(Now, l, e, res, got))
<1>0. PICK s : s = Now
    OBVIOUS
<1>1. /\ Good(s, ran) /\ Served(s) /\ s \in State /\ s.pend = pend
      /\ e \in s.pend[l]
    BY <1>0, NowGood DEF Timeout
<1>2. PICK got : got = IF e.via = Here THEN s.call[e.call].got ELSE None
    OBVIOUS
<1>3. PICK res : res = IF e.via = Here THEN "timeout" ELSE "app"
    OBVIOUS
<1>4. PICK t : t = SettledWith(s, l, e, res, got)
    OBVIOUS
<1>5. e.call \in Calls
    BY <1>1 DEF State, EntryRec
<1>6. got \in {None, e.call}
    BY <1>1, <1>2, <1>5 DEF Good, Answered
<1>7. Become(t)
    <2>1. PICK u : u = [s EXCEPT !.pend[l] = @ \ {e}]
        OBVIOUS
    <2>2. Become(IF e.via = Here THEN [u EXCEPT !.call[e.call].reply = "timeout"]
                 ELSE [u EXCEPT !.wire = @ \cup {Answer(e.via, e.call, "app")}])
        BY <1>0, <2>1 DEF Timeout
    <2>3. CASE e.via = Here
        <3>1. u.call = s.call /\ s.call \in [Calls -> CallRec]
            BY <1>1, <2>1 DEF State
        <3>2. [s.call[e.call] EXCEPT !.reply = "timeout"]
              = [s.call[e.call] EXCEPT !.reply = res, !.got = got]
            BY <1>2, <1>3, <1>5, <2>3, <3>1 DEF CallRec
        <3>3. t = [u EXCEPT !.call[e.call] = [s.call[e.call] EXCEPT !.reply = res, !.got = got]]
            BY <1>4, <2>1, <2>3, <3>1 DEF SettledWith
        <3> QED
            BY <2>2, <2>3, <3>1, <3>2, <3>3
    <2>4. CASE e.via # Here
        BY <1>3, <1>4, <2>1, <2>2, <2>4 DEF SettledWith
    <2> QED
        BY <2>3, <2>4
<1> QED
    BY <1>0, <1>3, <1>4, <1>6, <1>7

\* A process that connects has a new link and awaits nothing more.
Joined(s, p, n, y) ==
    [[s EXCEPT !.link[n] = Opened(p, s.svc[p].target, "socket")] EXCEPT !.svc[p] = y]

LEMMA Connecting ==
    ASSUME CallsInv, NEW p \in Procs, Connected(p)
    PROVE  \E n \in Links, y \in ServiceRec :
              /\ svc[p].target \in Procs /\ link[n].of = None
              /\ y.mode = "follower" /\ y.cur = n /\ y.closed = svc[p].closed
              /\ y.provider = svc[p].provider /\ y.serving = svc[p].serving
              /\ Become(Settled(Joined(Now, p, n, y), p, "up"))
<1>0. PICK s : s = Now
    OBVIOUS
<1>1. Good(s, ran) /\ Served(s) /\ s \in State /\ s.svc = svc /\ s.link = link
    BY <1>0, NowGood
<1>2. s.svc \in [Procs -> ServiceRec] /\ s.svc[p] \in ServiceRec
    BY <1>1 DEF State
<1>3. PICK q : q = svc[p].target
    OBVIOUS
<1>4. PICK n \in Links : n = Fresh(s) /\ s.link[n].of = None
    BY <1>0 DEF Connected, Room, Fresh
<1>5. PICK ro \in BOOLEAN :
        Become(Settled([s EXCEPT !.link[n] = Opened(p, q, "socket"),
                                 !.svc[p] = [@ EXCEPT !.mode = "follower",
                                                      !.cur = n, !.ro = ro]], p, "up"))
    BY <1>0, <1>3, <1>4 DEF Connected
<1>6. PICK u : u = [s EXCEPT !.link[n] = Opened(p, q, "socket")]
    OBVIOUS
<1>7. q \in Procs
    BY <1>1, <1>2, <1>3 DEF Connected, Service, ServiceRec
<1>8. PICK y : y = [s.svc[p] EXCEPT !.mode = "follower", !.cur = n, !.ro = ro]
    OBVIOUS
<1>9. /\ y \in ServiceRec /\ y.mode = "follower" /\ y.cur = n /\ y.closed = svc[p].closed
      /\ y.provider = svc[p].provider /\ y.serving = svc[p].serving
    <2>1. n \in 0 .. MaxLinks
        BY CallAssumption DEF Links
    <2> QED
        BY <1>1, <1>2, <1>8, <2>1 DEF Service, ServiceRec
<1>10. PICK t : t = [u EXCEPT !.svc[p] = y]
    OBVIOUS
<1>11. t = [s EXCEPT !.link[n] = Opened(p, q, "socket"),
                     !.svc[p] = [@ EXCEPT !.mode = "follower", !.cur = n, !.ro = ro]]
    BY <1>1, <1>2, <1>6, <1>8, <1>10 DEF State
<1>12. Become(Settled(t, p, "up"))
    BY <1>5, <1>11
<1>13. t = Joined(Now, p, n, y)
    BY <1>0, <1>1, <1>3, <1>6, <1>10 DEF Joined
<1> QED
    BY <1>1, <1>3, <1>4, <1>7, <1>9, <1>12, <1>13

-----------------------------------------------------------------------------
LEMMA BecomeMarks ==
    ASSUME NEW t, Marks(Now, t), Become(t)
    PROVE  Marks(Now, Now')
<1>1. Marks(t, Now')
    BY SameMarks DEF Now, Become
<1> QED
    BY <1>1, MarksPass

LEMMA CallerMarks ==
    ASSUME CallsInv, NEW c \in Calls, Caller(c)
    PROVE  Marks(Now, Now')
<1>0. PICK s : s = Now
    OBVIOUS
<1>1. /\ Good(s, ran) /\ Served(s) /\ s \in State /\ s.svc = svc /\ s.call = call
      /\ SendsOf(s, c) /\ s.call[c] \in CallRec
    BY <1>0, NowGood DEF Good, State
<1>2. {"app", "ok"} \subseteq Outcome
    BY DEF Outcome
<1>3. CASE Invoke(c)
    <2>1. s.call[c].sends = 0 /\ s.call[c].pc # "done"
        BY <1>1, <1>3 DEF Invoke, SendsOf
    <2>2. \/ Become(Finish(s, c, "app")) \/ Become(GoTo(s, c, "entry")) \/ Become(Dispatch(s, c))
        BY <1>0, <1>3 DEF Invoke
    <2>3. /\ Marks(s, Finish(s, c, "app")) /\ Marks(s, GoTo(s, c, "entry"))
          /\ Marks(s, Dispatch(s, c))
        BY <1>1, <1>2, <2>1, FinishMarks, GoToMarks, DispatchMarks
    <2> QED
        BY <1>0, <2>2, <2>3, BecomeMarks
<1>4. CASE LocalRead(c)
    <2>1. s.call[c].sends = 0 /\ s.call[c].pc # "done"
        BY <1>1, <1>4 DEF LocalRead, SendsOf
    <2>2. Become(Finish(s, c, "ok")) \/ Become(Remote(s, c))
        BY <1>0, <1>4 DEF LocalRead
    <2>3. Marks(s, Finish(s, c, "ok")) /\ Marks(s, Remote(s, c))
        BY <1>1, <1>2, <2>1, FinishMarks, RemoteMarks
    <2> QED
        BY <1>0, <2>2, <2>3, BecomeMarks
<1>5. CASE Resume(c)
    <2>1. s.call[c].pc \in {"entry", "before", "retry"} /\ Become(AfterFailover(s, c))
        BY <1>0, <1>1, <1>5 DEF Resume
    <2>2. Marks(s, AfterFailover(s, c))
        BY <1>1, <2>1, AfterFailoverMarks
    <2> QED
        BY <1>0, <2>1, <2>2, BecomeMarks
<1>6. CASE Returns(c)
    <2>1. CASE s.call[c].pc = "sent" /\ s.call[c].reply = "transport"
        <3>1. Become(Failed(s, c))
            BY <1>0, <1>1, <1>6, <2>1 DEF Returns
        <3>2. Marks(s, Failed(s, c))
            BY <1>1, <2>1, FailedMarks
        <3> QED
            BY <1>0, <3>1, <3>2, BecomeMarks
    <2>2. CASE ~(s.call[c].pc = "sent" /\ s.call[c].reply = "transport")
        <3>1. PICK o : o = s.call[c].reply
            OBVIOUS
        <3>2. Become(Finish(s, c, o)) /\ s.call[c].pc # "done"
            BY <1>0, <1>1, <1>6, <2>2, <3>1 DEF Returns
        <3>3. o \in Reply
            BY <1>1, <3>1 DEF CallRec
        <3>4. Marks(s, Finish(s, c, o))
            BY <1>1, <3>2, <3>3, FinishMarks
        <3> QED
            BY <1>0, <3>2, <3>4, BecomeMarks
    <2> QED
        BY <2>1, <2>2
<1> QED
    BY <1>3, <1>4, <1>5, <1>6 DEF Caller

LEMMA DeliverMarks ==
    ASSUME CallsInv, NEW m \in wire, Deliver(m)
    PROVE  Marks(Now, Now')
<1>0. PICK s : s = Now
    OBVIOUS
<1>1. Good(s, ran) /\ Served(s) /\ s \in State /\ s.svc = svc /\ s.link = link /\ s.wire = wire
    BY <1>0, NowGood
<1>2. CASE Work(m)
    BY <1>2, SameMarks DEF Work, Now
<1>3. CASE Relay(m)
    <2>1. PICK k : k = svc[link[m.link].peer].cur /\ Become(Forwarded(s, m, k))
        BY <1>0, <1>3 DEF Relay
    <2>2. link[m.link].peer \in Procs
        BY <1>0, <1>1, <1>3, RelayPeer
    <2>3. k \in 0 .. MaxLinks
        BY <1>1, <2>1, <2>2 DEF State, Service, ServiceRec
    <2>4. Marks(s, Forwarded(s, m, k))
        BY <1>1, <2>3, ForwardedMarks
    <2> QED
        BY <1>0, <2>1, <2>4, BecomeMarks
<1>4. CASE Arrive(m)
    <2>1. Become(Delivered(s, m)) /\ m.dir = "answer"
        BY <1>0, <1>4 DEF Arrive
    <2>2. Marks(s, Delivered(s, m))
        BY <1>1, <2>1, DeliveredMarks
    <2> QED
        BY <1>0, <2>1, <2>2, BecomeMarks
<1> QED
    BY <1>2, <1>3, <1>4 DEF Deliver

LEMMA TimeoutMarks ==
    ASSUME CallsInv, NEW l \in Links, NEW e, Timeout(l, e)
    PROVE  Marks(Now, Now')
<1>0. PICK s : s = Now
    OBVIOUS
<1>1. Good(s, ran) /\ Served(s) /\ s \in State /\ s.pend = pend
    BY <1>0, NowGood
<1>2. e \in s.pend[l]
    BY <1>1 DEF Timeout
<1>3. PICK res \in {"timeout", "app"}, got \in {None, e.call} : Become(SettledWith(s, l, e, res, got))
    BY <1>0, TimedOut
<1>4. Marks(s, SettledWith(s, l, e, res, got))
    BY <1>1, <1>2, SettledWithMarks
<1> QED
    BY <1>0, <1>3, <1>4, BecomeMarks

LEMMA RecoverMarks ==
    ASSUME CallsInv, NEW p \in Procs, Recover(p)
    PROVE  Marks(Now, Now')
<1>0. PICK s : s = Now
    OBVIOUS
<1>1. Good(s, ran) /\ Served(s) /\ s \in State /\ s.svc = svc /\ s.svc[p] \in ServiceRec
    BY <1>0, NowGood DEF State
<1>2. CASE ServerUp(p)
    <2>1. PICK y : y = [s.svc[p] EXCEPT !.serving = TRUE]
        OBVIOUS
    <2>2. PICK t : t = [s EXCEPT !.svc[p] = y]
        OBVIOUS
    <2>3. t = [s EXCEPT !.svc[p].serving = TRUE]
        BY <1>1, <2>1, <2>2 DEF State, Service, ServiceRec
    <2>4. y \in ServiceRec /\ y.closed = s.svc[p].closed
        BY <1>1, <2>1 DEF Service, ServiceRec
    <2>5. t \in State /\ Marks(s, t)
        BY <1>1, <2>2, <2>4, SvcMarks DEF State
    <2>6. Become(Settled(t, p, "up"))
        BY <1>0, <1>2, <2>3 DEF ServerUp
    <2> QED
        BY <1>0, <2>5, <2>6, SettledMarks, MarksPass, BecomeMarks
<1>3. CASE Connected(p)
    <2>1. PICK n \in Links, y \in ServiceRec :
             /\ svc[p].target \in Procs /\ link[n].of = None /\ y.closed = svc[p].closed
             /\ Become(Settled(Joined(Now, p, n, y), p, "up"))
        BY <1>3, Connecting
    <2>2. PICK k, u, t : /\ k = Opened(p, svc[p].target, "socket")
                         /\ u = [s EXCEPT !.link[n] = k] /\ t = [u EXCEPT !.svc[p] = y]
        OBVIOUS
    <2>3. u \in State /\ Marks(s, u) /\ u.svc = s.svc
        <3>1. k \in LinkRec
            <4>1. UnusedLink \in LinkRec
                BY DEF UnusedLink, LinkRec, Ids1
            <4> QED
                BY <2>1, <2>2, <4>1, CallAssumption DEF Opened, LinkRec, UnusedLink
        <3>2. s.link[n].of = None
            BY <1>0, <2>1, NowGood
        <3> QED
            BY <1>1, <2>2, <3>1, <3>2, LinkMarks DEF State
    <2>4. t \in State /\ Marks(u, t)
        BY <1>1, <2>1, <2>2, <2>3, SvcMarks DEF State
    <2>5. t = Joined(s, p, n, y)
        BY <1>1, <2>2 DEF Joined
    <2> QED
        BY <1>0, <2>1, <2>3, <2>4, <2>5, SettledMarks, MarksPass, BecomeMarks
<1>4. CASE ConnectFails(p)
    BY <1>0, <1>1, <1>4, AttemptFailsMarks, BecomeMarks DEF ConnectFails
<1>5. CASE NextAttempt(p)
    <2>1. Become(Settled(s, p, "down")) \/ Become(Attempt(s, p))
        BY <1>0, <1>5 DEF NextAttempt
    <2> QED
        BY <1>0, <1>1, <2>1, SettledMarks, AttemptMarks, BecomeMarks
<1> QED
    BY <1>2, <1>3, <1>4, <1>5 DEF Recover

LEMMA LinkClosedMarks ==
    ASSUME CallsInv, NEW l \in Links, LinkClosed(l)
    PROVE  Marks(Now, Now')
<1>0. PICK s, t : s = Now /\ t = Shut(s, l)
    OBVIOUS
<1>1. Good(s, ran) /\ Served(s) /\ s \in State /\ s.link = link
    BY <1>0, NowGood
<1>2. link[l].of \in Procs /\ l \in 0 .. MaxLinks
    BY <1>1, CallAssumption DEF LinkClosed, State, LinkRec, Links
<1>3. Good(t, ran) /\ Marks(s, t)
    BY <1>0, <1>1, <1>2, ShutGood, ShutMarks
<1>4. Marks(t, Exited(t, link[l].of)) /\ Become(Exited(t, link[l].of))
    BY <1>0, <1>2, <1>3, ExitedMarks DEF LinkClosed
<1> QED
    BY <1>0, <1>3, <1>4, MarksPass, BecomeMarks

\* What a crash leaves, but for the messages that are lost with it.
LEMMA Crashed ==
    ASSUME CallsInv, NEW p \in Procs, Crash(p)
    PROVE  /\ svc' = svc /\ owner' = owner /\ wire' \subseteq wire
           /\ link' = [l \in Links |-> IF link[l].peer = p /\ link[l].kind = "socket"
                                       THEN [link[l] EXCEPT !.cut = TRUE] ELSE link[l]]
           /\ pend' = [l \in Links |-> IF link[l].of = p THEN {} ELSE pend[l]]
           /\ call' = [c \in Calls |->
                  IF call[c].of = p
                  THEN [call[c] EXCEPT !.pc = "done", !.reply = "none",
                                       !.outcome = IF @ = "none" THEN "gone" ELSE @]
                  ELSE call[c]]
<1>0. PICK s, t : s = Now /\ t = CutLinksTo(s, p)
    OBVIOUS
<1>1. /\ Good(s, ran) /\ s.link = link /\ s.pend = pend /\ s.wire = wire
      /\ s.call = call /\ s.svc = svc /\ s.owner = owner
    BY <1>0, NowGood
<1>2. /\ Good(t, ran) /\ t.svc = svc /\ t.owner = owner
    BY <1>0, <1>1, CutLinksGood
<1>3. PICK k, P, W, K :
        /\ k = [l \in Links |-> IF link[l].peer = p /\ link[l].kind = "socket"
                                THEN [link[l] EXCEPT !.cut = TRUE] ELSE link[l]]
        /\ P = [l \in Links |-> IF link[l].of = p THEN {} ELSE pend[l]]
        /\ W = {m \in wire : link[m.link].of # p}
        /\ K = [c \in Calls |->
                  IF call[c].of = p
                  THEN [call[c] EXCEPT !.pc = "done", !.reply = "none",
                                       !.outcome = IF @ = "none" THEN "gone" ELSE @]
                  ELSE call[c]]
    OBVIOUS
<1>4. t.link = k
    BY <1>0, <1>1, <1>3 DEF CutLinksTo, Good, State
<1>5. PICK u : u = [t EXCEPT !.pend = P, !.wire = W, !.call = K]
    OBVIOUS
<1>6. Become(u)
    BY <1>0, <1>3, <1>5 DEF Crash
<1>7. /\ u.svc = svc /\ u.owner = owner /\ u.link = k /\ u.pend = P /\ u.wire = W /\ u.call = K
    BY <1>2, <1>4, <1>5 DEF Good, State
<1> QED
    BY <1>3, <1>6, <1>7 DEF Become

LEMMA CrashMarks ==
    ASSUME CallsInv, NEW p \in Procs, Crash(p)
    PROVE  Marks(Now, Now')
<1>1. /\ svc' = svc
      /\ link' = [l \in Links |-> IF link[l].peer = p /\ link[l].kind = "socket"
                                  THEN [link[l] EXCEPT !.cut = TRUE] ELSE link[l]]
      /\ call' = [c \in Calls |->
                  IF call[c].of = p
                  THEN [call[c] EXCEPT !.pc = "done", !.reply = "none",
                                       !.outcome = IF @ = "none" THEN "gone" ELSE @]
                  ELSE call[c]]
    BY Crashed
<1>2. link \in [Links -> LinkRec] /\ call \in [Calls -> CallRec]
    BY NowGood DEF State
<1>3. ASSUME NEW l \in Links
      PROVE  link'[l].of = link[l].of /\ link'[l].errored = link[l].errored
    <2>1. link[l] \in LinkRec
        BY <1>2
    <2> QED
        BY <1>1, <2>1 DEF LinkRec
<1>4. ASSUME NEW c \in Calls, FlushFailed(Now, c)
      PROVE  FlushFailed(Now', c)
    <2>1. call[c] \in CallRec /\ call[c].outcome # "none"
        BY <1>2, <1>4 DEF FlushFailed, Now
    <2>2. call'[c] = call[c] \/ call'[c] = [call[c] EXCEPT !.pc = "done", !.reply = "none",
                                                           !.outcome = call[c].outcome]
        BY <1>1, <2>1
    <2> QED
        BY <1>4, <2>1, <2>2 DEF FlushFailed, Now, CallRec
<1> QED
    BY <1>1, <1>3, <1>4 DEF Marks, Now

LEMMA CutMarks ==
    ASSUME CallsInv, NEW l \in Links, Cut(l)
    PROVE  /\ Marks(Now, Now')
           /\ svc' = svc /\ pend' = pend /\ call' = call /\ owner' = owner /\ wire' \subseteq wire
           /\ link' = [link EXCEPT ![l] = [@ EXCEPT !.cut = TRUE]]
<1>0. PICK s : s = Now
    OBVIOUS
<1>1. /\ s \in State /\ s.link = link /\ s.pend = pend /\ s.wire = wire
      /\ s.call = call /\ s.svc = svc /\ s.owner = owner
    BY <1>0, NowGood
<1>2. PICK x : x = [s.link[l] EXCEPT !.cut = TRUE]
    OBVIOUS
<1>3. s.link[l] \in LinkRec /\ x.of = s.link[l].of /\ x.errored = s.link[l].errored
    BY <1>1, <1>2 DEF State, LinkRec
<1>4. PICK t : t = [s EXCEPT !.link[l] = x]
    OBVIOUS
<1>5. t = [s EXCEPT !.link[l].cut = TRUE]
    BY <1>1, <1>2, <1>3, <1>4 DEF State, LinkRec
<1>6. Become(t)
    BY <1>0, <1>5 DEF Cut
<1>7. Marks(s, t)
    BY <1>1, <1>3, <1>4, LinkMarks
<1>8. /\ t.svc = svc /\ t.pend = pend /\ t.call = call /\ t.owner = owner /\ t.wire = wire
      /\ t.link = [link EXCEPT ![l] = x]
    BY <1>1, <1>4 DEF State
<1> QED
    BY <1>0, <1>1, <1>2, <1>6, <1>7, <1>8, BecomeMarks DEF Become

\* An error, and a close, doom a run.
LEMMA LinkErrorDooms ==
    ASSUME CallsInv, NEW l \in Links, LinkError(l)
    PROVE  link'[l].errored /\ link'[l].of # None
<1>0. PICK s : s = Now
    OBVIOUS
<1>1. s \in State /\ s.link = link /\ s.link[l] \in LinkRec /\ s.link[l].of # None
    BY <1>0, NowGood DEF State, LinkError
<1>2. PICK t : t = [s EXCEPT !.link[l].errored = TRUE]
    OBVIOUS
<1>3. t.link = [s.link EXCEPT ![l] = [@ EXCEPT !.errored = TRUE]]
    BY <1>1, <1>2 DEF State
<1>4. t.link[l].errored /\ t.link[l].of # None
    BY <1>1, <1>3 DEF State, LinkRec
<1>5. PICK v : v = [Reject(t, l, "transport") EXCEPT !.svc[link[l].of].ready = FALSE]
    OBVIOUS
<1>6. v.link = t.link
    BY <1>1, <1>2, <1>5 DEF Reject, State
<1>7. Become(v)
    BY <1>0, <1>2, <1>5 DEF LinkError
<1> QED
    BY <1>4, <1>6, <1>7 DEF Become

LEMMA CloseDooms ==
    ASSUME CallsInv, NEW p \in Procs, Close(p)
    PROVE  svc'[p].closed
<1>0. PICK s : s = Now
    OBVIOUS
<1>1. Good(s, ran) /\ s \in State /\ s.svc = svc
    BY <1>0, NowGood
<1>2. PICK t : t = IF svc[p].serving THEN CutLinksTo(s, p) ELSE s
    OBVIOUS
<1>3. Good(t, ran) /\ t.svc = svc
    BY <1>1, <1>2, CutLinksGood
<1>4. svc[p].cur \in 0 .. MaxLinks
    BY <1>1 DEF State, Service, ServiceRec
<1>5. PICK u : u = Shut(t, svc[p].cur)
    OBVIOUS
<1>6. Good(u, ran) /\ u.svc = svc /\ u \in State
    BY <1>3, <1>4, <1>5, ShutGood DEF Good
<1>7. PICK y : y = [svc[p] EXCEPT !.closed = TRUE, !.provider = FALSE,
                                  !.ro = FALSE, !.cur = 0, !.ready = FALSE, !.mode = "none",
                                  !.serving = FALSE]
    OBVIOUS
<1>8. y.closed
    BY <1>1, <1>7 DEF State, Service, ServiceRec
<1>9. PICK v : v = [u EXCEPT !.owner = IF @ = p THEN None ELSE @, !.svc[p] = y]
    OBVIOUS
<1>10. Become(v)
    BY <1>0, <1>2, <1>5, <1>6, <1>7, <1>9 DEF Close
<1>11. v.svc[p] = y
    BY <1>6, <1>9 DEF State
<1> QED
    BY <1>8, <1>10, <1>11 DEF Become

\* A run that is doomed stays so.
LEMMA DoomedStays ==
    ASSUME CallsInv, [CallsNext]_callVars, Doomed(Now, alive, faults), faults \in Nat,
           alive \in [Procs -> BOOLEAN]
    PROVE  Doomed(Now', alive', faults')
<1>1. ASSUME Marks(Now, Now'), faults' = faults \/ faults' = faults + 1,
             alive'[First] => alive[First]
      PROVE  Doomed(Now', alive', faults')
    <2>1. CASE faults > 1
        BY <1>1, <2>1 DEF Doomed
    <2>2. CASE faults <= 1
        BY <1>1, <2>2 DEF Doomed, Marks
    <2> QED
        BY <2>1, <2>2
<1>2. ASSUME Marks(Now, Now'), UNCHANGED <<alive, faults>>
      PROVE  Doomed(Now', alive', faults')
    BY <1>1, <1>2
<1>3. ASSUME NEW c \in Calls, Caller(c)
      PROVE  Doomed(Now', alive', faults')
    BY SMTT(30), <1>2, <1>3, CallerMarks DEF Caller, Invoke, LocalRead, Resume, Returns
<1>4. ASSUME NEW m \in wire, Deliver(m)
      PROVE  Doomed(Now', alive', faults')
    BY <1>2, <1>4, DeliverMarks DEF Deliver, Work, Relay, Arrive
<1>5. ASSUME NEW l \in Links, LinkClosed(l)
      PROVE  Doomed(Now', alive', faults')
    BY SMTT(30), <1>2, <1>5, LinkClosedMarks DEF LinkClosed
<1>6. ASSUME NEW l \in Links, NEW e, Timeout(l, e)
      PROVE  Doomed(Now', alive', faults')
    BY <1>2, <1>6, TimeoutMarks DEF Timeout
<1>7. ASSUME NEW p \in Procs, Recover(p)
      PROVE  Doomed(Now', alive', faults')
    BY <1>2, <1>7, RecoverMarks DEF Recover, ServerUp, Connected, ConnectFails, NextAttempt
<1>8. ASSUME NEW p \in Procs, Crash(p)
      PROVE  Doomed(Now', alive', faults')
    <2>1. alive'[First] => alive[First]
        BY <1>8, CallAssumption DEF Crash
    <2> QED
        BY <1>1, <1>8, <2>1, CrashMarks DEF Crash, CanFail
<1>9. ASSUME NEW l \in Links, Cut(l)
      PROVE  Doomed(Now', alive', faults')
    BY <1>1, <1>9, CutMarks DEF Cut, CanFail
<1>10. ASSUME NEW p \in Procs, Close(p)
       PROVE  Doomed(Now', alive', faults')
    BY <1>10, CloseDooms DEF Doomed, Now
<1>11. ASSUME NEW l \in Links, LinkError(l)
       PROVE  Doomed(Now', alive', faults')
    BY <1>11, LinkErrorDooms DEF Doomed, Now
<1>12. CASE UNCHANGED callVars
    <2>1. Now' = Now /\ alive' = alive /\ faults' = faults
        BY <1>12 DEF callVars, Now
    <2> QED
        BY <2>1
<1> QED
    BY <1>3, <1>4, <1>5, <1>6, <1>7, <1>8, <1>9, <1>10, <1>11, <1>12 DEF CallsNext, Fault

-----------------------------------------------------------------------------
(* Steps of the calls.  Awaiting is to have a pending entry.               *)

Awaits(s, c) == s.call[c].pc \in {"sent", "resent"} /\ s.call[c].reply = "none"

\* A link that is not closed takes calls; while it is closed there is a failover.
LEMMA CalmLinked ==
    ASSUME NEW s, NEW r, Good(s, r), NEW A, NEW f, Calm(s, A, f), NEW p \in Procs, A[p]
    PROVE  /\ s.svc[p].cur \in Links /\ s.svc[p].cur # 0 /\ s.svc[p].provider
           /\ s.link[s.svc[p].cur].of = p
           /\ ~s.link[s.svc[p].cur].closed => /\ Healthy(s, s.svc[p].cur)
                                              /\ Sendable(s, s.svc[p].cur)
           /\ s.link[s.svc[p].cur].closed => /\ s.svc[p].failover # "idle"
                                             /\ ~Healthy(s, s.svc[p].cur)
           /\ ~CutOff(s, p) => ~s.link[s.svc[p].cur].closed
<1>1. s.svc[p].cur # 0 /\ s.svc[p].provider
    BY DEF Calm, CalmProc
<1>2. s.svc[p].cur \in Links /\ s.link[s.svc[p].cur].of = p
    BY <1>1, CurrentLink
<1>3. CalmLink(s, A, f, s.svc[p].cur) /\ CalmProc(s, A, f, p)
    BY SMTT(30), <1>2 DEF Calm
<1>4. /\ ~s.link[s.svc[p].cur].errored
      /\ s.link[s.svc[p].cur].terminated = s.link[s.svc[p].cur].closed
      /\ s.link[s.svc[p].cur].closed => s.link[s.svc[p].cur].cut
      /\ s.link[s.svc[p].cur].cut => s.link[s.svc[p].cur].kind = "socket"
    BY <1>3 DEF CalmLink
<1>5. /\ ~s.link[s.svc[p].cur].closed => /\ Healthy(s, s.svc[p].cur)
                                         /\ Sendable(s, s.svc[p].cur)
      /\ s.link[s.svc[p].cur].closed => ~Healthy(s, s.svc[p].cur)
    BY <1>1, <1>4 DEF Healthy, Sendable
<1>6. s.link[s.svc[p].cur].closed => s.svc[p].failover # "idle"
    BY <1>3, <1>4 DEF CalmProc
<1> QED
    BY <1>1, <1>2, <1>4, <1>5, <1>6 DEF CutOff

\* A call that goes on without sending.
LEMMA CalmMoves ==
    ASSUME NEW s \in State, NEW A, NEW f, Calm(s, A, f), NEW c \in Calls, NEW x \in CallRec,
           x.of = s.call[c].of, x.reply = "none", A[x.of],
           x.pc \in {"entry", "before", "retry", "local", "done"},
           Kind[c] = "read" => x.outcome \notin {"lost", "transport"}, ~Awaits(s, c)
    PROVE  Calm([s EXCEPT !.call[c] = x], A, f)
<1>0. PICK t : t = [s EXCEPT !.call[c] = x]
    OBVIOUS
<1>1. /\ t.svc = s.svc /\ t.link = s.link /\ t.pend = s.pend /\ t.wire = s.wire
      /\ t.owner = s.owner /\ t.call = [s.call EXCEPT ![c] = x]
    BY <1>0 DEF State
<1>2. t.call[c] = x /\ \A b \in Calls : b # c => t.call[b] = s.call[b]
    BY <1>1 DEF State
<1>3. \A l \in Links : CalmLink(t, A, f, l)
    BY <1>1 DEF Calm, CalmLink
<1>4. \A p \in Procs : A[p] => CalmProc(t, A, f, p)
    BY SMTT(30), <1>1 DEF Calm, CalmProc
<1>5. CalmLead(t, A, f)
    BY Zenon, <1>1 DEF Calm, CalmLead, CutOff
<1>6. ASSUME NEW b \in Calls
      PROVE  CalmCall(t, A, f, b)
    <2>1. CASE b = c
        <3>1. /\ A[t.call[c].of] /\ t.call[c].reply = "none"
              /\ t.call[c].pc \in {"entry", "before", "retry", "local", "done"}
              /\ Kind[c] = "read" => t.call[c].outcome \notin {"lost", "transport"}
            BY <1>2
        <3>2. CalmCall(t, A, f, c)
            BY <3>1 DEF CalmCall
        <3> QED
            BY <2>1, <3>2
    <2>2. CASE b # c
        <3>1. CutOff(t, s.call[b].of) <=> CutOff(s, s.call[b].of)
            BY Zenon, <1>1 DEF CutOff
        <3>2. CalmCall(s, A, f, b) /\ t.call[b] = s.call[b] /\ t.svc = s.svc
            BY <1>1, <1>2, <2>2 DEF Calm
        <3> QED
            BY <3>1, <3>2 DEF CalmCall
    <2> QED
        BY <2>1, <2>2
<1>7. CalmPending(t)
    <2>1. \A l \in Links : \A e \in s.pend[l] : e.via = Here => e.call # c /\ e.call \in Calls
        BY DEF Calm, CalmPending, Awaits, State, EntryRec
    <2> QED
        BY <1>1, <1>2, <2>1 DEF Calm, CalmPending
<1>8. CalmWire(t)
    BY <1>1 DEF Calm, CalmWire
<1> QED
    BY <1>0, <1>3, <1>4, <1>5, <1>6, <1>7, <1>8 DEF Calm

LEMMA CalmGoTo ==
    ASSUME NEW s \in State, NEW A, NEW f, Calm(s, A, f), NEW c \in Calls, A[s.call[c].of],
           ~Awaits(s, c), NEW pc \in {"entry", "before", "retry", "local"}
    PROVE  Calm(GoTo(s, c, pc), A, f)
<1>1. PICK x : x = [s.call[c] EXCEPT !.pc = pc, !.reply = "none"]
    OBVIOUS
<1>2. GoTo(s, c, pc) = [s EXCEPT !.call[c] = x]
    BY <1>1 DEF GoTo, State, CallRec
<1>3. /\ x \in CallRec /\ x.pc = pc /\ x.reply = "none" /\ x.of = s.call[c].of
      /\ x.outcome = s.call[c].outcome
    <2>1. s.call[c] \in CallRec /\ pc \in Pc /\ "none" \in Reply
        BY DEF State, Pc, Reply
    <2> QED
        BY <1>1, <2>1 DEF CallRec
<1>4. Kind[c] = "read" => x.outcome \notin {"lost", "transport"}
    BY <1>3 DEF Calm, CalmCall
<1> QED
    BY <1>2, <1>3, <1>4, CalmMoves

\* A call that ends; a flush that fails dooms the run.
LEMMA CalmFinish ==
    ASSUME NEW s \in State, NEW A, NEW f, Calm(s, A, f), NEW c \in Calls, A[s.call[c].of],
           ~Awaits(s, c), NEW outcome \in Outcome \cup Reply, outcome # "none",
           Kind[c] = "read" => outcome \notin {"lost", "transport"}
    PROVE  Doomed(Finish(s, c, outcome), A, f) \/ Calm(Finish(s, c, outcome), A, f)
<1>1. CASE Kind[c] = "flush" /\ outcome # "ok"
    <2>1. FlushFailed(Finish(s, c, outcome), c)
        BY <1>1, FinishMarks
    <2> QED
        BY <2>1 DEF Doomed
<1>2. CASE ~(Kind[c] = "flush" /\ outcome # "ok")
    <2>1. PICK x : x = [s.call[c] EXCEPT !.pc = "done", !.reply = "none", !.outcome = outcome]
        OBVIOUS
    <2>2. Finish(s, c, outcome) = [s EXCEPT !.call[c] = x]
        BY <1>2, <2>1 DEF Finish, State
    <2>3. /\ x \in CallRec /\ x.pc = "done" /\ x.reply = "none" /\ x.of = s.call[c].of
          /\ x.outcome = outcome
        <3>1. s.call[c] \in CallRec /\ "done" \in Pc /\ "none" \in Reply
            BY DEF State, Pc, Reply
        <3> QED
            BY <2>1, <3>1 DEF CallRec
    <2> QED
        BY <2>2, <2>3, CalmMoves
<1> QED
    BY <1>1, <1>2

\* A call that is sent.
LEMMA CalmSend ==
    ASSUME NEW s, NEW r, Good(s, r), NEW A, NEW f, Calm(s, A, f), NEW c \in Calls, A[s.call[c].of],
           ~Awaits(s, c), NEW pc \in {"sent", "resent"},
           ~s.link[s.svc[s.call[c].of].cur].closed,
           pc = "resent" => f = 1 /\ ~CutOff(s, s.call[c].of)
    PROVE  Calm(Send(s, c, pc), A, f)
<1>0. PICK l, p : p = s.call[c].of /\ l = s.svc[p].cur
    OBVIOUS
<1>1. s \in State /\ s.call[c] \in CallRec /\ p \in Procs
    BY SMTT(30), <1>0 DEF Good, State, CallRec
<1>2. l \in Links /\ l # 0 /\ s.link[l].of = p /\ Sendable(s, l)
    BY <1>0, <1>1, CalmLinked
<1>3. PICK x : x = SentCall(s.call[c], pc)
    BY Zenon
<1>4. Send(s, c, pc) = Sent(s, c, x, l)
    <2>1. l = s.svc[s.call[c].of].cur
        BY <1>0
    <2> QED
        BY Zenon, <1>1, <1>2, <1>3, <2>1, SendSent
<1>5. /\ x.pc = pc /\ x.reply = "none" /\ x.of = s.call[c].of
      /\ x.outcome = s.call[c].outcome
    BY <1>1, <1>3 DEF CallRec, SentCall
<1>6. PICK new, msg : /\ new = [id |-> s.link[l].next, call |-> c, via |-> Here]
                      /\ msg = [link |-> l, id |-> s.link[l].next, dir |-> "request",
                                call |-> c, res |-> "none"]
    OBVIOUS
<1>7. PICK t : t = Sent(s, c, x, l)
    OBVIOUS
<1>8. /\ t.svc = s.svc /\ t.owner = s.owner /\ t.call = [s.call EXCEPT ![c] = x]
      /\ t.link = [s.link EXCEPT ![l].next = @ + 1]
      /\ t.pend = [s.pend EXCEPT ![l] = @ \cup {new}] /\ t.wire = s.wire \cup {msg}
    BY <1>6, <1>7 DEF Sent
<1>9. t.call[c] = x /\ \A b \in Calls : b # c => t.call[b] = s.call[b]
    BY <1>1, <1>8 DEF State
<1>10. ASSUME NEW k \in Links
       PROVE  /\ t.link[k].of = s.link[k].of /\ t.link[k].peer = s.link[k].peer
              /\ t.link[k].kind = s.link[k].kind /\ t.link[k].closed = s.link[k].closed
              /\ t.link[k].errored = s.link[k].errored /\ t.link[k].cut = s.link[k].cut
              /\ t.link[k].terminated = s.link[k].terminated
              /\ t.pend[k] = s.pend[k] \/ (k = l /\ t.pend[k] = s.pend[k] \cup {new})
    <2>1. s.link[k] \in LinkRec
        BY SMTT(30), <1>1 DEF State
    <2> QED
        BY <1>1, <1>2, <1>8, <2>1 DEF State, LinkRec
<1>11. \A k \in Links : CalmLink(t, A, f, k)
    <2>1. s.link[l].of # None
        BY <1>1, <1>2, CallAssumption
    <2> QED
        BY <1>8, <1>10, <2>1 DEF Calm, CalmLink
<1>12. \A q \in Procs : A[q] => s.svc[q].cur \in Links
    BY SMTT(30), CalmLinked
<1>13. \A q \in Procs : A[q] => CalmProc(t, A, f, q)
    BY <1>8, <1>10, <1>12 DEF Calm, CalmProc
<1>14. \A q \in Procs : A[q] => (CutOff(t, q) <=> CutOff(s, q))
    <2>1. \A q \in Procs : A[q] => t.link[t.svc[q].cur].cut = s.link[s.svc[q].cur].cut
        BY SMTT(30), <1>8, <1>10, <1>12
    <2> QED
        BY Zenon, <2>1 DEF CutOff
<1>15. CalmLead(t, A, f)
    <2>1. CalmLead(s, A, f)
        BY DEF Calm
    <2>2. s.owner \in Procs /\ A[s.owner] => t.link[s.svc[s.owner].cur].kind = s.link[s.svc[s.owner].cur].kind
        BY <1>10, <1>12
    <2>3. \A k \in Links : t.link[k].of = s.link[k].of
        BY <1>10
    <2> QED
        BY <1>8, <1>14, <2>1, <2>2, <2>3 DEF CalmLead
<1>16. ASSUME NEW b \in Calls
       PROVE  CalmCall(t, A, f, b)
    <2>1. CASE b = c
        <3>1. Kind[c] = "read" => x.outcome \notin {"lost", "transport"}
            BY SMTT(30), <1>5 DEF Calm, CalmCall
        <3> QED
            BY <1>0, <1>1, <1>5, <1>9, <1>14, <2>1, <3>1 DEF CalmCall
    <2>2. CASE b # c
        <3>1. s.call[b].of \in Procs
            BY <1>1 DEF State, CallRec
        <3> QED
            BY <1>8, <1>9, <1>14, <2>2, <3>1 DEF Calm, CalmCall
    <2> QED
        BY <2>1, <2>2
<1>17. CalmPending(t)
    <2>1. \A k \in Links : \A e \in s.pend[k] : e.via = Here => e.call # c /\ e.call \in Calls
        BY <1>1 DEF Calm, CalmPending, Awaits, State, EntryRec
    <2>2. new.call = c /\ new.via = Here
        BY <1>6
    <2>3. ASSUME NEW k \in Links, NEW e \in t.pend[k], e.via # Here
          PROVE  t.link[k].kind = "worker"
        <3>1. e \in s.pend[k]
            BY <1>10, <2>2, <2>3
        <3> QED
            BY <1>10, <2>3, <3>1 DEF Calm, CalmPending
    <2>4. ASSUME NEW k \in Links, NEW e \in t.pend[k], e.via = Here
          PROVE  /\ t.call[e.call].of = t.link[k].of
                 /\ t.call[e.call].pc \in {"sent", "resent"} /\ t.call[e.call].reply = "none"
                 /\ \A j \in Links : \A y \in t.pend[j] :
                       y.via = Here /\ y.call = e.call => j = k /\ y = e
        <3>1. CASE e = new
            <4>1. k = l
                BY <1>10, <2>1, <2>2, <3>1
            <4> QED
                <5>1. /\ t.call[e.call].of = t.link[k].of /\ t.call[e.call].pc = pc
                      /\ t.call[e.call].reply = "none"
                    BY Zenon, <1>0, <1>2, <1>5, <1>9, <1>10, <2>2, <3>1, <4>1
                <5>2. ASSUME NEW j \in Links, NEW y \in t.pend[j], y.via = Here, y.call = e.call
                      PROVE  j = k /\ y = e
                    <6>1. y \notin s.pend[j]
                        BY <2>1, <2>2, <3>1, <5>2
                    <6> QED
                        BY <1>10, <3>1, <4>1, <5>2, <6>1
                <5> QED
                    BY Zenon, <5>1, <5>2
        <3>2. CASE e # new
            <4>1. e \in s.pend[k] /\ e.call # c /\ e.call \in Calls
                BY SMTT(30), <1>10, <2>1, <2>4, <3>2
            <4> QED
                BY <1>9, <1>10, <2>2, <2>4, <4>1 DEF Calm, CalmPending
        <3> QED
            BY <3>1, <3>2
    <2> QED
        BY <2>3, <2>4 DEF CalmPending
<1>18. CalmWire(t)
    BY SMTT(30), <1>6, <1>8 DEF Calm, CalmWire
<1> QED
    BY <1>4, <1>7, <1>11, <1>13, <1>15, <1>16, <1>17, <1>18 DEF Calm

\* A call finds a healthy link, or the failover that is in progress.
LEMMA CalmRemote ==
    ASSUME NEW s, NEW r, Good(s, r), NEW A, NEW f, Calm(s, A, f), NEW c \in Calls, A[s.call[c].of],
           ~Awaits(s, c)
    PROVE  Doomed(Remote(s, c), A, f) \/ Calm(Remote(s, c), A, f)
<1> DEFINE p == s.call[c].of
<1>0. s \in State /\ p \in Procs /\ "lost" \in Outcome \cup Reply
    BY DEF Good, State, CallRec, Outcome
<1>1. s.svc[p].cur # 0 /\ s.svc[p].provider
    BY SMTT(30), <1>0, CalmLinked
<1>2. CASE ~s.link[s.svc[p].cur].closed
    <2>1. Healthy(s, s.svc[p].cur)
        BY <1>0, <1>2, CalmLinked
    <2>2. Remote(s, c) = Send(s, c, "sent")
        BY <1>1, <2>1 DEF Remote
    <2> QED
        BY Zenon, <1>2, <2>2, CalmSend
<1>3. CASE s.link[s.svc[p].cur].closed
    <2>1. ~Healthy(s, s.svc[p].cur) /\ s.svc[p].failover # "idle"
        BY <1>0, <1>3, CalmLinked
    <2>2. StartFailover(s, p) = s
        BY <2>1 DEF StartFailover
    <2>3. CASE Kind[c] = "read"
        <3>1. PICK t : t = GoTo(s, c, "before")
            OBVIOUS
        <3>2. t.svc = s.svc
            BY <1>0, <3>1 DEF GoTo, State
        <3>3. StartFailover(t, p) = t
            BY <2>1, <3>2 DEF StartFailover
        <3>4. Remote(s, c) = t
            BY <1>1, <2>1, <2>3, <3>1, <3>3 DEF Remote
        <3> QED
            BY <1>0, <3>1, <3>4, CalmGoTo
    <2>4. CASE Kind[c] # "read"
        <3>1. Remote(s, c) = Finish(s, c, "lost")
            BY <1>1, <2>1, <2>2, <2>4 DEF Remote
        <3> QED
            BY <1>0, <2>4, <3>1, CalmFinish
    <2> QED
        BY <2>3, <2>4
<1> QED
    BY <1>2, <1>3

LEMMA CalmDispatch ==
    ASSUME NEW s, NEW r, Good(s, r), NEW A, NEW f, Calm(s, A, f), NEW c \in Calls, A[s.call[c].of],
           ~Awaits(s, c)
    PROVE  Doomed(Dispatch(s, c), A, f) \/ Calm(Dispatch(s, c), A, f)
<1>0. s \in State /\ s.call[c].of \in Procs
    BY DEF Good, State, CallRec
<1>1. s.svc[s.call[c].of].cur # 0
    BY <1>0, CalmLinked
<1>2. Dispatch(s, c) = GoTo(s, c, "local") \/ Dispatch(s, c) = Remote(s, c)
    BY <1>1 DEF Dispatch
<1>3. Calm(GoTo(s, c, "local"), A, f)
    BY <1>0, CalmGoTo
<1> QED
    BY <1>2, <1>3, CalmRemote

\* A call that learns of the lost link waits for the failover in progress.
LEMMA CalmFailed ==
    ASSUME NEW s, NEW r, Good(s, r), NEW A, NEW f, Calm(s, A, f), NEW c \in Calls, A[s.call[c].of],
           s.call[c].reply = "transport"
    PROVE  Doomed(Failed(s, c), A, f) \/ Calm(Failed(s, c), A, f)
<1> DEFINE p == s.call[c].of
<1>0. s \in State /\ p \in Procs /\ "lost" \in Outcome \cup Reply /\ ~Awaits(s, c)
    BY DEF Good, State, CallRec, Outcome, Awaits
<1>1. s.svc[p].provider
    BY <1>0, CalmLinked
<1>2. s.svc[p].failover # "idle"
    BY DEF Calm, CalmCall
<1>3. StartFailover(s, p) = s
    BY <1>2 DEF StartFailover
<1>4. CASE Kind[c] = "read"
    <2>1. PICK t : t = GoTo(s, c, "retry")
        OBVIOUS
    <2>2. t.svc = s.svc
        BY <1>0, <2>1 DEF GoTo, State
    <2>3. StartFailover(t, p) = t
        BY <1>2, <2>2 DEF StartFailover
    <2>4. Failed(s, c) = t
        BY <1>1, <1>4, <2>1, <2>3 DEF Failed
    <2> QED
        BY <1>0, <2>1, <2>4, CalmGoTo
<1>5. CASE Kind[c] # "read"
    <2>1. Failed(s, c) = Finish(s, c, "lost")
        BY <1>1, <1>3, <1>5 DEF Failed
    <2> QED
        BY <1>0, <1>5, <2>1, CalmFinish
<1> QED
    BY <1>4, <1>5

LEMMA CalmAfterFailover ==
    ASSUME NEW s, NEW r, Good(s, r), NEW A, NEW f, Calm(s, A, f), NEW c \in Calls, A[s.call[c].of],
           s.call[c].pc \in {"entry", "before", "retry"}, s.call[c].reply # "none"
    PROVE  Doomed(AfterFailover(s, c), A, f) \/ Calm(AfterFailover(s, c), A, f)
<1>0. ~Awaits(s, c) /\ s.call[c].of \in Procs
    BY DEF Awaits, Good, State, CallRec
<1>1. CASE s.call[c].pc = "entry"
    BY SMTT(30), <1>0, <1>1, CalmDispatch DEF AfterFailover
<1>2. CASE s.call[c].pc \in {"before", "retry"}
    <2>1. CalmCall(s, A, f, c)
        BY DEF Calm
    <2>2. s.call[c].reply = "up" /\ f = 1 /\ ~CutOff(s, s.call[c].of)
        BY <1>2, <2>1 DEF CalmCall
    <2>3. PICK pc \in {"sent", "resent"} : AfterFailover(s, c) = Send(s, c, pc)
        BY SMTT(30), <1>2, <2>2 DEF AfterFailover
    <2>4. ~s.link[s.svc[s.call[c].of].cur].closed
        BY <1>0, <2>2, CalmLinked
    <2> QED
        BY Zenon, <1>0, <2>2, <2>3, <2>4, CalmSend
<1> QED
    BY <1>1, <1>2

-----------------------------------------------------------------------------
\* Messages that are lost do no harm.
LEMMA CalmLosing ==
    ASSUME NEW s, NEW t, NEW A, NEW f, Calm(s, A, f),
           t.svc = s.svc, t.link = s.link, t.pend = s.pend, t.call = s.call, t.owner = s.owner,
           CalmWire(t)
    PROVE  Calm(t, A, f)
<1>1. \A l \in Links : CalmLink(t, A, f, l)
    BY DEF Calm, CalmLink
<1>2. \A p \in Procs : A[p] => CalmProc(t, A, f, p)
    BY DEF Calm, CalmProc
<1>3. \A p : CutOff(t, p) <=> CutOff(s, p)
    BY Zenon DEF CutOff
<1>4. CalmLead(t, A, f)
    BY <1>3 DEF Calm, CalmLead
<1>5. \A c \in Calls : CalmCall(t, A, f, c)
    BY <1>3 DEF Calm, CalmCall
<1>6. CalmPending(t)
    BY DEF Calm, CalmPending
<1> QED
    BY <1>1, <1>2, <1>4, <1>5, <1>6 DEF Calm

LEMMA CalmBecome ==
    ASSUME NEW t, NEW A, NEW f, Calm(t, A, f), Become(t)
    PROVE  Calm(Now', A, f)
<1>1. /\ Now'.svc = t.svc /\ Now'.link = t.link /\ Now'.pend = t.pend /\ Now'.call = t.call
      /\ Now'.owner = t.owner /\ Now'.wire \subseteq t.wire
    BY DEF Now, Become
<1>2. CalmWire(Now')
    BY <1>1 DEF Calm, CalmWire
<1> QED
    BY <1>1, <1>2, CalmLosing

LEMMA DoomedBecome ==
    ASSUME NEW t, NEW A, NEW f, Doomed(t, A, f), Become(t)
    PROVE  Doomed(Now', A, f)
    BY DEF Doomed, FlushFailed, Now, Become

LEMMA CalmCaller ==
    ASSUME CallsInv, Calm(Now, alive, faults), NEW c \in Calls, Caller(c)
    PROVE  Doomed(Now', alive, faults) \/ Calm(Now', alive, faults)
<1>0. PICK s : s = Now
    OBVIOUS
<1>1. /\ Good(s, ran) /\ s \in State /\ s.svc = svc /\ s.call = call /\ Calm(s, alive, faults)
      /\ s.call[c] \in CallRec /\ s.call[c].of \in Procs
    BY <1>0, NowGood DEF Good, State, CallRec
<1>2. {"app", "ok"} \subseteq Outcome
    BY DEF Outcome
<1>3. CASE Invoke(c)
    <2>1. ~Awaits(s, c) /\ alive[s.call[c].of]
        BY <1>1, <1>3 DEF Invoke, Awaits, Quiet
    <2>2. \/ Become(Finish(s, c, "app")) \/ Become(GoTo(s, c, "entry")) \/ Become(Dispatch(s, c))
        BY <1>0, <1>3 DEF Invoke
    <2>3. /\ Doomed(Finish(s, c, "app"), alive, faults) \/ Calm(Finish(s, c, "app"), alive, faults)
          /\ Calm(GoTo(s, c, "entry"), alive, faults)
          /\ Doomed(Dispatch(s, c), alive, faults) \/ Calm(Dispatch(s, c), alive, faults)
        BY <1>1, <1>2, <2>1, CalmFinish, CalmGoTo, CalmDispatch
    <2> QED
        BY <2>2, <2>3, CalmBecome, DoomedBecome
<1>4. CASE LocalRead(c)
    <2>1. ~Awaits(s, c) /\ alive[s.call[c].of]
        BY <1>1, <1>4 DEF LocalRead, Awaits, Quiet
    <2>2. Become(Finish(s, c, "ok")) \/ Become(Remote(s, c))
        BY <1>0, <1>4 DEF LocalRead
    <2>3. /\ Doomed(Finish(s, c, "ok"), alive, faults) \/ Calm(Finish(s, c, "ok"), alive, faults)
          /\ Doomed(Remote(s, c), alive, faults) \/ Calm(Remote(s, c), alive, faults)
        BY <1>1, <1>2, <2>1, CalmFinish, CalmRemote
    <2> QED
        BY <2>2, <2>3, CalmBecome, DoomedBecome
<1>5. CASE Resume(c)
    <2>1. /\ s.call[c].pc \in {"entry", "before", "retry"} /\ s.call[c].reply # "none"
          /\ alive[s.call[c].of] /\ Become(AfterFailover(s, c))
        BY <1>0, <1>1, <1>5 DEF Resume
    <2>2. Doomed(AfterFailover(s, c), alive, faults) \/ Calm(AfterFailover(s, c), alive, faults)
        BY <1>1, <2>1, CalmAfterFailover
    <2> QED
        BY <2>1, <2>2, CalmBecome, DoomedBecome
<1>6. CASE Returns(c)
    <2>0. ~Awaits(s, c) /\ alive[s.call[c].of] /\ s.call[c].pc \in {"sent", "resent"}
        BY <1>1, <1>6 DEF Returns, Awaits
    <2>1. CASE s.call[c].pc = "sent" /\ s.call[c].reply = "transport"
        <3>1. Become(Failed(s, c))
            BY <1>0, <1>1, <1>6, <2>1 DEF Returns
        <3>2. Doomed(Failed(s, c), alive, faults) \/ Calm(Failed(s, c), alive, faults)
            BY <1>1, <2>0, <2>1, CalmFailed
        <3> QED
            BY <3>1, <3>2, CalmBecome, DoomedBecome
    <2>2. CASE ~(s.call[c].pc = "sent" /\ s.call[c].reply = "transport")
        <3>1. PICK o : o = s.call[c].reply
            OBVIOUS
        <3>2. Become(Finish(s, c, o)) /\ o # "none"
            BY <1>0, <1>1, <1>6, <2>2, <3>1 DEF Returns
        <3>3. o \in Reply /\ o \notin {"lost", "transport"}
            BY <1>1, <2>0, <2>2, <3>1 DEF CallRec, Calm, CalmCall
        <3>4. Doomed(Finish(s, c, o), alive, faults) \/ Calm(Finish(s, c, o), alive, faults)
            BY <1>1, <2>0, <3>2, <3>3, CalmFinish
        <3> QED
            BY <3>2, <3>4, CalmBecome, DoomedBecome
    <2> QED
        BY <2>1, <2>2
<1> QED
    BY <1>3, <1>4, <1>5, <1>6 DEF Caller

-----------------------------------------------------------------------------
(* Messages                                                                *)

LEMMA CalmSettledWith ==
    ASSUME NEW s, NEW r, Good(s, r), NEW A, NEW f, Calm(s, A, f), NEW l \in Links,
           NEW e \in s.pend[l], NEW res \in {"ok", "app", "timeout"}, NEW got
    PROVE  Calm(SettledWith(s, l, e, res, got), A, f)
<1>0. s \in State /\ e \in EntryRec /\ e.call \in Calls
    BY DEF Good, State, EntryRec
<1>1. PICK u : u = [s EXCEPT !.pend[l] = @ \ {e}]
    OBVIOUS
<1>2. /\ u.svc = s.svc /\ u.link = s.link /\ u.call = s.call /\ u.wire = s.wire
      /\ u.owner = s.owner /\ u.pend = [s.pend EXCEPT ![l] = @ \ {e}]
    BY <1>0, <1>1 DEF State
<1>3. \A k \in Links : u.pend[k] \subseteq s.pend[k]
    BY <1>0, <1>2 DEF State
<1>4. CASE e.via = Here
    <2>1. PICK x : x = [s.call[e.call] EXCEPT !.reply = res, !.got = got]
        OBVIOUS
    <2>2. PICK t : t = [u EXCEPT !.call[e.call] = x]
        OBVIOUS
    <2>3. SettledWith(s, l, e, res, got) = t
        BY <1>1, <1>2, <1>4, <2>1, <2>2 DEF SettledWith
    <2>4. /\ t.svc = s.svc /\ t.link = s.link /\ t.pend = u.pend /\ t.wire = s.wire
          /\ t.owner = s.owner /\ t.call = [s.call EXCEPT ![e.call] = x]
        BY <1>0, <1>1, <1>2, <2>2 DEF State
    <2>5. /\ x.pc = s.call[e.call].pc /\ x.reply = res /\ x.of = s.call[e.call].of
          /\ x.outcome = s.call[e.call].outcome
        <3>1. s.call[e.call] \in CallRec
            BY <1>0 DEF State
        <3> QED
            BY <2>1, <3>1 DEF CallRec
    <2>6. t.call[e.call] = x /\ \A c \in Calls : c # e.call => t.call[c] = s.call[c]
        BY <1>0, <2>4 DEF State
    <2>7. s.call[e.call].pc \in {"sent", "resent"}
        BY <1>4 DEF Calm, CalmPending
    <2>8. \A q : CutOff(t, q) <=> CutOff(s, q)
        BY Zenon, <2>4 DEF CutOff
    <2>9. \A k \in Links : CalmLink(t, A, f, k)
        <3>1. \A k \in Links : s.pend[k] = {} => t.pend[k] = {}
            BY <1>3, <2>4
        <3> QED
            BY <2>4, <3>1 DEF Calm, CalmLink
    <2>10. \A p \in Procs : A[p] => CalmProc(t, A, f, p)
        BY <2>4 DEF Calm, CalmProc
    <2>11. CalmLead(t, A, f)
        BY <2>4, <2>8 DEF Calm, CalmLead
    <2>12. ASSUME NEW c \in Calls
           PROVE  CalmCall(t, A, f, c)
        <3>1. CalmCall(s, A, f, c)
            BY DEF Calm
        <3>2. CASE c = e.call
            <4>1. /\ t.call[c].of = s.call[c].of /\ t.call[c].pc = s.call[c].pc
                  /\ t.call[c].outcome = s.call[c].outcome
                  /\ t.call[c].pc \in {"sent", "resent"}
                  /\ t.call[c].reply \in {"ok", "app", "timeout"}
                BY <2>5, <2>6, <2>7, <3>2
            <4> QED
                BY <2>8, <3>1, <4>1 DEF CalmCall
        <3>3. CASE c # e.call
            <4>1. t.call[c] = s.call[c] /\ t.svc = s.svc
                BY <2>4, <2>6, <3>3
            <4> QED
                BY <2>8, <3>1, <4>1 DEF CalmCall
        <3> QED
            BY <3>2, <3>3
    <2>13. CalmPending(t)
        <3>1. ASSUME NEW k \in Links, NEW y \in t.pend[k], y.via = Here
              PROVE  y.call # e.call /\ y.call \in Calls
            <4>1. y \in s.pend[k] /\ (k = l => y # e)
                BY <1>0, <1>2, <1>3, <2>4, <3>1 DEF State
            <4>2. y.call = e.call => k = l /\ y = e
                BY <1>4, <3>1, <4>1 DEF Calm, CalmPending
            <4>3. y \in EntryRec
                BY <1>0, <4>1 DEF State
            <4> QED
                BY <4>1, <4>2, <4>3 DEF EntryRec
        <3> QED
            BY <1>3, <2>4, <2>6, <3>1 DEF Calm, CalmPending
    <2>14. CalmWire(t)
        BY <2>4 DEF Calm, CalmWire
    <2> QED
        BY <2>3, <2>9, <2>10, <2>11, <2>12, <2>13, <2>14 DEF Calm
<1>5. CASE e.via # Here
    <2>1. PICK a, t : a = Answer(e.via, e.call, res) /\ t = [u EXCEPT !.wire = @ \cup {a}]
        OBVIOUS
    <2>2. SettledWith(s, l, e, res, got) = t
        BY <1>1, <1>5, <2>1 DEF SettledWith
    <2>3. /\ t.svc = s.svc /\ t.link = s.link /\ t.pend = u.pend /\ t.wire = s.wire \cup {a}
          /\ t.owner = s.owner /\ t.call = s.call
        BY <1>0, <1>1, <1>2, <2>1 DEF State
    <2>4. \A q : CutOff(t, q) <=> CutOff(s, q)
        BY Zenon, <2>3 DEF CutOff
    <2>5. \A k \in Links : CalmLink(t, A, f, k)
        <3>1. \A k \in Links : s.pend[k] = {} => t.pend[k] = {}
            BY <1>3, <2>3
        <3> QED
            BY <2>3, <3>1 DEF Calm, CalmLink
    <2>6. \A p \in Procs : A[p] => CalmProc(t, A, f, p)
        BY <2>3 DEF Calm, CalmProc
    <2>7. CalmLead(t, A, f)
        BY <2>3, <2>4 DEF Calm, CalmLead
    <2>8. \A c \in Calls : CalmCall(t, A, f, c)
        BY <2>3, <2>4 DEF Calm, CalmCall
    <2>9. CalmPending(t)
        BY <1>3, <2>3 DEF Calm, CalmPending
    <2>10. CalmWire(t)
        <3>1. a.res = res
            BY <2>1 DEF Answer
        <3> QED
            BY <2>3, <3>1 DEF Calm, CalmWire
    <2> QED
        BY <2>2, <2>5, <2>6, <2>7, <2>8, <2>9, <2>10 DEF Calm
<1> QED
    BY <1>4, <1>5

\* A worker's link takes a request that is passed on.
LEMMA CalmPassedOn ==
    ASSUME NEW s, NEW r, Good(s, r), NEW A, NEW f, Calm(s, A, f), NEW m \in s.wire,
           NEW k \in Links, s.link[k].of # None, s.link[k].kind = "worker"
    PROVE  Calm(PassedOn(s, m, k), A, f)
<1>0. s \in State /\ m.link \in Links
    BY DEF Good, State, MessageRec
<1>1. PICK new, msg :
         /\ new = [id |-> s.link[k].next, call |-> m.call,
                   via |-> [link |-> m.link, id |-> m.id]]
         /\ msg = [link |-> k, id |-> s.link[k].next, dir |-> "request",
                   call |-> m.call, res |-> "none"]
    OBVIOUS
<1>2. PICK t : t = PassedOn(s, m, k)
    OBVIOUS
<1>3. /\ t.svc = s.svc /\ t.owner = s.owner /\ t.call = s.call
      /\ t.link = [s.link EXCEPT ![k].next = @ + 1]
      /\ t.pend = [s.pend EXCEPT ![k] = @ \cup {new}]
      /\ t.wire = (s.wire \ {m}) \cup {msg}
    BY <1>1, <1>2 DEF PassedOn
<1>4. new.via # Here
    <2>1. new.via = [link |-> m.link, id |-> m.id] /\ m.link # 0
        BY <1>0, <1>1, CallAssumption DEF Links
    <2> QED
        BY <2>1 DEF Here
<1>5. ASSUME NEW l \in Links
      PROVE  /\ t.link[l].of = s.link[l].of /\ t.link[l].peer = s.link[l].peer
             /\ t.link[l].kind = s.link[l].kind /\ t.link[l].closed = s.link[l].closed
             /\ t.link[l].errored = s.link[l].errored /\ t.link[l].cut = s.link[l].cut
             /\ t.link[l].terminated = s.link[l].terminated
             /\ t.pend[l] = s.pend[l] \/ (l = k /\ t.pend[l] = s.pend[l] \cup {new})
    <2>1. s.link[l] \in LinkRec
        BY <1>0 DEF State
    <2> QED
        BY <1>0, <1>3, <2>1 DEF State, LinkRec
<1>6. \A l \in Links : CalmLink(t, A, f, l)
    BY <1>3, <1>5 DEF Calm, CalmLink
<1>7. \A q \in Procs : A[q] => s.svc[q].cur \in Links
    BY CalmLinked
<1>8. \A q \in Procs : A[q] => CalmProc(t, A, f, q)
    BY <1>3, <1>5, <1>7 DEF Calm, CalmProc
<1>9. \A q \in Procs : A[q] => (CutOff(t, q) <=> CutOff(s, q))
    <2>1. \A q \in Procs : A[q] => t.link[t.svc[q].cur].cut = s.link[s.svc[q].cur].cut
        BY <1>3, <1>5, <1>7
    <2> QED
        BY Zenon, <2>1 DEF CutOff
<1>10. CalmLead(t, A, f)
    <2>1. CalmLead(s, A, f)
        BY DEF Calm
    <2>2. s.owner \in Procs /\ A[s.owner] => t.link[s.svc[s.owner].cur].kind = s.link[s.svc[s.owner].cur].kind
        BY <1>5, <1>7
    <2>3. \A l \in Links : t.link[l].of = s.link[l].of
        BY <1>5
    <2> QED
        BY <1>3, <1>9, <2>1, <2>2, <2>3 DEF CalmLead
<1>11. ASSUME NEW b \in Calls
       PROVE  CalmCall(t, A, f, b)
    <2>1. s.call[b].of \in Procs /\ CalmCall(s, A, f, b)
        BY <1>0 DEF State, CallRec, Calm
    <2> QED
        BY <1>3, <1>9, <2>1 DEF CalmCall
<1>12. CalmPending(t)
    <2>1. ASSUME NEW l \in Links, NEW e \in t.pend[l], e.via = Here
          PROVE  e \in s.pend[l]
        BY <1>4, <1>5, <2>1
    <2>2. ASSUME NEW l \in Links, NEW e \in t.pend[l], e.via # Here
          PROVE  t.link[l].kind = "worker"
        BY <1>5, <2>2 DEF Calm, CalmPending
    <2>3. ASSUME NEW l \in Links, NEW e \in t.pend[l], e.via = Here
          PROVE  /\ t.call[e.call].of = t.link[l].of
                 /\ t.call[e.call].pc \in {"sent", "resent"} /\ t.call[e.call].reply = "none"
                 /\ \A j \in Links : \A y \in t.pend[j] :
                       y.via = Here /\ y.call = e.call => j = l /\ y = e
        BY <1>3, <1>5, <2>1, <2>3 DEF Calm, CalmPending
    <2> QED
        BY <2>2, <2>3 DEF CalmPending
<1>13. CalmWire(t)
    BY <1>1, <1>3 DEF Calm, CalmWire
<1> QED
    BY <1>2, <1>6, <1>8, <1>10, <1>11, <1>12, <1>13 DEF Calm

LEMMA CalmDeliver ==
    ASSUME CallsInv, Calm(Now, alive, faults), NEW m \in wire, Deliver(m)
    PROVE  Calm(Now', alive, faults)
<1>0. PICK s : s = Now
    OBVIOUS
<1>1. /\ Good(s, ran) /\ s \in State /\ s.svc = svc /\ s.link = link /\ s.wire = wire
      /\ Calm(s, alive, faults)
    BY <1>0, NowGood
<1>2. CASE Work(m)
    <2>1. PICK res \in {"ok", "app"} :
             wire' = (wire \ {m}) \cup {Answer([link |-> m.link, id |-> m.id], m.call, res)}
        BY <1>2 DEF Work
    <2>2. Answer([link |-> m.link, id |-> m.id], m.call, res).res = res
        BY DEF Answer
    <2>3. CalmWire(Now')
        BY <2>1, <2>2 DEF Calm, CalmWire, Now
    <2>4. /\ Now'.svc = s.svc /\ Now'.link = s.link /\ Now'.pend = s.pend /\ Now'.call = s.call
          /\ Now'.owner = s.owner
        BY <1>0, <1>2 DEF Now, Work
    <2> QED
        BY <1>1, <2>3, <2>4, CalmLosing
<1>3. CASE Relay(m)
    <2>1. PICK q, k : /\ q = link[m.link].peer /\ k = svc[q].cur
                      /\ Become(Forwarded(s, m, k)) /\ alive[q] /\ link[m.link].kind = "socket"
        BY <1>0, <1>3 DEF Relay, Quiet
    <2>2. m.link \in Links /\ link[m.link].of \in Procs
        BY RelayPeer
    <2>3. q = First /\ First \in Procs
        BY <1>1, <2>1, <2>2, CallAssumption DEF Calm, CalmLink
    <2>4. /\ k \in Links /\ k # 0 /\ s.link[k].of = First
          /\ CalmProc(s, alive, faults, First) /\ CalmLink(s, alive, faults, k)
        BY <1>1, <2>1, <2>3, CalmLinked DEF Calm
    <2>5. s.link[k].kind = "worker"
        <3>1. s.link[k] \in LinkRec
            BY <1>1, <2>4 DEF State
        <3> QED
            BY <1>1, <2>1, <2>3, <2>4, <3>1 DEF CalmProc, LinkRec
    <2>6. Sendable(s, k)
        <3>1. ~s.link[k].closed
            BY <2>4, <2>5 DEF CalmLink
        <3> QED
            BY <1>1, <2>1, <2>3, <3>1, CalmLinked
    <2>7. Forwarded(s, m, k) = PassedOn(s, m, k)
        BY <1>1, <2>4, <2>6, PassingOn
    <2>8. Calm(PassedOn(s, m, k), alive, faults)
        BY <1>1, <2>3, <2>4, <2>5, CalmPassedOn, CallAssumption
    <2> QED
        BY <2>1, <2>7, <2>8, CalmBecome
<1>4. CASE Arrive(m)
    <2>1. Become(Delivered(s, m)) /\ m.dir = "answer"
        BY <1>0, <1>4 DEF Arrive
    <2>2. m \in MessageRec /\ m.res # "transport" /\ m.res # "none"
        BY <1>1, <2>1 DEF State, Calm, CalmWire, Good, Numbered
    <2>3. m.res \in {"ok", "app", "timeout"} /\ m.link \in Links
        BY <2>2 DEF MessageRec
    <2>4. PICK t, W : /\ Delivered(s, m) = [t EXCEPT !.wire = W] /\ W \subseteq t.wire
                      /\ \/ t = s
                         \/ \E e \in s.pend[m.link] : t = SettledWith(s, m.link, e, m.res, m.call)
        BY <1>1, <2>1, DeliveredSettles
    <2>5. Calm(t, alive, faults)
        BY <1>1, <2>3, <2>4, CalmSettledWith
    <2>6. PICK u : u = [t EXCEPT !.wire = W]
        OBVIOUS
    <2>7. Calm(u, alive, faults)
        <3>1. /\ u.svc = t.svc /\ u.link = t.link /\ u.pend = t.pend /\ u.call = t.call
              /\ u.owner = t.owner
            BY <2>6
        <3>2. u.wire \subseteq t.wire
            BY <2>4, <2>6
        <3>3. CalmWire(u)
            BY <2>5, <3>2 DEF Calm, CalmWire
        <3> QED
            BY <2>5, <3>1, <3>3, CalmLosing
    <2> QED
        BY <2>1, <2>4, <2>6, <2>7, CalmBecome
<1> QED
    BY <1>2, <1>3, <1>4 DEF Deliver

LEMMA CalmTimeout ==
    ASSUME CallsInv, Calm(Now, alive, faults), NEW l \in Links, NEW e, Timeout(l, e)
    PROVE  Calm(Now', alive, faults)
<1>0. PICK s : s = Now
    OBVIOUS
<1>1. Good(s, ran) /\ s \in State /\ s.pend = pend /\ Calm(s, alive, faults)
    BY <1>0, NowGood
<1>2. e \in s.pend[l]
    BY <1>1 DEF Timeout
<1>3. PICK res \in {"timeout", "app"}, got \in {None, e.call} : Become(SettledWith(s, l, e, res, got))
    BY <1>0, TimedOut
<1>4. Calm(SettledWith(s, l, e, res, got), alive, faults)
    BY <1>1, <1>2, CalmSettledWith
<1> QED
    BY <1>3, <1>4, CalmBecome

-----------------------------------------------------------------------------
(* Failover.  CalmBut leaves the process out that is about to change.      *)

CalmBut(s, A, f, p) ==
    /\ \A l \in Links : CalmLink(s, A, f, l)
    /\ \A q \in Procs : A[q] /\ q # p => CalmProc(s, A, f, q)
    /\ CalmLead(s, A, f)
    /\ \A c \in Calls : CalmCall(s, A, f, c)
    /\ CalmPending(s) /\ CalmWire(s)

\* A failover succeeds on a link that lasts.
LEMMA CalmSettled ==
    ASSUME NEW s \in State, NEW A, NEW f, f = 1, NEW p \in Procs, A[p], CalmBut(s, A, f, p),
           s.svc[p].provider, s.svc[p].cur # 0,
           s.link[s.svc[p].cur].kind = "socket" => s.svc[p].mode = "follower" /\ p # First,
           ~s.link[s.svc[p].cur].closed, ~CutOff(s, p),
           \A c \in Calls : s.call[c].of = p => s.call[c].reply = "none"
    PROVE  Calm(Settled(s, p, "up"), A, f)
<1> DEFINE y == [s.svc[p] EXCEPT !.failover = "idle", !.target = None, !.attempt = 0]
<1>1. PICK t : t = Settled(s, p, "up")
    OBVIOUS
<1>2. /\ t.link = s.link /\ t.pend = s.pend /\ t.wire = s.wire /\ t.owner = s.owner
      /\ t.svc = [s.svc EXCEPT ![p] = y]
      /\ t.call = [c \in Calls |->
            IF s.call[c].of = p /\ s.call[c].pc \in {"entry", "before", "retry"}
            THEN [s.call[c] EXCEPT !.reply = "up"] ELSE s.call[c]]
    BY <1>1 DEF State, Settled
<1>3. /\ y.cur = s.svc[p].cur /\ y.failover = "idle" /\ y.provider = s.svc[p].provider
      /\ y.mode = s.svc[p].mode /\ y.serving = s.svc[p].serving
    <2>1. s.svc[p] \in ServiceRec
        BY DEF State
    <2> QED
        BY <2>1 DEF Service, ServiceRec
<1> HIDE DEF y
<1>4. t.svc[p] = y /\ \A q \in Procs : q # p => t.svc[q] = s.svc[q]
    BY <1>2 DEF State
<1>5. \A q \in Procs : t.svc[q].cur = s.svc[q].cur /\ t.svc[q].serving = s.svc[q].serving
    BY <1>3, <1>4
<1>6. \A q \in Procs : CutOff(t, q) <=> CutOff(s, q)
    <2>1. \A q \in Procs : t.link[t.svc[q].cur].cut = s.link[s.svc[q].cur].cut
        BY <1>2, <1>5
    <2> QED
        BY Zenon, <2>1 DEF CutOff
<1>7. \A l \in Links : CalmLink(t, A, f, l)
    <2>1. ASSUME NEW l \in Links
          PROVE  CalmLink(t, A, f, l)
        <3>1. s.link[l].of \in Procs \cup {None} /\ CalmLink(s, A, f, l)
            BY DEF State, LinkRec, CalmBut
        <3> QED
            BY <1>2, <1>5, <3>1 DEF CalmLink
    <2> QED
        BY <2>1
<1>8. ASSUME NEW q \in Procs, A[q]
      PROVE  CalmProc(t, A, f, q)
    <2>1. CASE q = p
        BY <1>2, <1>3, <1>4, <2>1 DEF CalmProc
    <2>2. CASE q # p
        BY <1>2, <1>4, <1>8, <2>2 DEF CalmBut, CalmProc
    <2> QED
        BY <2>1, <2>2
<1>9. CalmLead(t, A, f)
    <2>1. CalmLead(s, A, f)
        BY DEF CalmBut
    <2> QED
        BY <1>2, <1>5, <1>6, <2>1, CallAssumption DEF CalmLead
<1>10. ASSUME NEW c \in Calls
       PROVE  /\ t.call[c].of = s.call[c].of /\ t.call[c].pc = s.call[c].pc
              /\ t.call[c].outcome = s.call[c].outcome
              /\ \/ t.call[c].reply = s.call[c].reply
                 \/ /\ s.call[c].of = p /\ s.call[c].pc \in {"entry", "before", "retry"}
                    /\ t.call[c].reply = "up"
    <2>1. s.call[c] \in CallRec
        BY DEF State
    <2> QED
        BY <1>2, <2>1 DEF CallRec
<1>11. ASSUME NEW c \in Calls
       PROVE  CalmCall(t, A, f, c)
    <2>1. CalmCall(s, A, f, c) /\ s.call[c].of \in Procs
        BY DEF CalmBut, State, CallRec
    <2>2. CASE s.call[c].of = p
        <3>1. s.call[c].reply = "none"
            BY <2>2
        <3>2. t.call[c].reply \in {"none", "up"} /\ ~CutOff(t, p)
            BY <1>6, <1>10, <3>1
        <3>3. t.call[c].reply = "up" => t.call[c].pc \in {"entry", "before", "retry"}
            BY <1>10, <3>1
        <3> QED
            BY <1>6, <1>10, <2>1, <2>2, <3>1, <3>2, <3>3 DEF CalmCall
    <2>3. CASE s.call[c].of # p
        <3>1. t.call[c].reply = s.call[c].reply /\ t.svc[s.call[c].of] = s.svc[s.call[c].of]
            BY <1>4, <1>10, <2>1, <2>3
        <3> QED
            BY <1>6, <1>10, <2>1, <3>1 DEF CalmCall
    <2> QED
        BY <2>2, <2>3
<1>12. CalmPending(t)
    <2>1. \A l \in Links : \A e \in s.pend[l] : e.call \in Calls
        BY DEF State, EntryRec
    <2>2. ASSUME NEW l \in Links, NEW e \in s.pend[l], e.via = Here
          PROVE  /\ t.call[e.call].of = s.call[e.call].of
                 /\ t.call[e.call].pc = s.call[e.call].pc
                 /\ t.call[e.call].reply = s.call[e.call].reply
        <3>1. s.call[e.call].pc \in {"sent", "resent"}
            BY <2>2 DEF CalmBut, CalmPending
        <3> QED
            BY <1>10, <2>1, <3>1
    <2>3. CalmPending(s) /\ t.pend = s.pend /\ t.link = s.link
        BY <1>2 DEF CalmBut
    <2>4. ASSUME NEW l \in Links, NEW e \in t.pend[l], e.via = Here
          PROVE  /\ t.call[e.call].of = t.link[l].of
                 /\ t.call[e.call].pc \in {"sent", "resent"} /\ t.call[e.call].reply = "none"
                 /\ \A j \in Links : \A x \in t.pend[j] :
                       x.via = Here /\ x.call = e.call => j = l /\ x = e
        BY <2>2, <2>3, <2>4 DEF CalmPending
    <2> QED
        BY <2>3, <2>4 DEF CalmPending
<1>13. CalmWire(t)
    BY <1>2 DEF CalmBut, CalmWire
<1> QED
    BY <1>1, <1>7, <1>8, <1>9, <1>11, <1>12, <1>13 DEF Calm

LEMMA CalmServerUp ==
    ASSUME CallsInv, Calm(Now, alive, faults), NEW p \in Procs, ServerUp(p)
    PROVE  Calm(Now', alive, faults)
<1>0. PICK s : s = Now
    OBVIOUS
<1>1. /\ Good(s, ran) /\ s \in State /\ s.svc = svc /\ s.call = call
      /\ Calm(s, alive, faults) /\ s.svc[p] \in ServiceRec
    BY <1>0, NowGood DEF State
<1>2. alive[p] /\ svc[p].failover = "serving" /\ \A c \in Calls : call[c].of = p => call[c].reply = "none"
    BY <1>1 DEF ServerUp, Quiet
<1>3. PICK y : y = [s.svc[p] EXCEPT !.serving = TRUE]
    OBVIOUS
<1>4. PICK t : t = [s EXCEPT !.svc[p] = y]
    OBVIOUS
<1>5. t = [s EXCEPT !.svc[p].serving = TRUE]
    BY <1>1, <1>3, <1>4 DEF State, Service, ServiceRec
<1>6. /\ y \in ServiceRec /\ y.cur = s.svc[p].cur /\ y.mode = s.svc[p].mode
      /\ y.provider = s.svc[p].provider
    BY <1>1, <1>3 DEF Service, ServiceRec
<1>7. Become(Settled(t, p, "up"))
    BY <1>0, <1>5 DEF ServerUp
<1>8. /\ t \in State /\ t.link = s.link /\ t.pend = s.pend /\ t.wire = s.wire
      /\ t.owner = s.owner /\ t.call = s.call
      /\ t.svc[p] = y /\ \A q \in Procs : q # p => t.svc[q] = s.svc[q]
    BY <1>1, <1>4, <1>6 DEF State
<1>9. CalmProc(s, alive, faults, p) /\ s.svc[p].cur \in Links
    BY <1>1, <1>2, CalmLinked DEF Calm
<1>10. /\ faults = 1 /\ p # First /\ s.svc[p].provider /\ s.svc[p].cur # 0
       /\ s.link[s.svc[p].cur].kind = "worker"
    BY SMTT(30), <1>1, <1>2, <1>9 DEF CalmProc
<1>11. ~s.link[s.svc[p].cur].closed /\ ~s.link[s.svc[p].cur].cut
    <2>1. CalmLink(s, alive, faults, s.svc[p].cur)
        BY <1>1, <1>9 DEF Calm
    <2> QED
        BY <1>10, <2>1 DEF CalmLink
<1>12. \A q \in Procs : t.svc[q].cur = s.svc[q].cur
    BY <1>6, <1>8
<1>13. CalmBut(t, alive, faults, p)
    <2>1. \A q \in Procs : CutOff(t, q) <=> CutOff(s, q)
        <3>1. \A q \in Procs : t.link[t.svc[q].cur].cut = s.link[s.svc[q].cur].cut
            BY <1>8, <1>12
        <3> QED
            BY Zenon, <3>1 DEF CutOff
    <2>2. ASSUME NEW l \in Links
          PROVE  CalmLink(t, alive, faults, l)
        <3>1. s.link[l].of \in Procs \cup {None} /\ CalmLink(s, alive, faults, l)
            BY <1>1 DEF State, LinkRec, Calm
        <3> QED
            BY <1>8, <1>12, <3>1 DEF CalmLink
    <2>3. \A q \in Procs : alive[q] /\ q # p => CalmProc(t, alive, faults, q)
        BY <1>1, <1>8 DEF Calm, CalmProc
    <2>4. CalmLead(t, alive, faults)
        <3>1. CalmLead(s, alive, faults) /\ t.svc[First] = s.svc[First]
            BY <1>1, <1>8, <1>10, CallAssumption DEF Calm
        <3> QED
            BY <1>8, <1>12, <2>1, <3>1 DEF CalmLead
    <2>5. ASSUME NEW c \in Calls
          PROVE  CalmCall(t, alive, faults, c)
        <3>1. CalmCall(s, alive, faults, c) /\ s.call[c].of \in Procs
            BY <1>1 DEF Calm, State, CallRec
        <3>2. s.call[c].reply = "transport" => s.call[c].of # p
            BY <1>1, <1>2
        <3> QED
            BY <1>8, <2>1, <3>1, <3>2 DEF CalmCall
    <2>6. CalmPending(t) /\ CalmWire(t)
        BY <1>1, <1>8 DEF Calm, CalmPending, CalmWire
    <2> QED
        BY <2>2, <2>3, <2>4, <2>5, <2>6 DEF CalmBut
<1>14. ~CutOff(t, p)
    BY <1>8, <1>11, <1>12 DEF CutOff
<1>15. Calm(Settled(t, p, "up"), alive, faults)
    BY <1>1, <1>2, <1>6, <1>8, <1>10, <1>11, <1>13, <1>14, CalmSettled
<1> QED
    BY <1>7, <1>15, CalmBecome

LEMMA CalmConnected ==
    ASSUME CallsInv, Calm(Now, alive, faults), NEW p \in Procs, Connected(p)
    PROVE  Calm(Now', alive, faults)
<1>0. PICK s : s = Now
    OBVIOUS
<1>1. /\ Good(s, ran) /\ s \in State /\ s.svc = svc /\ s.call = call /\ s.link = link
      /\ Calm(s, alive, faults) /\ s.svc[p] \in ServiceRec
    BY <1>0, NowGood DEF State
<1>2. /\ alive[p] /\ svc[p].failover = "connecting"
      /\ \A c \in Calls : call[c].of = p => call[c].reply = "none"
    BY <1>1 DEF Connected, Quiet
<1>3. PICK n \in Links, y \in ServiceRec :
         /\ link[n].of = None
         /\ y.mode = "follower" /\ y.cur = n /\ y.provider = svc[p].provider
         /\ Become(Settled(Joined(Now, p, n, y), p, "up"))
    BY Connecting
<1>4. PICK l : l = s.svc[p].cur
    OBVIOUS
<1>5. /\ CalmProc(s, alive, faults, p) /\ l \in Links /\ s.link[l].of = p
      /\ CalmLink(s, alive, faults, l)
    BY <1>1, <1>2, <1>4, CalmLinked DEF Calm
<1>6. /\ s.link[l].closed /\ s.link[l].cut /\ s.link[l].kind = "socket"
      /\ svc[p].target = First /\ alive[First] /\ p # First /\ faults = 1 /\ svc[p].provider
    BY <1>1, <1>2, <1>4, <1>5 DEF CalmProc, CalmLink
<1>7. PICK k, u, t : /\ k = Opened(p, First, "socket") /\ u = [s EXCEPT !.link[n] = k]
                     /\ t = [u EXCEPT !.svc[p] = y]
    OBVIOUS
<1>8. t = Joined(Now, p, n, y)
    BY <1>0, <1>1, <1>6, <1>7 DEF Joined
<1>9. /\ k.of = p /\ k.peer = First /\ k.kind = "socket" /\ ~k.closed /\ ~k.errored
      /\ ~k.terminated /\ ~k.cut /\ k \in LinkRec /\ k.terminated = k.closed
    <2>1. UnusedLink \in LinkRec
        BY DEF UnusedLink, LinkRec, Ids1
    <2> QED
        BY <1>7, <2>1, CallAssumption DEF Opened, LinkRec, UnusedLink
<1>10. /\ t \in State /\ t.pend = s.pend /\ t.wire = s.wire
       /\ t.owner = s.owner /\ t.call = s.call
       /\ t.svc[p] = y /\ \A q \in Procs : q # p => t.svc[q] = s.svc[q]
       /\ t.link[n] = k /\ \A j \in Links : j # n => t.link[j] = s.link[j]
    BY <1>1, <1>3, <1>7, <1>9 DEF State
<1>11. n # l /\ \A q \in Procs : alive[q] /\ q # p => s.svc[q].cur \in Links /\ s.svc[q].cur # n
    <2>1. p # None
        BY CallAssumption
    <2>2. ASSUME NEW q \in Procs, alive[q]
          PROVE  s.svc[q].cur \in Links /\ s.svc[q].cur # n
        <3>1. s.svc[q].cur \in Links /\ s.link[s.svc[q].cur].of = q
            BY <1>1, <2>2, CalmLinked
        <3> QED
            BY <1>1, <1>3, <3>1, CallAssumption
    <2> QED
        BY <1>1, <1>3, <1>5, <2>1, <2>2
<1>12. ~CutOff(t, p)
    BY <1>3, <1>9, <1>10 DEF CutOff
<1>13. \A q \in Procs : alive[q] /\ q # p => (CutOff(t, q) <=> CutOff(s, q))
    <2>1. \A q \in Procs : alive[q] /\ q # p => t.link[t.svc[q].cur].cut = s.link[s.svc[q].cur].cut
        BY <1>10, <1>11
    <2> QED
        BY Zenon, <2>1 DEF CutOff
<1>14. CutOff(s, p) /\ \A q \in Procs : alive[q] => ~CutOff(t, q)
    <2>1. CutOff(s, p)
        BY <1>4, <1>6 DEF CutOff
    <2>2. \A q \in Procs : alive[q] /\ CutOff(s, q) => q = p
        BY <1>1, <1>2, <2>1 DEF Calm, CalmLead
    <2> QED
        BY <1>12, <1>13, <2>1, <2>2
<1>15. CalmBut(t, alive, faults, p)
    <2>1. ASSUME NEW j \in Links
          PROVE  CalmLink(t, alive, faults, j)
        <3>1. CASE j = n
            <4>1. t.link[j] = k /\ t.svc[k.of].cur = j /\ k.of # None
                BY <1>3, <1>9, <1>10, <3>1, CallAssumption
            <4> QED
                BY <1>9, <4>1 DEF CalmLink
        <3>2. CASE j # n
            <4>1. CalmLink(s, alive, faults, j) /\ s.link[j].of \in Procs \cup {None}
                BY <1>1 DEF Calm, State, LinkRec
            <4>2. s.link[j].of = p => s.link[j].closed
                <5>1. s.link[j].of = p => s.svc[p].cur = j \/ s.link[j].closed
                    BY <1>2, <4>1, CallAssumption DEF CalmLink
                <5> QED
                    BY <1>4, <1>6, <5>1
            <4>3. \A q \in Procs : q # p => t.svc[q].cur = s.svc[q].cur
                BY <1>10
            <4> QED
                BY <1>10, <3>2, <4>1, <4>2, <4>3 DEF CalmLink
        <3> QED
            BY <3>1, <3>2
    <2>2. ASSUME NEW q \in Procs, alive[q], q # p
          PROVE  CalmProc(t, alive, faults, q)
        <3>1. CalmProc(s, alive, faults, q) /\ t.svc[q] = s.svc[q]
              /\ t.link[s.svc[q].cur] = s.link[s.svc[q].cur]
            BY <1>1, <1>10, <1>11, <2>2 DEF Calm
        <3> QED
            BY <3>1 DEF CalmProc
    <2>3. CalmLead(t, alive, faults)
        <3>1. CalmLead(s, alive, faults)
            BY <1>1 DEF Calm
        <3>2. t.svc[First] = s.svc[First] /\ t.owner = s.owner
            BY <1>6, <1>10, CallAssumption
        <3>3. s.owner \in Procs /\ alive[s.owner] /\ s.link[s.svc[s.owner].cur].kind = "worker"
              => t.link[t.svc[s.owner].cur].kind = "worker"
            <4>1. s.owner \in Procs /\ alive[s.owner] /\ s.link[s.svc[s.owner].cur].kind = "worker"
                  => s.owner # p
                BY <1>4, <1>6
            <4> QED
                BY <1>10, <1>11, <4>1
        <3> QED
            BY <1>6, <1>14, <3>1, <3>2, <3>3 DEF CalmLead
    <2>4. ASSUME NEW c \in Calls
          PROVE  CalmCall(t, alive, faults, c)
        <3>1. CalmCall(s, alive, faults, c) /\ s.call[c].of \in Procs /\ t.call = s.call
            BY <1>1, <1>10 DEF Calm, State, CallRec
        <3>2. CASE s.call[c].of = p
            <4>1. s.call[c].reply = "none"
                BY <1>1, <1>2, <3>2
            <4> QED
                BY <1>6, <1>12, <3>1, <3>2, <4>1 DEF CalmCall
        <3>3. CASE s.call[c].of # p /\ alive[s.call[c].of]
            <4>1. t.svc[s.call[c].of] = s.svc[s.call[c].of]
                BY <1>10, <3>1, <3>3
            <4> QED
                BY <1>13, <3>1, <3>3, <4>1 DEF CalmCall
        <3>4. CASE s.call[c].of # p /\ ~alive[s.call[c].of]
            BY <3>1, <3>4 DEF CalmCall
        <3> QED
            BY <3>2, <3>3, <3>4
    <2>5. CalmPending(t)
        <3>1. s.pend[n] = {}
            BY <1>1, <1>3 DEF Calm, CalmLink
        <3>2. \A j \in Links : j # n => t.link[j] = s.link[j]
            BY <1>10
        <3> QED
            BY <1>1, <1>10, <3>1, <3>2 DEF Calm, CalmPending
    <2>6. CalmWire(t)
        BY <1>1, <1>10 DEF Calm, CalmWire
    <2> QED
        BY <2>1, <2>2, <2>3, <2>4, <2>5, <2>6 DEF CalmBut
<1>16. Calm(Settled(t, p, "up"), alive, faults)
    <2>1. /\ t.svc[p].provider /\ t.svc[p].cur # 0 /\ ~t.link[t.svc[p].cur].closed
          /\ t.svc[p].mode = "follower"
        <3>1. y.provider
            BY <1>3, <1>6
        <3>2. n # 0
            BY CallAssumption DEF Links
        <3> QED
            BY <1>3, <1>9, <1>10, <3>1, <3>2
    <2>2. \A c \in Calls : t.call[c].of = p => t.call[c].reply = "none"
        BY <1>1, <1>2, <1>10
    <2> QED
        BY <1>2, <1>6, <1>10, <1>12, <1>15, <2>1, <2>2, CalmSettled
<1> QED
    BY <1>3, <1>8, <1>16, CalmBecome

\* With two processes, the one that is not the first is the other.
LEMMA OnlyOther ==
    ASSUME IsFiniteSet(Procs), Cardinality(Procs) = 2, NEW p \in Procs, NEW q \in Procs,
           p # First, q # First
    PROVE  p = q
<1>1. First \in Procs
    BY CallAssumption
<1>2. IsFiniteSet(Procs \ {First}) /\ Cardinality(Procs \ {First}) = 1
    BY <1>1, FS_RemoveElement
<1>3. PICK x : Procs \ {First} = {x}
    BY <1>2, FS_Singleton
<1> QED
    BY <1>3

\* While somebody's link is lost, no link was opened since the start.
LEMMA CalmRoom ==
    ASSUME IsFiniteSet(Procs), MaxLinks > Cardinality(Procs),
           NEW s, NEW A, NEW f, CalmLead(s, A, f), NEW p \in Procs, A[p], CutOff(s, p)
    PROVE  \E n \in Links : s.link[n].of = None
<1>1. Cardinality(Procs) \in Nat /\ MaxLinks \in Nat
    BY FS_CardinalityType, CallAssumption
<1>2. \A l \in Links : s.link[l].of # None => l <= Cardinality(Procs)
    BY DEF CalmLead
<1>3. MaxLinks \in Links /\ ~(MaxLinks <= Cardinality(Procs))
    BY <1>1 DEF Links
<1> QED
    BY <1>2, <1>3

\* Nobody fails to connect, and nobody sleeps.
LEMMA CalmConnects ==
    ASSUME IsFiniteSet(Procs), MaxLinks > Cardinality(Procs),
           CallsInv, Calm(Now, alive, faults), NEW p \in Procs
    PROVE  ~ConnectFails(p) /\ ~NextAttempt(p)
<1>0. PICK s : s = Now
    OBVIOUS
<1>1. /\ Good(s, ran) /\ s \in State /\ s.svc = svc /\ s.link = link
      /\ Calm(s, alive, faults)
    BY <1>0, NowGood
<1>2. ASSUME ConnectFails(p) PROVE FALSE
    <2>1. alive[p] /\ svc[p].failover = "connecting"
        BY <1>2 DEF ConnectFails, Quiet
    <2>2. CalmProc(s, alive, faults, p) /\ CalmLead(s, alive, faults)
        BY <1>1, <2>1 DEF Calm
    <2>3. s.link[s.svc[p].cur].closed /\ svc[p].target = First /\ alive[First]
        BY <1>1, <2>1, <2>2 DEF CalmProc
    <2>4. s.svc[First].serving
        BY <2>2, <2>3 DEF CalmLead
    <2>5. CutOff(s, p)
        BY <1>1, <2>1, <2>3, CalmLinked
    <2>6. Room(s)
        BY <2>1, <2>2, <2>5, CalmRoom DEF Room
    <2> QED
        BY <1>0, <1>1, <1>2, <2>3, <2>4, <2>6 DEF ConnectFails, Reachable
<1>3. ASSUME NextAttempt(p) PROVE FALSE
    <2>1. alive[p] /\ svc[p].failover = "asleep"
        BY <1>3 DEF NextAttempt, Quiet
    <2>2. CalmProc(s, alive, faults, p)
        BY <1>1, <2>1 DEF Calm
    <2> QED
        BY <1>1, <2>1, <2>2 DEF CalmProc
<1> QED
    BY <1>2, <1>3

\* The calls that await an answer on a link learn that it is lost.
Rejected(s, l) ==
    [c \in Calls |->
        IF \E e \in s.pend[l] : e.call = c /\ e.via = Here
        THEN [s.call[c] EXCEPT !.reply = "transport"] ELSE s.call[c]]

\* Link l of s is closed in t.
SocketShut(s, t, l) ==
    /\ t.svc = s.svc /\ t.owner = s.owner /\ t.wire = s.wire
    /\ t.call = Rejected(s, l) /\ t.pend = [s.pend EXCEPT ![l] = {}]
    /\ t.link[l].of = s.link[l].of /\ t.link[l].peer = s.link[l].peer
    /\ t.link[l].kind = s.link[l].kind /\ t.link[l].errored = s.link[l].errored
    /\ t.link[l].cut /\ t.link[l].closed = TRUE /\ t.link[l].terminated = TRUE
    /\ \A j \in Links : j # l => t.link[j] = s.link[j]

LEMMA ShutSocket ==
    ASSUME NEW s \in State, NEW l \in Links, ~s.link[l].closed, s.link[l].cut,
           \A e \in s.pend[l] : e.via = Here
    PROVE  SocketShut(s, Shut(s, l), l)
<1> DEFINE x == [s.link[l] EXCEPT !.closed = TRUE, !.terminated = TRUE]
<1>1. PICK t : t = [s EXCEPT !.link[l].closed = TRUE, !.link[l].terminated = TRUE]
    OBVIOUS
<1>2. s.link[l] \in LinkRec
    BY DEF State
<1>3. /\ t.svc = s.svc /\ t.owner = s.owner /\ t.wire = s.wire /\ t.pend = s.pend
      /\ t.call = s.call /\ t.link = [s.link EXCEPT ![l] = x]
    BY <1>1, <1>2 DEF State, LinkRec
<1>4. l # 0
    BY CallAssumption DEF Links
<1>5. PICK u : u = Shut(s, l)
    OBVIOUS
<1>6. u = Reject(t, l, "transport")
    BY <1>1, <1>4, <1>5 DEF Shut
<1>7. PICK W : W = {Answer(e.via, e.call, "transport") : e \in {z \in t.pend[l] : z.via # Here}}
    OBVIOUS
<1>8. W = {}
    BY <1>3, <1>7
<1>9. /\ u.svc = t.svc /\ u.owner = t.owner /\ u.link = t.link /\ u.wire = t.wire \cup W
      /\ u.pend = [t.pend EXCEPT ![l] = {}]
      /\ u.call = [c \in Calls |->
            IF \E e \in t.pend[l] : e.call = c /\ e.via = Here
            THEN [t.call[c] EXCEPT !.reply = "transport"] ELSE t.call[c]]
    BY <1>1, <1>6, <1>7 DEF Reject, State
<1>10. u.wire = s.wire
    BY <1>3, <1>8, <1>9
<1>11. u.call = Rejected(s, l)
    BY <1>3, <1>9 DEF Rejected
<1>12. /\ x.of = s.link[l].of /\ x.peer = s.link[l].peer /\ x.kind = s.link[l].kind
       /\ x.errored = s.link[l].errored /\ x.cut = s.link[l].cut /\ x.closed = TRUE
       /\ x.terminated = TRUE
    BY <1>2 DEF LinkRec
<1> HIDE DEF x
<1>13. u.link[l] = x /\ \A j \in Links : j # l => u.link[j] = s.link[j]
    BY <1>3, <1>9 DEF State
<1>14. SocketShut(s, u, l)
    BY <1>3, <1>9, <1>10, <1>11, <1>12, <1>13 DEF SocketShut
<1> QED
    BY <1>5, <1>14

\* A follower's link is gone: it connects again, or takes over.
ConnectsAgain(s, p, w) ==
    /\ w.svc = [s.svc EXCEPT ![p] = w.svc[p]]
    /\ w.svc[p].cur = s.svc[p].cur /\ w.svc[p].mode = "follower" /\ w.svc[p].provider
    /\ w.svc[p].failover = "connecting" /\ w.svc[p].target = s.owner
    /\ w.link = s.link /\ w.pend = s.pend /\ w.wire = s.wire
    /\ w.call = s.call /\ w.owner = s.owner

TakesOver(s, p, n, w) ==
    /\ w.svc = [s.svc EXCEPT ![p] = w.svc[p]]
    /\ w.svc[p].cur = n /\ w.svc[p].provider /\ w.svc[p].failover = "serving"
    /\ s.link[n].of = None /\ w.link = [s.link EXCEPT ![n] = Opened(p, p, "worker")]
    /\ w.pend = s.pend /\ w.wire = s.wire /\ w.call = s.call /\ w.owner = p

\* The state in which the first attempt is made.
LEMMA ExitedAttempts ==
    ASSUME NEW s \in State, NEW p \in Procs, s.svc[p].mode = "follower", s.svc[p].provider,
           s.svc[p].failover = "idle",
           NEW u, u = [s EXCEPT !.svc[p] = [@ EXCEPT !.ready = FALSE, !.attempt = 0]]
    PROVE  Exited(s, p) = Attempt(u, p)
<1>1. s.svc[p] \in ServiceRec
    BY DEF State
<1>2. PICK t : t = [s EXCEPT !.svc[p].ready = FALSE]
    OBVIOUS
<1>3. t.svc = [s.svc EXCEPT ![p] = [@ EXCEPT !.ready = FALSE]] /\ t = [s EXCEPT !.svc = t.svc]
    BY <1>2 DEF State
<1>4. t.svc[p].mode = "follower" /\ t.svc[p].provider /\ t.svc[p].failover = "idle"
    BY <1>1, <1>3 DEF State, Service, ServiceRec
<1>5. Exited(s, p) = Attempt([t EXCEPT !.svc[p].attempt = 0], p)
    BY <1>2, <1>4 DEF Exited, StartFailover
<1>6. u = [t EXCEPT !.svc[p].attempt = 0]
    BY <1>1, <1>2 DEF State, Service, ServiceRec
<1> QED
    BY <1>5, <1>6

LEMMA ExitedConnects ==
    ASSUME NEW s \in State, NEW p \in Procs, s.svc[p].mode = "follower", s.svc[p].provider,
           s.svc[p].failover = "idle", s.owner # None, alive[s.owner]
    PROVE  ConnectsAgain(s, p, Exited(s, p))
<1>1. s.svc[p] \in ServiceRec
    BY DEF State
<1>2. PICK u : u = [s EXCEPT !.svc[p] = [@ EXCEPT !.ready = FALSE, !.attempt = 0]]
    OBVIOUS
<1>3. PICK z : z = [s.svc[p] EXCEPT !.ready = FALSE, !.attempt = 0]
    OBVIOUS
<1>4. /\ z \in ServiceRec /\ z.cur = s.svc[p].cur /\ z.mode = "follower" /\ z.provider
    <2>1. 0 \in 0 .. MaxAttempts
        BY CallAssumption
    <2>2. s.svc[p] \in Service /\ s.svc[p].failover = "idle"
        BY <1>1 DEF ServiceRec
    <2>3. z \in Service /\ z.failover = "idle" /\ z.cur = s.svc[p].cur /\ z.mode = "follower"
        BY <1>3, <2>1, <2>2 DEF Service
    <2>4. z.provider = s.svc[p].provider
        BY <1>3, <2>2 DEF Service
    <2> QED
        BY <2>3, <2>4 DEF ServiceRec
<1>5. /\ u.svc = [s.svc EXCEPT ![p] = z] /\ u.owner = s.owner /\ u.link = s.link
      /\ u.pend = s.pend /\ u.wire = s.wire /\ u.call = s.call /\ u \in State
    BY <1>2, <1>3, <1>4 DEF State
<1>6. PICK w : w = Exited(s, p)
    OBVIOUS
<1>7. w = [u EXCEPT !.svc[p].failover = "connecting", !.svc[p].target = s.owner]
    <2>1. w = Attempt(u, p)
        BY <1>2, <1>6, ExitedAttempts
    <2>2. u.owner # None /\ alive[u.owner]
        BY <1>5
    <2> QED
        BY <1>5, <2>1, <2>2 DEF Attempt
<1>8. PICK y : y = [z EXCEPT !.failover = "connecting", !.target = s.owner]
    OBVIOUS
<1>9. u.svc[p] = z
    BY <1>5 DEF State
<1>10. w.svc = [u.svc EXCEPT ![p] = y]
    BY <1>4, <1>5, <1>7, <1>8, <1>9 DEF State
<1>11. /\ w.link = u.link /\ w.pend = u.pend /\ w.wire = u.wire
       /\ w.call = u.call /\ w.owner = u.owner
    BY <1>5, <1>7 DEF State
<1>12. w.svc = [s.svc EXCEPT ![p] = y] /\ w.svc[p] = y
    BY <1>5, <1>10 DEF State
<1>13. /\ y.cur = z.cur /\ y.mode = z.mode /\ y.provider = z.provider
       /\ y.failover = "connecting" /\ y.target = s.owner
    BY <1>4, <1>8 DEF Service, ServiceRec
<1> QED
    BY <1>4, <1>5, <1>6, <1>11, <1>12, <1>13 DEF ConnectsAgain

LEMMA ExitedPromotes ==
    ASSUME NEW s \in State, NEW p \in Procs, s.svc[p].mode = "follower", s.svc[p].provider,
           s.svc[p].failover = "idle", s.owner = None \/ ~alive[s.owner],
           s.link[s.svc[p].cur].closed, \E k \in Links : s.link[k].of = None
    PROVE  \E n \in Links : TakesOver(s, p, n, Exited(s, p))
<1>1. s.svc[p] \in ServiceRec
    BY DEF State
<1>2. PICK u : u = [s EXCEPT !.svc[p] = [@ EXCEPT !.ready = FALSE, !.attempt = 0]]
    OBVIOUS
<1>3. PICK z : z = [s.svc[p] EXCEPT !.ready = FALSE, !.attempt = 0]
    OBVIOUS
<1>4. /\ z \in ServiceRec /\ z.cur = s.svc[p].cur /\ z.provider
    <2>1. 0 \in 0 .. MaxAttempts
        BY CallAssumption
    <2>2. s.svc[p] \in Service /\ s.svc[p].failover = "idle"
        BY <1>1 DEF ServiceRec
    <2>3. z \in Service /\ z.failover = "idle" /\ z.cur = s.svc[p].cur
        BY <1>3, <2>1, <2>2 DEF Service
    <2>4. z.provider = s.svc[p].provider
        BY <1>3, <2>2 DEF Service
    <2> QED
        BY <2>3, <2>4 DEF ServiceRec
<1>5. /\ u.svc = [s.svc EXCEPT ![p] = z] /\ u.owner = s.owner /\ u.link = s.link
      /\ u.pend = s.pend /\ u.wire = s.wire /\ u.call = s.call /\ u \in State
    BY <1>2, <1>3, <1>4 DEF State
<1>6. u.svc[p] = z
    BY <1>5 DEF State
<1>7. Shut(u, u.svc[p].cur) = u /\ Room(u)
    BY <1>4, <1>5, <1>6 DEF Shut, Room
<1>8. PICK n \in Links : n = Fresh(u) /\ s.link[n].of = None
    BY <1>5, <1>7 DEF Room, Fresh
<1>9. PICK y : y = [z EXCEPT !.mode = "leader", !.cur = n, !.ready = TRUE, !.ro = FALSE,
                             !.failover = "serving"]
    OBVIOUS
<1>10. PICK w : w = Exited(s, p)
    OBVIOUS
<1>11. w = Promote(u, p)
    <2>1. w = Attempt(u, p)
        BY <1>2, <1>10, ExitedAttempts
    <2>2. u.owner = None \/ ~alive[u.owner]
        BY <1>5
    <2> QED
        BY <2>1, <2>2 DEF Attempt
<1>12. w = [u EXCEPT !.link[n] = Opened(p, p, "worker"), !.owner = p, !.svc[p] = y]
    BY <1>6, <1>7, <1>8, <1>9, <1>11 DEF Promote
<1>13. /\ w.svc = [u.svc EXCEPT ![p] = y] /\ w.owner = p /\ w.pend = u.pend /\ w.wire = u.wire
       /\ w.link = [u.link EXCEPT ![n] = Opened(p, p, "worker")] /\ w.call = u.call
    BY <1>5, <1>12 DEF State
<1>14. w.svc = [s.svc EXCEPT ![p] = y] /\ w.svc[p] = y
    BY <1>5, <1>13 DEF State
<1>15. y.cur = n /\ y.provider = z.provider /\ y.failover = "serving"
    BY <1>4, <1>9 DEF Service, ServiceRec
<1>16. TakesOver(s, p, n, w)
    BY <1>4, <1>5, <1>8, <1>13, <1>14, <1>15 DEF TakesOver
<1> QED
    BY <1>8, <1>10, <1>16

\* What the loss of link l tells: p, whose it is, fails over, and its calls
\* that awaited an answer there learn of it; nobody else notices.
LossTold(s, w, l, p) ==
    /\ w.call = Rejected(s, l) /\ w.wire = s.wire /\ w.pend = [s.pend EXCEPT ![l] = {}]
    /\ w.svc[p].failover # "idle" /\ \A q \in Procs : q # p => w.svc[q] = s.svc[q]
    /\ w.link[l].of = p /\ \A j \in Links : s.link[j].of # None /\ j # l => w.link[j] = s.link[j]

LEMMA CalmTold ==
    ASSUME NEW s, NEW r, Good(s, r), NEW A, NEW f, Calm(s, A, f), NEW p \in Procs, A[p],
           NEW l \in Links, l = s.svc[p].cur, CutOff(s, p), NEW w, LossTold(s, w, l, p)
    PROVE  /\ \A q \in Procs : A[q] /\ q # p => ~CutOff(w, q) /\ CalmProc(w, A, f, q)
           /\ \A c \in Calls : CalmCall(w, A, f, c)
           /\ CalmPending(w) /\ CalmWire(w)
<1>1. s \in State /\ s.link[l].of = p /\ p # None
    BY CalmLinked, CallAssumption DEF Good
<1>2. ASSUME NEW q \in Procs, A[q], q # p
      PROVE  /\ w.svc[q] = s.svc[q] /\ s.svc[q].cur \in Links
             /\ w.link[s.svc[q].cur] = s.link[s.svc[q].cur]
    <2>1. s.svc[q].cur \in Links /\ s.link[s.svc[q].cur].of = q /\ q # None
        BY <1>2, CalmLinked, CallAssumption
    <2> QED
        BY <1>1, <1>2, <2>1 DEF LossTold
<1>3. ASSUME NEW q \in Procs, A[q], q # p
      PROVE  ~CutOff(s, q) /\ ~CutOff(w, q) /\ CalmProc(w, A, f, q)
    <2>1. ~CutOff(s, q)
        BY <1>3 DEF Calm, CalmLead
    <2>2. ~CutOff(w, q)
        BY <1>2, <1>3, <2>1 DEF CutOff
    <2>3. CalmProc(s, A, f, q)
        BY <1>3 DEF Calm
    <2> QED
        BY <1>2, <1>3, <2>1, <2>2, <2>3 DEF CalmProc
<1>4. ASSUME NEW c \in Calls
      PROVE  /\ (\E e \in s.pend[l] : e.call = c /\ e.via = Here)
                => /\ s.call[c].of = p /\ s.call[c].pc = "sent"
                   /\ w.call[c].of = p /\ w.call[c].pc = "sent" /\ w.call[c].reply = "transport"
                   /\ w.call[c].outcome = s.call[c].outcome
             /\ ~(\E e \in s.pend[l] : e.call = c /\ e.via = Here) => w.call[c] = s.call[c]
    <2>1. CASE \E e \in s.pend[l] : e.call = c /\ e.via = Here
        <3>1. s.call[c].of = p /\ s.call[c].pc \in {"sent", "resent"}
            BY <1>1, <2>1 DEF Calm, CalmPending
        <3>2. s.call[c].pc = "sent"
            BY <3>1 DEF Calm, CalmCall
        <3>3. w.call[c] = [s.call[c] EXCEPT !.reply = "transport"] /\ s.call[c] \in CallRec
            BY <1>1, <2>1 DEF LossTold, Rejected, State
        <3> QED
            BY <2>1, <3>1, <3>2, <3>3 DEF CallRec
    <2>2. CASE ~(\E e \in s.pend[l] : e.call = c /\ e.via = Here)
        BY <2>2 DEF LossTold, Rejected
    <2> QED
        BY <2>1, <2>2
<1>5. ASSUME NEW c \in Calls
      PROVE  CalmCall(w, A, f, c)
    <2>1. CalmCall(s, A, f, c) /\ s.call[c].of \in Procs
        BY <1>1 DEF Calm, State, CallRec
    <2>2. CASE \E e \in s.pend[l] : e.call = c /\ e.via = Here
        <3>1. w.svc[p].failover # "idle"
            BY DEF LossTold
        <3> QED
            BY <1>4, <2>1, <2>2, <3>1 DEF CalmCall
    <2>3. CASE ~(\E e \in s.pend[l] : e.call = c /\ e.via = Here)
        <3>1. w.call[c] = s.call[c]
            BY <1>4, <2>3
        <3>2. CASE s.call[c].of = p
            <4>1. w.svc[p].failover # "idle"
                BY DEF LossTold
            <4> QED
                BY <2>1, <3>1, <3>2, <4>1 DEF CalmCall
        <3>3. CASE s.call[c].of # p /\ A[s.call[c].of]
            <4>1. ~CutOff(w, s.call[c].of) /\ w.svc[s.call[c].of] = s.svc[s.call[c].of]
                BY <1>2, <1>3, <2>1, <3>3
            <4> QED
                BY <2>1, <3>1, <4>1 DEF CalmCall
        <3>4. CASE ~A[s.call[c].of]
            BY <2>1, <3>1, <3>4 DEF CalmCall
        <3> QED
            BY <3>2, <3>3, <3>4
    <2> QED
        BY <2>2, <2>3
<1>6. CalmPending(w)
    <2>1. ASSUME NEW j \in Links, NEW e \in w.pend[j]
          PROVE  j # l /\ e \in s.pend[j] /\ w.link[j] = s.link[j] /\ e.call \in Calls
        <3>1. j # l /\ e \in s.pend[j]
            BY <1>1, <2>1 DEF LossTold, State
        <3>2. s.link[j].of # None
            BY <3>1 DEF Calm, CalmLink
        <3>3. e \in EntryRec
            BY <1>1, <3>1 DEF State
        <3> QED
            BY <3>1, <3>2, <3>3 DEF LossTold, EntryRec
    <2>2. CalmPending(s)
        BY DEF Calm
    <2>3. ASSUME NEW j \in Links, NEW e \in w.pend[j], e.via = Here
          PROVE  w.call[e.call] = s.call[e.call]
        <3>1. ~(\E x \in s.pend[l] : x.call = e.call /\ x.via = Here)
            BY <2>1, <2>2, <2>3 DEF CalmPending
        <3> QED
            BY <1>4, <2>1, <3>1
    <2>4. ASSUME NEW j \in Links, NEW e \in w.pend[j], e.via = Here
          PROVE  /\ w.call[e.call].of = w.link[j].of
                 /\ w.call[e.call].pc \in {"sent", "resent"} /\ w.call[e.call].reply = "none"
                 /\ \A k \in Links : \A x \in w.pend[k] :
                       x.via = Here /\ x.call = e.call => k = j /\ x = e
        BY <2>1, <2>2, <2>3, <2>4 DEF CalmPending
    <2> QED
        BY <2>1, <2>2, <2>4 DEF CalmPending
<1>7. CalmWire(w)
    BY DEF Calm, CalmWire, LossTold
<1> QED
    BY <1>3, <1>5, <1>6, <1>7

LEMMA CalmConnecting ==
    ASSUME NEW s, NEW r, Good(s, r), NEW A, NEW f, Calm(s, A, f), NEW p \in Procs, A[p],
           p # First, NEW l \in Links, l = s.svc[p].cur, s.link[l].cut,
           s.owner = First, A[First],
           NEW t \in State, SocketShut(s, t, l),
           NEW w, ConnectsAgain(t, p, w)
    PROVE  Calm(w, A, f)
<1>1. /\ s \in State /\ s.link[l].of = p /\ p # None /\ s.svc[p].provider
      /\ CalmLink(s, A, f, l) /\ CalmLead(s, A, f) /\ CutOff(s, p)
    <2>1. s.link[l].of = p /\ s.svc[p].provider
        BY CalmLinked
    <2>2. CutOff(s, p)
        BY DEF CutOff
    <2>3. s \in State /\ p # None
        BY CallAssumption DEF Good
    <2> QED
        BY <2>1, <2>2, <2>3 DEF Calm
<1>2. s.link[l].kind = "socket" /\ s.link[l].of = p /\ f = 1 /\ s.link[l].peer = First
    BY SMTT(30), <1>1 DEF CalmLink
<1>3. PICK x : /\ x = t.link[l] /\ x.of = p /\ x.kind = "socket" /\ x.cut
              /\ x.closed = TRUE /\ x.terminated = TRUE /\ x.peer = First /\ x.errored = s.link[l].errored
    BY <1>1, <1>2 DEF SocketShut
<1>4. /\ w.call = Rejected(s, l) /\ w.wire = s.wire /\ w.pend = [s.pend EXCEPT ![l] = {}]
      /\ w.link = t.link /\ w.owner = First
      /\ w.svc[p].failover = "connecting" /\ w.svc[p].target = First
      /\ w.svc[p].cur = l /\ w.svc[p].mode = "follower" /\ w.svc[p].provider
      /\ \A q \in Procs : q # p => w.svc[q] = s.svc[q]
    BY SMTT(30), <1>1 DEF ConnectsAgain, SocketShut, State
<1>5. w.link[l] = x /\ \A j \in Links : j # l => w.link[j] = s.link[j]
    BY <1>3, <1>4 DEF SocketShut
<1>6. LossTold(s, w, l, p)
    BY <1>3, <1>4, <1>5 DEF LossTold
<1>7. /\ \A q \in Procs : A[q] /\ q # p => ~CutOff(w, q) /\ CalmProc(w, A, f, q)
      /\ \A c \in Calls : CalmCall(w, A, f, c)
      /\ CalmPending(w) /\ CalmWire(w)
    BY <1>1, <1>6, CalmTold
<1>8. CalmProc(w, A, f, p)
    <2>1. l # 0
        BY CallAssumption DEF Links
    <2> QED
        BY <1>3, <1>4, <1>5, <2>1 DEF CalmProc
<1>9. ASSUME NEW j \in Links
      PROVE  CalmLink(w, A, f, j)
    <2>1. CASE j = l
        <3>1. ~x.errored
            BY <1>1, <1>3 DEF CalmLink
        <3>2. w.link[j] = x /\ w.svc[x.of].cur = j
            BY <1>3, <1>4, <1>5, <2>1
        <3> QED
            BY Zenon, <1>1, <1>2, <1>3, <3>1, <3>2 DEF CalmLink
    <2>2. CASE j # l
        <3>1. CalmLink(s, A, f, j) /\ s.link[j].of \in Procs \cup {None}
            BY <1>1 DEF Calm, State, LinkRec
        <3>2. \A q \in Procs : w.svc[q].cur = s.svc[q].cur
            BY <1>4
        <3>3. w.link[j] = s.link[j] /\ w.pend[j] = s.pend[j]
            BY <1>1, <1>4, <1>5, <2>2 DEF State
        <3> QED
            BY <3>1, <3>2, <3>3 DEF CalmLink
    <2> QED
        BY Zenon, <2>1, <2>2
<1>10. CalmLead(w, A, f)
    <2>1. \A j \in Links : w.link[j].of = s.link[j].of
        BY <1>1, <1>3, <1>5
    <2>2. w.svc[First] = s.svc[First]
        BY <1>4, CallAssumption
    <2>3. \A a, b \in Procs : A[a] /\ A[b] /\ CutOff(w, a) /\ CutOff(w, b) => a = b
        BY <1>7
    <2>4. \/ \A j \in Links : s.link[j].of # None => j <= Cardinality(Procs)
          \/ f = 1 /\ \A q \in Procs : A[q] => ~CutOff(s, q)
        BY <1>1 DEF CalmLead
    <2>5. \A j \in Links : w.link[j].of # None => j <= Cardinality(Procs)
        BY <1>1, <2>1, <2>4
    <2> QED
        BY <1>1, <1>4, <2>2, <2>3, <2>5 DEF CalmLead
<1> QED
    BY <1>7, <1>8, <1>9, <1>10 DEF Calm

LEMMA CalmTakingOver ==
    ASSUME NEW s, NEW r, Good(s, r), NEW A, NEW f, Calm(s, A, f), NEW p \in Procs, A[p],
           p # First, NEW l \in Links, l = s.svc[p].cur, s.link[l].cut,
           ~A[s.owner],
           NEW t \in State, SocketShut(s, t, l),
           NEW w, NEW n \in Links, TakesOver(t, p, n, w)
    PROVE  Calm(w, A, f)
<1>1. /\ s \in State /\ s.link[l].of = p /\ p # None /\ s.svc[p].provider
      /\ CalmLink(s, A, f, l) /\ CalmLead(s, A, f) /\ CutOff(s, p)
    <2>1. s.link[l].of = p /\ s.svc[p].provider
        BY CalmLinked
    <2>2. CutOff(s, p)
        BY DEF CutOff
    <2>3. s \in State /\ p # None
        BY CallAssumption DEF Good
    <2> QED
        BY <2>1, <2>2, <2>3 DEF Calm
<1>2. s.link[l].kind = "socket" /\ s.link[l].of = p /\ f = 1 /\ s.link[l].peer = First
    BY SMTT(30), <1>1 DEF CalmLink
<1>3. PICK x : /\ x = t.link[l] /\ x.of = p /\ x.kind = "socket" /\ x.cut
              /\ x.closed = TRUE /\ x.terminated = TRUE /\ x.peer = First /\ x.errored = s.link[l].errored
    BY <1>1, <1>2 DEF SocketShut
<1>4. PICK k : k = Opened(p, p, "worker")
    OBVIOUS
<1>5. /\ k.of = p /\ k.peer = p /\ k.kind = "worker" /\ ~k.closed /\ ~k.errored
      /\ ~k.terminated /\ ~k.cut /\ k.terminated = k.closed
    BY <1>4 DEF Opened, UnusedLink
<1>6. n # l /\ s.link[n].of = None
    <2>1. t.link[l] = x /\ \A j \in Links : j # l => t.link[j] = s.link[j]
        BY <1>3 DEF SocketShut
    <2>2. t.link[n].of = None
        BY DEF TakesOver
    <2> QED
        BY <1>1, <1>3, <2>1, <2>2
<1>7. /\ w.call = Rejected(s, l) /\ w.wire = s.wire /\ w.pend = [s.pend EXCEPT ![l] = {}]
      /\ w.owner = p /\ w.svc[p].failover = "serving" /\ w.svc[p].cur = n /\ w.svc[p].provider
      /\ \A q \in Procs : q # p => w.svc[q] = s.svc[q]
    BY <1>1 DEF TakesOver, SocketShut, State
<1>8. /\ w.link[l] = x /\ w.link[n] = k
      /\ \A j \in Links : j # l /\ j # n => w.link[j] = s.link[j]
    <2>1. w.link = [t.link EXCEPT ![n] = k]
        BY <1>4 DEF TakesOver
    <2>2. t.link \in [Links -> LinkRec]
        BY DEF State
    <2>3. w.link[n] = k /\ \A j \in Links : j # n => w.link[j] = t.link[j]
        BY <2>1, <2>2
    <2> QED
        BY <1>3, <1>6, <2>3 DEF SocketShut
<1>9. LossTold(s, w, l, p)
    BY <1>3, <1>6, <1>7, <1>8 DEF LossTold
<1>10. /\ \A q \in Procs : A[q] /\ q # p => ~CutOff(w, q) /\ CalmProc(w, A, f, q)
       /\ \A c \in Calls : CalmCall(w, A, f, c)
       /\ CalmPending(w) /\ CalmWire(w)
    BY <1>1, <1>9, CalmTold
<1>11. CalmProc(w, A, f, p) /\ ~CutOff(w, p)
    <2>1. n # 0
        BY CallAssumption DEF Links
    <2> QED
        BY <1>2, <1>5, <1>7, <1>8, <2>1 DEF CalmProc, CutOff
<1>12. ASSUME NEW j \in Links
       PROVE  CalmLink(w, A, f, j)
    <2>1. CASE j = l
        <3>1. ~x.errored
            BY <1>1, <1>3 DEF CalmLink
        <3>2. w.link[j] = x
            BY <1>8, <2>1
        <3> QED
            BY Zenon, <1>1, <1>2, <1>3, <3>1, <3>2 DEF CalmLink
    <2>2. CASE j = n
        <3>1. w.link[j] = k /\ w.svc[k.of].cur = j
            BY <1>5, <1>7, <1>8, <2>2
        <3> QED
            BY <1>1, <1>5, <3>1 DEF CalmLink
    <2>3. CASE j # l /\ j # n
        <3>1. CalmLink(s, A, f, j) /\ s.link[j].of \in Procs \cup {None}
            BY <1>1 DEF Calm, State, LinkRec
        <3>2. w.link[j] = s.link[j] /\ w.pend[j] = s.pend[j]
            BY <1>1, <1>7, <1>8, <2>3 DEF State
        <3>3. s.link[j].of = p => s.link[j].closed
            BY <1>1, <2>3, <3>1 DEF CalmLink
        <3>4. \A q \in Procs : q # p => w.svc[q].cur = s.svc[q].cur
            BY <1>7
        <3> QED
            BY <3>1, <3>2, <3>3, <3>4 DEF CalmLink
    <2> QED
        BY Zenon, <2>1, <2>2, <2>3
<1>13. CalmLead(w, A, f)
    <2>1. ~A[First] /\ Cardinality(Procs) = 2
        BY <1>1 DEF CalmLead
    <2>2. \A q \in Procs : A[q] => ~CutOff(w, q)
        BY <1>10, <1>11
    <2> QED
        BY <1>2, <1>5, <1>7, <1>8, <2>1, <2>2 DEF CalmLead
<1> QED
    BY <1>10, <1>11, <1>12, <1>13 DEF Calm

LEMMA CalmLinkClosed ==
    ASSUME IsFiniteSet(Procs), MaxLinks > Cardinality(Procs),
           CallsInv, Calm(Now, alive, faults), NEW l \in Links, LinkClosed(l)
    PROVE  Calm(Now', alive, faults)
<1>0. PICK s, p : s = Now /\ p = s.link[l].of
    OBVIOUS
<1>1. /\ Good(s, ran) /\ s \in State /\ s.svc = svc /\ s.link = link
      /\ Calm(s, alive, faults) /\ s.link[l] \in LinkRec
    BY <1>0, NowGood DEF State
<1>2. s.link[l].cut /\ ~s.link[l].closed /\ alive[p] /\ Become(Exited(Shut(s, l), p))
    BY <1>0, <1>1 DEF LinkClosed, Quiet
<1>3. p \in Procs /\ p # None
    BY <1>0, <1>1, <1>2 DEF LinkRec
<1>4. CalmLink(s, alive, faults, l) /\ CalmProc(s, alive, faults, p) /\ CalmLead(s, alive, faults)
    BY <1>1, <1>2, <1>3 DEF Calm
<1>5. l = s.svc[p].cur /\ s.link[l].kind = "socket"
    BY <1>0, <1>2, <1>3, <1>4 DEF CalmLink
<1>6. /\ s.svc[p].mode = "follower" /\ s.svc[p].provider /\ s.svc[p].failover = "idle"
      /\ p # First
    BY <1>2, <1>4, <1>5 DEF CalmProc
<1>7. \A e \in s.pend[l] : e.via = Here
    BY <1>1, <1>5 DEF Calm, CalmPending
<1>8. PICK t : t = Shut(s, l)
    OBVIOUS
<1>9. SocketShut(s, t, l)
    BY <1>1, <1>2, <1>7, <1>8, ShutSocket
<1>10. t \in State
    <2>1. l \in 0 .. MaxLinks
        BY CallAssumption DEF Links
    <2>2. Good(Shut(s, l), ran)
        BY <1>1, <2>1, ShutGood
    <2> QED
        BY <1>8, <2>2 DEF Good
<1>11. t.svc = s.svc /\ t.owner = s.owner
    BY <1>9 DEF SocketShut
<1>13. PICK w : w = Exited(t, p)
    OBVIOUS
<1>14. First \in Procs /\ None \notin Procs /\ s.owner \in Procs
    BY <1>4, CallAssumption DEF CalmLead
<1>15. CASE alive[s.owner]
    <2>1. s.owner = First
        <3>1. CASE alive[First]
            BY <1>4, <3>1 DEF CalmLead
        <3>2. CASE ~alive[First]
            <4>1. s.owner # First /\ Cardinality(Procs) = 2
                BY <1>4, <1>15, <3>2 DEF CalmLead
            <4>2. s.owner = p
                BY <1>3, <1>6, <1>14, <4>1, OnlyOther
            <4> QED
                BY <1>4, <1>5, <4>1, <4>2 DEF CalmLead
        <3> QED
            BY <3>1, <3>2
    <2>2. ConnectsAgain(t, p, w)
        BY <1>3, <1>6, <1>10, <1>11, <1>13, <1>14, <1>15, ExitedConnects
    <2>3. Calm(w, alive, faults)
        BY <1>1, <1>2, <1>3, <1>5, <1>6, <1>9, <1>10, <1>15, <2>1, <2>2, CalmConnecting
    <2> QED
        BY <1>2, <1>8, <1>13, <2>3, CalmBecome
<1>16. CASE ~alive[s.owner]
    <2>1. CutOff(s, p)
        BY <1>2, <1>5 DEF CutOff
    <2>2. PICK j \in Links : s.link[j].of = None
        BY <1>2, <1>3, <1>4, <2>1, CalmRoom
    <2>3. t.link[j].of = None /\ t.link[l].closed
        BY <1>0, <1>3, <1>9, <2>2 DEF SocketShut
    <2>4. PICK n \in Links : TakesOver(t, p, n, w)
        BY <1>3, <1>5, <1>6, <1>10, <1>11, <1>13, <1>16, <2>3, ExitedPromotes
    <2>5. Calm(w, alive, faults)
        BY <1>1, <1>2, <1>3, <1>5, <1>6, <1>9, <1>10, <1>16, <2>4, CalmTakingOver
    <2> QED
        BY <1>2, <1>8, <1>13, <2>5, CalmBecome
<1> QED
    BY <1>15, <1>16

\* Before the first fault everything is as it was at the start.
LEMMA CalmStart ==
    ASSUME NEW s, NEW r, Good(s, r), NEW A, NEW f, f = 0, Calm(s, A, f)
    PROVE  /\ \A l \in Links : ~s.link[l].cut /\ ~s.link[l].closed
           /\ \A p \in Procs : A[p] => s.svc[p].failover = "idle" /\ s.svc[p].cur \in Links
           /\ \A c \in Calls : /\ s.call[c].reply # "transport" /\ s.call[c].pc # "resent"
                               /\ ~(s.call[c].pc \in {"before", "retry"} /\ s.call[c].reply = "up")
           /\ A[First] /\ s.svc[First].serving /\ s.owner = First
           /\ \A l \in Links : s.link[l].of # None => l <= Cardinality(Procs)
<1>1. \A l \in Links : ~s.link[l].cut /\ ~s.link[l].closed
    BY DEF Calm, CalmLink
<1>2. ASSUME NEW p \in Procs, A[p]
      PROVE  s.svc[p].failover = "idle" /\ s.svc[p].cur \in Links
    <2>1. s.svc[p].cur \in Links /\ CalmProc(s, A, f, p)
        BY <1>2, CalmLinked DEF Calm
    <2> QED
        BY <1>1, <2>1 DEF CalmProc
<1>3. ASSUME NEW c \in Calls
      PROVE  /\ s.call[c].reply # "transport" /\ s.call[c].pc # "resent"
             /\ ~(s.call[c].pc \in {"before", "retry"} /\ s.call[c].reply = "up")
    <2>1. CalmCall(s, A, f, c) /\ s.call[c].of \in Procs
        BY DEF Calm, Good, State, CallRec
    <2>2. s.call[c].pc # "resent" /\ ~(s.call[c].pc \in {"before", "retry"} /\ s.call[c].reply = "up")
        BY <2>1 DEF CalmCall
    <2>3. s.call[c].reply # "transport"
        BY <1>2, <2>1 DEF CalmCall
    <2> QED
        BY <2>2, <2>3
<1>4. /\ A[First] /\ s.svc[First].serving /\ s.owner = First
      /\ \A l \in Links : s.link[l].of # None => l <= Cardinality(Procs)
    BY DEF Calm, CalmLead
<1> QED
    BY <1>1, <1>2, <1>3, <1>4

\* The first fault: links are cut, and what is of a dead process is gone.
FirstFault(s, t, A, B) ==
    /\ t.svc = s.svc /\ t.owner = s.owner /\ t.wire \subseteq s.wire
    /\ \A p \in Procs : B[p] => A[p]
    /\ \A l \in Links :
          /\ t.link[l].of = s.link[l].of /\ t.link[l].peer = s.link[l].peer
          /\ t.link[l].kind = s.link[l].kind /\ t.link[l].closed = s.link[l].closed
          /\ t.link[l].errored = s.link[l].errored
          /\ t.link[l].terminated = s.link[l].terminated
          /\ t.link[l].cut => s.link[l].cut \/ s.link[l].kind = "socket"
          /\ t.pend[l] \in {s.pend[l], {}}
    /\ \A c \in Calls :
          \/ t.call[c] = s.call[c] /\ (B[s.call[c].of] \/ ~A[s.call[c].of])
          \/ /\ ~B[s.call[c].of] /\ t.call[c].of = s.call[c].of
             /\ t.call[c].pc = "done" /\ t.call[c].reply = "none"
             /\ Kind[c] = "read" => t.call[c].outcome \notin {"lost", "transport"}
             /\ \A l \in Links : s.link[l].of = s.call[c].of => t.pend[l] = {}
    /\ B[First] \/ Cardinality(Procs) = 2
    /\ \A p, q \in Procs : B[p] /\ B[q] /\ CutOff(t, p) /\ CutOff(t, q) => p = q

LEMMA CalmFault ==
    ASSUME NEW s, NEW r, Good(s, r), NEW A, NEW f, f = 0, Calm(s, A, f), NEW B,
           NEW t,
           FirstFault(s, t, A, B)
    PROVE  Calm(t, B, 1)
<1>0. s \in State
    BY DEF Good
<1>1. /\ \A l \in Links : ~s.link[l].cut /\ ~s.link[l].closed
      /\ \A p \in Procs : A[p] => s.svc[p].failover = "idle" /\ s.svc[p].cur \in Links
      /\ \A c \in Calls : /\ s.call[c].reply # "transport" /\ s.call[c].pc # "resent"
                          /\ ~(s.call[c].pc \in {"before", "retry"} /\ s.call[c].reply = "up")
      /\ A[First] /\ s.svc[First].serving /\ s.owner = First
      /\ \A l \in Links : s.link[l].of # None => l <= Cardinality(Procs)
    BY CalmStart
<1>2. ASSUME NEW l \in Links
      PROVE  CalmLink(t, B, 1, l)
    <2>1. CalmLink(s, A, f, l) /\ s.link[l].of \in Procs \cup {None}
        BY <1>0 DEF Calm, State, LinkRec
    <2>2. s.link[l].of = None => t.pend[l] = {}
        BY <2>1 DEF CalmLink, FirstFault
    <2> QED
        BY <1>1, <2>1, <2>2 DEF FirstFault, CalmLink
<1>3. ASSUME NEW p \in Procs, B[p]
      PROVE  CalmProc(t, B, 1, p)
    <2>1. CalmProc(s, A, f, p) /\ s.svc[p].failover = "idle" /\ s.svc[p].cur \in Links
        BY <1>1, <1>3 DEF Calm, FirstFault
    <2> QED
        BY <1>1, <1>3, <2>1 DEF FirstFault, CalmProc
<1>4. CalmLead(t, B, 1)
    BY <1>1 DEF FirstFault, CalmLead
<1>5. ASSUME NEW c \in Calls
      PROVE  CalmCall(t, B, 1, c)
    <2>1. CalmCall(s, A, f, c)
        BY DEF Calm
    <2>2. CASE t.call[c] = s.call[c] /\ (B[s.call[c].of] \/ ~A[s.call[c].of])
        BY <1>1, <2>1, <2>2 DEF CalmCall
    <2>3. CASE ~(t.call[c] = s.call[c] /\ (B[s.call[c].of] \/ ~A[s.call[c].of]))
        BY <2>3 DEF FirstFault, CalmCall
    <2> QED
        BY <2>2, <2>3
<1>6. CalmPending(t)
    <2>1. CalmPending(s)
        BY DEF Calm
    <2>2. ASSUME NEW l \in Links, NEW e \in t.pend[l]
          PROVE  e \in s.pend[l] /\ e.call \in Calls /\ t.pend[l] # {}
        <3>1. e \in s.pend[l] /\ t.pend[l] # {}
            BY <2>2 DEF FirstFault
        <3> QED
            BY <1>0, <3>1 DEF State, EntryRec
    <2>3. ASSUME NEW l \in Links, NEW e \in t.pend[l], e.via = Here
          PROVE  /\ t.call[e.call].of = t.link[l].of
                 /\ t.call[e.call].pc \in {"sent", "resent"} /\ t.call[e.call].reply = "none"
                 /\ \A k \in Links : \A x \in t.pend[k] :
                       x.via = Here /\ x.call = e.call => k = l /\ x = e
        <3>1. /\ s.call[e.call].of = s.link[l].of
              /\ s.call[e.call].pc \in {"sent", "resent"} /\ s.call[e.call].reply = "none"
            BY <2>1, <2>2, <2>3 DEF CalmPending
        <3>2. t.call[e.call] = s.call[e.call]
            BY <2>2, <3>1 DEF FirstFault
        <3>3. \A k \in Links : \A x \in t.pend[k] :
                 x.via = Here /\ x.call = e.call => k = l /\ x = e
            BY <2>1, <2>2, <2>3 DEF CalmPending
        <3> QED
            BY <3>1, <3>2, <3>3 DEF FirstFault
    <2>4. \A l \in Links : \A e \in t.pend[l] : e.via # Here => t.link[l].kind = "worker"
        BY <2>1, <2>2 DEF CalmPending, FirstFault
    <2> QED
        BY <2>3, <2>4 DEF CalmPending
<1>7. CalmWire(t)
    BY DEF Calm, CalmWire, FirstFault
<1> QED
    BY <1>2, <1>3, <1>4, <1>5, <1>6, <1>7 DEF Calm

LEMMA CalmCut ==
    ASSUME CallsInv, Calm(Now, alive, faults), NEW l \in Links, Cut(l)
    PROVE  Doomed(Now', alive', faults') \/ Calm(Now', alive', faults')
<1>0. PICK s, t : s = Now /\ t = Now'
    OBVIOUS
<1>1. /\ Good(s, ran) /\ s \in State /\ s.svc = svc /\ s.link = link /\ s.pend = pend
      /\ s.wire = wire /\ s.call = call /\ s.owner = owner /\ Calm(s, alive, faults)
    BY <1>0, NowGood
<1>2. /\ svc' = svc /\ pend' = pend /\ call' = call /\ owner' = owner /\ wire' \subseteq wire
      /\ link' = [link EXCEPT ![l] = [@ EXCEPT !.cut = TRUE]]
    BY CutMarks
<1>3. alive' = alive /\ faults' = faults + 1 /\ link[l].kind = "socket"
    BY DEF Cut, CanFail
<1>4. CASE faults = 1
    BY <1>3, <1>4 DEF Doomed
<1>5. CASE faults = 0
    <2>1. /\ t.svc = s.svc /\ t.pend = s.pend /\ t.call = s.call /\ t.owner = s.owner
          /\ t.wire \subseteq s.wire /\ t.link = [s.link EXCEPT ![l] = [@ EXCEPT !.cut = TRUE]]
        BY <1>0, <1>1, <1>2 DEF Now
    <2>2. s.link[l] \in LinkRec /\ \A j \in Links : j # l => t.link[j] = s.link[j]
        BY <1>1, <2>1 DEF State
    <2>3. t.link[l] = [s.link[l] EXCEPT !.cut = TRUE]
        BY <1>1, <2>1 DEF State
    <2>4. \A j \in Links :
             /\ t.link[j].of = s.link[j].of /\ t.link[j].peer = s.link[j].peer
             /\ t.link[j].kind = s.link[j].kind /\ t.link[j].closed = s.link[j].closed
             /\ t.link[j].errored = s.link[j].errored
             /\ t.link[j].terminated = s.link[j].terminated
             /\ t.link[j].cut => s.link[j].cut \/ s.link[j].kind = "socket"
        BY <1>1, <1>3, <2>2, <2>3 DEF LinkRec
    <2>5. /\ \A j \in Links : ~s.link[j].cut
          /\ \A p \in Procs : alive[p] => s.svc[p].cur \in Links
          /\ alive[First]
        BY <1>1, <1>5, CalmStart
    <2>6. ASSUME NEW p \in Procs, alive[p], CutOff(t, p)
          PROVE  p = s.link[l].of
        <3>1. s.svc[p].cur = l
            BY <2>1, <2>2, <2>5, <2>6 DEF CutOff
        <3> QED
            BY <1>1, <2>6, <3>1, CalmLinked
    <2>7. Calm(t, alive, 1)
        <3>1. FirstFault(s, t, alive, alive)
            <4>1. \A a, b \in Procs : alive[a] /\ alive[b] /\ CutOff(t, a) /\ CutOff(t, b) => a = b
                BY <2>6
            <4>2. \A c \in Calls : /\ t.call[c] = s.call[c]
                                   /\ alive[s.call[c].of] \/ ~alive[s.call[c].of]
                BY <2>1
            <4> QED
                BY <2>1, <2>4, <2>5, <4>1, <4>2 DEF FirstFault
        <3> QED
            BY <1>1, <1>5, <3>1, CalmFault
    <2> QED
        BY <1>0, <1>3, <1>5, <2>7
<1>6. faults \in {0, 1}
    BY DEF Calm, CalmLead
<1> QED
    BY <1>4, <1>5, <1>6

LEMMA CalmCrash ==
    ASSUME IsFiniteSet(Procs), CallsInv, Calm(Now, alive, faults), alive \in [Procs -> BOOLEAN],
           NEW p \in Procs, Crash(p)
    PROVE  Doomed(Now', alive', faults') \/ Calm(Now', alive', faults')
<1>0. PICK s, t : s = Now /\ t = Now'
    OBVIOUS
<1>1. /\ Good(s, ran) /\ s \in State /\ s.svc = svc /\ s.link = link /\ s.pend = pend
      /\ s.wire = wire /\ s.call = call /\ s.owner = owner /\ Calm(s, alive, faults)
    BY <1>0, NowGood
<1>2. /\ alive[p] /\ alive' = [alive EXCEPT ![p] = FALSE] /\ faults' = faults + 1
      /\ ~alive'[p] /\ \A q \in Procs : q # p => alive'[q] = alive[q]
    BY DEF Crash, CanFail
<1>3. CASE faults = 1
    BY <1>2, <1>3 DEF Doomed
<1>4. CASE p = First /\ Cardinality(Procs) # 2
    BY <1>2, <1>4 DEF Doomed
<1>5. CASE faults = 0 /\ (p # First \/ Cardinality(Procs) = 2)
    <2>1. /\ t.svc = s.svc /\ t.owner = s.owner /\ t.wire \subseteq s.wire
          /\ t.link = [l \in Links |-> IF s.link[l].peer = p /\ s.link[l].kind = "socket"
                                       THEN [s.link[l] EXCEPT !.cut = TRUE] ELSE s.link[l]]
          /\ t.pend = [l \in Links |-> IF s.link[l].of = p THEN {} ELSE s.pend[l]]
          /\ t.call = [c \in Calls |->
                IF s.call[c].of = p
                THEN [s.call[c] EXCEPT !.pc = "done", !.reply = "none",
                                       !.outcome = IF @ = "none" THEN "gone" ELSE @]
                ELSE s.call[c]]
        BY <1>0, <1>1, Crashed DEF Now
    <2>2. ASSUME NEW j \in Links
          PROVE  /\ t.link[j].of = s.link[j].of /\ t.link[j].peer = s.link[j].peer
                 /\ t.link[j].kind = s.link[j].kind /\ t.link[j].closed = s.link[j].closed
                 /\ t.link[j].errored = s.link[j].errored
                 /\ t.link[j].terminated = s.link[j].terminated
                 /\ t.link[j].cut => \/ s.link[j].cut
                                     \/ s.link[j].peer = p /\ s.link[j].kind = "socket"
        <3>1. s.link[j] \in LinkRec
            BY <1>1 DEF State
        <3>2. CASE s.link[j].peer = p /\ s.link[j].kind = "socket"
            <4>1. t.link[j] = [s.link[j] EXCEPT !.cut = TRUE]
                BY <2>1, <3>2
            <4> QED
                BY <3>1, <3>2, <4>1 DEF LinkRec
        <3>3. CASE ~(s.link[j].peer = p /\ s.link[j].kind = "socket")
            <4>1. t.link[j] = s.link[j]
                BY <2>1, <3>3
            <4> QED
                BY <4>1
        <3> QED
            BY <3>2, <3>3
    <2>3. \A l \in Links : t.pend[l] \in {s.pend[l], {}}
        BY <2>1
    <2>4. ASSUME NEW c \in Calls
          PROVE  \/ t.call[c] = s.call[c] /\ (alive'[s.call[c].of] \/ ~alive[s.call[c].of])
                 \/ /\ ~alive'[s.call[c].of] /\ t.call[c].of = s.call[c].of
                    /\ t.call[c].pc = "done" /\ t.call[c].reply = "none"
                    /\ Kind[c] = "read" => t.call[c].outcome \notin {"lost", "transport"}
                    /\ \A l \in Links : s.link[l].of = s.call[c].of => t.pend[l] = {}
        <3>1. s.call[c] \in CallRec /\ s.call[c].of \in Procs /\ CalmCall(s, alive, faults, c)
            BY <1>1 DEF State, CallRec, Calm
        <3>2. CASE s.call[c].of = p
            <4>1. /\ t.call[c].of = s.call[c].of /\ t.call[c].pc = "done"
                  /\ t.call[c].reply = "none"
                  /\ t.call[c].outcome \in {s.call[c].outcome, "gone"}
                BY <2>1, <3>1, <3>2 DEF CallRec
            <4>2. Kind[c] = "read" => t.call[c].outcome \notin {"lost", "transport"}
                BY <3>1, <4>1 DEF CalmCall
            <4>3. \A l \in Links : s.link[l].of = p => t.pend[l] = {}
                BY <2>1
            <4> QED
                BY <1>2, <3>2, <4>1, <4>2, <4>3
        <3>3. CASE s.call[c].of # p
            BY <1>2, <2>1, <3>1, <3>3
        <3> QED
            BY <3>2, <3>3
    <2>5. /\ \A j \in Links : ~s.link[j].cut
          /\ \A q \in Procs : alive[q] => s.svc[q].cur \in Links
          /\ alive[First] /\ First \in Procs
        BY <1>1, <1>5, CalmStart, CallAssumption
    <2>6. alive'[First] \/ Cardinality(Procs) = 2
        BY <1>2, <1>5, <2>5
    <2>7. ASSUME NEW q \in Procs, alive'[q], CutOff(t, q)
          PROVE  p = First /\ q # First
        <3>1. alive[q] /\ q # p
            BY <1>2, <2>7
        <3>2. PICK j \in Links : j = s.svc[q].cur /\ s.link[j].of = q /\ q # None
            BY SMTT(30), <1>1, <2>5, <3>1, CalmLinked, CallAssumption
        <3>3. t.link[j].cut
            BY <2>1, <2>7, <3>2 DEF CutOff
        <3>4. s.link[j].peer = p /\ s.link[j].kind = "socket"
            BY <2>2, <2>5, <3>3
        <3>5. s.link[j].peer = First
            BY <1>1, <3>2, <3>4 DEF Calm, CalmLink
        <3> QED
            BY <3>1, <3>4, <3>5
    <2>8. \A a, b \in Procs : alive'[a] /\ alive'[b] /\ CutOff(t, a) /\ CutOff(t, b) => a = b
        BY <1>5, <2>7, OnlyOther
    <2>9. \A q \in Procs : alive'[q] => alive[q]
        BY <1>2
    <2>10. Calm(t, alive', 1)
        <3>1. FirstFault(s, t, alive, alive')
            <4>1. t.svc = s.svc /\ t.owner = s.owner /\ t.wire \subseteq s.wire
                BY <2>1
            <4> QED
                BY <2>2, <2>3, <2>4, <2>6, <2>8, <2>9, <4>1 DEF FirstFault
        <3> QED
            BY <1>1, <1>5, <3>1, CalmFault
    <2> QED
        BY <1>0, <1>2, <1>5, <2>10
<1>6. faults \in {0, 1}
    BY DEF Calm, CalmLead
<1> QED
    BY <1>3, <1>4, <1>5, <1>6

-----------------------------------------------------------------------------
(* The run                                                                 *)

LEMMA CalmInit ==
    ASSUME CallsInit
    PROVE  ReadsInv
<1>1. PICK p \in {First}, num \in [Procs -> Links], ro \in [Procs -> BOOLEAN] :
        /\ num[p] = 1 /\ \A q, r \in Procs : num[q] = num[r] => q = r
        /\ \A q \in Procs : num[q] <= Cardinality(Procs)
        /\ owner = p
        /\ svc = [q \in Procs |-> IF q = p THEN Leading ELSE Following(num[q], ro[q])]
        /\ ro[p] = FALSE
        /\ link = [l \in Links |->
                IF \E q \in Procs : num[q] = l
                THEN LET q == CHOOSE q \in Procs : num[q] = l
                     IN  Opened(q, p, IF q = p THEN "worker" ELSE "socket")
                ELSE UnusedLink]
        /\ pend = [l \in Links |-> {}]
        /\ wire = {}
        /\ \E of \in [Calls -> Procs] :
              call = [c \in Calls |->
                  [of |-> of[c], pc |-> "idle", reply |-> "none", got |-> None,
                   sends |-> 0, outcome |-> "none"]]
        /\ alive = [q \in Procs |-> TRUE]
        /\ ran = [c \in Calls |-> 0]
        /\ faults = 0
    BY Zenon DEF CallsInit
<1>2. PICK s : s = Now
    OBVIOUS
<1>3. /\ s.svc = svc /\ s.link = link /\ s.pend = pend /\ s.wire = wire /\ s.call = call
      /\ s.owner = owner
    BY <1>2 DEF Now
<1>4. First \in Procs /\ None \notin Procs /\ p = First
    BY <1>1, CallAssumption
<1>5. ASSUME NEW q \in Procs
      PROVE  /\ svc[q].cur = num[q] /\ svc[q].provider /\ svc[q].failover = "idle"
             /\ q # First => svc[q].mode = "follower"
             /\ q = First => svc[q].serving
    <2>1. svc[q] = IF q = p THEN Leading ELSE Following(num[q], ro[q])
        BY <1>1
    <2> QED
        BY <1>1, <1>4, <2>1 DEF Leading, Following
<1>6. ASSUME NEW l \in Links
      PROVE  /\ ~link[l].errored /\ link[l].terminated = link[l].closed
             /\ ~link[l].closed /\ ~link[l].cut
             /\ link[l].of # None => /\ link[l].of \in Procs /\ num[link[l].of] = l
                                     /\ link[l].peer = First
                                     /\ link[l].kind = "socket" => link[l].of # First
    <2>1. CASE ~\E q \in Procs : num[q] = l
        <3>1. link[l] = UnusedLink
            BY <1>1, <2>1
        <3> QED
            BY <3>1 DEF UnusedLink
    <2>2. CASE \E q \in Procs : num[q] = l
        <3>1. PICK q \in Procs : /\ num[q] = l
                                 /\ link[l] = Opened(q, p, IF q = p THEN "worker" ELSE "socket")
            BY <1>1, <2>2
        <3> QED
            BY <1>4, <3>1 DEF Opened, UnusedLink
    <2> QED
        BY <2>1, <2>2
<1>7. \A l \in Links : CalmLink(s, alive, faults, l)
    <2>1. ASSUME NEW l \in Links
          PROVE  CalmLink(s, alive, faults, l)
        <3>1. link[l].of # None => svc[link[l].of].cur = l
            BY <1>5, <1>6
        <3>2. pend[l] = {}
            BY <1>1
        <3> QED
            BY <1>3, <1>6, <3>1, <3>2 DEF CalmLink
    <2> QED
        BY <2>1
<1>8. ASSUME NEW q \in Procs
      PROVE  /\ num[q] \in Links /\ num[q] # 0 /\ link[num[q]].of = q
             /\ ~link[num[q]].cut /\ ~link[num[q]].closed
    <2>1. num[q] \in Links /\ num[q] # 0
        BY <1>1, CallAssumption DEF Links
    <2>2. PICK o \in Procs : /\ num[o] = num[q]
                             /\ link[num[q]] = Opened(o, p, IF o = p THEN "worker" ELSE "socket")
        BY <1>1, <2>1
    <2>3. o = q
        BY <1>1, <2>2
    <2> QED
        BY <1>6, <2>1, <2>2, <2>3 DEF Opened, UnusedLink
<1>9. \A q \in Procs : CalmProc(s, alive, faults, q)
    <2>1. ASSUME NEW q \in Procs
          PROVE  CalmProc(s, alive, faults, q)
        <3>1. link[num[q]].kind = "socket" => q # First
            BY <1>4, <1>6, <1>8
        <3> QED
            BY <1>3, <1>5, <1>8, <3>1 DEF CalmProc
    <2> QED
        BY <2>1
<1>10. CalmLead(s, alive, faults)
    <2>1. ASSUME NEW q \in Procs
          PROVE  ~CutOff(s, q)
        BY <1>3, <1>5, <1>8 DEF CutOff
    <2>2. ASSUME NEW l \in Links, link[l].of # None
          PROVE  l <= Cardinality(Procs)
        <3>1. PICK q \in Procs : num[q] = l
            BY <1>6, <2>2
        <3> QED
            BY <1>1, <3>1
    <2>3. alive[First] /\ faults = 0 /\ owner = First
        BY <1>1, <1>4
    <2> QED
        BY <1>3, <1>4, <1>5, <2>1, <2>2, <2>3 DEF CalmLead
<1>11. \A c \in Calls : CalmCall(s, alive, faults, c)
    <2>1. ASSUME NEW c \in Calls
          PROVE  /\ call[c].pc = "idle" /\ call[c].reply = "none" /\ call[c].outcome = "none"
                 /\ call[c].of \in Procs
        BY <1>1
    <2>2. \A q \in Procs : alive[q]
        BY <1>1
    <2> QED
        BY <1>3, <2>1, <2>2 DEF CalmCall
<1>12. CalmPending(s) /\ CalmWire(s)
    BY <1>1, <1>3 DEF CalmPending, CalmWire
<1>13. Calm(s, alive, faults)
    BY <1>7, <1>9, <1>10, <1>11, <1>12 DEF Calm
<1> QED
    BY <1>1, <1>2, <1>13 DEF ReadsInv

LEMMA CalmStep ==
    ASSUME IsFiniteSet(Procs), MaxLinks > Cardinality(Procs),
           CallsInv, ReadsInv, [CallsNext]_callVars
    PROVE  ReadsInv'
<1>1. faults \in Nat /\ alive \in [Procs -> BOOLEAN]
    BY DEF ReadsInv
<1>2. faults' \in Nat /\ alive' \in [Procs -> BOOLEAN]
    <2>1. CASE UNCHANGED <<alive, faults>>
        BY <1>1, <2>1
    <2>2. CASE Fault
        <3>1. ASSUME NEW p \in Procs, Crash(p)
              PROVE  faults' = faults + 1 /\ alive' = [alive EXCEPT ![p] = FALSE]
            BY <3>1 DEF Crash, CanFail
        <3>2. ASSUME NEW p \in Procs, Close(p)
              PROVE  faults' = faults + 1 /\ alive' = alive
            BY <3>2 DEF Close, CanFail
        <3>3. ASSUME NEW l \in Links, Cut(l) \/ LinkError(l)
              PROVE  faults' = faults + 1 /\ alive' = alive
            BY <3>3 DEF Cut, LinkError, CanFail
        <3>4. faults' = faults + 1
            BY <2>2, <3>1, <3>2, <3>3 DEF Fault
        <3>5. \/ alive' = alive
              \/ \E p \in Procs : alive' = [alive EXCEPT ![p] = FALSE]
            BY <2>2, <3>1, <3>2, <3>3 DEF Fault
        <3>6. faults' \in Nat
            BY <1>1, <3>4
        <3>7. alive' \in [Procs -> BOOLEAN]
            <4>1. CASE alive' = alive
                BY <1>1, <4>1
            <4>2. ASSUME NEW p \in Procs, alive' = [alive EXCEPT ![p] = FALSE]
                  PROVE  alive' \in [Procs -> BOOLEAN]
                BY <1>1, <4>2
            <4> QED
                BY <3>5, <4>1, <4>2
        <3> QED
            BY <3>6, <3>7
    <2>3. CASE UNCHANGED callVars
        BY <2>1, <2>3 DEF callVars
    <2>4. CASE CallsNext /\ ~Fault
        <3>1. ASSUME NEW c \in Calls, Caller(c) PROVE UNCHANGED <<alive, faults>>
            BY <3>1 DEF Caller, Invoke, LocalRead, Resume, Returns
        <3>2. ASSUME NEW m, Deliver(m) PROVE UNCHANGED <<alive, faults>>
            BY <3>2 DEF Deliver, Work, Relay, Arrive
        <3>3. ASSUME NEW l, LinkClosed(l) PROVE UNCHANGED <<alive, faults>>
            BY <3>3 DEF LinkClosed
        <3>4. ASSUME NEW l, NEW e, Timeout(l, e) PROVE UNCHANGED <<alive, faults>>
            BY <3>4 DEF Timeout
        <3>5. ASSUME NEW p \in Procs, Recover(p) PROVE UNCHANGED <<alive, faults>>
            BY <3>5 DEF Recover, ServerUp, Connected, ConnectFails, NextAttempt
        <3> QED
            BY <2>1, <2>4, <3>1, <3>2, <3>3, <3>4, <3>5 DEF CallsNext
    <2> QED
        BY <2>2, <2>3, <2>4
<1>3. CASE Doomed(Now, alive, faults)
    <2>1. Doomed(Now', alive', faults')
        BY <1>1, <1>3, DoomedStays
    <2> QED
        BY <1>2, <2>1 DEF ReadsInv
<1>4. CASE Calm(Now, alive, faults)
    <2>1. ASSUME NEW c \in Calls, Caller(c)
          PROVE  Doomed(Now', alive', faults') \/ Calm(Now', alive', faults')
        <3>1. alive' = alive /\ faults' = faults
            BY <2>1 DEF Caller, Invoke, LocalRead, Resume, Returns
        <3> QED
            BY <1>4, <2>1, <3>1, CalmCaller
    <2>2. ASSUME NEW m \in wire, Deliver(m)
          PROVE  Calm(Now', alive', faults')
        <3>1. alive' = alive /\ faults' = faults
            BY <2>2 DEF Deliver, Work, Relay, Arrive
        <3> QED
            BY <1>4, <2>2, <3>1, CalmDeliver
    <2>3. ASSUME NEW l \in Links, LinkClosed(l)
          PROVE  Calm(Now', alive', faults')
        <3>1. alive' = alive /\ faults' = faults
            BY <2>3 DEF LinkClosed
        <3> QED
            BY <1>4, <2>3, <3>1, CalmLinkClosed
    <2>4. ASSUME NEW l \in Links, NEW e \in pend[l], Timeout(l, e)
          PROVE  Calm(Now', alive', faults')
        <3>1. alive' = alive /\ faults' = faults
            BY <2>4 DEF Timeout
        <3> QED
            BY <1>4, <2>4, <3>1, CalmTimeout
    <2>5. ASSUME NEW p \in Procs, Recover(p)
          PROVE  Calm(Now', alive', faults')
        <3>1. ServerUp(p) \/ Connected(p)
            BY <1>4, <2>5, CalmConnects DEF Recover
        <3>2. alive' = alive /\ faults' = faults
            BY <3>1 DEF ServerUp, Connected
        <3> QED
            BY <1>4, <3>1, <3>2, CalmServerUp, CalmConnected
    <2>6. ASSUME NEW p \in Procs, Crash(p)
          PROVE  Doomed(Now', alive', faults') \/ Calm(Now', alive', faults')
        BY <1>1, <1>4, <2>6, CalmCrash
    <2>7. ASSUME NEW l \in Links, Cut(l)
          PROVE  Doomed(Now', alive', faults') \/ Calm(Now', alive', faults')
        BY <1>4, <2>7, CalmCut
    <2>8. ASSUME NEW p \in Procs, Close(p)
          PROVE  Doomed(Now', alive', faults')
        BY <2>8, CloseDooms DEF Doomed, Now
    <2>9. ASSUME NEW l \in Links, LinkError(l)
          PROVE  Doomed(Now', alive', faults')
        BY <2>9, LinkErrorDooms DEF Doomed, Now
    <2>10. CASE UNCHANGED callVars
        <3>1. Now' = Now /\ alive' = alive /\ faults' = faults
            BY <2>10 DEF callVars, Now
        <3>2. Calm(Now', alive', faults')
            BY <1>4, <3>1
        <3> QED
            BY <1>2, <3>2 DEF ReadsInv
    <2>11. CASE CallsNext
        <3>1. Doomed(Now', alive', faults') \/ Calm(Now', alive', faults')
            BY <2>1, <2>2, <2>3, <2>4, <2>5, <2>6, <2>7, <2>8, <2>9, <2>11 DEF CallsNext, Fault
        <3> QED
            BY <1>2, <3>1 DEF ReadsInv
    <2> QED
        BY <2>10, <2>11
<1> QED
    BY <1>3, <1>4 DEF ReadsInv

LEMMA CalmReads ==
    ASSUME ReadsInv
    PROVE  ReadsSurvive
<1>0. /\ Now.call = call /\ Now.link = link /\ Now.svc = svc
      /\ faults \in Nat
    BY DEF ReadsInv, Now
<1>1. CASE Calm(Now, alive, faults)
    <2>1. \A c \in Calls : CalmCall(Now, alive, faults, c)
        BY <1>1 DEF Calm
    <2>2. \A c \in Calls : Kind[c] = "read" => call[c].outcome \notin {"lost", "transport"}
        BY <1>0, <2>1 DEF CalmCall
    <2> QED
        BY <2>2 DEF ReadsSurvive
<1>2. CASE Doomed(Now, alive, faults)
    <2>1. \A c \in Calls : FlushFailed(Now, c) => Kind[c] = "flush" /\ call[c].outcome \notin {"none", "ok"}
        BY <1>0 DEF FlushFailed
    <2> QED
        BY <1>0, <1>2, <2>1 DEF Doomed, ReadsSurvive
<1> QED
    BY <1>1, <1>2 DEF ReadsInv

\* A read of a process that lives outlasts one crash, or one lost connection,
\* and never ends with a transport error (client.ts, invoke; service.ts,
\* runFailover).  The bound on links leaves room for one more than the
\* processes open at the start, which is all that one fault needs.
THEOREM ReadsSurviveOneFault ==
    ASSUME IsFiniteSet(Procs), MaxLinks > Cardinality(Procs)
    PROVE  CallsSpec => []ReadsSurvive
<1>1. CallsInit => ReadsInv
    BY CalmInit
<1>2. CallsInv /\ ReadsInv /\ [CallsNext]_callVars => ReadsInv'
    BY CalmStep
<1>3. CallsSpec => []ReadsInv
    BY <1>1, <1>2, CallsInvariant, PTL DEF CallsSpec
<1>4. ReadsInv => ReadsSurvive
    BY CalmReads
<1> QED
    BY <1>3, <1>4, PTL

=============================================================================
