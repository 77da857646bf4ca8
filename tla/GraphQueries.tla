---------------------------- MODULE GraphQueries ----------------------------
(* The queries that walk the index (graph/repo-map.ts): cycles among files,  *)
(* execution flows, blast radius and call cycles; the communities and        *)
(* bridges of graph/communities.ts.  Each is the loop of the code, run on    *)
(* tables that grow a row at a time, and is compared with a definition of    *)
(* what it promises.  A row is a number, and rows come in the order of their *)
(* numbers.                                                                  *)
EXTENDS CallWalks

ASSUME QueriesAssumption ==
    Files \subseteq Nat /\ Symbols \subseteq Nat

queryVars == <<edges, calls>>

Rows(S) == SetToSortSeq(S, <)
Smaller(a, b) == IF a < b THEN a ELSE b

\* Who is reached from a row.
Reach(next, n) ==
    LET far == Cardinality(DOMAIN next) IN Spread(next, next[n], far)[far]

-----------------------------------------------------------------------------
(* Tarjan's components with an explicit stack of frames.                     *)

NoVisit == [index |-> [n \in Files |-> 0], low |-> [n \in Files |-> 0], next |-> 1,
            stack |-> <<>>, frames |-> <<>>, sccs |-> {}]

Entered(t, n) ==
    [t EXCEPT !.index[n] = t.next, !.low[n] = t.next, !.next = @ + 1,
              !.stack = Append(@, n),
              !.frames = Append(@, [node |-> n, left |-> Rows(Outof(n) \ {n})])]

Lowered(t, n, m) == [t EXCEPT !.low[n] = Smaller(@, t.low[m])]

\* A neighbour of an earlier component lowers the node, too.
LookedAnywhere(t, n, w) ==
    IF t.index[w] = 0 THEN Entered(t, w) ELSE Lowered(t, n, w)

\* The next neighbour of the frame on top.
Looked(t, n, w) ==
    IF t.index[w] = 0 THEN Entered(t, w)
    ELSE IF Contains(t.stack, w) THEN Lowered(t, n, w) ELSE t

\* The frame on top has no neighbours left: the root of a component pops it.
Left(t, n) ==
    LET at == CHOOSE i \in DOMAIN t.stack : t.stack[i] = n
        root == t.low[n] = t.index[n]
        popped == [t EXCEPT !.frames = Front(@),
                            !.stack = IF root THEN SubSeq(@, 1, at - 1) ELSE @,
                            !.sccs = IF root
                                     THEN @ \cup {Range(SubSeq(t.stack, at, Len(t.stack)))}
                                     ELSE @]
    IN IF popped.frames = <<>> THEN popped ELSE Lowered(popped, Last(popped.frames).node, n)

RECURSIVE Visited(_)
Visited(t) ==
    IF t.frames = <<>> THEN t
    ELSE LET f == Last(t.frames)
         IN Visited(IF f.left = <<>> THEN Left(t, f.node)
                    ELSE Looked([t EXCEPT !.frames[Len(t.frames)].left = Tail(@)],
                                f.node, Head(f.left)))

Components ==
    FoldLeft(LAMBDA t, n : IF t.index[n] # 0 THEN t ELSE Visited(Entered(t, n)),
             NoVisit, Rows(Files)).sccs

CircularDependencies ==
    {c \in Components : Cardinality(c) > 1 \/ \E n \in c : c = {n} /\ <<n, n>> \in edges}

-----------------------------------------------------------------------------
\* A row is marked when it leaves the queue, so it may wait in it twice.
RECURSIVE Radius(_, _)
Radius(visited, queue) ==
    IF queue = <<>> THEN Cardinality(visited) - 1
    ELSE LET n == Head(queue)
         IN IF n \in visited THEN Radius(visited, Tail(queue))
            ELSE Radius(visited \cup {n}, Tail(queue) \o Rows(Outof(n) \ (visited \cup {n})))

FileBlastRadius(n) == Radius({}, <<n>>)

-----------------------------------------------------------------------------
(* Flows, blast radius and cycles of the call graph.                         *)

ExecutionFlow(root, limit) ==
    LET seen == WalkFrom([s \in Symbols |-> Callees(s)], {root}, limit)
    IN [steps |-> {[of |-> s, depth |-> seen[s]] : s \in {s \in Symbols : seen[s] > 0}},
        truncated |-> \E s \in Symbols : seen[s] = limit]

SymbolBlastRadius(name, limit) ==
    LET root == Head(Rows({s \in Symbols : NameOf[s] = name}))
        seen == WalkFrom([s \in Symbols |-> CallersByName(s)], {root}, limit)
    IN [root |-> root,
        affected |-> {[of |-> s, depth |-> seen[s]] : s \in {s \in Symbols : seen[s] > 0}}]

\* The edges of the search for cycles: every function of the name and the file.
Adjacent(s) ==
    {t \in Symbols : \E c \in calls : c.caller = s /\ c.name = NameOf[t] /\ c.file = FileOf[t]}

\* The cycle that a function met again on the path to it closes.
Closed(path, id) ==
    Append(SubSeq(path, SelectInSeq(path, LAMBDA s : s = id), Len(path)), id)

\* Depth first from one caller.
RECURSIVE Searched(_, _)
Searched(t, stack) ==
    IF stack = <<>> THEN t
    ELSE LET top == Last(stack)
         IN IF top.id \in t.seen
            THEN Searched(IF Contains(top.path, top.id)
                          THEN [t EXCEPT !.cycles = Append(@, Closed(top.path, top.id))]
                          ELSE t, Front(stack))
            ELSE Searched([t EXCEPT !.seen = @ \cup {top.id}],
                          Front(stack) \o [i \in 1 .. Cardinality(Adjacent(top.id)) |->
                              [id |-> Rows(Adjacent(top.id))[i],
                               path |-> Append(top.path, top.id)]])

\* A caller that an earlier search has met ends the whole search.  (The limit on
\* the number of cycles is left out: MaxCalls rows do not reach it.)
CallGraphCycles ==
    FoldLeft(LAMBDA t, s :
                 IF t.over \/ s \in t.visited THEN [t EXCEPT !.over = TRUE]
                 ELSE LET found == Searched([seen |-> {}, cycles |-> t.cycles],
                                            <<[id |-> s, path |-> <<>>]>>)
                      IN [t EXCEPT !.visited = @ \cup found.seen, !.cycles = found.cycles],
             [visited |-> {}, cycles |-> <<>>, over |-> FALSE],
             Rows({s \in Symbols : Adjacent(s) # {}})).cycles

-----------------------------------------------------------------------------
(* Communities: labels spread along the edges until no file wants another.   *)

Linked(n) == (Into(n) \cup Outof(n)) \ {n}
Weight(n, m) == Cardinality({<<n, m>>, <<m, n>>} \cap edges)
LinkedFiles == {n \in Files : Linked(n) # {}}

Score(labels, n, l) ==
    FoldLeft(LAMBDA sum, m : IF labels[m] = l THEN sum + Weight(n, m) ELSE sum,
             0, Rows(Linked(n)))
\* The smallest of the labels with the highest score around the file.
BestLabel(labels, n) ==
    LET around == {labels[m] : m \in Linked(n)}
        best == {l \in around : \A k \in around : Score(labels, n, l) >= Score(labels, n, k)}
    IN Head(Rows(best))

\* All files look at the labels of the last round.
SweepAtOnce(labels) == [n \in DOMAIN labels |-> BestLabel(labels, n)]
\* A file sees the labels the files before it have taken in this round.
Sweep(labels) ==
    FoldLeft(LAMBDA l, n : [l EXCEPT ![n] = BestLabel(l, n)], labels, Rows(DOMAIN labels))

RECURSIVE Propagated(_, _)
Propagated(labels, rounds) ==
    IF rounds = 0 \/ Sweep(labels) = labels THEN labels
    ELSE Propagated(Sweep(labels), rounds - 1)

Communities == Propagated([n \in LinkedFiles |-> n], 30)

(* Bridges: a depth-first search that knows the lowest row it came back to.  *)

NoSearch == [disc |-> [n \in Files |-> Unseen], low |-> [n \in Files |-> Unseen],
             timer |-> 0, frames |-> <<>>, bridges |-> {}]

Discovered(t, n, from) ==
    [t EXCEPT !.disc[n] = t.timer, !.low[n] = t.timer, !.timer = @ + 1,
              !.frames = Append(@, [node |-> n, from |-> from, left |-> Rows(Linked(n))])]

IsBridgeOrCycle(t, above, below) == t.low[above] >= t.disc[below]
IsBridge(t, above, below) == t.low[above] > t.disc[below]

Back(t, above) ==
    IF t.frames = <<>> THEN t
    ELSE LET below == Last(t.frames).node
         IN [t EXCEPT !.low[below] = Smaller(@, t.low[above]),
                      !.bridges = IF IsBridge(t, above, below)
                                  THEN @ \cup {{above, below}} ELSE @]

RECURSIVE Bridged(_)
Bridged(t) ==
    IF t.frames = <<>> THEN t
    ELSE LET top == Last(t.frames)
             v == Head(top.left)
             next == [t EXCEPT !.frames[Len(t.frames)].left = Tail(@)]
         IN Bridged(IF top.left = <<>> THEN Back([t EXCEPT !.frames = Front(@)], top.node)
                    ELSE IF t.disc[v] = Unseen THEN Discovered(next, v, top.node)
                    ELSE IF v = top.from THEN next
                    ELSE [next EXCEPT !.low[top.node] = Smaller(@, t.disc[v])])

Bridges ==
    FoldLeft(LAMBDA t, n : IF t.disc[n] # Unseen THEN t ELSE Bridged(Discovered(t, n, None)),
             NoSearch, Rows(LinkedFiles)).bridges

-----------------------------------------------------------------------------
(* The tables grow and change.                                               *)

QueriesInit == WalksInit /\ CallsInit

QueriesNext ==
    \/ EdgeAdded /\ UNCHANGED calls
    \/ CallsNext /\ UNCHANGED edges

QueriesSpec == QueriesInit /\ [][QueriesNext]_queryVars

-----------------------------------------------------------------------------
(* Properties                                                                *)

\* getCircularDependencies reports exactly the sets of files that depend on each
\* other: the explicit stacks of the iterative search do not merge or split any.
\* Every cycle getCallGraphCycles reports is one, and a cycle that the first
\* caller leads to is not missed.
CyclesAreComponents ==
    /\ edges # {} =>
       LET reach == [n \in Files |-> Reach([m \in Files |-> Outof(m)], n)]
       IN CircularDependencies =
              {{m \in Files : m = n \/ (m \in reach[n] /\ n \in reach[m])} :
                   n \in {n \in Files : n \in reach[n]}}
    /\ calls # {} =>
       LET starts == {s \in Symbols : Adjacent(s) # {}}
           first == Head(Rows(starts))
           next == [s \in Symbols |-> Adjacent(s)]
           cycles == CallGraphCycles
       IN /\ \A c \in ToSet(cycles) :
                 /\ Len(c) >= 2 /\ c[1] = Last(c)
                 /\ \A j \in 1 .. Len(c) - 1 : c[j + 1] \in next[c[j]]
          /\ starts # {} => ((\E s \in Reach(next, first) \cup {first} : s \in Reach(next, s))
                                => cycles # <<>>)

\* A pair is listed as a bridge exactly when its ends are linked by nothing else.
BridgesDisconnect ==
    edges # {} =>
    LET without(a, b) == [n \in Files |-> IF n = a THEN Linked(n) \ {b}
                                          ELSE IF n = b THEN Linked(n) \ {a} ELSE Linked(n)]
    IN Bridges = {{p[1], p[2]} : p \in {p \in Files \X Files :
                      p[2] \in Linked(p[1]) /\ p[2] \notin Reach(without(p[1], p[2]), p[1])}}

\* Label propagation settles: within its rounds it reaches labels no file would
\* change ("asynchronous LP converges reliably"), and a community is connected
\* in the sense that its files reach each other over edges.
CommunitiesSettle ==
    edges # {} =>
    LET labels == Communities
        linked == [n \in Files |-> Linked(n)]
    IN /\ Sweep(labels) = labels
       /\ \A n \in LinkedFiles :
              {m \in LinkedFiles : labels[m] = labels[n]} \subseteq Reach(linked, n) \cup {n}

Emitted(t) == ToSet(t.nodes)
Unambiguous ==
    \A c \in calls : /\ c.callee # None
                     /\ \A s \in Symbols : NameOf[s] = c.name /\ FileOf[s] = c.file => s = c.callee

\* The walks over the call graph agree: a traversal outward finds what a flow
\* finds; callers and callees are each other's inverse when every call is
\* resolved to the only function of its name; and nobody who calls a function
\* is missing from the blast radius of its name.
TraversalsAgree ==
    calls # {} =>
    \A s \in Symbols, d \in 1 .. MaxDepth :
        LET out == Traverse(s, "out", Unbounded(d))
            in == Traverse(s, "in", Unbounded(d))
            blast == SymbolBlastRadius(NameOf[s], d)
        IN /\ Emitted(out) = ExecutionFlow(s, d).steps
           /\ Unambiguous => \A n \in Symbols \ {s}, k \in 1 .. d :
                  [of |-> n, depth |-> k] \in Emitted(in)
                      <=> [of |-> s, depth |-> k] \in Emitted(Traverse(n, "out", Unbounded(d)))
           /\ {x.of : x \in Emitted(in)} \subseteq {x.of : x \in blast.affected} \cup {blast.root}
=============================================================================
