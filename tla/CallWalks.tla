----------------------------- MODULE CallWalks ------------------------------
(***************************************************************************)
(* The traversal of the call graph under budgets (traverse of              *)
(* src/src/graph/repo-map.ts).  A row of calls keeps the name it calls,    *)
(* the file the name was imported from and the function found there; file  *)
(* and function are cleared when the file is indexed anew, until the call  *)
(* graph is rebuilt.  A name stands for its length, too.  The rows that a  *)
(* statement returns come in some order.                                   *)
(***************************************************************************)
EXTENDS GraphWalks, Functions

CONSTANTS Symbols,    \* the functions of the index
          NameOf, FileOf,  \* of a function
          MaxCalls,   \* rows of the table (bounds the model)
          None

ASSUME CallsAssumption ==
  /\ IsFiniteSet(Symbols) /\ None \notin {"maxTokens", "maxNodes"}
  /\ NameOf \in [Symbols -> Nat] /\ FileOf \in [Symbols -> Files]
  /\ MaxCalls \in Nat

VARIABLE calls   \* table calls

-----------------------------------------------------------------------------
Callees(s) == {c.callee : c \in {c \in calls : c.caller = s /\ c.callee # None}}
CallersByName(s) == {c.caller : c \in {c \in calls : c.name = NameOf[s]}}
CallersOf(s) ==
  {c.caller : c \in {c \in calls : c.name = NameOf[s] /\ c.file \in {None, FileOf[s]}}}

\* The function of a file with a name, if there is one.
Resolved(name, file) ==
  LET found == {s \in Symbols : NameOf[s] = name /\ FileOf[s] = file}
  IN  IF found = {} THEN None ELSE CHOOSE s \in found : TRUE

-----------------------------------------------------------------------------
Traversal(root) == [queue |-> <<[of |-> root, depth |-> 0]>>, visited |-> {root},
                    nodes |-> <<>>, tokens |-> 0, stop |-> None]

Stopped(t, n, why) == [t EXCEPT !.visited = @ \cup {n}, !.stop = why]

Emit(t, depth, n, b) ==
  [t EXCEPT !.visited = @ \cup {n}, !.tokens = @ + NameOf[n],
            !.nodes = Append(@, [of |-> n, depth |-> depth + 1]),
            !.queue = IF depth + 1 < b.depth
                      THEN Append(@, [of |-> n, depth |-> depth + 1]) ELSE @]

\* Mistake: a neighbour above the budget is left out without a word.
MetSilently(t, depth, n, b) ==
  IF n \in t.visited \/ t.stop # None THEN t
  ELSE IF t.tokens + NameOf[n] > b.tokens \/ Len(t.nodes) >= b.nodes
       THEN [t EXCEPT !.visited = @ \cup {n}]
       ELSE Emit(t, depth, n, b)

\* A neighbour that is new is emitted if the budgets b allow it.
Met(t, depth, n, b) ==
  IF n \in t.visited \/ t.stop # None THEN t
  ELSE IF t.tokens + NameOf[n] > b.tokens THEN Stopped(t, n, "maxTokens")
  ELSE IF Len(t.nodes) >= b.nodes THEN Stopped(t, n, "maxNodes")
  ELSE Emit(t, depth, n, b)

Neighbours(s, direction) ==
  (IF direction # "out" THEN SetToSeq(CallersOf(s)) ELSE <<>>)
  \o (IF direction # "in" THEN SetToSeq(Callees(s)) ELSE <<>>)

\* One turn of the loop: the item is taken from the queue, and its neighbours
\* are met one after the other.
Walked(t, direction, b) ==
  IF t.queue = <<>> \/ t.stop # None THEN t
  ELSE LET item == Head(t.queue)
           rows == Neighbours(item.of, direction)
           After[i \in 0 .. Len(rows)] ==
             IF i = 0 THEN [t EXCEPT !.queue = Tail(@)]
             ELSE Met(After[i - 1], item.depth, rows[i], b)
       IN  After[Len(rows)]

\* A function is queued once at most, so the loop ends within these turns.
Traverse(root, direction, b) ==
  LET turns == Cardinality(Symbols)
      After[k \in 0 .. turns] ==
        IF k = 0 THEN Traversal(root) ELSE Walked(After[k - 1], direction, b)
  IN  After[turns]

-----------------------------------------------------------------------------
CallsInit == calls = {}

CallAdded ==
  /\ Cardinality(calls) < MaxCalls
  /\ \E s \in Symbols, n \in Range(NameOf), f \in Range(FileOf) :
       calls' = calls \cup {[caller |-> s, name |-> n, file |-> f, callee |-> Resolved(n, f)]}

\* The file of some callees is indexed anew: rows that name it are cleared.
CalleesCleared(f) ==
  /\ \E c \in calls : c.file = f
  /\ calls' = {IF c.file = f THEN [c EXCEPT !.file = None, !.callee = None] ELSE c : c \in calls}

CallsNext == CallAdded \/ \E f \in Range(FileOf) : CalleesCleared(f)

CallsSpec == CallsInit /\ [][CallsNext]_calls

-----------------------------------------------------------------------------
Unbounded(limit) == [depth |-> limit, nodes |-> MaxCalls + 1, tokens |-> 100]

(***************************************************************************)
(* A budget cuts a traversal short and does nothing else: what is emitted  *)
(* is the beginning of the whole traversal, within the budget, and nothing *)
(* is missing when the result does not say it was truncated.               *)
(***************************************************************************)
BudgetsCut ==
  calls # {} =>
  \A s \in Symbols, dir \in {"in", "out", "both"}, n \in 1 .. 2, k \in 1 .. 3 :
    LET whole == Traverse(s, dir, Unbounded(MaxDepth))
        cut == Traverse(s, dir, [depth |-> MaxDepth, nodes |-> n, tokens |-> k])
    IN  /\ IsPrefix(cut.nodes, whole.nodes)
        /\ Len(cut.nodes) <= n /\ cut.tokens <= k
        /\ cut.stop = None => cut.nodes = whole.nodes
=============================================================================
