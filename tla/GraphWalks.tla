----------------------------- MODULE GraphWalks -----------------------------
(***************************************************************************)
(* Breadth-first walks over the index (src/src/graph/repo-map.ts): the     *)
(* loop with a queue that getChangeImpact runs over the edges between      *)
(* files, and getExecutionFlows and getSymbolBlastRadius over the calls.   *)
(* The rows that a statement returns come in some order.                   *)
(***************************************************************************)
EXTENDS Integers, FiniteSets, Sequences, SequencesExt

CONSTANTS Files,      \* the files of the index
          MaxEdges,   \* rows of the table (bounds the model)
          MaxDepth    \* depths asked for

ASSUME WalksAssumption == IsFiniteSet(Files) /\ MaxEdges \in Nat /\ MaxDepth \in Nat

VARIABLE edges   \* table edges, as pairs <<source, target>>

Into(n) == {e[1] : e \in {e \in edges : e[2] = n}}
Outof(n) == {e[2] : e \in {e \in edges : e[1] = n}}

-----------------------------------------------------------------------------
\* What a walk should find: the rows at most k steps away from some others,
\* for each k up to far.
Spread(next, from, far) ==
  LET In[k \in 0 .. far] ==
        IF k = 0 THEN from
        ELSE LET nearer == In[k - 1] IN nearer \cup UNION {next[n] : n \in nearer}
  IN  In

-----------------------------------------------------------------------------
(***************************************************************************)
(* A walk: seen is the depth at which a row was first met.  A row is       *)
(* queued when it is met, so the queue is empty after as many turns as     *)
(* there are rows.                                                         *)
(***************************************************************************)
Unseen == -1

Started(next, from) ==
  [seen |-> [n \in DOMAIN next |-> IF n \in from THEN 0 ELSE Unseen], queue |-> SetToSeq(from)]

Marked(w, n, found) == [m \in DOMAIN w.seen |-> IF m \in found THEN w.seen[n] + 1 ELSE w.seen[m]]

Found(next, limit, w, n) ==
  IF w.seen[n] >= limit THEN {} ELSE {m \in next[n] : w.seen[m] = Unseen}

\* Mistake: the rows found last are expanded first.
TurnedDeep(next, limit, w) ==
  IF w.queue = <<>> THEN w
  ELSE LET found == Found(next, limit, w, Head(w.queue))
       IN  [seen |-> Marked(w, Head(w.queue), found), queue |-> SetToSeq(found) \o Tail(w.queue)]

\* One turn of the loop.
Turned(next, limit, w) ==
  IF w.queue = <<>> THEN w
  ELSE LET found == Found(next, limit, w, Head(w.queue))
       IN  [seen |-> Marked(w, Head(w.queue), found), queue |-> Tail(w.queue) \o SetToSeq(found)]

WalkFrom(next, from, limit) ==
  LET turns == Cardinality(DOMAIN next)
      After[k \in 0 .. turns] ==
        IF k = 0 THEN Started(next, from) ELSE Turned(next, limit, After[k - 1])
  IN  After[turns].seen

ChangeImpact(changed, limit) ==
  LET seen == WalkFrom([n \in Files |-> Into(n)], changed, limit)
  IN  {[file |-> n, depth |-> seen[n]] : n \in {n \in Files \ changed : seen[n] # Unseen}}

-----------------------------------------------------------------------------
WalksInit == edges = {}

EdgeAdded ==
  /\ Cardinality(edges) < MaxEdges
  /\ \E e \in (Files \X Files) \ edges : edges' = edges \cup {e}

WalksSpec == WalksInit /\ [][EdgeAdded]_edges

-----------------------------------------------------------------------------
(***************************************************************************)
(* getChangeImpact reports every file that depends on a changed one within *)
(* the depth asked for, once, at its distance, and never a changed file.   *)
(***************************************************************************)
ImpactIsDistance ==
  edges # {} =>
  \A changed \in SUBSET Files \ {{}} :
    LET within == Spread([n \in Files |-> Into(n)], changed, MaxDepth)
    IN  \A limit \in 1 .. MaxDepth :
          ChangeImpact(changed, limit) =
            UNION {{[file |-> n, depth |-> d] : n \in within[d] \ within[d - 1]} :
                     d \in 1 .. limit}
=============================================================================
