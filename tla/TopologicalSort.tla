--------------------------- MODULE TopologicalSort ---------------------------
(***************************************************************************)
(* dfs (src/graph/algorithms/TopologicalSort.cpp): the order in which the  *)
(* nodes of a graph are configured, and so the order in which they run.    *)
(***************************************************************************)
EXTENDS Graph

\* a mutant: one visited input is enough
AnyInputVisited(g, n, visited) == Producers(g, n) \cap visited # {}

AllInputsAreVisited(g, n, visited) == Producers(g, n) \subseteq visited

\* The consumers of n to push, once for every edge from n.  They are popped in
\* the order of the edges.
Pushed(g, n, visited) ==
  LET ready(c) == c \notin visited /\ AllInputsAreVisited(g, c, visited)
      edges == Reverse(InOrder({e \in g.nodes[n].out_edges : ready(g.edges[e].consumer)}))
  IN  [k \in DOMAIN edges |-> g.edges[edges[k]].consumer]

\* Input and const nodes are visited before anything is popped, every other
\* node when it is popped.
Start(g) ==
  LET sources == Tagged(g, "Input") \o Tagged(g, "Const")
  IN  [stack |-> sources, visited |-> Range(sources), order |-> <<>>]

Pop(g, s) ==
  LET n == Last(s.stack)
      visited == s.visited \cup {n}
  IN  [stack   |-> Front(s.stack) \o Pushed(g, n, visited),
       visited |-> visited,
       order   |-> Append(s.order, n)]

\* Every node pushed but the first ones is pushed along an edge.
Dfs(g) ==
  LET state[k \in 0 .. Len(g.nodes) + Len(g.edges)] ==
        IF k = 0 THEN Start(g)
        ELSE LET s == state[k - 1]
             IN  IF s.stack = <<>> THEN s ELSE Pop(g, s)
  IN  state[Len(g.nodes) + Len(g.edges)].order

-----------------------------------------------------------------------------
\* No node reads the same producer twice.  (With two such edges it is pushed,
\* configured and run twice.)
NoDoubleEdges(g) ==
  \A n \in NodeIds(g) : \A i, j \in DOMAIN g.nodes[n].in :
     i # j => Producer(g, n, i) # Producer(g, n, j)

\* What the callers of dfs need: every node once, and each layer after every
\* layer that it reads.  (An input or const node may come later: it does not run.)
IsOrderOf(order, g) ==
  /\ Range(order) = NodeIds(g)
  /\ IsInjective(order)
  /\ \A i \in DOMAIN order : \A p \in Producers(g, order[i]) :
       g.nodes[p].type \in {"Input", "Const"} \/ \E j \in 1 .. i - 1 : order[j] = p
=============================================================================
