----------------------- MODULE ClusterVisualizer_proofs -----------------------
(***************************************************************************)
(* Proofs about the cluster graph, for any nodes, any graphs a fetch may   *)
(* bring and any number of fetches and layouts: the two breadth-first      *)
(* walks find exactly what paths lead to and from the node selected, the   *)
(* lights of the drawn nodes follow, and the graph settles on the          *)
(* namespace chosen.                                                       *)
(***************************************************************************)
EXTENDS ClusterVisualizer, Integers, FiniteSetTheorems, WellFoundedInduction, TLAPS

-----------------------------------------------------------------------------
(* Induction on numbers, for a set of them. *)
LEMMA LeastNumber ==
  ASSUME NEW T, T \subseteq Nat, T # {}
  PROVE \E n \in T : \A m \in T : n <= m
<1>1. IsWellFoundedOn(OpToRel(<,Nat), Nat)
  BY NatLessThanWellFounded, Zenon
<1>2. PICK x \in T : \A y \in T : ~ (<<y, x>> \in OpToRel(<,Nat))
  BY <1>1, WFMin, Zenon
<1>3. ASSUME NEW y \in T PROVE x <= y
  <2>1. <<y, x>> \in Nat \X Nat /\ <<y, x>>[1] = y /\ <<y, x>>[2] = x
    OBVIOUS
  <2>2. ~(y < x)
    BY <1>2, <2>1, Zenon DEF OpToRel
  <2> QED BY <2>2
<1> QED BY <1>3

LEMMA AllNumbers ==
  ASSUME NEW S, 0 \in S, \A n \in Nat : n \in S => n + 1 \in S
  PROVE Nat \subseteq S
<1> SUFFICES ASSUME Nat \ S # {} PROVE FALSE
  OBVIOUS
<1>1. PICK n \in Nat \ S : \A m \in Nat \ S : n <= m
  BY LeastNumber
<1>2. n # 0 /\ n - 1 \in Nat
  BY <1>1
<1>3. n - 1 \in S
  BY <1>1, <1>2
<1> QED BY <1>1, <1>2, <1>3

-----------------------------------------------------------------------------
(* The walk.  One step of it, and its function up to k steps. *)
Grown(S, arcs) == S \cup {a[2] : a \in {b \in arcs : b[1] \in S}}
IsWalk(f, k, start, arcs) ==
  f = [i \in 0..k |-> IF i = 0 THEN {start}
                      ELSE f[i - 1] \cup {a[2] : a \in {b \in arcs : b[1] \in f[i - 1]}}]

LEMMA WalkExists ==
  ASSUME NEW start, NEW arcs, NEW N \in Nat
  PROVE \E f : IsWalk(f, N, start, arcs)
<1> DEFINE S == {k \in Nat : \E f : IsWalk(f, k, start, arcs)}
<1>1. 0 \in S
  <2>1. IsWalk([i \in 0..0 |-> {start}], 0, start, arcs)
    BY DEF IsWalk
  <2> QED BY <2>1
<1>2. ASSUME NEW k \in Nat, k \in S PROVE k + 1 \in S
  <2>1. PICK f : IsWalk(f, k, start, arcs)
    BY <1>2
  <2> DEFINE g == [i \in 0..(k + 1) |-> IF i <= k THEN f[i] ELSE Grown(f[k], arcs)]
  <2>2. \A i \in 0..k : g[i] = f[i]
    OBVIOUS
  <2>3. g[k + 1] = Grown(g[k], arcs)
    OBVIOUS
  <2>4. \A i \in 0..k : f[i] = IF i = 0 THEN {start} ELSE Grown(f[i - 1], arcs)
    BY <2>1 DEF IsWalk, Grown
  <2>5. \A i \in 0..(k + 1) : g[i] = IF i = 0 THEN {start} ELSE Grown(g[i - 1], arcs)
    <3> TAKE i \in 0..(k + 1)
    <3>1. CASE i = k + 1
      BY <2>3, <3>1
    <3>2. CASE i \in 0..k
      <4>1. i = 0 \/ i - 1 \in 0..k
        BY <3>2
      <4> HIDE DEF g
      <4> QED BY <2>2, <2>4, <3>2, <4>1
    <3> QED BY <3>1, <3>2
  <2>6. g = [i \in 0..(k + 1) |-> g[i]]
    OBVIOUS
  <2> HIDE DEF g
  <2>7. IsWalk(g, k + 1, start, arcs)
    BY <2>5, <2>6 DEF IsWalk, Grown
  <2> QED BY <2>7
<1> HIDE DEF S
<1>3. N \in S
  BY <1>1, <1>2, AllNumbers
<1> QED BY <1>3 DEF S

StepByStep(V, N, start, arcs) ==
  \A i \in 0..N : V[i] = IF i = 0 THEN {start} ELSE Grown(V[i - 1], arcs)

LEMMA WalkSteps ==
  ASSUME NEW start, NEW arcs, NEW N, N = Cardinality(GraphNodes)
  PROVE N \in Nat /\ \E V : Walk(start, arcs) = V[N] /\ StepByStep(V, N, start, arcs)
<1> DEFINE V == CHOOSE f : IsWalk(f, N, start, arcs)
<1>1. N \in Nat
  BY VisualizerAssumption, FS_CardinalityType
<1>2. IsWalk(V, N, start, arcs)
  BY <1>1, WalkExists, Zenon
<1>3. Walk(start, arcs) = V[N]
  BY DEF Walk, IsWalk
<1>4. StepByStep(V, N, start, arcs)
  <2> HIDE DEF V
  <2> QED BY <1>2 DEF IsWalk, StepByStep, Grown
<1> QED BY <1>1, <1>3, <1>4

(* The walk stays in every set that has its start and that no arc leaves. *)
LEMMA WalkStays ==
  ASSUME NEW start, NEW arcs, NEW S, start \in S,
         \A a \in arcs : a[1] \in S => a[2] \in S
  PROVE Walk(start, arcs) \subseteq S
<1> DEFINE N == Cardinality(GraphNodes)
<1>1. N \in Nat
  BY WalkSteps
<1>2. PICK V : Walk(start, arcs) = V[N] /\ StepByStep(V, N, start, arcs)
  BY WalkSteps
<1> HIDE DEF N
<1> DEFINE T == {i \in Nat : i <= N => V[i] \subseteq S}
<1>3. 0 \in T
  <2>1. V[0] = {start}
    BY <1>1, <1>2 DEF StepByStep
  <2> QED BY <2>1
<1>4. ASSUME NEW i \in Nat, i \in T PROVE i + 1 \in T
  <2> SUFFICES ASSUME i + 1 <= N PROVE V[i + 1] \subseteq S
    OBVIOUS
  <2>1. i + 1 \in 0..N /\ i + 1 # 0 /\ (i + 1) - 1 = i /\ i <= N
    BY <1>1
  <2>2. V[i + 1] = Grown(V[i], arcs)
    BY <1>2, <2>1 DEF StepByStep
  <2>3. V[i] \subseteq S
    BY <1>4, <2>1
  <2> QED BY <2>2, <2>3 DEF Grown
<1> HIDE DEF T
<1>5. N \in T
  BY <1>1, <1>3, <1>4, AllNumbers
<1> QED BY <1>1, <1>2, <1>5 DEF T

(* A step that adds nothing ends the walk; until then each adds a node, so  *)
(* after as many steps as there are nodes no arc leaves what it found.      *)
LEMMA WalkCloses ==
  ASSUME NEW start \in GraphNodes, NEW arcs \in SUBSET (GraphNodes \X GraphNodes)
  PROVE /\ start \in Walk(start, arcs)
        /\ Grown(Walk(start, arcs), arcs) = Walk(start, arcs)
<1> DEFINE N == Cardinality(GraphNodes)
<1>1. N \in Nat
  BY WalkSteps
<1>2. PICK V : Walk(start, arcs) = V[N] /\ StepByStep(V, N, start, arcs)
  BY WalkSteps
<1>3. \A S \in SUBSET GraphNodes : IsFiniteSet(S) /\ Cardinality(S) \in Nat /\ Cardinality(S) <= N
  BY VisualizerAssumption, FS_Subset, FS_CardinalityType
<1>4. \A S \in SUBSET GraphNodes : S \subseteq Grown(S, arcs) /\ Grown(S, arcs) \subseteq GraphNodes
  BY DEF Grown
<1> HIDE DEF N
<1> DEFINE Ended(i) == Grown(V[i], arcs) = V[i] \/ i + 1 <= Cardinality(V[i])
           T == {i \in Nat : i <= N => start \in V[i] /\ V[i] \subseteq GraphNodes /\ Ended(i)}
<1>5. 0 \in T
  <2>1. V[0] = {start}
    BY <1>1, <1>2 DEF StepByStep
  <2>2. Cardinality(V[0]) = 1
    BY <2>1, FS_Singleton
  <2> QED BY <2>1, <2>2
<1>6. ASSUME NEW i \in Nat, i \in T PROVE i + 1 \in T
  <2> SUFFICES ASSUME i + 1 <= N
               PROVE start \in V[i + 1] /\ V[i + 1] \subseteq GraphNodes /\ Ended(i + 1)
    OBVIOUS
  <2>1. i + 1 \in 0..N /\ i + 1 # 0 /\ (i + 1) - 1 = i /\ i <= N
    BY <1>1
  <2>2. V[i + 1] = Grown(V[i], arcs)
    BY <1>2, <2>1 DEF StepByStep
  <2>3. start \in V[i] /\ V[i] \subseteq GraphNodes /\ Ended(i)
    BY <1>6, <2>1
  <2>4. start \in V[i + 1] /\ V[i + 1] \subseteq GraphNodes /\ V[i] \subseteq V[i + 1]
    BY <1>4, <2>2, <2>3
  <2>5. CASE Grown(V[i], arcs) = V[i]
    <3>1. V[i + 1] = V[i]
      BY <2>2, <2>5
    <3>2. Grown(V[i + 1], arcs) = V[i + 1]
      BY <2>5, <3>1
    <3> QED BY <2>4, <3>2
  <2>6. CASE Grown(V[i], arcs) # V[i] /\ i + 1 <= Cardinality(V[i])
    <3>1. V[i] # V[i + 1]
      BY <2>2, <2>6
    <3>2. IsFiniteSet(V[i + 1]) /\ Cardinality(V[i + 1]) \in Nat /\ Cardinality(V[i]) \in Nat
      BY <1>3, <2>3, <2>4
    <3>3. Cardinality(V[i]) < Cardinality(V[i + 1])
      BY <2>4, <3>1, <3>2, FS_Subset
    <3>4. (i + 1) + 1 <= Cardinality(V[i + 1])
      BY <2>6, <3>2, <3>3
    <3> QED BY <2>4, <3>4
  <2> QED BY <2>3, <2>5, <2>6
<1> HIDE DEF T
<1>7. N \in T
  BY <1>1, <1>5, <1>6, AllNumbers
<1>8. start \in V[N] /\ V[N] \subseteq GraphNodes /\ Ended(N)
  BY <1>1, <1>7 DEF T
<1>9. ~(N + 1 <= Cardinality(V[N]))
  BY <1>1, <1>3, <1>8
<1> QED BY <1>2, <1>8, <1>9

(* The breadth-first walk finds exactly the nodes a path leads to. *)
THEOREM WalkFindsPaths ==
  ASSUME NEW start \in GraphNodes, NEW n \in GraphNodes,
         NEW arcs \in SUBSET (GraphNodes \X GraphNodes)
  PROVE n \in Walk(start, arcs) <=> LeadsTo(arcs, start, n)
<1>1. ASSUME n \in Walk(start, arcs) PROVE LeadsTo(arcs, start, n)
  BY <1>1, WalkStays DEF LeadsTo
<1>2. ASSUME LeadsTo(arcs, start, n) PROVE n \in Walk(start, arcs)
  <2> DEFINE W == Walk(start, arcs)
  <2>1. start \in W /\ Grown(W, arcs) = W
    BY WalkCloses
  <2>2. W \subseteq GraphNodes
    <3>1. \A a \in arcs : a[1] \in GraphNodes => a[2] \in GraphNodes
      OBVIOUS
    <3> QED BY <3>1, WalkStays
  <2> HIDE DEF W
  <2>3. \A a \in arcs : a[1] \in W => a[2] \in W
    BY <2>1 DEF Grown
  <2>4. n \in W
    BY <1>2, <2>1, <2>2, <2>3 DEF LeadsTo
  <2> QED BY <2>4 DEF W
<1> QED BY <1>1, <1>2
-----------------------------------------------------------------------------
(* Walking against the edges finds what leads to a node. *)
Reversed(edges) == {<<e[2], e[1]>> : e \in edges}

LEMMA LeadsBack ==
  ASSUME NEW m \in GraphNodes, NEW n \in GraphNodes,
         NEW edges \in SUBSET (GraphNodes \X GraphNodes)
  PROVE LeadsTo(Reversed(edges), m, n) <=> LeadsTo(edges, n, m)
<1> DEFINE Open(S, arcs) == \E a \in arcs : a[1] \in S /\ a[2] \notin S
<1>1. ASSUME NEW S \in SUBSET GraphNodes
      PROVE Open(S, Reversed(edges)) <=> Open(GraphNodes \ S, edges)
  <2>1. ASSUME Open(S, Reversed(edges)) PROVE Open(GraphNodes \ S, edges)
    <3>1. PICK e \in edges : e[2] \in S /\ e[1] \notin S
      BY <2>1 DEF Reversed
    <3> QED BY <3>1
  <2>2. ASSUME Open(GraphNodes \ S, edges) PROVE Open(S, Reversed(edges))
    <3>1. PICK e \in edges : e[1] \in GraphNodes \ S /\ e[2] \notin GraphNodes \ S
      BY <2>2
    <3>2. <<e[2], e[1]>> \in Reversed(edges) /\ e[2] \in S
      BY <3>1 DEF Reversed
    <3> QED BY <3>1, <3>2
  <2> QED BY <2>1, <2>2
<1>2. \A arcs, k, l : LeadsTo(arcs, k, l)
        <=> \A S \in SUBSET GraphNodes : k \in S /\ ~Open(S, arcs) => l \in S
  BY DEF LeadsTo
<1> HIDE DEF Open
<1>3. ASSUME LeadsTo(edges, n, m), NEW S \in SUBSET GraphNodes, m \in S, ~Open(S, Reversed(edges))
      PROVE n \in S
  BY <1>1, <1>2, <1>3
<1>4. ASSUME LeadsTo(Reversed(edges), m, n), NEW S \in SUBSET GraphNodes, n \in S, ~Open(S, edges)
      PROVE m \in S
  <2>1. GraphNodes \ S \in SUBSET GraphNodes /\ GraphNodes \ (GraphNodes \ S) = S
    OBVIOUS
  <2>2. ~Open(GraphNodes \ S, Reversed(edges))
    BY <1>1, <1>4, <2>1
  <2> QED BY <1>2, <1>4, <2>1, <2>2
<1> QED BY <1>2, <1>3, <1>4

(* The light of a node is the one its place on the paths asks for. *)
LEMMA LightsFollowPaths ==
  ASSUME graph.edge \subseteq GraphNodes \X GraphNodes,
         selectedNode \in GraphNodes \cup {NoNode},
         NEW n \in GraphNodes
  PROVE isNodeHighlighted(graph.edge, selectedNode, n) = Reference(n)
<1>1. CASE selectedNode = NoNode
  BY <1>1 DEF isNodeHighlighted, Reference
<1>2. CASE selectedNode # NoNode /\ n = selectedNode
  BY <1>2 DEF isNodeHighlighted, Reference
<1>3. CASE selectedNode # NoNode /\ n # selectedNode
  <2>1. selectedNode \in GraphNodes
    BY <1>3
  <2>2. graph.edge \in SUBSET (GraphNodes \X GraphNodes)
        /\ Reversed(graph.edge) \in SUBSET (GraphNodes \X GraphNodes)
    BY DEF Reversed
  <2>3. n \in Upstream(graph.edge, selectedNode) <=> LeadsTo(graph.edge, n, selectedNode)
    BY <2>1, <2>2, WalkFindsPaths, LeadsBack DEF Upstream, Reversed
  <2>4. n \in Downstream(graph.edge, selectedNode) <=> LeadsTo(graph.edge, selectedNode, n)
    BY <2>1, <2>2, WalkFindsPaths DEF Downstream
  <2> QED BY <1>3, <2>3, <2>4 DEF isNodeHighlighted, Reference
<1> QED BY <1>1, <1>2, <1>3
-----------------------------------------------------------------------------
(* What holds in every state.  The types, with the answer a spinning view  *)
(* waits for:                                                              *)
Graph == [node : SUBSET GraphNodes, edge : SUBSET (GraphNodes \X GraphNodes)]
Chosen == GraphNodes \cup {NoNode}
Laying == [nodes : SUBSET GraphNodes, chosen : Chosen]

Typed ==
  /\ graph \in Graph /\ selectedNode \in Chosen /\ scope \in Scopes
  /\ graphFetches \subseteq [id : Nat, scope : Scopes] /\ epoch \in Nat
  /\ DOMAIN drawn \subseteq GraphNodes
  /\ layouts \in Seq(Laying) /\ Len(layouts) <= MaxLayouts

Awaited == graphLoading => \E f \in graphFetches : f.id = epoch

(* The lights are those of the edges and the selection held: *)
Lit == drawn = Lights(DOMAIN drawn, graph.edge, selectedNode)

(* No fetch has a number that is still to be given, and unless the timer   *)
(* will fetch anew, the newest fetch, or the graph it brought, is of the   *)
(* namespace chosen:                                                       *)
Numbered == \A f \in graphFetches : f.id <= epoch
LatestOfScope ==
  GraphShown /\ isConnected /\ ~graphTimer =>
    /\ \A f \in graphFetches : f.id = epoch => f.scope = scope
    /\ graphLoading \/ graphScope = scope

VisualizerInv == Typed /\ Awaited /\ Lit /\ Numbered /\ LatestOfScope

LEMMA VisualizerStarts == VisualizerInit => VisualizerInv
<1> SUFFICES ASSUME VisualizerInit PROVE VisualizerInv
  OBVIOUS
<1> USE VisualizerAssumption DEF VisualizerInit
<1>1. Typed
  <2>1. NoGraph \in Graph /\ NoNode \in Chosen
    BY DEF NoGraph, Graph, Chosen
  <2>2. DOMAIN Nowhere = {}
    BY DEF Nowhere
  <2>3. <<>> \in Seq(Laying) /\ Len(<<>>) = 0
    OBVIOUS
  <2> QED BY <2>1, <2>2, <2>3 DEF Typed
<1>2. Awaited /\ Numbered /\ LatestOfScope
  BY DEF Awaited, Numbered, LatestOfScope
<1>3. Lit
  BY DEF Lit, Lights, Nowhere
<1> QED BY <1>1, <1>2, <1>3 DEF VisualizerInv

(* The layout effect keeps the lights of what it draws. *)
LEMMA RedrawsLit ==
  ASSUME NEW g \in Graph, NEW off, NEW chosen \in Chosen, Typed,
         Redraw(g, off, chosen)
  PROVE /\ DOMAIN drawn' \subseteq GraphNodes
        /\ layouts' \in Seq(Laying) /\ Len(layouts') <= MaxLayouts
        /\ drawn' = Lights(DOMAIN drawn', g.edge, chosen)
<1>1. CASE Visible(g, off) = {}
  <2>1. drawn' = Nowhere /\ layouts' = layouts
    BY <1>1 DEF Redraw
  <2>2. DOMAIN Nowhere = {} /\ Nowhere = Lights({}, g.edge, chosen)
    BY DEF Nowhere, Lights
  <2> QED BY <2>1, <2>2 DEF Typed
<1>2. CASE Visible(g, off) # {}
  <2>1. /\ Len(layouts) < MaxLayouts
        /\ layouts' = Append(layouts, [nodes |-> Visible(g, off), chosen |-> chosen])
        /\ drawn' = Lights(DOMAIN drawn, g.edge, chosen)
    BY <1>2 DEF Redraw
  <2>2. [nodes |-> Visible(g, off), chosen |-> chosen] \in Laying
    BY DEF Laying, Visible, Graph
  <2>3. layouts' \in Seq(Laying) /\ Len(layouts') <= MaxLayouts
    <3> HIDE DEF Laying
    <3>1. layouts \in Seq(Laying) /\ Len(layouts) \in Nat /\ MaxLayouts \in Nat
      BY VisualizerAssumption DEF Typed
    <3> QED BY <2>1, <2>2, <3>1
  <2>4. DOMAIN drawn' = DOMAIN drawn
    BY <2>1 DEF Lights
  <2> QED BY <2>1, <2>3, <2>4 DEF Typed
<1> QED BY <1>1, <1>2

(* A fetch is started, or the graph is dropped. *)
LEMMA FetchKeepsInv ==
  ASSUME VisualizerInv, NEW online, Fetch(online, scope),
         UNCHANGED <<scope, hidden, selectedNode>>
  PROVE /\ Typed' /\ Awaited' /\ Lit' /\ Numbered'
        /\ online => /\ graphLoading'
                     /\ \A f \in graphFetches' : f.id = epoch' => f.scope = scope'
<1> USE DEF VisualizerInv
<1>1. CASE online
  <2>1. /\ epoch' = epoch + 1 /\ graphLoading' = TRUE
        /\ graphFetches' = graphFetches \cup {[id |-> epoch + 1, scope |-> scope]}
        /\ UNCHANGED <<graph, graphScope, layouts, layoutError, drawn>>
    BY <1>1 DEF Fetch, drawVars
  <2>2. epoch' \in Nat /\ scope \in Scopes /\ graphFetches \subseteq [id : Nat, scope : Scopes]
    BY <2>1 DEF Typed
  <2>3. Typed'
    BY <2>1, <2>2 DEF Typed
  <2>4. \A f \in graphFetches' : f.id <= epoch' /\ (f.id = epoch' => f.scope = scope')
    <3>1. \A f \in graphFetches : f.id \in Nat /\ f.id <= epoch /\ epoch \in Nat
      BY DEF Typed, Numbered
    <3>2. \A f \in graphFetches : f.id <= epoch' /\ f.id # epoch'
      BY <2>1, <3>1
    <3> QED BY <2>1, <2>2, <3>2
  <2>5. Awaited'
    <3>1. [id |-> epoch + 1, scope |-> scope] \in graphFetches'
          /\ [id |-> epoch + 1, scope |-> scope].id = epoch'
      BY <2>1
    <3> QED BY <3>1 DEF Awaited
  <2>6. Lit'
    BY <2>1 DEF Lit
  <2> QED BY <2>1, <2>3, <2>4, <2>5, <2>6 DEF Numbered
<1>2. CASE ~online
  <2>1. /\ graph' = NoGraph /\ Redraw(NoGraph, hidden, selectedNode)
        /\ UNCHANGED <<epoch, graphFetches, graphLoading, graphScope>>
    BY <1>2 DEF Fetch
  <2>2. NoGraph \in Graph
    BY DEF NoGraph, Graph
  <2>3. /\ DOMAIN drawn' \subseteq GraphNodes
        /\ layouts' \in Seq(Laying) /\ Len(layouts') <= MaxLayouts
        /\ drawn' = Lights(DOMAIN drawn', NoGraph.edge, selectedNode)
    BY <2>1, <2>2, RedrawsLit DEF Typed
  <2>4. Typed'
    BY <2>1, <2>2, <2>3 DEF Typed
  <2>5. Awaited' /\ Numbered'
    BY <2>1 DEF Awaited, Numbered
  <2>6. Lit'
    BY <2>1, <2>3 DEF Lit
  <2> QED BY <1>2, <2>4, <2>5, <2>6
<1> QED BY <1>1, <1>2

(* An answer arrives. *)
LEMMA AnswerKeepsInv ==
  ASSUME VisualizerInv, NEW f \in graphFetches, GraphReturns(f)
  PROVE VisualizerInv'
<1> USE DEF VisualizerInv
<1>1. /\ graphFetches' = graphFetches \ {f}
      /\ UNCHANGED <<shellVars, scope, epoch, graphTimer, hidden, selectedNode>>
  BY DEF GraphReturns
<1>2. CASE f.id = epoch
  <2>1. /\ graphLoading' = FALSE /\ graphScope' = f.scope
        /\ \E g \in Answers(f.scope) : graph' = g /\ Redraw(g, hidden, selectedNode)
    BY <1>2 DEF GraphReturns, Latest
  <2>2. graph' \in Graph /\ Redraw(graph', hidden, selectedNode)
    BY <2>1, VisualizerAssumption DEF Typed, Graph
  <2>3. /\ DOMAIN drawn' \subseteq GraphNodes
        /\ layouts' \in Seq(Laying) /\ Len(layouts') <= MaxLayouts
        /\ drawn' = Lights(DOMAIN drawn', graph'.edge, selectedNode)
    BY <2>2, RedrawsLit DEF Typed
  <2>4. Typed'
    BY <1>1, <2>2, <2>3 DEF Typed
  <2>5. Awaited' /\ Numbered'
    BY <1>1, <2>1 DEF Awaited, Numbered
  <2>6. Lit'
    BY <1>1, <2>3 DEF Lit
  <2>7. LatestOfScope'
    BY <1>1, <1>2, <2>1 DEF LatestOfScope, shellVars, GraphShown
  <2> QED BY <2>4, <2>5, <2>6, <2>7
<1>3. CASE f.id # epoch
  <2>1. UNCHANGED <<graphLoading, graphScope, graph, layouts, layoutError, drawn>>
    BY <1>3 DEF GraphReturns, Latest, drawVars
  <2>2. Typed' /\ Lit' /\ Numbered'
    BY <1>1, <2>1 DEF Typed, Lit, Numbered
  <2>3. Awaited'
    BY <1>1, <1>3, <2>1 DEF Awaited
  <2>4. LatestOfScope'
    BY <1>1, <2>1 DEF LatestOfScope, shellVars, GraphShown
  <2> QED BY <2>2, <2>3, <2>4
<1> QED BY <1>2, <1>3

(* The layout engine answers. *)
LEMMA LayoutKeepsInv ==
  ASSUME VisualizerInv, LayoutReturns
  PROVE VisualizerInv'
<1> USE DEF VisualizerInv
<1>1. /\ layouts # <<>> /\ layouts' = Tail(layouts)
      /\ drawn' = Lights(Head(layouts).nodes, graph.edge, selectedNode) \/ drawn' = drawn
      /\ UNCHANGED <<shellVars, scope, graph, graphScope, graphLoading, epoch, graphFetches,
                     graphTimer, selectedNode>>
  BY DEF LayoutReturns, LaidOut, graphVars
<1>2. /\ Head(layouts) \in Laying /\ layouts' \in Seq(Laying)
      /\ Len(layouts') <= MaxLayouts
  <2> HIDE DEF Laying
  <2>1. layouts \in Seq(Laying) /\ Len(layouts) \in Nat /\ Len(layouts) <= MaxLayouts
    BY DEF Typed
  <2>2. Head(layouts) \in Laying /\ Tail(layouts) \in Seq(Laying)
        /\ Len(Tail(layouts)) = Len(layouts) - 1
    BY <1>1, <2>1
  <2> QED BY <1>1, <2>1, <2>2, VisualizerAssumption
<1>3. DOMAIN drawn' \subseteq GraphNodes
  BY <1>1, <1>2 DEF Typed, Laying, Lights
<1>4. Typed'
  BY <1>1, <1>2, <1>3 DEF Typed
<1>5. drawn' = Lights(DOMAIN drawn', graph.edge, selectedNode)
  BY <1>1 DEF Lights, Lit
<1>6. Lit'
  BY <1>1, <1>5 DEF Lit
<1>7. Awaited' /\ Numbered' /\ LatestOfScope'
  BY <1>1 DEF Awaited, Numbered, LatestOfScope, shellVars, GraphShown
<1> QED BY <1>4, <1>6, <1>7
(* The rest of the steps. *)
LEMMA VisualizerKeeps ==
  ASSUME VisualizerInv,
         [GraphNext \/ DrawerNext \/ VisualizerFrame]_<<shellVars, visualizerVars>>
  PROVE VisualizerInv'
<1> USE DEF VisualizerInv
<1> DEFINE Held == <<graph, graphScope, graphLoading, epoch, graphFetches, layouts, drawn,
                     scope, selectedNode>>
<1>0. ASSUME UNCHANGED Held PROVE Typed' /\ Awaited' /\ Lit' /\ Numbered'
  BY <1>0 DEF Typed, Awaited, Lit, Numbered
<1>1. CASE OpenVisualizer
  <2>1. Fetch(isConnected, scope)
        /\ UNCHANGED <<scope, graphTimer, hidden, selectedNode, isConnected>>
    BY <1>1 DEF OpenVisualizer, Navigate
  <2>2. Typed' /\ Awaited' /\ Lit' /\ Numbered' /\ LatestOfScope'
    BY <2>1, FetchKeepsInv DEF LatestOfScope
  <2> QED BY <2>2
<1>2. CASE TimerFires
  <2>1. Fetch(isConnected, scope)
        /\ UNCHANGED <<scope, hidden, selectedNode, shellVars>>
    BY <1>2 DEF TimerFires
  <2>2. Typed' /\ Awaited' /\ Lit' /\ Numbered' /\ LatestOfScope'
    BY <2>1, FetchKeepsInv DEF LatestOfScope, shellVars
  <2> QED BY <2>2
<1>3. CASE Refetch
  <2>1. Fetch(TRUE, scope)
        /\ UNCHANGED <<scope, hidden, selectedNode, shellVars>>
    BY <1>3 DEF Refetch
  <2>2. Typed' /\ Awaited' /\ Lit' /\ Numbered' /\ LatestOfScope'
    BY <2>1, FetchKeepsInv DEF LatestOfScope, shellVars
  <2> QED BY <2>2
<1>4. CASE LayoutReturns
  BY <1>4, LayoutKeepsInv
<1>5. CASE handlePaneClick
  <2>1. /\ selectedNode' = NoNode /\ drawn' = Lights(DOMAIN drawn, graph.edge, NoNode)
        /\ UNCHANGED <<shellVars, scope, graph, graphScope, graphLoading, epoch, graphFetches,
                       graphTimer, layouts>>
    BY <1>5 DEF handlePaneClick, graphVars
  <2>2. DOMAIN drawn' = DOMAIN drawn /\ NoNode \in Chosen
    BY <2>1 DEF Lights, Chosen
  <2>3. Typed' /\ Lit' /\ Awaited' /\ Numbered'
    BY <2>1, <2>2 DEF Typed, Lit, Awaited, Numbered
  <2>4. LatestOfScope'
    BY <2>1 DEF LatestOfScope, shellVars, GraphShown
  <2> QED BY <2>3, <2>4
<1>6. ASSUME NEW f \in graphFetches, GraphReturns(f) PROVE VisualizerInv'
  BY <1>6, AnswerKeepsInv
<1>7. ASSUME NEW ns \in Scopes, ChangeScope(ns) PROVE VisualizerInv'
  <2>1. /\ scope' = ns /\ graphTimer' = TRUE
        /\ UNCHANGED <<graph, graphScope, graphLoading, epoch, graphFetches, layouts, drawn,
                       selectedNode>>
    BY <1>7 DEF ChangeScope, graphVars, drawVars
  <2>2. Typed' /\ Lit' /\ Awaited' /\ Numbered' /\ LatestOfScope'
    BY <2>1 DEF Typed, Lit, Awaited, Numbered, LatestOfScope
  <2> QED BY <2>2
<1>8. ASSUME NEW n \in GraphNodes, handleToggle(n) PROVE VisualizerInv'
  <2>1. /\ Redraw(graph, hidden', selectedNode)
        /\ UNCHANGED <<shellVars, scope, graph, graphScope, graphLoading, epoch, graphFetches,
                       graphTimer, selectedNode>>
    BY <1>8 DEF handleToggle, graphVars
  <2>2. /\ DOMAIN drawn' \subseteq GraphNodes
        /\ layouts' \in Seq(Laying) /\ Len(layouts') <= MaxLayouts
        /\ drawn' = Lights(DOMAIN drawn', graph.edge, selectedNode)
    BY <2>1, RedrawsLit DEF Typed
  <2>3. Typed' /\ Lit' /\ Awaited' /\ Numbered'
    BY <2>1, <2>2 DEF Typed, Lit, Awaited, Numbered
  <2>4. LatestOfScope'
    BY <2>1 DEF LatestOfScope, shellVars, GraphShown
  <2> QED BY <2>3, <2>4
<1>9. ASSUME NEW n \in GraphNodes, handleNodeClick(n) PROVE VisualizerInv'
  <2>1. /\ selectedNode' \in Chosen
        /\ drawn' = Lights(DOMAIN drawn, graph.edge, selectedNode')
        /\ UNCHANGED <<shellVars, scope, graph, graphScope, graphLoading, epoch, graphFetches,
                       graphTimer, layouts>>
    BY <1>9 DEF handleNodeClick, graphVars, Chosen
  <2>2. DOMAIN drawn' = DOMAIN drawn
    BY <2>1 DEF Lights
  <2>3. Typed' /\ Lit' /\ Awaited' /\ Numbered'
    BY <2>1, <2>2 DEF Typed, Lit, Awaited, Numbered
  <2>4. LatestOfScope'
    BY <2>1 DEF LatestOfScope, shellVars, GraphShown
  <2> QED BY <2>3, <2>4
<1>10. ASSUME NEW v \in Views, LeaveVisualizer(v) PROVE VisualizerInv'
  <2>1. /\ scope' = AllScope /\ graph' = NoGraph /\ graphScope' = AllScope
        /\ graphLoading' = FALSE /\ graphFetches' = {} /\ selectedNode' = NoNode
        /\ layouts' = <<>> /\ drawn' = Nowhere /\ epoch' = epoch /\ activeView' = v
        /\ v # "visualizer"
    BY <1>10 DEF LeaveVisualizer, Navigate
  <2>2. NoGraph \in Graph /\ NoNode \in Chosen /\ DOMAIN Nowhere = {}
    BY DEF NoGraph, Graph, Chosen, Nowhere
  <2>3. <<>> \in Seq(Laying) /\ Len(<<>>) = 0
    OBVIOUS
  <2>4. Typed'
    BY <2>1, <2>2, <2>3, VisualizerAssumption DEF Typed
  <2>5. Lights(DOMAIN Nowhere, NoGraph.edge, NoNode) = Nowhere
    BY DEF Nowhere, Lights
  <2>6. Lit'
    BY <2>1, <2>5 DEF Lit
  <2>7. Awaited' /\ Numbered' /\ LatestOfScope'
    BY <2>1 DEF Awaited, Numbered, LatestOfScope, GraphShown
  <2> QED BY <2>4, <2>6, <2>7
<1>11. CASE DrawerNext
  <2>1. UNCHANGED <<shellVars, Held, graphTimer>>
    BY <1>11 DEF DrawerNext, OpenSession, SessionOpens, CloseSession, graphVars, drawVars
  <2>2. LatestOfScope'
    BY <2>1 DEF LatestOfScope, shellVars, GraphShown
  <2> QED BY <1>0, <2>1, <2>2
<1>12. CASE VisualizerFrame
  <2>1. UNCHANGED Held /\ graphTimer' = (graphTimer \/ (GraphShown /\ isConnected' # isConnected))
    BY <1>12 DEF VisualizerFrame, graphConnectionChanges, graphVars, drawVars
  <2>2. activeView' = activeView \/ activeView' # "visualizer"
    BY <1>12 DEF VisualizerFrame, ShellNext, ShellCalls, handleConnect, Connect, ConnectReturns,
       NamespacesListed, ConnectFails, DisconnectReturns, handleDisconnect, Escape, DismissError,
       OpenDialog, Navigate
  <2>3. LatestOfScope'
    BY <2>1, <2>2 DEF LatestOfScope, GraphShown
  <2> QED BY <1>0, <2>1, <2>3
<1>13. CASE UNCHANGED <<shellVars, visualizerVars>>
  <2>1. UNCHANGED <<shellVars, Held, graphTimer>>
    BY <1>13 DEF visualizerVars, graphVars, drawVars
  <2>2. LatestOfScope'
    BY <2>1 DEF LatestOfScope, shellVars, GraphShown
  <2> QED BY <1>0, <2>1, <2>2
<1> QED
  BY <1>1, <1>2, <1>3, <1>4, <1>5, <1>6, <1>7, <1>8, <1>9, <1>10, <1>11, <1>12, <1>13
     DEF GraphNext
LEMMA VisualizerInvariant == VisualizerSpec => []VisualizerInv
<1>1. ShellInit /\ VisualizerInit => VisualizerInv
  BY VisualizerStarts
<1>2. VisualizerInv /\ [GraphNext \/ DrawerNext \/ VisualizerFrame]_<<shellVars, visualizerVars>>
        => VisualizerInv'
  BY VisualizerKeeps
<1> QED BY <1>1, <1>2, PTL DEF VisualizerSpec

LEMMA VisualizerIsTyped == VisualizerInv => VisualizerTypeOK
BY DEF VisualizerInv, Typed, Awaited, Graph, Chosen, VisualizerTypeOK

-----------------------------------------------------------------------------
(* What the view holds is typed, and while it spins the newest fetch is    *)
(* under way: no answer, disconnect or change of view leaves it spinning.  *)
THEOREM VisualizerTypes == VisualizerSpec => []VisualizerTypeOK
BY VisualizerIsTyped, VisualizerInvariant, PTL

(* Every drawn node has the light that the paths between it and the        *)
(* selected node ask for, whatever layouts and fetches were under way when *)
(* the selection was made.                                                 *)
THEOREM HighlightIsCurrent == VisualizerSpec => []HighlightFollowsSelection
<1>1. ASSUME VisualizerInv PROVE HighlightFollowsSelection
  <2> SUFFICES ASSUME NEW n \in DOMAIN drawn PROVE drawn[n] = Reference(n)
    BY DEF HighlightFollowsSelection
  <2>1. drawn[n] = isNodeHighlighted(graph.edge, selectedNode, n)
    BY <1>1 DEF VisualizerInv, Lit, Lights
  <2>2. /\ graph.edge \subseteq GraphNodes \X GraphNodes
        /\ selectedNode \in GraphNodes \cup {NoNode} /\ n \in GraphNodes
    BY <1>1 DEF VisualizerInv, Typed, Graph, Chosen
  <2> QED BY <2>1, <2>2, LightsFollowPaths
<1> QED BY <1>1, VisualizerInvariant, PTL

(* A graph that has settled is of the namespace chosen, in whatever order   *)
(* the fetches of earlier choices answer.                                   *)
THEOREM GraphIsOfScope == VisualizerSpec => []GraphSettles
<1>1. VisualizerInv => GraphSettles
  BY DEF VisualizerInv, LatestOfScope, GraphSettles, CanvasShown
<1> QED BY <1>1, VisualizerInvariant, PTL
=============================================================================
