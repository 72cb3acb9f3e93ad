-------------------------- MODULE ClusterVisualizer --------------------------
(***************************************************************************)
(* The cluster graph (ClusterVisualizer.tsx, useClusterGraph.ts,           *)
(* usePathHighlight.ts).  A fetch brings nodes and edges; those that are   *)
(* not toggled off go to the layout engine, which answers later and in     *)
(* order; selecting a node lights up what leads to it and what it leads    *)
(* to.  The layout and the selection write the same drawn nodes, so a      *)
(* layout under way must not bring back an old selection's light.          *)
(***************************************************************************)
EXTENDS AppShell, Sequences

CONSTANTS GraphNodes, NoNode,
          Answers(_),       \* the graphs a fetch of a namespace may bring
          Scopes, AllScope, \* the namespaces of the switcher
          Toggled,          \* the nodes whose kind the panel can hide
          MaxEpoch,         \* bound: fetches in one run
          MaxLayouts,       \* bound: layouts under way
          MaxSessions       \* bound: shells opened in one run

ASSUME VisualizerAssumption ==
  /\ IsFiniteSet(GraphNodes) /\ NoNode \notin GraphNodes
  /\ AllScope \in Scopes
  /\ \A ns \in Scopes :
       Answers(ns) \subseteq [node : SUBSET GraphNodes, edge : SUBSET (GraphNodes \X GraphNodes)]
  /\ MaxLayouts \in Nat

VARIABLES
  scope,                         \* the namespace chosen
  graph, graphScope,             \* the nodes and edges held, and whose they are
  graphLoading, graphTimer, fetched, epoch, graphFetches,
  hidden,                        \* nodes toggled off
  selectedNode,
  layouts,                       \* sets of nodes being laid out, in order
  layoutError,
  drawn,                         \* the drawn nodes, each with its light
  session, drawerOpen, opening, running  \* the drawer's shell

graphVars == <<graph, graphScope, graphLoading, epoch, graphFetches>>
drawVars == <<layouts, layoutError, drawn>>
drawerVars == <<session, drawerOpen, opening, running>>
visualizerVars == <<scope, graphVars, graphTimer, fetched, hidden, selectedNode,
                    drawVars, drawerVars>>

GraphShown == activeView = "visualizer"
NoGraph == [node |-> {}, edge |-> {}]
Nowhere == [n \in {} |-> "dimmed"]

(* What the view shows instead of the graph leaves nothing to click, not    *)
(* even a button that would lay it out again.                               *)
CanvasShown ==
  GraphShown /\ isConnected /\ ~layoutError /\ ~(graphLoading /\ drawn = Nowhere)

-----------------------------------------------------------------------------
(* usePathHighlight: a breadth-first walk against the edges and one along  *)
(* them, over all edges, those of hidden or missing nodes included.        *)
Walk(start, arcs) ==
  LET Visited[i \in 0..Cardinality(GraphNodes)] ==
        IF i = 0 THEN {start}
        ELSE Visited[i - 1] \cup {a[2] : a \in {b \in arcs : b[1] \in Visited[i - 1]}}
  IN Visited[Cardinality(GraphNodes)]

(* Mutant: the walk stops after one step. *)
UpstreamOnce(edges, n) == {n} \cup {e[1] : e \in {f \in edges : f[2] = n}}
Upstream(edges, n) == Walk(n, {<<e[2], e[1]>> : e \in edges})
Downstream(edges, n) == Walk(n, edges)

isNodeHighlighted(edges, chosen, n) ==
  CASE chosen = NoNode -> "none"
    [] n = chosen -> "selected"
    [] chosen # NoNode /\ n # chosen /\ n \in Upstream(edges, chosen) -> "upstream"
    [] chosen # NoNode /\ n # chosen /\ n \notin Upstream(edges, chosen)
         /\ n \in Downstream(edges, chosen) -> "downstream"
    [] OTHER -> "dimmed"

Lights(S, edges, chosen) == [n \in S |-> isNodeHighlighted(edges, chosen, n)]

-----------------------------------------------------------------------------
VisualizerInit ==
  /\ scope = AllScope /\ graph = NoGraph /\ graphScope = AllScope
  /\ graphLoading = FALSE /\ graphTimer = FALSE /\ fetched = FALSE
  /\ epoch = 0 /\ graphFetches = {} /\ hidden = {} /\ selectedNode = NoNode
  /\ layouts = <<>> /\ layoutError = FALSE /\ drawn = Nowhere
  /\ session = NoNode /\ drawerOpen = FALSE /\ opening = {} /\ running = {}

Visible(g, off) == g.node \ off

(* The layout effect: of an empty graph nothing is drawn at once, any other *)
(* is handed to the engine.  The effect on the selection draws the lights   *)
(* of the nodes already there again.                                        *)
Redraw(g, off, chosen) ==
  /\ IF Visible(g, off) = {}
     THEN drawn' = Nowhere /\ UNCHANGED layouts
     ELSE /\ Len(layouts) < MaxLayouts
          /\ layouts' = Append(layouts, [nodes |-> Visible(g, off), chosen |-> chosen])
          /\ drawn' = Lights(DOMAIN drawn, g.edge, chosen)
  /\ UNCHANGED layoutError

(* The engine answers: what it laid out is drawn with the lights of the    *)
(* selection of now, which the layout reads through a reference.           *)
(* Mutant: the lights of the selection when the layout was started. *)
LaidOutStale(laid) == Lights(laid.nodes, graph.edge, laid.chosen)
LaidOut(laid) == Lights(laid.nodes, graph.edge, selectedNode)
LayoutReturns ==
  /\ layouts # <<>>
  /\ layouts' = Tail(layouts)
  /\ \/ drawn' = LaidOut(Head(layouts)) /\ layoutError' = FALSE
     \/ drawn' = drawn /\ layoutError' = TRUE
  /\ UNCHANGED <<shellVars, scope, graphVars, graphTimer, fetched, hidden, selectedNode,
                 drawerVars>>

-----------------------------------------------------------------------------
(* useClusterGraph's fetchData: without a connection the graph is dropped, *)
(* and the number that tells late answers apart stays as it is.            *)
Fetch(online, ns) ==
  IF online
  THEN /\ epoch < MaxEpoch
       /\ epoch' = epoch + 1
       /\ graphFetches' = graphFetches \cup {[id |-> epoch', scope |-> ns]}
       /\ graphLoading' = TRUE
       /\ UNCHANGED <<graph, graphScope, drawVars>>
  ELSE /\ graph' = NoGraph
       /\ Redraw(NoGraph, hidden, selectedNode)
       /\ UNCHANGED <<epoch, graphFetches, graphLoading, graphScope>>

(* The first fetch is at once, later ones 300 ms after the last change. *)
OpenVisualizer ==
  /\ ~GraphShown /\ Navigate("visualizer")
  /\ fetched' = TRUE /\ Fetch(isConnected, scope)
  /\ UNCHANGED <<scope, graphTimer, hidden, selectedNode, drawerVars>>

graphConnectionChanges ==
  /\ graphTimer' = (graphTimer \/ (GraphShown /\ isConnected' # isConnected))
  /\ UNCHANGED <<scope, graphVars, fetched, hidden, selectedNode, drawVars, drawerVars>>

ChangeScope(ns) ==
  /\ CanvasShown /\ ns # scope
  /\ scope' = ns /\ graphTimer' = TRUE
  /\ UNCHANGED <<shellVars, graphVars, fetched, hidden, selectedNode, drawVars, drawerVars>>

TimerFires ==
  /\ graphTimer
  /\ graphTimer' = FALSE /\ Fetch(isConnected, scope)
  /\ UNCHANGED <<shellVars, scope, fetched, hidden, selectedNode, drawerVars>>

Refetch ==
  /\ CanvasShown /\ Fetch(TRUE, scope)
  /\ UNCHANGED <<shellVars, scope, graphTimer, fetched, hidden, selectedNode, drawerVars>>

(* The lists of the eleven calls, an empty one where a call failed. *)
(* Mutant: any answer is taken for the newest. *)
LatestAlways(f) == TRUE
Latest(f) == f.id = epoch
GraphReturns(f) ==
  /\ graphFetches' = graphFetches \ {f}
  /\ IF Latest(f)
     THEN /\ graphLoading' = FALSE /\ graphScope' = f.scope
          /\ \E g \in Answers(f.scope) :
               /\ graph' = g
               /\ Redraw(g, hidden, selectedNode)
     ELSE UNCHANGED <<graphLoading, graphScope, graph, drawVars>>
  /\ UNCHANGED <<shellVars, scope, epoch, graphTimer, fetched, hidden, selectedNode, drawerVars>>

(* Leaving the view: its state is gone, and its shell is closed. *)
LeaveVisualizer(view) ==
  /\ GraphShown /\ view # "visualizer" /\ Navigate(view)
  /\ scope' = AllScope /\ graph' = NoGraph /\ graphScope' = AllScope
  /\ graphLoading' = FALSE /\ graphTimer' = FALSE /\ fetched' = FALSE
  /\ graphFetches' = {} /\ hidden' = {} /\ selectedNode' = NoNode
  /\ layouts' = <<>> /\ layoutError' = FALSE /\ drawn' = Nowhere
  /\ running' = running \ {session} /\ session' = NoNode /\ drawerOpen' = FALSE
  /\ UNCHANGED <<epoch, opening>>

-----------------------------------------------------------------------------
handleToggle(n) ==
  /\ CanvasShown /\ n \in Toggled
  /\ hidden' = IF n \in hidden THEN hidden \ {n} ELSE hidden \cup {n}
  /\ Redraw(graph, hidden', selectedNode)
  /\ UNCHANGED <<shellVars, scope, graphVars, graphTimer, fetched, selectedNode, drawerVars>>

(* A click on a drawn node; one the data no longer has selects nothing. *)
handleNodeClick(n) ==
  /\ CanvasShown /\ n \in DOMAIN drawn
  /\ selectedNode' = IF n \in graph.node THEN n ELSE NoNode
  /\ drawn' = Lights(DOMAIN drawn, graph.edge, selectedNode')
  /\ UNCHANGED <<shellVars, scope, graphVars, graphTimer, fetched, hidden, layouts,
                 layoutError, drawerVars>>

(* A click beside the nodes hides the drawer, and its shell goes on. *)
handlePaneClick ==
  /\ CanvasShown
  /\ selectedNode' = NoNode
  /\ drawn' = Lights(DOMAIN drawn, graph.edge, NoNode)
  /\ drawerOpen' = FALSE
  /\ UNCHANGED <<shellVars, scope, graphVars, graphTimer, fetched, hidden, layouts,
                 layoutError, session, opening, running>>

(* The s key opens a shell in the pod selected, and closes the one open; a *)
(* session that is replaced is closed by the effect on its id.             *)
OpenSession(s) ==
  /\ GraphShown /\ selectedNode # NoNode /\ ~drawerOpen
  /\ s \notin opening \cup running
  /\ drawerOpen' = TRUE /\ session' = s
  /\ opening' = opening \cup {s} /\ running' = running \ {session}
  /\ UNCHANGED <<shellVars, scope, graphVars, graphTimer, fetched, hidden, selectedNode, drawVars>>

SessionOpens(s) ==
  /\ s \in opening
  /\ opening' = opening \ {s} /\ running' \in {running, running \cup {s}}
  /\ UNCHANGED <<shellVars, scope, graphVars, graphTimer, fetched, hidden, selectedNode,
                 drawVars, session, drawerOpen>>

CloseSession ==
  /\ GraphShown /\ drawerOpen
  /\ drawerOpen' = FALSE /\ session' = NoNode /\ running' = running \ {session}
  /\ UNCHANGED <<shellVars, scope, graphVars, graphTimer, fetched, hidden, selectedNode,
                 drawVars, opening>>

GraphNext ==
  \/ OpenVisualizer \/ TimerFires \/ Refetch \/ LayoutReturns \/ handlePaneClick
  \/ \E f \in graphFetches : GraphReturns(f)
  \/ \E ns \in Scopes : ChangeScope(ns)
  \/ \E n \in GraphNodes : handleToggle(n) \/ handleNodeClick(n)
  \/ \E v \in Views : LeaveVisualizer(v)
DrawerNext ==
  \/ \E s \in 1..MaxSessions : OpenSession(s) \/ SessionOpens(s)
  \/ CloseSession

(* The frame, and the links from one of the other views to another. *)
VisualizerFrame ==
  /\ ShellNext \/ (~GraphShown /\ \E v \in Views \ {"visualizer"} : Navigate(v))
  /\ graphConnectionChanges

VisualizerSpec ==
  ShellInit /\ VisualizerInit
  /\ [][GraphNext \/ DrawerNext \/ VisualizerFrame]_<<shellVars, visualizerVars>>

-----------------------------------------------------------------------------
(* What the visualizer keeps has its type, and it spins only while the      *)
(* newest fetch is under way.                                               *)
VisualizerTypeOK ==
  /\ graph.node \subseteq GraphNodes /\ graph.edge \subseteq GraphNodes \X GraphNodes
  /\ DOMAIN drawn \subseteq GraphNodes /\ selectedNode \in GraphNodes \cup {NoNode}
  /\ Len(layouts) <= MaxLayouts
  /\ graphLoading => \E f \in graphFetches : f.id = epoch

(* A graph that has settled is of the namespace chosen: a fetch of an       *)
(* earlier choice, or of before a disconnect, that answers last is thrown   *)
(* away, in whatever order changes, refreshes and answers come.             *)
GraphSettles == (CanvasShown /\ ~graphLoading /\ ~graphTimer) => graphScope = scope

(* A path leads from m to n: no set that has m and that no edge leaves is   *)
(* without n.                                                               *)
LeadsTo(edges, m, n) ==
  \A S \in SUBSET GraphNodes :
    m \in S /\ (\A e \in edges : e[1] \in S => e[2] \in S) => n \in S

(* Every drawn node has the light of the node selected and the edges held   *)
(* now: upstream exactly if a path leads from it to the selected node,      *)
(* downstream if one leads only the other way, however fetches, layouts and *)
(* clicks interleave.                                                       *)
Reference(n) ==
  CASE selectedNode = NoNode -> "none"
    [] n = selectedNode -> "selected"
    [] OTHER -> IF LeadsTo(graph.edge, n, selectedNode) THEN "upstream"
                ELSE IF LeadsTo(graph.edge, selectedNode, n) THEN "downstream" ELSE "dimmed"
HighlightFollowsSelection == \A n \in DOMAIN drawn : drawn[n] = Reference(n)
=============================================================================
