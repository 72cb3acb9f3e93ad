------------------------------- MODULE MCViews -------------------------------
(***************************************************************************)
(* The views of the window for TLC.  One view is mounted at a time, so a   *)
(* behaviour looks at one of them, its focus, together with the window's   *)
(* frame; what the others keep does not change.                            *)
(***************************************************************************)
EXTENDS ExplorerView, ClusterVisualizer, ExplorerTable, ClusterDiff, MCPages, TLC

CONSTANTS n1, n2, n3

vars == <<shellVars, explorerVars, visualizerVars, tableVars, diffVars, listsVars, pagesVars,
          focus>>

(* Three nodes, the third of which is not in the data, as an edge's may be; *)
(* and a namespace whose graph is empty or has lost its nodes.              *)
graphs(ns) ==
  IF ns = AllScope
  THEN {[node |-> {n1, n2}, edge |-> {<<n1, n3>>, <<n3, n1>>, <<n3, n2>>}]}
  ELSE {[node |-> {n1, n2}, edge |-> {<<n2, n1>>}], NoGraph}

rows == {[name |-> 1, age |-> 2, issue |-> FALSE], [name |-> 2, age |-> 1, issue |-> TRUE]}
toggles == [k \in TableKinds |-> IF k = "pods" THEN {"cpu"} ELSE {}]

OwnPages == <<explorerVars, visualizerVars, tableVars, diffVars>>

Init ==
  /\ focus \in {"listing", "panels", "graph", "scopes", "drawer", "table", "compare", "apply"}
             \cup ListFocuses \cup PageFocuses
  /\ ShellInit /\ ExplorerInit /\ VisualizerInit /\ TableInit /\ DiffInit /\ ListsInit /\ PagesInit
  /\ focus = "table" \/ tableKind = "pods"

(* The frame's own steps: all of them, or those that connect. *)
ShellStep ==
  \/ ShellCalls \/ OpenDialog("menu") \/ Escape \/ handleDisconnect \/ DismissError
(* One cluster, and the views that can be left for one another. *)
FrameBound ==
  OneCluster /\ activeView \in {"dashboard", "explorer", "logs", "visualizer"}

(* The explorer's rows against every step of the frame. *)
ListingFocus ==
  /\ focus = "listing" /\ UNCHANGED <<visualizerVars, tableVars, diffVars, listsVars, pagesVars>>
  /\ \/ ShellStep /\ ConnectionChanges
     \/ ListingNext
  /\ FrameBound'

(* The texts and shells asked for, with fewer kinds and one namespace. *)
PanelsBound ==
  selectedKind' # "nodes" /\ namespaceFilter' = AllNamespaces /\ fetchId' < 2
  /\ "kind" \notin dropdowns'
PanelFocus ==
  /\ focus = "panels" /\ UNCHANGED <<visualizerVars, tableVars, diffVars, listsVars, pagesVars>>
  /\ \/ Connecting /\ ConnectionChanges
     \/ ListingNext /\ PanelsBound
     \/ PanelNext
  /\ FrameBound'

(* Nothing is hidden or selected while the frame connects. *)
GraphBound == connects # {} \/ dialogs # {} => hidden = {} /\ selectedNode = NoNode
GraphFocus ==
  /\ focus = "graph" /\ UNCHANGED <<explorerVars, tableVars, diffVars, listsVars, pagesVars>>
  /\ \/ (Connecting \/ Disconnecting) /\ graphConnectionChanges
     \/ GraphNext
  /\ FrameBound' /\ epoch' < 3 /\ GraphBound'

(* Fetches that overlap, of several namespaces: nothing hidden or selected. *)
ScopesFocus ==
  /\ focus = "scopes" /\ UNCHANGED <<explorerVars, tableVars, diffVars, listsVars, pagesVars>>
  /\ \/ (Connecting \/ Disconnecting) /\ graphConnectionChanges
     \/ GraphNext /\ hidden' = {} /\ selectedNode' = NoNode /\ Len(layouts') < 2
  /\ FrameBound'

(* The drawer's shells, with one fetch and nothing hidden. *)
DrawerBound == epoch' < 2 /\ Len(layouts') < 2 /\ hidden' = {}
DrawerFocus ==
  /\ focus = "drawer" /\ UNCHANGED <<explorerVars, tableVars, diffVars, listsVars, pagesVars>>
  /\ \/ Connecting /\ graphConnectionChanges
     \/ GraphNext /\ DrawerBound
     \/ DrawerNext
  /\ FrameBound'

TableFocus ==
  /\ focus = "table"
  /\ UNCHANGED <<shellVars, explorerVars, visualizerVars, diffVars, listsVars, pagesVars>>
  /\ TableNext

(* Two clusters: comparisons while the frame connects, of sides that are   *)
(* not found; and one of sides that are found and live, for the transfers. *)
OtherViews == <<explorerVars, visualizerVars, tableVars, listsVars, pagesVars>>
CompareBound ==
  /\ activeView \in {"dashboard", "diff"}
  /\ result # Unset => ~result.leftExists /\ ~showApply
  /\ diffMode = "historical" => comparing = Unset /\ result = Unset
CompareFocus ==
  /\ focus = "compare" /\ UNCHANGED OtherViews
  /\ \/ Connecting /\ FrameChanges
     \/ DiffNext /\ CompareBound'
ApplyBound ==
  /\ activeView \in {"dashboard", "diff"} /\ connected \in {{}, Contexts}
  /\ left.live /\ right.live /\ diffMode = "cross-cluster"
  /\ result # Unset => result.leftExists /\ result.rightExists
ApplyFocus ==
  /\ focus = "apply" /\ UNCHANGED OtherViews
  /\ DiffNext /\ ApplyBound'

Next ==
  /\ UNCHANGED focus
  /\ \/ ListingFocus \/ PanelFocus \/ GraphFocus \/ ScopesFocus \/ DrawerFocus \/ TableFocus
     \/ CompareFocus \/ ApplyFocus
     \/ ListsNext /\ UNCHANGED <<OwnPages, pagesVars>>
     \/ PagesNext /\ UNCHANGED <<OwnPages, listsVars>>
Spec == Init /\ [][Next]_vars

(* What the view that is looked at keeps has its type. *)
TypeOK ==
  /\ focus \in {"listing", "panels"} => ExplorerTypeOK
  /\ focus \in {"graph", "scopes", "drawer"} => VisualizerTypeOK
  /\ focus = "table" => TableTypeOK
  /\ focus \in {"compare", "apply"} => DiffTypeOK
  /\ focus \in ListFocuses => ListsTypeOK
  /\ PagesTypeOK
=============================================================================
