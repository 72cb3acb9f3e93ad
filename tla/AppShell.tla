------------------------------ MODULE AppShell -------------------------------
(***************************************************************************)
(* The window's frame (App.tsx, useAppKeyboard.ts, Navbar, Sidebar): which *)
(* view is mounted, which dialogs are open, and the cluster the window     *)
(* believes it is connected to, against the one the backend has selected   *)
(* (the connected and selected of ActiveCluster).  Calls to the backend    *)
(* are answered in any order, and the menu's keys start a new one while    *)
(* another is still under way, though the menu's button is disabled.       *)
(***************************************************************************)
EXTENDS Naturals, FiniteSets

CONSTANTS Contexts, NoContext, Views,
          MaxConnects  \* bound: connects and disconnects under way together

VARIABLES
  connected, selected,         \* the backend's clusters
  activeContext, isConnected,  \* what the window shows
  namespaces,                  \* the cluster whose namespaces it offers
  connecting,                  \* the menu's button is disabled
  connects,                    \* calls under way
  activeView,
  dialogs                      \* open ones, the cluster menu among them

backendVars == <<connected, selected>>
shellVars == <<connected, selected, activeContext, isConnected, namespaces,
               connecting, connects, activeView, dialogs>>

Dialogs == {"help", "settings", "epics", "menu", "error"}
Steps == {"connect", "list", "disconnect"}
NoCluster == NoContext

ShellInit ==
  /\ connected = {} /\ selected = NoContext
  /\ activeContext = NoContext /\ isConnected = FALSE /\ namespaces = NoContext
  /\ connecting = FALSE /\ connects = {}
  /\ activeView = "dashboard" /\ dialogs = {}

Start(step, x) ==
  /\ Cardinality(connects) < MaxConnects
  /\ [step |-> step, context |-> x] \notin connects
  /\ connects' = connects \cup {[step |-> step, context |-> x]}

(* The cluster menu's entries and its Enter key, which nothing disables. *)
Connect(x) ==
  /\ Start("connect", x)
  /\ connecting' = TRUE /\ dialogs' = dialogs \ {"menu"}
  /\ UNCHANGED <<connected, selected, activeContext, isConnected, namespaces, activeView>>
handleConnect(x) == "menu" \in dialogs /\ Connect(x)

ConnectReturns(x) ==
  /\ [step |-> "connect", context |-> x] \in connects
  /\ connects' = (connects \ {[step |-> "connect", context |-> x]})
                   \cup {[step |-> "list", context |-> x]}
  /\ connected' = connected \cup {x} /\ selected' = x
  /\ UNCHANGED <<activeContext, isConnected, namespaces, connecting, activeView, dialogs>>

(* The namespaces come from whichever cluster is selected by then. *)
NamespacesListed(x) ==
  /\ [step |-> "list", context |-> x] \in connects /\ selected # NoContext
  /\ connects' = connects \ {[step |-> "list", context |-> x]}
  /\ activeContext' = x /\ isConnected' = TRUE /\ namespaces' = selected
  /\ connecting' = FALSE
  /\ UNCHANGED <<connected, selected, activeView, dialogs>>

ConnectFails(x) ==
  \E step \in {"connect", "list"} :
    /\ [step |-> step, context |-> x] \in connects
    /\ connects' = connects \ {[step |-> step, context |-> x]}
    /\ activeContext' = NoContext /\ isConnected' = FALSE /\ namespaces' = NoContext
    /\ connecting' = FALSE /\ dialogs' = dialogs \cup {"error"}
    /\ UNCHANGED <<connected, selected, activeView>>

handleDisconnect ==
  /\ "menu" \in dialogs /\ isConnected /\ activeContext # NoContext
  /\ Start("disconnect", activeContext)
  /\ UNCHANGED <<connected, selected, activeContext, isConnected, namespaces,
                 connecting, activeView, dialogs>>

(* A cluster that is not connected any more is refused, and nothing changes. *)
DisconnectReturns(x) ==
  /\ [step |-> "disconnect", context |-> x] \in connects
  /\ connects' = connects \ {[step |-> "disconnect", context |-> x]}
  /\ connected' = connected \ {x}
  /\ selected' = IF selected = x THEN NoContext ELSE selected
  /\ IF x \in connected
     THEN activeContext' = NoContext /\ isConnected' = FALSE /\ namespaces' = NoContext
     ELSE UNCHANGED <<activeContext, isConnected, namespaces>>
  /\ UNCHANGED <<connecting, activeView, dialogs>>

(* The sidebar, the digit keys and the links of the views themselves. *)
Navigate(view) ==
  /\ activeView' = view
  /\ UNCHANGED <<connected, selected, activeContext, isConnected, namespaces,
                 connecting, connects, dialogs>>

(* The navbar's buttons and the keys for the menu, the settings and help:  *)
(* help and settings keep the keys from opening anything over them.        *)
OpenDialog(d) ==
  /\ d \in Dialogs \ {"error"} /\ d \notin dialogs
  /\ dialogs \cap {"help", "settings"} = {}
  /\ dialogs' = dialogs \cup {d}
  /\ UNCHANGED <<connected, selected, activeContext, isConnected, namespaces,
                 connecting, connects, activeView>>

(* Escape closes one dialog, the topmost of a fixed order; the others have *)
(* their own buttons.                                                      *)
Escape ==
  LET Order == <<"help", "settings", "epics", "menu">>
      Open == {i \in DOMAIN Order : Order[i] \in dialogs}
  IN /\ \E i \in Open : /\ \A j \in Open : i <= j
                        /\ dialogs' = dialogs \ {Order[i]}
     /\ UNCHANGED <<connected, selected, activeContext, isConnected, namespaces,
                    connecting, connects, activeView>>

DismissError ==
  /\ "error" \in dialogs
  /\ dialogs' = dialogs \ {"error"}
  /\ UNCHANGED <<connected, selected, activeContext, isConnected, namespaces,
                 connecting, connects, activeView>>

ShellCalls ==
  \E x \in Contexts : \/ handleConnect(x) \/ ConnectReturns(x) \/ NamespacesListed(x)
                      \/ ConnectFails(x) \/ DisconnectReturns(x)

(* What the frame does of itself while a view stays. *)
ShellNext ==
  \/ ShellCalls \/ Escape \/ handleDisconnect \/ DismissError
  \/ \E d \in Dialogs : OpenDialog(d)
=============================================================================
