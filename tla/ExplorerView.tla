---------------------------- MODULE ExplorerView -----------------------------
(***************************************************************************)
(* The resource explorer (ExplorerView.tsx).  A change of kind, namespace  *)
(* or connection arms a debounce timer, the timer asks for a listing under *)
(* a new number, and only the answer to the last number is kept.  The      *)
(* texts shown for one resource (describe, secret data) and the shells are *)
(* asked for with no such number.  A listing stands for its rows.          *)
(***************************************************************************)
EXTENDS AppShell

CONSTANTS Kinds,      \* "pods", "nodes" and others
          Namespaces, \* of the filter; AllNamespaces among them
          AllNamespaces,
          Nothing,
          MaxFetches, \* bound: listings asked for in one run
          MaxPanels   \* bound: texts and shells asked for in one run

ASSUME ExplorerAssumption == "pods" \in Kinds /\ AllNamespaces \in Namespaces

VARIABLES
  selectedKind, namespaceFilter,  \* kept by the App across views
  resources,       \* the listing whose rows are held, or Nothing
  loading, error, timer, fetchId,
  fetches,         \* listings under way
  selectedRow,     \* a row is selected
  dropdowns,       \* "kind", "namespace": open ones
  menuRow,         \* the row a context menu is open for, or Nothing
  modal,           \* of each panel: the resource it is opened for, or Nothing
  text,            \* of each panel: the resource its text is about, or Nothing
  textLoading,     \* of each panel
  texts,           \* texts under way
  shell,           \* the drawer's terminal session, or Nothing
  shells,          \* sessions running in the backend
  starting,        \* of those, the ones this view waits for
  asked            \* texts and shells asked for so far

rowVars == <<resources, loading, error, timer, fetchId, fetches>>
filterVars == <<selectedKind, namespaceFilter>>
textVars == <<modal, text, textLoading, texts>>
shellSessions == <<shell, shells, starting>>
explorerVars == <<filterVars, rowVars, selectedRow, dropdowns, menuRow, textVars,
                  shellSessions, asked>>

Mounted == activeView = "explorer"
Unscoped == {"nodes", "namespaces"}
Workloads == {"pods", "deployments", "statefulsets", "daemonsets"}
Panels == {"describe", "secret"}

(* The namespace a listing is asked for. *)
Scope(kind, ns) == IF kind \in Unscoped THEN AllNamespaces ELSE ns
Listing == [kind : Kinds, namespace : Namespaces, cluster : Contexts]

(* A row, and the kind it is taken to be of: the one selected by then. *)
Resource(row) == [kind |-> selectedKind, row |-> row]

(* The gates of the table. *)
RowsShown == Mounted /\ isConnected /\ ~loading /\ ~error /\ resources # Nothing

Closed == [p \in Panels |-> Nothing]
Idle == [p \in Panels |-> FALSE]

ExplorerInit ==
  /\ selectedKind = "pods" /\ namespaceFilter = AllNamespaces
  /\ resources = Nothing /\ loading = FALSE /\ error = FALSE /\ timer = FALSE
  /\ fetchId = 0 /\ fetches = {} /\ selectedRow = FALSE /\ dropdowns = {}
  /\ menuRow = Nothing /\ modal = Closed /\ text = Closed /\ textLoading = Idle /\ texts = {}
  /\ shell = Nothing /\ shells = {} /\ starting = {} /\ asked = 0

(* The effect on the connection, the kind and the namespace: the timer is  *)
(* armed again, or the rows are dropped.  What is under way stays.         *)
Refilter(on) ==
  /\ timer' = on
  /\ resources' = IF on THEN resources ELSE Nothing
  /\ selectedRow' = FALSE
  /\ UNCHANGED <<loading, error, fetchId, fetches>>

(* A step of the shell as the mounted explorer sees it. *)
ConnectionChanges ==
  /\ IF Mounted /\ isConnected' # isConnected
     THEN Refilter(isConnected')
     ELSE UNCHANGED <<rowVars, selectedRow>>
  /\ UNCHANGED <<filterVars, dropdowns, menuRow, textVars, shellSessions, asked>>

(* Leaving the view clears its timer and forgets its state; answers under  *)
(* way find nobody, and the drawer's shell is not closed.                  *)
Leave(view) ==
  /\ Mounted /\ view # "explorer" /\ Navigate(view)
  /\ resources' = Nothing /\ loading' = FALSE /\ error' = FALSE /\ timer' = FALSE
  /\ fetches' = {} /\ selectedRow' = FALSE /\ dropdowns' = {} /\ menuRow' = Nothing
  /\ modal' = Closed /\ text' = Closed /\ textLoading' = Idle /\ texts' = {}
  /\ shell' = Nothing /\ starting' = {}
  /\ UNCHANGED <<filterVars, fetchId, shells, asked>>

Enter ==
  /\ ~Mounted /\ Navigate("explorer")
  /\ timer' = isConnected
  /\ UNCHANGED <<filterVars, resources, loading, error, fetchId, fetches, selectedRow,
                 dropdowns, menuRow, textVars, shellSessions, asked>>

(* The timer fires: a listing is asked for under the next number. *)
fetchResources ==
  /\ timer /\ fetchId < MaxFetches
  /\ timer' = FALSE
  /\ fetchId' = fetchId + 1
  /\ fetches' = fetches \cup {[id |-> fetchId', kind |-> selectedKind,
                               namespace |-> Scope(selectedKind, namespaceFilter)]}
  /\ loading' = TRUE /\ error' = FALSE
  /\ UNCHANGED <<shellVars, filterVars, resources, selectedRow, dropdowns, menuRow,
                 textVars, shellSessions, asked>>

(* An answer, of the cluster selected by then: late ones are thrown away. *)
(* Mutant: none is. *)
CurrentAlways(f) == TRUE
Current(f) == f.id = fetchId
ListingReturns(f) ==
  /\ fetches' = fetches \ {f}
  /\ IF Current(f)
     THEN /\ loading' = FALSE
          /\ \/ /\ selected # NoContext
                /\ resources' = [kind |-> f.kind, namespace |-> f.namespace,
                                 cluster |-> selected]
                /\ error' = error
             \/ resources' = Nothing /\ error' = TRUE
          /\ selectedRow' \in {FALSE, selectedRow /\ resources' # Nothing}
     ELSE UNCHANGED <<loading, resources, error, selectedRow>>
  /\ UNCHANGED <<shellVars, filterVars, timer, fetchId, dropdowns, menuRow, textVars,
                 shellSessions, asked>>

(* The arrow keys, the kind's dropdown and the link to a pod's node. *)
SelectKind(kind) ==
  /\ Mounted /\ kind # selectedKind
  /\ selectedKind' = kind
  /\ Refilter(isConnected)
  /\ dropdowns' \in {dropdowns, dropdowns \ {"kind"}}
  /\ UNCHANGED <<shellVars, namespaceFilter, menuRow, textVars, shellSessions, asked>>

SelectNamespace(ns) ==
  /\ Mounted /\ "namespace" \in dropdowns
  /\ namespaceFilter' = ns
  /\ IF ns # namespaceFilter THEN Refilter(isConnected) ELSE UNCHANGED <<rowVars, selectedRow>>
  /\ dropdowns' = dropdowns \ {"namespace"}
  /\ UNCHANGED <<shellVars, selectedKind, menuRow, textVars, shellSessions, asked>>

(* The dropdowns' buttons, and the n key, which opens the namespaces of    *)
(* nodes too, though their button is not there; Escape closes them.        *)
ToggleDropdown(d) ==
  /\ Mounted
  /\ d = "namespace" => selectedKind # "namespaces"
  /\ dropdowns' = IF d \in dropdowns THEN dropdowns \ {d} ELSE dropdowns \cup {d}
  /\ UNCHANGED <<shellVars, filterVars, rowVars, selectedRow, menuRow, textVars,
                 shellSessions, asked>>

(* A click on a row, or the keys that move the selection, which work on    *)
(* the rows held whether or not they are shown.                            *)
SelectRow ==
  /\ Mounted /\ resources # Nothing /\ ~selectedRow
  /\ selectedRow' = TRUE
  /\ UNCHANGED <<shellVars, filterVars, rowVars, dropdowns, menuRow, textVars,
                 shellSessions, asked>>

(* A row's context menu keeps its row until it is used or clicked away. *)
OpenRowMenu ==
  /\ RowsShown
  /\ menuRow' = resources
  /\ UNCHANGED <<shellVars, filterVars, rowVars, selectedRow, dropdowns, textVars,
                 shellSessions, asked>>
CloseRowMenu ==
  /\ menuRow # Nothing
  /\ menuRow' = Nothing
  /\ UNCHANGED <<shellVars, filterVars, rowVars, selectedRow, dropdowns, textVars,
                 shellSessions, asked>>

-----------------------------------------------------------------------------
(* What a row can be asked for, by its menu or, selected, by a key. *)
KeysWork == dropdowns = {} /\ modal["describe"] = Nothing /\ "menu" \notin dialogs
Use(row) ==
  \/ (row = menuRow /\ menuRow' = Nothing)
  \/ (row = resources /\ selectedRow /\ KeysWork /\ UNCHANGED menuRow)

(* handleDescribe and handleViewSecretData. *)
OpenPanel(p, row) ==
  /\ Mounted /\ row # Nothing /\ asked < MaxPanels
  /\ p = "secret" => selectedKind = "secrets"
  /\ Use(row)
  /\ modal' = [modal EXCEPT ![p] = Resource(row)]
  /\ text' = [text EXCEPT ![p] = Nothing]
  /\ textLoading' = [textLoading EXCEPT ![p] = TRUE]
  /\ texts' = texts \cup {[panel |-> p, about |-> Resource(row)]}
  /\ asked' = asked + 1
  /\ UNCHANGED <<shellVars, filterVars, rowVars, selectedRow, dropdowns, shellSessions>>

(* An answer or its error goes to the panel, whatever it is opened for. *)
TextReturns(t) ==
  /\ texts' = texts \ {t}
  /\ text' = [text EXCEPT ![t.panel] = t.about]
  /\ textLoading' = [textLoading EXCEPT ![t.panel] = FALSE]
  /\ UNCHANGED <<shellVars, filterVars, rowVars, selectedRow, dropdowns, menuRow, modal,
                 shellSessions, asked>>

ClosePanel(p) ==
  /\ modal[p] # Nothing
  /\ modal' = [modal EXCEPT ![p] = Nothing]
  /\ UNCHANGED <<shellVars, filterVars, rowVars, selectedRow, dropdowns, menuRow, text,
                 textLoading, texts, shellSessions, asked>>

(* A shell in a running pod replaces the drawer's one, which goes on. *)
OpenShell(row) ==
  /\ Mounted /\ row # Nothing /\ selectedKind = "pods" /\ asked < MaxPanels
  /\ Use(row)
  /\ asked' = asked + 1
  /\ shell' = asked' /\ shells' = shells \cup {asked'}
  /\ starting' = starting \cup {asked'}
  /\ UNCHANGED <<shellVars, filterVars, rowVars, selectedRow, dropdowns, textVars>>

(* A shell that cannot start closes the drawer, whatever it shows. *)
ShellStarts(s) ==
  /\ starting' = starting \ {s}
  /\ UNCHANGED <<shellVars, filterVars, rowVars, selectedRow, dropdowns, menuRow,
                 textVars, asked, shell, shells>>
ShellFails(s) ==
  /\ starting' = starting \ {s}
  /\ shells' = shells \ {s} /\ shell' = Nothing
  /\ UNCHANGED <<shellVars, filterVars, rowVars, selectedRow, dropdowns, menuRow,
                 textVars, asked>>

CloseShell ==
  /\ shell # Nothing
  /\ shells' = shells \ {shell} /\ shell' = Nothing
  /\ UNCHANGED <<shellVars, filterVars, rowVars, selectedRow, dropdowns, menuRow,
                 textVars, asked, starting>>

(* The logs of a workload: the App shows the logs view instead. *)
ShowLogs(row) ==
  /\ Mounted /\ row # Nothing /\ selectedKind \in Workloads
  /\ row = menuRow \/ (row = resources /\ selectedRow /\ KeysWork)
  /\ Leave("logs")

ListingNext ==
  \/ fetchResources \/ Enter
  \/ \E f \in fetches : ListingReturns(f)
  \/ \E k \in Kinds : SelectKind(k)
  \/ \E ns \in Namespaces : SelectNamespace(ns)
  \/ \E d \in {"kind", "namespace"} : ToggleDropdown(d)
  \/ \E v \in Views : Leave(v)
PanelNext ==
  \/ SelectRow \/ OpenRowMenu \/ CloseRowMenu
  \/ \E row \in {menuRow, resources} :
       \/ \E p \in Panels : OpenPanel(p, row)
       \/ OpenShell(row) \/ ShowLogs(row)
  \/ \E t \in texts : TextReturns(t)
  \/ \E p \in Panels : ClosePanel(p)
  \/ \E s \in starting : ShellStarts(s) \/ ShellFails(s)
  \/ CloseShell

(* The frame, and the links from one of the other views to another. *)
ExplorerFrame ==
  /\ ShellNext \/ (~Mounted /\ \E v \in Views \ {"explorer"} : Navigate(v))
  /\ ConnectionChanges

ExplorerSpec ==
  ShellInit /\ ExplorerInit
  /\ [][ListingNext \/ PanelNext \/ ExplorerFrame]_<<shellVars, explorerVars>>

-----------------------------------------------------------------------------
(* A held listing is one of the explorer's, the listings under way carry    *)
(* different numbers up to the last, and the drawer shows one shell.        *)
ExplorerTypeOK ==
  /\ selectedKind \in Kinds /\ namespaceFilter \in Namespaces
  /\ resources \in Listing \cup {Nothing}
  /\ \A f, g \in fetches : f.id \in 1..fetchId /\ (f.id = g.id => f = g)
  /\ shell \in shells \cup {Nothing}
  /\ loading => \E f \in fetches : f.id = fetchId

(* Rows that have settled are of the kind and the namespace selected: an    *)
(* answer that comes late, after the kind, the namespace or the connection  *)
(* has changed, is replaced or thrown away, in whatever order they arrive.  *)
RowsSettle ==
  (RowsShown /\ ~timer) =>
     /\ resources.kind = selectedKind
     /\ resources.namespace = Scope(selectedKind, namespaceFilter)
=============================================================================
