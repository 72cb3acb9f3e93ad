----------------------------- MODULE ClusterDiff -----------------------------
(***************************************************************************)
(* The comparison of one resource in two clusters, and its transfer from   *)
(* the left one to the right one (ClusterDiff.tsx, SourceSelector.tsx,     *)
(* ActionBar.tsx, ApplyConfirmModal.tsx; ComputeDiff and                   *)
(* ApplyResourceToCluster of app_diff.go).  The left side follows the      *)
(* active cluster, the right side gives way to it, and the selection can   *)
(* change while a result of the old one is shown.  A place stands for a    *)
(* kind and a namespace, a name for the place it was listed in; dropdowns  *)
(* are opened and used in one step.                                        *)
(***************************************************************************)
EXTENDS AppShell

CONSTANTS Places, FirstPlace, Unset

ASSUME DiffAssumption == FirstPlace \in Places

VARIABLES
  contexts,           \* the App's list of clusters, empty until it is answered
  diffMode,           \* "cross-cluster" or "historical"
  left, right,        \* sources: [context, live]
  place, named,       \* the place chosen, and the place the name was listed in
  listed, lists,      \* the place whose names are offered, and those being listed
  loadingResources,
  result,             \* the comparison shown: [request, leftExists, rightExists]
  comparing,          \* the request under way
  diffError,
  saved,              \* what the App keeps for the next time the view is opened
  showApply, applyResult,
  applying            \* "none", "dryRun" or "apply"

selectionVars == <<diffMode, left, right, place, named>>
listingVars == <<listed, lists, loadingResources>>
resultVars == <<result, comparing, diffError>>
applyVars == <<showApply, applying, applyResult>>
diffVars == <<contexts, selectionVars, listingVars, resultVars, saved, applyVars>>

DiffShown == activeView = "diff"
Source == [context : Contexts \cup {NoContext}, live : BOOLEAN]
Selection == [left : Source, right : Source, place : Places, named : Places \cup {Unset}]
Request == [left |-> left, right |-> right, place |-> place, named |-> named]

(* The cluster a side starts with: the active one or the first of the list, *)
(* and for the right side one that is not the left one's.                   *)
ListedContexts == IF contexts = {} THEN {NoContext} ELSE contexts
First == IF activeContext = NoContext THEN ListedContexts ELSE {activeContext}
Others(c) == IF contexts \ {c} = {} THEN ListedContexts ELSE contexts \ {c}

DiffInit ==
  /\ diffMode = "cross-cluster" /\ place = FirstPlace /\ named = Unset
  /\ left = [context |-> NoContext, live |-> TRUE] /\ right = left /\ contexts = {}
  /\ listed = Unset /\ lists = {} /\ loadingResources = FALSE
  /\ result = Unset /\ comparing = Unset /\ diffError = FALSE /\ saved = Unset
  /\ showApply = FALSE /\ applying = "none" /\ applyResult = "none"

(* The two effects that keep the sides apart: the left source follows the  *)
(* active cluster, and a right source that is the same moves on.           *)
(* Mutant: only the left source moves. *)
KeptApartNever(l, r) == {r}
KeptApart(l, r) ==
  IF l.context = r.context /\ l.context # NoContext /\ contexts \ {l.context} # {}
  THEN {[r EXCEPT !.context = c] : c \in contexts \ {l.context}} ELSE {r}
Follow(l, r, active) ==
  /\ left' = IF active = NoContext THEN l ELSE [l EXCEPT !.context = active]
  /\ right' \in KeptApart(left', r)

(* The names of a place are listed in the cluster selected by then: when   *)
(* the place or the left cluster changes, and again whenever the App       *)
(* renders, since the callbacks it passes are new each time; never while   *)
(* neither side has a cluster.                                             *)
List(p) ==
  IF {left'.context, right'.context} = {NoContext} THEN UNCHANGED listingVars
  ELSE lists' = lists \cup {p} /\ loadingResources' = TRUE /\ UNCHANGED listed

(* The App keeps every change of the selection or the result, and renders. *)
Persist ==
  /\ saved' = [left |-> left', right |-> right', place |-> place',
               named |-> named', result |-> result']
  /\ IF saved' # saved THEN List(place') ELSE UNCHANGED listingVars

OpenDiff ==
  /\ ~DiffShown /\ Navigate("diff")
  /\ \E first \in First :
       LET start == [context |-> first, live |-> TRUE]
           from == IF saved = Unset THEN start ELSE saved.left
           base == IF from.context = NoContext THEN first ELSE from.context IN
       \E c \in Others(base) :
         Follow(from, IF saved # Unset /\ saved.right.context # base
                      THEN saved.right ELSE [start EXCEPT !.context = c], activeContext)
  /\ place' = IF saved = Unset THEN FirstPlace ELSE saved.place
  /\ named' = IF saved = Unset THEN Unset ELSE saved.named
  /\ result' = IF saved = Unset THEN Unset ELSE saved.result
  /\ saved' = [left |-> left', right |-> right', place |-> place',
               named |-> named', result |-> result']
  /\ List(place')
  /\ UNCHANGED <<contexts, diffMode, comparing, diffError, applyVars>>

(* ComputeDiff connects to the clusters it needs, and the window is not told. *)
Reached(request) == {s.context : s \in {t \in {request.left, request.right} : t.live}}

(* What is under way goes on in the backend; its answer finds nobody. *)
LeaveDiff(view) ==
  /\ DiffShown /\ view # "diff" /\ activeView' = view
  /\ connected' \in {connected} \cup
       (IF comparing = Unset THEN {} ELSE {connected \cup Reached(comparing)})
  /\ diffMode' = "cross-cluster"
  /\ listed' = Unset /\ lists' = {} /\ loadingResources' = FALSE
  /\ comparing' = Unset /\ diffError' = FALSE
  /\ showApply' = FALSE /\ applying' = "none" /\ applyResult' = "none"
  /\ UNCHANGED <<selected, activeContext, isConnected, namespaces, connecting, connects,
                 dialogs, contexts, left, right, place, named, result, saved>>

(* A step of the frame, which renders the view again; its menu has only the *)
(* clusters that are listed.                                                *)
FrameChanges ==
  /\ UNCHANGED contexts /\ (contexts = {} => connects' = connects)
  /\ IF DiffShown
     THEN /\ IF activeContext' # activeContext THEN Follow(left, right, activeContext')
             ELSE UNCHANGED <<left, right>>
          /\ UNCHANGED <<diffMode, place, named, resultVars, applyVars>>
          /\ saved' = [saved EXCEPT !.left = left', !.right = right']
          /\ List(place)
     ELSE UNCHANGED diffVars

(* The answer to the App's first question, or to a refresh after it failed. *)
(* Nothing is connected yet and no side has a cluster, so nothing follows.  *)
ContextsListed ==
  /\ contexts = {} /\ contexts' = Contexts
  /\ UNCHANGED <<shellVars, selectionVars, listingVars, resultVars, saved, applyVars>>

-----------------------------------------------------------------------------
ToggleMode ==
  /\ DiffShown
  /\ diffMode' = IF diffMode = "historical" THEN "cross-cluster" ELSE "historical"
  /\ UNCHANGED <<shellVars, contexts, left, right, place, named, listingVars, resultVars, saved, applyVars>>

(* The right source's cluster; the left one's cannot be chosen. *)
PickTarget(c) ==
  /\ DiffShown /\ c \in contexts \ {left.context}
  /\ right' = [right EXCEPT !.context = c]
  /\ UNCHANGED <<contexts, left, diffMode, place, named, resultVars, applyVars>>
  /\ Persist /\ UNCHANGED shellVars

(* Live, or a snapshot; back in cross-cluster mode a snapshot stays one. *)
ChooseSource(l, r) ==
  /\ DiffShown
  /\ l \in {[left EXCEPT !.live = v] : v \in BOOLEAN}
  /\ r \in {[right EXCEPT !.live = v] : v \in BOOLEAN}
  /\ (l = left) # (r = right)
  /\ \/ diffMode = "historical"
     \/ (left.live => l.live) /\ (right.live => r.live)
  /\ left' = l /\ right' = r
  /\ UNCHANGED <<contexts, diffMode, place, named, resultVars, applyVars>>
  /\ Persist /\ UNCHANGED shellVars

(* Another kind or namespace clears the name and keeps the result. *)
PickPlace(p) ==
  /\ DiffShown
  /\ place' = p /\ named' = Unset
  /\ UNCHANGED <<contexts, left, right, diffMode, resultVars, applyVars>>
  /\ Persist /\ UNCHANGED shellVars

(* Answers are taken in whatever order they come. *)
ResourcesListed(p) ==
  /\ p \in lists /\ lists' = lists \ {p}
  /\ listed' \in {p, Unset} /\ loadingResources' = FALSE
  /\ UNCHANGED <<shellVars, contexts, selectionVars, resultVars, saved, applyVars>>

PickResource ==
  /\ DiffShown /\ ~loadingResources /\ listed # Unset
  /\ named' = listed
  /\ UNCHANGED <<contexts, left, right, diffMode, place, resultVars, applyVars>>
  /\ Persist /\ UNCHANGED shellVars

handleCompare ==
  /\ DiffShown /\ comparing = Unset /\ NoContext \notin {left.context, right.context}
  /\ IF named = Unset
     THEN diffError' = TRUE /\ UNCHANGED <<result, comparing>>
     ELSE diffError' = FALSE /\ result' = Unset /\ comparing' = Request
  /\ UNCHANGED <<contexts, left, right, diffMode, place, named, applyVars>>
  /\ Persist /\ UNCHANGED shellVars

(* A side that is a snapshot counts as not there. *)
ComputeDiff ==
  /\ DiffShown /\ comparing # Unset
  /\ comparing' = Unset
  /\ \/ /\ connected' \in {connected \cup Reached(comparing), connected}
        /\ \E l \in {FALSE, comparing.left.live}, r \in {FALSE, comparing.right.live} :
             result' = [request |-> comparing, leftExists |-> l, rightExists |-> r]
        /\ diffError' = diffError
     \/ diffError' = TRUE /\ UNCHANGED <<connected, result>>
  /\ UNCHANGED <<contexts, left, right, diffMode, place, named, applyVars>>
  /\ Persist
  /\ UNCHANGED <<selected, activeContext, isConnected, namespaces, connecting, connects,
                 activeView, dialogs>>

-----------------------------------------------------------------------------
ApplyButton ==
  /\ DiffShown /\ result # Unset /\ ~showApply
  /\ showApply' = TRUE
  /\ UNCHANGED <<shellVars, contexts, selectionVars, listingVars, resultVars, saved,
                 applying, applyResult>>

(* The buttons wait for an apply under way; a click beside the dialog does not. *)
CloseApply ==
  /\ showApply
  /\ showApply' = FALSE /\ applyResult' = "none"
  /\ UNCHANGED <<shellVars, contexts, selectionVars, listingVars, resultVars, saved, applying>>

(* The manifest is that of the result shown, the cluster it goes to the one *)
(* selected now: after the selection has changed they need not belong       *)
(* together, and the dialog shows the old differences for the new target.   *)
handleApply(kind) ==
  /\ showApply /\ applying = "none" /\ result # Unset
  /\ applyResult \notin {"applied", "dryRun"}
  /\ applying' = kind /\ applyResult' = "none"
  /\ UNCHANGED <<shellVars, contexts, selectionVars, listingVars, resultVars, saved, showApply>>

(* The read-only mode, kubectl or a missing left manifest may refuse. *)
ApplyReturns ==
  /\ applying # "none"
  /\ applying' = "none"
  /\ applyResult' \in {"failed", IF applying = "dryRun" THEN "dryRun" ELSE "applied"}
  /\ UNCHANGED <<shellVars, contexts, selectionVars, listingVars, resultVars, saved, showApply>>

DiffNext ==
  \/ ContextsListed \/ OpenDiff \/ ToggleMode \/ PickResource \/ handleCompare \/ ComputeDiff
  \/ ApplyButton \/ CloseApply \/ ApplyReturns
  \/ \E v \in Views : LeaveDiff(v)
  \/ \E c \in Contexts : PickTarget(c)
  \/ \E l, r \in Source : ChooseSource(l, r)
  \/ \E p \in Places : PickPlace(p) \/ ResourcesListed(p)
  \/ \E kind \in {"dryRun", "apply"} : handleApply(kind)

(* The frame, and the links from one of the other views to another. *)
DiffFrame ==
  /\ ShellNext \/ (~DiffShown /\ \E v \in Views \ {"diff"} : Navigate(v))
  /\ FrameChanges

DiffSpec == ShellInit /\ DiffInit /\ [][DiffNext \/ DiffFrame]_<<shellVars, diffVars>>

-----------------------------------------------------------------------------
(* The selection has its type, no source that is a snapshot is found to     *)
(* exist, and the App keeps what an open view shows.                        *)
DiffTypeOK ==
  /\ left \in Source /\ right \in Source /\ place \in Places
  /\ named \in Places \cup {Unset} /\ listed \in Places \cup {Unset} /\ lists \subseteq Places
  /\ comparing \in Selection \cup {Unset}
  /\ result # Unset => /\ result.leftExists => result.request.left.live
                       /\ result.rightExists => result.request.right.live
  /\ DiffShown => saved.result = result /\ saved.left = left

(* No side is the other's cluster while another is listed, and no cluster   *)
(* is compared with itself, in the request under way and the result shown:  *)
(* whichever cluster becomes active, whatever was kept from last time and   *)
(* whatever is picked.  What a transfer does it does not say: the result    *)
(* shown may be of other sides than the selected ones.                      *)
SidesDiffer ==
  left.context # NoContext /\ contexts \ {left.context} # {} =>
    /\ left.context # right.context
    /\ comparing # Unset => comparing.left.context # comparing.right.context
    /\ result # Unset => result.request.left.context # result.request.right.context
=============================================================================
