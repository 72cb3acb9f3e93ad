------------------------- MODULE ListViews_proofs ---------------------------
(***************************************************************************)
(* Proofs about the views that list the backend's answers, the page of     *)
(* logs, the dashboard and the first launch: for each what it keeps while  *)
(* it is mounted (Typed), or forgets when it is not (Inv), and that every  *)
(* step of a behaviour that looks at it preserves this.  Views_proofs      *)
(* brings them together.                                                   *)
(***************************************************************************)
EXTENDS MCPages, ClusterVisualizer_proofs, SequenceTheorems

(* The frame's steps leave the view that is mounted. *)
LEMMA FrameKeepsView == Connecting \/ Disconnecting => UNCHANGED activeView
BY DEF Connecting, Disconnecting, handleConnect, Connect, ConnectReturns, NamespacesListed,
       OpenDialog, handleDisconnect, DisconnectReturns

(* The highlight: moved by the keys over the rows counted, and taken away   *)
(* when what it depends on has changed.                                     *)
Within(i, n) == i \in -1..(n - 1) \/ (n = 0 /\ i = 0)

LEMMA IndexMoves ==
  ASSUME NEW n \in Nat, Within(index, n), MoveIndex(n)
  PROVE Within(index', n)
BY DEF Within, MoveIndex

LEMMA IndexResets ==
  ASSUME NEW n \in Nat, NEW m \in Nat, NEW changed \in BOOLEAN, Within(index, n), ResetIf(changed),
         changed \/ m = n
  PROVE Within(index', m)
<1>1. CASE changed
  <2>1. index' = -1
    BY <1>1, Zenon DEF ResetIf
  <2> QED BY <2>1 DEF Within
<1>2. CASE ~changed
  <2>1. index' = index /\ m = n
    BY <1>2, Zenon DEF ResetIf
  <2> QED BY <2>1
<1> QED BY <1>1, <1>2

(* The order of the sort: a header turns it or starts another. *)
Order(fields) == [field : fields, direction : {"asc", "desc"}]

LEMMA OrderTurns ==
  ASSUME NEW fields, NEW s \in Order(fields)
  PROVE Turned(s) \in Order(fields)
BY DEF Order, Turned

(* Rows of each part, replaced by those that came. *)
LEMMA OverriddenRows ==
  ASSUME NEW parts, NEW answered \in SUBSET parts, NEW n \in [answered -> Sizes],
         NEW old \in [parts -> Sizes]
  PROVE Replaced(old, n) \in [parts -> Sizes]
BY DEF Replaced

LEMMA NoRows == ASSUME NEW parts PROVE [p \in parts |-> 0] \in [parts -> Sizes]
BY ListAssumption DEF Sizes

-----------------------------------------------------------------------------
(* GitOps: the highlight is within the part shown. *)
GitOpsTyped ==
  /\ tab \in GitOpsTabs /\ held \in [GitOpsParts -> Sizes] /\ sort \in Order(GitOpsFields)
  /\ Within(index, held[tab])

LEMMA GitOpsIsTyped == GitOpsTypeOK <=> (GitOpsShown => GitOpsTyped)
BY DEF GitOpsTypeOK, GitOpsTyped, IndexWithin, Within, Order

LEMMA GitOpsSteps ==
  ASSUME GitOpsShown => GitOpsTyped, GitOpsFocus
  PROVE (GitOpsShown => GitOpsTyped)'
<1> SUFFICES ASSUME GitOpsShown' PROVE GitOpsTyped'
  OBVIOUS
<1>0. /\ \A t \in GitOpsTabs : t \in GitOpsParts
      /\ \A n \in Sizes : n \in Nat
      /\ 0 \in Sizes
  BY ListAssumption DEF GitOpsParts, Sizes
<1>1. CASE OpenGitOps
  <2>1. tab' = "flux-helm" /\ held' = [p \in GitOpsParts |-> 0] /\ sort' = Ascending("name") /\ index' = -1
    BY <1>1 DEF OpenGitOps, Fresh
  <2>2. held'[tab'] = 0
    BY <2>1, <1>0 DEF GitOpsTabs
  <2> QED BY <2>1, <2>2, NoRows DEF GitOpsTyped, GitOpsTabs, Within, Ascending, Order, GitOpsFields
<1>2. CASE GitOpsShown /\ UNCHANGED <<tab, held, sort, index>>
  BY <1>2 DEF GitOpsTyped
<1>3. CASE GitOpsReturns
  <2>1. held' \in [GitOpsParts -> Sizes]
    BY <1>3, OverriddenRows DEF GitOpsReturns, GitOpsTyped
  <2>2. held[tab] \in Nat /\ held'[tab] \in Nat
    BY <1>0, <1>3, <2>1 DEF GitOpsReturns, GitOpsTyped
  <2>3. Within(index', held'[tab])
    BY <1>3, <2>2, IndexResets DEF GitOpsReturns, GitOpsTyped
  <2> QED BY <1>3, <2>1, <2>3 DEF GitOpsReturns, chosenVars, GitOpsTyped
<1>4. CASE /\ GitOpsShown /\ UNCHANGED <<tab, sort>>
           /\ held' = [p \in GitOpsParts |-> 0] /\ ResetIf(held[tab] # 0)
  <2>1. held[tab] \in Nat /\ held'[tab] = 0
    BY <1>0, <1>4 DEF GitOpsTyped
  <2>2. Within(index', 0)
    BY <1>4, <2>1, IndexResets DEF GitOpsTyped
  <2> QED BY <1>4, <2>1, <2>2, NoRows DEF GitOpsTyped
<1>5. ASSUME NEW t \in GitOpsTabs, ChooseGitOpsTab(t) PROVE GitOpsTyped'
  <2>1. held[tab] \in Nat /\ held[t] \in Nat
    BY <1>0, <1>5 DEF GitOpsTyped, ChooseGitOpsTab
  <2>2. Within(index', held[t])
    BY <1>5, <2>1, IndexResets DEF GitOpsTyped, ChooseGitOpsTab
  <2> QED BY <1>5, <2>2 DEF GitOpsTyped, ChooseGitOpsTab
<1>6. CASE MoveInGitOps
  <2>1. held[tab] \in Nat
    BY <1>0, <1>6 DEF GitOpsTyped, MoveInGitOps
  <2>2. Within(index', held[tab])
    BY <1>6, <2>1, IndexMoves DEF GitOpsTyped, MoveInGitOps
  <2> QED BY <1>6, <2>2 DEF GitOpsTyped, MoveInGitOps, chosenVars
<1>7. ASSUME NEW f \in GitOpsFields, SortGitOps(f) PROVE GitOpsTyped'
  BY <1>7, OrderTurns DEF SortGitOps, SortBy, GitOpsTyped, Ascending, Order
<1>8. ASSUME NEW v \in Views, Unmount("gitops", v) PROVE FALSE
  BY <1>8 DEF Unmount, Navigate, GitOpsShown
<1>9. CASE /\ Connecting \/ Disconnecting
           /\ IF GitOpsShown THEN GitOpsConnection ELSE UNCHANGED listVars
  <2>1. GitOpsShown
    BY <1>9, FrameKeepsView DEF GitOpsShown
  <2> QED BY <1>2, <1>4, <1>9, <2>1 DEF GitOpsConnection, listVars, chosenVars
<1>10. ASSUME NEW ns, ChooseGitOpsNamespace(ns) PROVE GitOpsTyped'
  BY <1>2, <1>4, <1>10 DEF ChooseGitOpsNamespace
<1>11. CASE RefreshGitOps \/ (GitOpsShown /\ Toggle("namespace"))
  BY <1>2, <1>11 DEF RefreshGitOps, Toggle, chosenVars
<1> QED
  BY <1>1, <1>3, <1>5, <1>6, <1>7, <1>8, <1>9, <1>10, <1>11 DEF GitOpsFocus, GitOpsNext

-----------------------------------------------------------------------------
(* Port forwards: only those held are highlighted. *)
ForwardsTyped ==
  /\ held \in [ForwardParts -> Sizes] /\ opened \subseteq {"form", "filled"}
  /\ Within(index, held["forwards"])

LEMMA ForwardsIsTyped == ForwardsTypeOK <=> (ForwardsShown => ForwardsTyped)
BY DEF ForwardsTypeOK, ForwardsTyped, IndexWithin, Within

LEMMA ForwardsSteps ==
  ASSUME ForwardsShown => ForwardsTyped, ForwardsFocus
  PROVE (ForwardsShown => ForwardsTyped)'
<1> SUFFICES ASSUME ForwardsShown' PROVE ForwardsTyped'
  OBVIOUS
<1>0. /\ "forwards" \in ForwardParts /\ "pods" \in ForwardParts
      /\ (\A n \in Sizes : n \in Nat) /\ 0 \in Sizes
  BY ListAssumption DEF ForwardParts, Sizes
<1>1. CASE OpenForwards
  <2>1. held' = [p \in ForwardParts |-> 0] /\ index' = -1 /\ opened' = {}
    BY <1>1 DEF OpenForwards, Fresh
  <2> QED BY <1>0, <2>1, NoRows DEF ForwardsTyped, Within
<1>2. CASE ForwardsShown /\ UNCHANGED <<held, index, opened>>
  BY <1>2 DEF ForwardsTyped
<1>3. ASSUME ForwardsShown, Reload(isConnected) \/ Reload(isConnected'), UNCHANGED opened
      PROVE ForwardsTyped'
  <2>1. CASE UNCHANGED <<held, index>>
    BY <1>2, <1>3, <2>1
  <2>2. CASE held' = [p \in ForwardParts |-> 0] /\ ResetIf(held["forwards"] # 0)
    <3>1. held["forwards"] \in Nat /\ held'["forwards"] = 0
      BY <1>0, <1>3, <2>2 DEF ForwardsTyped
    <3>2. Within(index', 0)
      BY <1>3, <2>2, <3>1, IndexResets DEF ForwardsTyped
    <3> QED BY <1>3, <2>2, <3>1, <3>2, NoRows DEF ForwardsTyped
  <2> QED BY <1>3, <2>1, <2>2 DEF Reload
<1>4. CASE ForwardsReturn
  <2>1. /\ held \in [ForwardParts -> Sizes] /\ Within(index, held["forwards"])
        /\ held["forwards"] \in Nat
    BY <1>0, <1>4 DEF ForwardsReturn, ForwardsTyped
  <2>2. held' \in [ForwardParts -> Sizes]
    BY <1>0, <1>4, <2>1 DEF ForwardsReturn
  <2>3. held'["forwards"] \in Nat
    BY <1>0, <2>2
  <2>4. Within(index', held'["forwards"])
    BY <1>4, <2>1, <2>3, IndexResets DEF ForwardsReturn
  <2> QED BY <1>4, <2>2, <2>4 DEF ForwardsReturn, ForwardsTyped
<1>5. CASE MoveInForwards
  <2>1. held["forwards"] \in Nat
    BY <1>0, <1>5 DEF ForwardsTyped, MoveInForwards
  <2>2. Within(index', held["forwards"])
    BY <1>5, <2>1, IndexMoves DEF ForwardsTyped, MoveInForwards
  <2> QED BY <1>5, <2>2 DEF ForwardsTyped, MoveInForwards
<1>6. CASE ToggleForm \/ FillForm \/ CreateReturns
  BY <1>6 DEF ToggleForm, FillForm, CreateReturns, Toggle, ForwardsTyped
<1>7. CASE Poll \/ handleCreate \/ handleStop \/ StopReturned
  BY <1>2, <1>7 DEF Poll, handleCreate, handleStop, StopReturned
<1>8. ASSUME NEW f, SortForwards(f) PROVE ForwardsTyped'
  BY <1>2, <1>8 DEF SortForwards, SortBy
<1>9. ASSUME NEW v \in Views, Unmount("portforwards", v) PROVE FALSE
  BY <1>9 DEF Unmount, Navigate, ForwardsShown
<1>10. ASSUME NEW ns, FilterPods(ns) PROVE ForwardsTyped'
  BY <1>3, <1>10 DEF FilterPods
<1>11. CASE /\ Connecting \/ Disconnecting
            /\ IF ForwardsShown THEN ForwardsConnection ELSE UNCHANGED listVars
  <2>1. ForwardsShown
    BY <1>11, FrameKeepsView DEF ForwardsShown
  <2> QED BY <1>2, <1>3, <1>11, <2>1 DEF ForwardsConnection, listVars
<1> QED
  BY <1>1, <1>4, <1>5, <1>6, <1>7, <1>8, <1>9, <1>10, <1>11 DEF ForwardsFocus, ForwardsNext

-----------------------------------------------------------------------------
(* The access matrix: only rows held are expanded. *)
RBACTyped == held["matrix"] \in Nat /\ expanded \subseteq 0..(held["matrix"] - 1)
RBACInv == IF RBACShown THEN RBACTyped ELSE RBACInit

LEMMA RBACIsTyped == RBACInv => RBACTypeOK
BY DEF RBACInv, RBACTyped, RBACTypeOK, RBACInit

LEMMA RBACSteps ==
  ASSUME RBACInv, RBACFocus
  PROVE RBACInv'
<1> USE DEF RBACInv, RBACInit
<1>1. CASE OpenRBAC
  BY <1>1 DEF OpenRBAC, Fresh, RBACTyped
<1>2. CASE UNCHANGED <<activeView, held, expanded>>
  BY <1>2 DEF RBACShown, RBACTyped
<1>3. CASE RBACReturns
  <2>1. CASE UNCHANGED <<held, expanded>>
    BY <1>2, <1>3, <2>1 DEF RBACReturns, shellVars
  <2>2. ASSUME NEW n \in Sizes, held' = [matrix |-> n], KeepRows(n) PROVE RBACInv'
    <3>1. n \in Nat /\ held'["matrix"] = n
      BY <2>2, ListAssumption DEF Sizes
    <3>2. RBACShown /\ UNCHANGED activeView
      BY <1>3 DEF RBACReturns, shellVars
    <3>3. \A i \in expanded : i \in Nat
      BY <3>2 DEF RBACTyped
    <3>4. \A i \in expanded' : i \in expanded /\ i < n
      BY <2>2 DEF KeepRows
    <3>5. \A i \in expanded' : i \in 0..(n - 1)
      BY <3>1, <3>3, <3>4
    <3> QED BY <3>1, <3>2, <3>5 DEF RBACShown, RBACTyped
  <2> QED BY <1>3, <2>1, <2>2 DEF RBACReturns
<1>4. ASSUME NEW i, SubjectRow(i) PROVE RBACInv'
  BY <1>4 DEF SubjectRow, RBACShown, shellVars, listVars, RBACTyped
<1>5. ASSUME NEW v \in Views, Unmount("rbac", v), expanded' = {} PROVE RBACInv'
  BY <1>5 DEF Unmount, Navigate, RBACShown
<1>6. CASE /\ Connecting \/ Disconnecting
           /\ IF RBACShown THEN RBACConnection ELSE UNCHANGED rbacVars
  BY <1>2, <1>6, FrameKeepsView DEF RBACConnection, rbacVars, listVars
<1>7. CASE LoadRBAC \/ \E ns \in Filters : ChooseRBACNamespace(ns)
  BY <1>2, <1>7 DEF LoadRBAC, ChooseRBACNamespace, shellVars
<1> QED BY <1>1, <1>3, <1>4, <1>5, <1>6, <1>7 DEF RBACFocus, RBACNext

-----------------------------------------------------------------------------
(* The timeline: at most two snapshots are picked, and they differ. *)
Different(picked) ==
  /\ picked \in Seq(Nat) /\ Len(picked) <= 2
  /\ Len(picked) = 2 => picked[1] # picked[2]

TimelineTyped ==
  /\ tab \in {"events", "snapshots", "diff"} /\ held \in [TimelineParts -> Sizes]
  /\ tab = "diff" => "diff" \in opened
  /\ Different(picks) /\ Within(index, held["events"])
TimelineInv == IF TimelineShown THEN TimelineTyped ELSE TimelineInit

LEMMA TimelineIsTyped == TimelineInv => TimelineTypeOK
BY DEF TimelineInv, TimelineTyped, TimelineTypeOK, Different, IndexWithin, Within

LEMMA NothingPicked == Different(<<>>)
<1>1. <<>> \in Seq(Nat) /\ Len(<<>>) = 0
  OBVIOUS
<1> QED BY <1>1 DEF Different

LEMMA OnePick ==
  ASSUME NEW picked \in Seq(Nat), Len(picked) <= 1
  PROVE Different(picked)
BY DEF Different

(* A third pick drops the first, a repeated one is taken back. *)
LEMMA PicksStayDifferent ==
  ASSUME NEW picked, Different(picked), NEW s \in Nat
  PROVE Different(Repicked(picked, s))
<1>1. picked \in Seq(Nat) /\ Len(picked) \in Nat /\ Len(picked) <= 2
      /\ DOMAIN picked = 1..Len(picked)
  BY DEF Different
<1>2. CASE \E i \in DOMAIN picked : picked[i] = s
  <2>1. picked # <<>>
    BY <1>1, <1>2
  <2>2. Head(picked) \in Nat /\ Tail(picked) \in Seq(Nat) /\ Len(Tail(picked)) = Len(picked) - 1
    BY <1>1, <2>1
  <2>3. Repicked(picked, s) = IF Head(picked) = s THEN Tail(picked) ELSE <<Head(picked)>>
    BY <1>2 DEF Repicked
  <2>4. Different(Tail(picked))
    <3>1. Len(Tail(picked)) <= 1
      BY <1>1, <2>2
    <3> QED BY <2>2, <3>1, OnePick
  <2>5. Different(<<Head(picked)>>)
    BY <2>2 DEF Different
  <2> QED BY <2>3, <2>4, <2>5
<1>3. CASE ~(\E i \in DOMAIN picked : picked[i] = s) /\ Len(picked) >= 2
  <2>1. Repicked(picked, s) = <<picked[2], s>>
    BY <1>3 DEF Repicked
  <2>2. picked[2] \in Nat /\ picked[2] # s
    BY <1>1, <1>3
  <2> QED BY <1>1, <2>1, <2>2 DEF Different
<1>4. CASE ~(\E i \in DOMAIN picked : picked[i] = s) /\ ~(Len(picked) >= 2)
  <2>1. Repicked(picked, s) = Append(picked, s)
    BY <1>4 DEF Repicked
  <2>2. Append(picked, s) \in Seq(Nat) /\ Len(Append(picked, s)) = Len(picked) + 1
    BY <1>1
  <2>3. ASSUME Len(picked) = 1 PROVE Append(picked, s)[1] # Append(picked, s)[2]
    <3>1. /\ \A i \in 1..Len(picked) : Append(picked, s)[i] = picked[i]
          /\ Append(picked, s)[Len(picked) + 1] = s
      <4>1. \A i \in 1..Len(picked) : Append(picked, s)[i] = picked[i]
        BY <1>1
      <4> QED BY <1>1, <4>1, AppendProperties
    <3>2. 1 \in 1..Len(picked) /\ Len(picked) + 1 = 2
      BY <2>3
    <3>3. Append(picked, s)[1] = picked[1] /\ Append(picked, s)[2] = s
      BY <3>1, <3>2, Zenon
    <3>4. picked[1] # s
      BY <1>1, <1>4, <3>2, Zenon
    <3> QED BY <3>3, <3>4, Zenon
  <2> QED BY <1>1, <1>4, <2>1, <2>2, <2>3 DEF Different
<1> QED BY <1>2, <1>3, <1>4

(* The effect that asks anew, or empties the lists without a cluster. *)
LEMMA RenewalKeeps ==
  ASSUME TimelineTyped, UNCHANGED <<tab, picks>>, tab = "diff" => "diff" \in opened',
         NEW pending, Renewed(pending),
         index' = -1 \/ ResetIf(held'["events"] # held["events"])
  PROVE TimelineTyped'
<1>0. "events" \in TimelineParts /\ (\A n \in Sizes : n \in Nat)
  BY DEF TimelineParts, Sizes
<1>1. held \in [TimelineParts -> Sizes] /\ held' \in [TimelineParts -> Sizes]
  BY NoRows DEF TimelineTyped, Renewed
<1>2. held["events"] \in Nat /\ held'["events"] \in Nat
  BY <1>0, <1>1
<1>3. Within(index', held'["events"])
  <2>1. CASE index' = -1
    BY <1>2, <2>1 DEF Within
  <2>2. CASE ResetIf(held'["events"] # held["events"])
    BY <1>2, <2>2, IndexResets DEF TimelineTyped
  <2> QED BY <2>1, <2>2
<1> QED BY <1>1, <1>3 DEF TimelineTyped

(* The timeline's own state is as at first while it is not mounted. *)
LEMMA TimelineSteps ==
  ASSUME TimelineInv, TimelineFocus
  PROVE TimelineInv'
<1>0. /\ "events" \in TimelineParts /\ "snapshots" \in TimelineParts
      /\ (\A n \in Sizes : n \in Nat) /\ 0 \in Sizes
  BY ListAssumption DEF TimelineParts, Sizes
<1>1. CASE OpenTimeline
  <2>1. /\ held' = [p \in TimelineParts |-> 0] /\ index' = -1 /\ tab' = "events" /\ picks' = <<>>
        /\ TimelineShown'
    BY <1>1 DEF OpenTimeline, Fresh, Forgotten, Navigate, TimelineShown
  <2>2. Different(picks') /\ Within(index', held'["events"]) /\ held' \in [TimelineParts -> Sizes]
    BY <1>0, <2>1, NothingPicked, NoRows DEF Within
  <2> QED BY <2>1, <2>2 DEF TimelineInv, TimelineTyped
<1>2. CASE \E v \in Views : CloseTimeline(v)
  BY <1>2 DEF CloseTimeline, Unmount, Navigate, Forgotten, TimelineInv, TimelineInit, TimelineShown
<1>3. CASE UNCHANGED <<activeView, ownVars, tab, held, index, opened>>
  BY <1>3 DEF TimelineInv, TimelineTyped, TimelineInit, TimelineShown, ownVars
<1> USE DEF TimelineShown
<1>4. ASSUME TimelineShown, UNCHANGED <<activeView, tab, picks>>,
             tab = "diff" => "diff" \in opened',
             NEW pending, Renewed(pending),
             index' = -1 \/ ResetIf(held'["events"] # held["events"])
      PROVE TimelineInv'
  BY <1>4, RenewalKeeps DEF TimelineInv
<1>5. ASSUME NEW ns, NEW type, FilterEvents(ns, type) PROVE TimelineInv'
  <2>1. CASE UNCHANGED <<held, index>>
    BY <1>5, <2>1 DEF FilterEvents, TimelineInv, TimelineTyped, shellVars
  <2>2. CASE Renewed(calls) /\ index' = -1
    BY <1>4, <1>5, <2>2 DEF FilterEvents, TimelineInv, TimelineTyped, shellVars
  <2> QED BY <1>5, <2>1, <2>2 DEF FilterEvents
<1>6. CASE ChooseRange
  BY <1>4, <1>6 DEF ChooseRange, TimelineInv, TimelineTyped, shellVars, chosenVars, ownVars
<1>7. CASE NotAvailable \/ \E answer \in BOOLEAN : AvailableReturns(answer)
  <2>1. TimelineShown /\ UNCHANGED <<activeView, tab, picks, opened>>
    BY <1>7 DEF NotAvailable, AvailableReturns, shellVars, chosenVars
  <2>2. TimelineTyped
    BY <2>1 DEF TimelineInv
  <2>3. CASE UNCHANGED <<held, index>>
    BY <2>1, <2>2, <2>3 DEF TimelineInv, TimelineTyped
  <2>4. \/ UNCHANGED <<held, index>>
        \/ \E pending : Renewed(pending) /\ ResetIf(held'["events"] # held["events"])
    BY <1>7 DEF NotAvailable, AvailableReturns
  <2> QED BY <1>4, <2>1, <2>2, <2>3, <2>4 DEF TimelineTyped
<1>8. CASE EventsReturn
  <2>1. TimelineShown /\ UNCHANGED <<activeView, tab, picks, opened>> /\ TimelineTyped
    BY <1>8 DEF EventsReturn, shellVars, chosenVars, ownVars, TimelineInv
  <2>2. CASE UNCHANGED <<held, index>>
    BY <2>1, <2>2 DEF TimelineInv, TimelineTyped
  <2>3. ASSUME NEW n \in Sizes, Arrive("events", n) PROVE TimelineInv'
    <3>1. held' \in [TimelineParts -> Sizes] /\ held \in [TimelineParts -> Sizes]
      BY <2>1, <2>3 DEF Arrive, TimelineTyped
    <3>2. held["events"] \in Nat /\ held'["events"] \in Nat
      BY <1>0, <3>1
    <3>3. Within(index', held'["events"])
      BY <2>1, <2>3, <3>2, IndexResets DEF Arrive, TimelineTyped
    <3> QED BY <2>1, <3>1, <3>3 DEF TimelineInv, TimelineTyped
  <2> QED BY <1>8, <2>2, <2>3 DEF EventsReturn
<1>9. CASE SnapshotsReturn
  <2>1. TimelineShown /\ UNCHANGED <<activeView, tab, picks, opened, index>> /\ TimelineTyped
    BY <1>9 DEF SnapshotsReturn, shellVars, chosenVars, ownVars, TimelineInv
  <2>2. PICK n \in Sizes : held' = [held EXCEPT !["snapshots"] = n]
    BY <1>9 DEF SnapshotsReturn
  <2>3. held' \in [TimelineParts -> Sizes] /\ held'["events"] = held["events"]
    BY <1>0, <2>1, <2>2 DEF TimelineTyped
  <2> QED BY <2>1, <2>3 DEF TimelineInv, TimelineTyped
<1>10. CASE ShowEvents \/ ShowSnapshots \/ BackToSnapshots \/ ComparisonReturns
  BY <1>10 DEF ShowEvents, ShowSnapshots, BackToSnapshots, ComparisonReturns, shellVars, ownVars,
               TimelineInv, TimelineTyped
<1>11. ASSUME NEW s \in 1..MaxItems, toggleSnapshotSelection(s) PROVE TimelineInv'
  <2>1. picks' = Repicked(picks, s) /\ s \in Nat
    BY <1>11, ListAssumption DEF toggleSnapshotSelection
  <2>2. TimelineShown /\ UNCHANGED <<activeView, tab, held, opened, index>> /\ TimelineTyped
    BY <1>11 DEF toggleSnapshotSelection, shellVars, listVars, TimelineInv
  <2>3. Different(picks')
    BY <2>1, <2>2, PicksStayDifferent DEF TimelineTyped
  <2> QED BY <2>2, <2>3 DEF TimelineInv, TimelineTyped
<1>12. CASE MoveInTimeline
  <2>1. TimelineShown /\ TimelineTyped /\ UNCHANGED <<activeView, tab, held, opened, picks>>
    BY <1>12 DEF MoveInTimeline, shellVars, chosenVars, ownVars, TimelineInv
  <2>2. held["events"] \in Nat
    BY <1>0, <2>1 DEF TimelineTyped
  <2>3. Within(index', held["events"])
    BY <1>12, <2>1, <2>2, IndexMoves DEF MoveInTimeline, TimelineTyped
  <2> QED BY <2>1, <2>3 DEF TimelineInv, TimelineTyped
<1>13. CASE /\ TimelineShown /\ UNCHANGED ownVars
            /\ \/ tab = "events" /\ \E panel \in {"range", "auto", "info"} : Toggle(panel)
               \/ tab = "events" /\ \E text \in BOOLEAN : Type(text)
  BY <1>13 DEF Toggle, Type, ownVars, chosenVars, shellVars, TimelineInv, TimelineTyped
<1>14. CASE /\ Connecting \/ Disconnecting
            /\ IF TimelineShown THEN TimelineConnection ELSE UNCHANGED timelineVars
  <2>1. UNCHANGED activeView
    BY <1>14, FrameKeepsView
  <2>2. CASE UNCHANGED timelineVars
    BY <1>3, <2>1, <2>2 DEF timelineVars, listVars, ownVars
  <2>3. CASE TimelineShown /\ TimelineConnection
    <3>1. UNCHANGED <<tab, picks, opened, typeFilter, timelineAvailable>> /\ TimelineTyped
      BY <2>3 DEF TimelineConnection, chosenVars, ownVars, TimelineInv
    <3>2. \/ UNCHANGED <<held, index>>
          \/ Renewed(calls) /\ ResetIf(held'["events"] # held["events"])
      BY <2>3 DEF TimelineConnection
    <3>3. CASE UNCHANGED <<held, index>>
      BY <2>1, <2>3, <3>1, <3>3 DEF TimelineInv, TimelineTyped
    <3> QED BY <1>4, <2>1, <2>3, <3>1, <3>2, <3>3 DEF TimelineTyped
  <2> QED BY <1>14, <2>2, <2>3
<1>15. CASE \/ RefreshEvents \/ CompareSnapshots \/ handleTakeSnapshot \/ SnapshotTaken
            \/ \E f \in EventFields : handleEventSort(f)
  BY <1>3, <1>15 DEF RefreshEvents, CompareSnapshots, handleTakeSnapshot, SnapshotTaken,
       handleEventSort, shellVars, chosenVars, ownVars
<1> QED
  BY <1>1, <1>2, <1>5, <1>6, <1>7, <1>8, <1>9, <1>10, <1>11, <1>12, <1>13, <1>14, <1>15
     DEF TimelineFocus, TimelineNext

-----------------------------------------------------------------------------
(* Security: of each kind of resource the system's rows are among those held, *)
(* and the highlight is within the kind shown.                                *)
Analyses == [loading : BOOLEAN, failed : BOOLEAN, bindings : -1..MaxItems, view : RbacViews,
             selected : 0..MaxItems]

SecurityTyped ==
  /\ tab \in Modes /\ resourceTab \in SecurityTabs
  /\ held \in [SecurityTabs -> Sizes] /\ systemRows \in [SecurityTabs -> Sizes]
  /\ \A t \in SecurityTabs : systemRows[t] <= held[t]
  /\ rbac \in Analyses /\ Within(index, currentList)
SecurityInv == IF SecurityShown THEN SecurityTyped ELSE SecurityInit

LEMMA SecurityIsTyped == SecurityInv => SecurityTypeOK
BY DEF SecurityInv, SecurityTyped, SecurityTypeOK, Analyses, IndexWithin, Within

LEMMA ListIsCounted ==
  resourceTab \in SecurityTabs /\ held \in [SecurityTabs -> Sizes] => currentList \in Nat
BY ListAssumption DEF currentList, Sizes

(* No highlight fits any number of rows. *)
LEMMA NoneIsWithin == ASSUME NEW n \in Nat PROVE Within(-1, n)
BY DEF Within

(* What the view is about, when nothing of it changes. *)
securityKept == <<tab, resourceTab, held, systemRows, rbac, index>>

LEMMA KeptIsTyped == SecurityTyped /\ UNCHANGED securityKept => SecurityTyped'
BY DEF securityKept, SecurityTyped, currentList

(* What changes of an analysis keeps its type. *)
LEMMA AnalysesChange ==
  ASSUME rbac \in Analyses
  PROVE /\ \A b \in BOOLEAN : [rbac EXCEPT !.loading = b] \in Analyses
        /\ [rbac EXCEPT !.loading = TRUE, !.failed = FALSE] \in Analyses
        /\ [rbac EXCEPT !.loading = FALSE, !.failed = TRUE] \in Analyses
        /\ [rbac EXCEPT !.bindings = -1] \in Analyses
        /\ \A n \in Sizes : [rbac EXCEPT !.loading = FALSE, !.bindings = n] \in Analyses
        /\ \A v \in RbacViews : [rbac EXCEPT !.view = v] \in Analyses
        /\ \A b \in 1..MaxItems :
             [rbac EXCEPT !.selected = IF @ = b THEN 0 ELSE b] \in Analyses
<1>1. -1 \in -1..MaxItems /\ \A n \in Sizes : n \in -1..MaxItems
  BY ListAssumption DEF Sizes
<1>2. 0 \in 0..MaxItems /\ \A b \in 1..MaxItems : b \in 0..MaxItems
  BY ListAssumption
<1> QED BY <1>1, <1>2 DEF Analyses

(* Rows, and the analysis, are asked for anew or dropped. *)
LEMMA ReaskKeeps ==
  ASSUME SecurityTyped, tab' \in Modes, UNCHANGED resourceTab,
         NEW connection, NEW mode, Reask(connection, mode),
         index' = -1 \/ (UNCHANGED tab /\ ResetIf(currentList' # currentList))
  PROVE SecurityTyped'
<1>1. /\ held \in [SecurityTabs -> Sizes] /\ systemRows \in [SecurityTabs -> Sizes]
      /\ rbac \in Analyses /\ resourceTab \in SecurityTabs
      /\ \A t \in SecurityTabs : systemRows[t] <= held[t]
  BY DEF SecurityTyped
<1>2. /\ held' \in [SecurityTabs -> Sizes] /\ systemRows' \in [SecurityTabs -> Sizes]
      /\ \A t \in SecurityTabs : systemRows'[t] <= held'[t]
  <2>1. CASE UNCHANGED <<held, systemRows>>
    BY <1>1, <2>1
  <2>2. CASE held' = [t \in SecurityTabs |-> 0] /\ systemRows' = held'
    BY <1>1, <2>2, NoRows
  <2> QED BY <2>1, <2>2 DEF Reask
<1>3. rbac' \in Analyses
  BY <1>1, AnalysesChange DEF Reask, fetchSecurityResources, fetchRBACAnalysis
<1>4. currentList \in Nat /\ currentList' \in Nat
  <2>1. (resourceTab \in SecurityTabs /\ held \in [SecurityTabs -> Sizes] => currentList \in Nat)'
    BY ListIsCounted, PTL
  <2> QED BY <1>1, <1>2, <2>1, ListIsCounted
<1>5. Within(index', currentList')
  <2>1. CASE index' = -1
    BY <1>4, <2>1, NoneIsWithin
  <2>2. CASE ResetIf(currentList' # currentList)
    BY <1>4, <2>2, IndexResets DEF SecurityTyped
  <2> QED BY <2>1, <2>2
<1> QED BY <1>1, <1>2, <1>3, <1>5 DEF SecurityTyped

LEMMA SecuritySteps ==
  ASSUME SecurityInv, isConnected \in BOOLEAN, SecurityFocus
  PROVE SecurityInv'
<1> USE DEF SecurityShown
<1>1. CASE OpenSecurity
  <2>1. /\ ~SecurityShown /\ activeView' = "security" /\ tab' = "rbac" /\ index' = -1
        /\ held' = [t \in SecurityTabs |-> 0] /\ rbac' = [rbac EXCEPT !.loading = isConnected]
        /\ UNCHANGED <<resourceTab, systemRows>>
    BY <1>1 DEF OpenSecurity, Navigate, Fresh
  <2>2. SecurityInit
    BY <2>1 DEF SecurityInv
  <2>3. /\ resourceTab' \in SecurityTabs
        /\ held' \in [SecurityTabs -> Sizes] /\ systemRows' \in [SecurityTabs -> Sizes]
        /\ \A t \in SecurityTabs : systemRows'[t] <= held'[t]
    BY <2>1, <2>2, NoRows, SecurityAssumption DEF SecurityInit
  <2>4. rbac' \in Analyses
    <3>1. rbac \in Analyses
      BY <2>2, ListAssumption DEF SecurityInit, Analyses, RbacViews
    <3> QED BY <2>1, <3>1, AnalysesChange
  <2>5. Within(index', currentList')
    BY <2>1 DEF Within, currentList
  <2> QED BY <2>1, <2>3, <2>4, <2>5 DEF SecurityInv, SecurityTyped, Modes
<1>2. CASE \E v \in Views : CloseSecurity(v)
  BY <1>2 DEF CloseSecurity, Unmount, Navigate, SecurityForgotten, SecurityInv, SecurityInit
<1>3. CASE UNCHANGED <<activeView, listVars, securityOwn>>
  BY <1>3, KeptIsTyped DEF SecurityInv, SecurityInit, listVars, securityOwn, securityKept
<1>4. ASSUME SecurityShown, UNCHANGED <<activeView, securityKept>> PROVE SecurityInv'
  BY <1>4, KeptIsTyped DEF SecurityInv
<1>5. ASSUME SecurityShown, UNCHANGED <<activeView, tab, resourceTab>>,
             NEW connection, NEW mode, Reask(connection, mode),
             ResetIf(currentList' # currentList)
      PROVE SecurityInv'
  BY <1>5, ReaskKeeps DEF SecurityInv, SecurityTyped
<1>6. ASSUME NEW m \in Modes, ChooseMode(m) PROVE SecurityInv'
  BY <1>6, ReaskKeeps DEF ChooseMode, SecurityInv, shellVars
<1>7. ASSUME NEW ns, FilterSecurity(ns) PROVE SecurityInv'
  BY <1>5, <1>7 DEF FilterSecurity, shellVars
<1>8. CASE RefreshSecurity
  <2>1. /\ SecurityShown /\ SecurityTyped
        /\ UNCHANGED <<activeView, tab, held, index, resourceTab, systemRows>>
        /\ rbac' = rbac \/ rbac' = [rbac EXCEPT !.loading = TRUE, !.failed = FALSE]
    BY <1>8 DEF RefreshSecurity, fetchSecurityResources, fetchRBACAnalysis, shellVars, chosenVars,
       SecurityInv
  <2>2. rbac' \in Analyses
    BY <2>1, AnalysesChange DEF SecurityTyped
  <2> QED BY <2>1, <2>2 DEF SecurityInv, SecurityTyped, currentList
<1>9. CASE ResourcesReturn
  <2>1. /\ SecurityShown /\ SecurityTyped
        /\ UNCHANGED <<activeView, tab, resourceTab, rbac>> /\ ResetIf(currentList' # currentList)
    BY <1>9 DEF ResourcesReturn, shellVars, chosenVars, SecurityInv
  <2>2. PICK answered \in SUBSET SecurityTabs : \E n, s \in [answered -> Sizes] :
          /\ \A t \in answered : s[t] <= n[t]
          /\ held' = Replaced(held, n) /\ systemRows' = Replaced(systemRows, s)
    BY <1>9 DEF ResourcesReturn
  <2>3. PICK n \in [answered -> Sizes], s \in [answered -> Sizes] :
          /\ \A t \in answered : s[t] <= n[t]
          /\ held' = Replaced(held, n) /\ systemRows' = Replaced(systemRows, s)
    BY <2>2
  <2>4. held' \in [SecurityTabs -> Sizes] /\ systemRows' \in [SecurityTabs -> Sizes]
    BY <2>1, <2>3, OverriddenRows DEF SecurityTyped
  <2>5. \A t \in SecurityTabs : systemRows'[t] <= held'[t]
    BY <2>1, <2>3 DEF SecurityTyped, Replaced
  <2>6. currentList \in Nat /\ currentList' \in Nat
    <3>1. (resourceTab \in SecurityTabs /\ held \in [SecurityTabs -> Sizes] => currentList \in Nat)'
      BY ListIsCounted, PTL
    <3> QED BY <2>1, <2>4, <3>1, ListIsCounted DEF SecurityTyped
  <2>7. Within(index', currentList')
    BY <2>1, <2>6, IndexResets DEF SecurityTyped
  <2> QED BY <2>1, <2>4, <2>5, <2>7 DEF SecurityInv, SecurityTyped
<1>10. CASE RBACAnalysed \/ (\E v \in RbacViews : ChooseRBACView(v))
              \/ \E b \in 1..MaxItems : SelectBinding(b)
  <2>1. /\ SecurityShown /\ SecurityTyped
        /\ UNCHANGED <<activeView, tab, held, index, resourceTab, systemRows>>
    BY <1>10 DEF RBACAnalysed, ChooseRBACView, SelectBinding, RestOfRBAC, shellVars, chosenVars,
       SecurityInv
  <2>2. rbac' \in Analyses
    <3>1. rbac \in Analyses
      BY <2>1 DEF SecurityTyped
    <3> QED BY <1>10, <3>1, AnalysesChange DEF RBACAnalysed, ChooseRBACView, SelectBinding
  <2> QED BY <2>1, <2>2 DEF SecurityInv, SecurityTyped, currentList
<1>11. ASSUME NEW t \in SecurityTabs, ChooseSecurityTab(t) PROVE SecurityInv'
  <2>1. /\ SecurityShown /\ SecurityTyped /\ tab = "resources" /\ resourceTab' = t
        /\ ResetIf(t # resourceTab) /\ UNCHANGED <<activeView, tab, held, systemRows, rbac>>
    BY <1>11 DEF ChooseSecurityTab, shellVars, chosenVars, SecurityInv
  <2>2. held[resourceTab] \in Nat /\ held[t] \in Nat /\ currentList = held[resourceTab]
        /\ currentList' = held[t]
    BY <2>1, ListAssumption DEF SecurityTyped, currentList, Sizes
  <2>3. Within(index', held[t])
    BY <2>1, <2>2, IndexResets DEF SecurityTyped
  <2> QED BY <2>1, <2>2, <2>3 DEF SecurityInv, SecurityTyped
<1>12. CASE MoveInSecurity
  <2>1. /\ SecurityShown /\ SecurityTyped /\ MoveIndex(currentList)
        /\ UNCHANGED <<activeView, tab, held, resourceTab, systemRows, rbac>>
    BY <1>12 DEF MoveInSecurity, shellVars, chosenVars, securityOwn, SecurityInv
  <2>2. currentList \in Nat /\ currentList' = currentList
    BY <2>1, ListIsCounted DEF SecurityTyped, currentList
  <2>3. Within(index', currentList)
    BY <2>1, <2>2, IndexMoves DEF SecurityTyped
  <2> QED BY <2>1, <2>2, <2>3 DEF SecurityInv, SecurityTyped
<1>13. CASE /\ Connecting \/ Disconnecting
            /\ IF SecurityShown THEN SecurityConnection ELSE UNCHANGED securityVars
  <2>1. UNCHANGED activeView
    BY <1>13, FrameKeepsView
  <2>2. CASE UNCHANGED securityVars
    BY <1>3, <2>1, <2>2 DEF securityVars
  <2>3. CASE SecurityConnection
    <3>1. SecurityShown /\ UNCHANGED <<tab, resourceTab>>
      BY <2>3 DEF SecurityConnection, chosenVars
    <3>2. \/ UNCHANGED <<held, index, systemRows, rbac>>
          \/ Reask(isConnected', tab) /\ ResetIf(currentList' # currentList)
      BY <2>3 DEF SecurityConnection
    <3> QED BY <1>4, <1>5, <2>1, <3>1, <3>2 DEF securityKept
  <2> QED BY <1>13, <2>2, <2>3
<1>14. CASE ShowSystem \/ SearchRBAC \/ handleAiQuery \/ AiReturns \/ ViewYAML \/ CloseYAML
  BY <1>4, <1>14 DEF ShowSystem, SearchRBAC, handleAiQuery, AiReturns, ViewYAML, CloseYAML,
     RestOfRBAC, RowsClickable, shellVars, listVars, chosenVars, securityKept
<1>15. CASE \/ Audit \/ AnalysisModal \/ (\E i \in -1..(MaxItems - 1) : RowMenu(i))
            \/ \E r \in 1..MaxItems : YAMLReturns(r)
  BY <1>4, <1>15 DEF Audit, AnalysisModal, RowMenu, YAMLReturns, RowsClickable, shellVars, listVars,
     chosenVars, securityKept
<1> QED
  BY <1>1, <1>2, <1>6, <1>7, <1>8, <1>9, <1>10, <1>11, <1>12, <1>13, <1>14, <1>15
     DEF SecurityFocus, SecurityNext

-----------------------------------------------------------------------------
(* A sum is taken element by element: one step of the recursion, and that   *)
(* functions g of the subsets go on as it does, the smaller ones first.     *)
Picked(s) == CHOOSE x \in s : TRUE
Added(f, g, s) == IF s = {} THEN 0 ELSE f[Picked(s)] + g[s \ {Picked(s)}]
AddsUp(f, g, S) == g = [s \in SUBSET S |-> Added(f, g, s)]
AddsUpTo(f, g, S, k) ==
  /\ g = [s \in SUBSET S |-> g[s]]
  /\ \A s \in SUBSET S : Cardinality(s) <= k => g[s] = Added(f, g, s)

(* A set without one of its elements is smaller. *)
LEMMA OneLess ==
  ASSUME NEW S, IsFiniteSet(S), NEW s \in SUBSET S
  PROVE /\ IsFiniteSet(s) /\ Cardinality(s) \in Nat /\ Cardinality(s) <= Cardinality(S)
        /\ Cardinality(s) = 0 => s = {}
        /\ s # {} => /\ Picked(s) \in s /\ s \ {Picked(s)} \in SUBSET S
                     /\ Cardinality(s \ {Picked(s)}) = Cardinality(s) - 1
<1>1. IsFiniteSet(s) /\ Cardinality(s) \in Nat /\ Cardinality(s) <= Cardinality(S)
  BY FS_Subset, FS_CardinalityType
<1>2. Cardinality(s) = 0 => s = {}
  BY <1>1, FS_EmptySet
<1>3. s # {} => Picked(s) \in s
  BY DEF Picked
<1>4. s # {} => Cardinality(s \ {Picked(s)}) = Cardinality(s) - 1
  BY <1>1, <1>3, FS_RemoveElement
<1> QED BY <1>1, <1>2, <1>3, <1>4

(* There is a function that adds up, by induction on the size of the sets, *)
LEMMA SumExists ==
  ASSUME NEW S, IsFiniteSet(S), NEW f
  PROVE \E g : AddsUp(f, g, S)
<1> DEFINE T == {k \in Nat : \E g : AddsUpTo(f, g, S, k)}
<1>3. 0 \in T
  <2> DEFINE z == [s \in SUBSET S |-> 0]
  <2>1. \A s \in SUBSET S : Cardinality(s) <= 0 => s = {}
    <3> TAKE s \in SUBSET S
    <3>1. Cardinality(s) \in Nat /\ (Cardinality(s) = 0 => s = {})
      BY OneLess
    <3> QED BY <3>1
  <2>2. AddsUpTo(f, z, S, 0)
    BY <2>1 DEF Added, AddsUpTo
  <2> QED BY <2>2
<1>4. ASSUME NEW k \in Nat, k \in T PROVE k + 1 \in T
  <2>1. PICK g : AddsUpTo(f, g, S, k)
    BY <1>4
  <2> DEFINE h == [s \in SUBSET S |-> Added(f, g, s)]
  <2>2. \A s \in SUBSET S : h[s] = Added(f, g, s)
    OBVIOUS
  <2>3. h = [s \in SUBSET S |-> h[s]]
    OBVIOUS
  <2> HIDE DEF h
  <2>4. \A s \in SUBSET S : Cardinality(s) <= k => h[s] = g[s]
    BY <2>1, <2>2 DEF AddsUpTo
  <2>5. ASSUME NEW s \in SUBSET S, Cardinality(s) <= k + 1 PROVE h[s] = Added(f, h, s)
    <3>1. CASE s = {}
      BY <2>2, <3>1 DEF Added
    <3>2. CASE s # {}
      <4>1. s \ {Picked(s)} \in SUBSET S /\ Cardinality(s \ {Picked(s)}) <= k
        BY <2>5, <3>2, OneLess
      <4>2. h[s \ {Picked(s)}] = g[s \ {Picked(s)}]
        BY <2>4, <4>1
      <4> QED BY <2>2, <3>2, <4>2 DEF Added
    <3> QED BY <3>1, <3>2
  <2>6. AddsUpTo(f, h, S, k + 1)
    BY <2>3, <2>5 DEF AddsUpTo
  <2> QED BY <2>6
<1>5. Cardinality(S) \in T
  <2>1. Cardinality(S) \in Nat
    BY FS_CardinalityType
  <2> HIDE DEF T
  <2> QED BY <2>1, <1>3, <1>4, AllNumbers
<1>6. PICK g : AddsUpTo(f, g, S, Cardinality(S))
  BY <1>5
<1>7. \A s \in SUBSET S : g[s] = Added(f, g, s)
  BY <1>6, OneLess DEF AddsUpTo
<1>8. AddsUp(f, g, S)
  BY <1>6, <1>7 DEF AddsUp, AddsUpTo
<1> QED BY <1>8

(* and its values stay in whatever contains 0 and the values added and is  *)
(* closed under addition; so does the community modules' sum.               *)
LEMMA SumsStay ==
  ASSUME NEW S, IsFiniteSet(S), NEW f, NEW g, AddsUp(f, g, S),
         NEW V, 0 \in V, \A x \in S, v \in V : f[x] + v \in V
  PROVE g[S] \in V
<1> DEFINE T == {k \in Nat : \A s \in SUBSET S : Cardinality(s) = k => g[s] \in V}
<1>0. \A s \in SUBSET S : g[s] = Added(f, g, s)
  BY DEF AddsUp
<1>1. 0 \in T
  <2>1. \A s \in SUBSET S : Cardinality(s) = 0 => s = {}
    BY OneLess
  <2>2. {} \in SUBSET S /\ Added(f, g, {}) = 0
    BY DEF Added
  <2>3. g[{}] = 0
    BY <1>0, <2>2
  <2>4. \A s \in SUBSET S : Cardinality(s) = 0 => g[s] = 0
    BY <2>1, <2>3
  <2> QED BY <2>4
<1>2. ASSUME NEW k \in Nat, k \in T PROVE k + 1 \in T
  <2>1. ASSUME NEW s \in SUBSET S, Cardinality(s) = k + 1 PROVE g[s] \in V
    <3>1. s # {}
      <4>1. Cardinality({}) = 0
        BY FS_EmptySet
      <4> QED BY <2>1, <4>1
    <3>2. Picked(s) \in S /\ g[s \ {Picked(s)}] \in V
      BY <1>2, <2>1, <3>1, OneLess
    <3>3. g[s] = f[Picked(s)] + g[s \ {Picked(s)}]
      BY <1>0, <3>1, <3>2 DEF Added
    <3> QED BY <3>2, <3>3
  <2> QED BY <2>1
<1>3. Cardinality(S) \in Nat
  BY FS_CardinalityType
<1>4. Cardinality(S) \in T
  <2> HIDE DEF T
  <2> QED BY <1>1, <1>2, <1>3, AllNumbers
<1> QED BY <1>4

LEMMA SumStays ==
  ASSUME NEW S, IsFiniteSet(S), NEW f,
         NEW V, 0 \in V, \A x \in S, v \in V : f[x] + v \in V
  PROVE SumFunctionOnSet(f, S) \in V
<1> DEFINE total == CHOOSE g : AddsUp(f, g, S)
<1>1. SumFunctionOnSet(f, S) = total[S]
  BY DEF SumFunctionOnSet, FoldFunctionOnSet, MapThenFoldSet, AddsUp, Added, Picked
<1>2. AddsUp(f, total, S)
  BY SumExists, Zenon
<1> HIDE DEF total
<1>3. total[S] \in V
  BY <1>2, SumsStay
<1> QED BY <1>1, <1>3

-----------------------------------------------------------------------------
(* Issues are counted by category. *)
LEMMA IssuesAreCounted ==
  ASSUME NEW rows, NEW c \in Categories \cup {"all"}
  PROVE /\ (\A p \in Categories : rows[p] \in Nat) => InCategory(rows, c) \in Nat
        /\ (\A p \in Categories : rows[p] = 0) => InCategory(rows, c) = 0
<1> DEFINE S == IF c = "all" THEN Categories ELSE {c}
           f == Restrict(rows, Categories)
<1>1. IsFiniteSet(S) /\ S \subseteq Categories
  BY AnalyzerAssumption, FS_Singleton
<1>2. \A p \in S : f[p] = rows[p]
  BY <1>1 DEF Restrict
<1>3. InCategory(rows, c) = SumFunctionOnSet(f, S)
  BY DEF InCategory
<1> HIDE DEF S, f
<1>4. ASSUME \A p \in Categories : rows[p] \in Nat PROVE InCategory(rows, c) \in Nat
  <2>1. \A p \in S, v \in Nat : f[p] + v \in Nat
    BY <1>1, <1>2, <1>4
  <2> QED BY <1>1, <1>3, <2>1, SumStays
<1>5. ASSUME \A p \in Categories : rows[p] = 0 PROVE InCategory(rows, c) = 0
  <2>1. \A p \in S, v \in {0} : f[p] + v \in {0}
    BY <1>1, <1>2, <1>5
  <2>2. SumFunctionOnSet(f, S) \in {0}
    BY <1>1, <2>1, SumStays
  <2> QED BY <1>3, <2>2
<1> QED BY <1>4, <1>5

(* The count depends on the rows of the categories only. *)
LEMMA SameIssues ==
  ASSUME NEW rows, NEW others, \A p \in Categories : rows[p] = others[p], NEW c
  PROVE InCategory(rows, c) = InCategory(others, c)
<1>1. Restrict(rows, Categories) = Restrict(others, Categories)
  BY DEF Restrict
<1> QED BY <1>1 DEF InCategory

(* The analyzer: the highlight is within the issues of the category chosen, *)
(* of which the search leaves no more.                                      *)
AnalyzerTyped ==
  /\ tab \in Categories \cup {"all"} /\ sort \in Order(AnalyzerFields)
  /\ held \in [AnalyzerParts -> Nat] /\ held["summary"] \in {0, 1}
  /\ held["summary"] = 0 => \A p \in Categories : held[p] = 0
  /\ held["matched"] \in Searched(held, tab, search)
  /\ Within(index, InCategory(held, tab))

LEMMA AnalyzerIsTyped == (AnalyzerShown => AnalyzerTyped) => AnalyzerTypeOK
BY DEF AnalyzerTypeOK, AnalyzerTyped, IndexWithin, Within, Order

(* The keys count the issues that the search leaves. *)
LEMMA IndexMovesUnder ==
  ASSUME NEW n \in Nat, NEW m \in Nat, m <= n, Within(index, n), MoveIndex(m)
  PROVE Within(index', n)
BY DEF Within, MoveIndex

LEMMA SearchLeavesFewer ==
  ASSUME AnalyzerTyped
  PROVE /\ InCategory(held, tab) \in Nat /\ held["matched"] \in Nat
        /\ held["matched"] <= InCategory(held, tab)
<1>1. /\ tab \in Categories \cup {"all"} /\ \A p \in Categories \cup {"matched"} : held[p] \in Nat
      /\ held["matched"] \in Searched(held, tab, search)
  BY DEF AnalyzerTyped, AnalyzerParts
<1>2. InCategory(held, tab) \in Nat
  BY <1>1, IssuesAreCounted
<1> QED BY <1>1, <1>2 DEF Searched

LEMMA AnalyzerSteps ==
  ASSUME AnalyzerShown => AnalyzerTyped, AnalyzerFocus
  PROVE (AnalyzerShown => AnalyzerTyped)'
<1> SUFFICES ASSUME AnalyzerShown' PROVE AnalyzerTyped'
  OBVIOUS
<1>0. /\ "matched" \in AnalyzerParts /\ "summary" \in AnalyzerParts
      /\ \A p \in Categories : p \in AnalyzerParts /\ p # "matched" /\ p # "summary" /\ p # "all"
      /\ \A n \in Sizes : n \in Nat
  BY AnalyzerAssumption, ListAssumption DEF AnalyzerParts, Sizes
<1>1. ASSUME held' = NoSummary, tab' \in Categories \cup {"all"}, sort' \in Order(AnalyzerFields),
             Within(index', 0)
      PROVE AnalyzerTyped'
  <2>1. /\ held' \in [AnalyzerParts -> Nat] /\ held'["summary"] = 0 /\ held'["matched"] = 0
        /\ \A p \in Categories : held'[p] = 0
    BY <1>0, <1>1 DEF NoSummary
  <2>2. InCategory(held', tab') = 0
    BY <1>1, <2>1, IssuesAreCounted
  <2>3. held'["matched"] \in Searched(held', tab', search')
    BY <2>1, <2>2 DEF Searched
  <2> QED BY <1>1, <2>1, <2>2, <2>3 DEF AnalyzerTyped
<1>2. CASE OpenAnalyzer
  BY <1>1, <1>2 DEF OpenAnalyzer, Fresh, NoSummary, Severest, Order, AnalyzerFields, Within
<1>3. CASE AnalyzerShown /\ UNCHANGED <<tab, search, sort, held, index>>
  BY <1>3 DEF AnalyzerTyped
<1>4. CASE /\ Connecting \/ Disconnecting
           /\ IF AnalyzerShown THEN AnalyzerConnection ELSE UNCHANGED listVars
  <2>1. AnalyzerShown /\ AnalyzerTyped
    BY <1>4, FrameKeepsView DEF AnalyzerShown
  <2>2. CASE UNCHANGED <<tab, search, sort, held, index>>
    BY <1>3, <2>1, <2>2
  <2>3. CASE UNCHANGED chosenVars /\ held' = NoSummary /\ ResetIf(held["summary"] = 1)
    <3>1. InCategory(held, tab) \in Nat /\ (held["summary"] # 1 => InCategory(held, tab) = 0)
      BY <2>1, IssuesAreCounted, SearchLeavesFewer DEF AnalyzerTyped
    <3>2. Within(index', 0)
      BY <2>1, <2>3, <3>1, IndexResets DEF AnalyzerTyped
    <3> QED BY <1>1, <2>1, <2>3, <3>2 DEF AnalyzerTyped, chosenVars
  <2> QED BY <1>4, <2>1, <2>2, <2>3 DEF AnalyzerConnection, listVars, chosenVars
<1>5. CASE ScanReturns
  <2>1. AnalyzerShown /\ AnalyzerTyped /\ UNCHANGED <<tab, search, sort>>
    BY <1>5 DEF ScanReturns, chosenVars
  <2>2. CASE UNCHANGED <<held, index>>
    BY <1>3, <2>1, <2>2
  <2>3. ASSUME NEW n \in [Categories -> Sizes], NEW m \in Searched(n, tab, search), index' = -1,
               held' = [p \in AnalyzerParts |-> CASE p = "matched" -> m [] p = "summary" -> 1
                                               [] OTHER -> n[p]]
        PROVE AnalyzerTyped'
    <3>1. /\ held'["matched"] = m /\ held'["summary"] = 1
          /\ \A p \in Categories : held'[p] = n[p] /\ n[p] \in Nat
      BY <1>0, <2>3
    <3>2. /\ InCategory(n, tab) \in Nat
          /\ Searched(held', tab, search) = Searched(n, tab, search)
          /\ InCategory(held', tab) = InCategory(n, tab)
      <4>1. InCategory(held', tab) = InCategory(n, tab)
        BY <3>1, SameIssues
      <4>2. InCategory(n, tab) \in Nat
        BY <2>1, <3>1, IssuesAreCounted DEF AnalyzerTyped
      <4> QED BY <4>1, <4>2 DEF Searched
    <3>3. m \in Nat
      BY <2>3, <3>2 DEF Searched
    <3>4. held' \in [AnalyzerParts -> Nat]
      BY <2>3, <3>1, <3>3 DEF AnalyzerParts
    <3>5. Within(index', InCategory(held', tab))
      BY <2>3, <3>2, NoneIsWithin
    <3> QED BY <2>1, <2>3, <3>1, <3>2, <3>4, <3>5 DEF AnalyzerTyped
  <2> QED BY <1>5, <2>2, <2>3 DEF ScanReturns
<1>6. ASSUME NEW c \in Categories \cup {"all"}, ChooseCategory(c) PROVE AnalyzerTyped'
  <2>1. AnalyzerShown /\ AnalyzerTyped /\ UNCHANGED <<search, sort>> /\ tab' = c /\ ResetIf(c # tab)
    BY <1>6 DEF ChooseCategory
  <2>2. PICK m \in IF c = tab THEN {held["matched"]} ELSE Searched(held, c, search) :
          held' = [held EXCEPT !["matched"] = m]
    BY <1>6 DEF ChooseCategory
  <2>3. m \in Searched(held, c, search)
    BY <2>1, <2>2 DEF AnalyzerTyped
  <2>4. InCategory(held, c) \in Nat
    BY <1>0, <2>1, IssuesAreCounted DEF AnalyzerTyped
  <2>5. m \in Nat
    BY <2>3, <2>4 DEF Searched
  <2>6. /\ held' \in [AnalyzerParts -> Nat] /\ held'["matched"] = m
        /\ held'["summary"] = held["summary"] /\ \A p \in Categories : held'[p] = held[p]
    BY <1>0, <2>1, <2>2, <2>5 DEF AnalyzerTyped
  <2>7. /\ InCategory(held', c) = InCategory(held, c)
        /\ Searched(held', c, search) = Searched(held, c, search)
    BY <2>6, SameIssues DEF Searched
  <2>8. Within(index', InCategory(held', c))
    <3>1. /\ InCategory(held, tab) \in Nat /\ InCategory(held', c) \in Nat
          /\ Within(index, InCategory(held, tab))
          /\ (c # tab) \/ InCategory(held', c) = InCategory(held, tab)
      BY <2>1, <2>4, <2>7, SearchLeavesFewer DEF AnalyzerTyped
    <3> QED BY <2>1, <3>1, IndexResets
  <2> QED BY <2>1, <2>3, <2>6, <2>7, <2>8 DEF AnalyzerTyped
<1>7. ASSUME NEW text, SearchIssues(text) PROVE AnalyzerTyped'
  <2>1. AnalyzerShown /\ AnalyzerTyped /\ UNCHANGED <<tab, sort, index>> /\ search' = text
    BY <1>7 DEF SearchIssues
  <2>2. PICK m \in Searched(held, tab, text) : held' = [held EXCEPT !["matched"] = m]
    BY <1>7 DEF SearchIssues
  <2>3. m \in Nat
    BY <2>1, <2>2, SearchLeavesFewer DEF Searched
  <2>4. /\ held' \in [AnalyzerParts -> Nat] /\ held'["matched"] = m
        /\ held'["summary"] = held["summary"] /\ \A p \in Categories : held'[p] = held[p]
    BY <1>0, <2>1, <2>2, <2>3 DEF AnalyzerTyped
  <2>5. /\ InCategory(held', tab) = InCategory(held, tab)
        /\ Searched(held', tab, text) = Searched(held, tab, text)
    BY <2>4, SameIssues DEF Searched
  <2> QED BY <2>1, <2>2, <2>4, <2>5 DEF AnalyzerTyped
<1>8. CASE MoveInAnalyzer
  <2>1. AnalyzerShown /\ AnalyzerTyped /\ UNCHANGED <<tab, search, sort, held>>
    BY <1>8 DEF MoveInAnalyzer, chosenVars
  <2>2. Within(index', InCategory(held, tab))
    BY <1>8, <2>1, SearchLeavesFewer, IndexMovesUnder DEF MoveInAnalyzer, AnalyzerTyped
  <2> QED BY <2>1, <2>2 DEF AnalyzerTyped
<1>9. ASSUME NEW i, ToggleIssue(i) PROVE AnalyzerTyped'
  <2>1. AnalyzerShown /\ AnalyzerTyped /\ UNCHANGED <<tab, search, sort, held>>
        /\ index' = i /\ i \in 0..(held["matched"] - 1)
    BY <1>9 DEF ToggleIssue, chosenVars
  <2>2. Within(index', InCategory(held, tab))
    BY <2>1, SearchLeavesFewer DEF Within
  <2> QED BY <2>1, <2>2 DEF AnalyzerTyped
<1>10. ASSUME NEW s \in [field : AnalyzerFields, direction : {"asc", "desc"}], SortIssues(s)
       PROVE AnalyzerTyped'
  BY <1>10 DEF SortIssues, AnalyzerTyped, Order
<1>11. ASSUME NEW v \in Views, Unmount("analyzer", v) PROVE FALSE
  BY <1>11 DEF Unmount, Navigate, AnalyzerShown
<1>12. CASE ScanCluster \/ (\E ns \in Filters \cup {NoFilter} : ChooseAnalyzerNamespace(ns))
              \/ (AnalyzerShown /\ \E menu \in {"namespace", "category", "sort"} : Toggle(menu))
  BY <1>3, <1>12 DEF ScanCluster, ChooseAnalyzerNamespace, Toggle, chosenVars
<1> QED
  BY <1>2, <1>4, <1>5, <1>6, <1>7, <1>8, <1>9, <1>10, <1>11, <1>12 DEF AnalyzerFocus, AnalyzerNext

-----------------------------------------------------------------------------
(* The page of logs: beside its types, whose lines the backend keeps. *)
LogsInv == LogsTypeOK /\ buffered \in Target

LEMMA LogsStart == LogsInit => LogsInv
BY DEF LogsInit, LogsInv, LogsTypeOK, Target, PollKinds

(* A start that is added is of the target chosen. *)
LEMMA CallsTyped ==
  ASSUME starts \subseteq [target : LogTargets, mine : BOOLEAN],
         NEW t \in Target, t # NoTarget, startLogs(t)
  PROVE starts' \subseteq [target : LogTargets, mine : BOOLEAN] /\ logs' \in Target
<1>1. [target |-> t, mine |-> TRUE] \in [target : LogTargets, mine : BOOLEAN]
  BY DEF Target
<1>2. \A c \in starts' : c \in starts \/ c = [target |-> t, mine |-> TRUE]
  BY DEF startLogs
<1>3. \A c \in starts' : c \in [target : LogTargets, mine : BOOLEAN]
  BY <1>1, <1>2
<1>4. logs' \in Target
  BY DEF startLogs, Target
<1> QED BY <1>3, <1>4

LEMMA LogsSteps ==
  ASSUME LogsInv, LogsFocus
  PROVE LogsInv'
<1> USE DEF LogsInv, LogsTypeOK, LogsShown, shellVars
<1>0. \A t : PollOf(t) \in PollKinds
  BY DEF PollOf, PollKinds
<1>1. ASSUME NEW t \in Target, OpenLogs(t) PROVE LogsInv'
  <2>1. /\ ~LogsShown /\ activeView' = "logs" /\ selectedPod' = t
        /\ UNCHANGED <<answers, streamed, buffered, poll, lost, isStreaming>>
    BY <1>1 DEF OpenLogs, Navigate, serviceVars
  <2>2. starts' \subseteq [target : LogTargets, mine : BOOLEAN] /\ logs' \in Target
    <3>1. CASE starts' = starts /\ logs' = NoTarget
      BY <3>1 DEF Target
    <3>2. CASE t # NoTarget /\ startLogs(t)
      BY <3>2, CallsTyped
    <3> QED BY <1>1, <3>1, <3>2 DEF OpenLogs
  <2> QED BY <2>1, <2>2
<1>2. CASE onClearPod \/ \E v \in Views : LeaveLogs(v)
  <2>1. /\ activeView' # "logs" /\ selectedPod' \in Target /\ poll' = "none" /\ isStreaming' = FALSE
        /\ logs' = NoTarget /\ answers' = {} /\ lost' = {} /\ UNCHANGED <<streamed, buffered>>
        /\ starts' = {[c EXCEPT !.mine = FALSE] : c \in starts}
    BY <1>2 DEF onClearPod, LeaveLogs, Gone, stopLogs, Navigate, Target
  <2>2. \A c \in starts' : c \in [target : LogTargets, mine : BOOLEAN] /\ ~c.mine
    BY <2>1
  <2> QED BY <2>1, <2>2 DEF Target
<1>3. CASE StopLogStream
  BY <1>3 DEF StopLogStream, pageVars
<1>4. ASSUME NEW c \in starts, StartLogStream(c) PROVE LogsInv'
  <2>1. /\ c \in [target : LogTargets, mine : BOOLEAN] /\ starts' \subseteq starts
        /\ UNCHANGED <<activeView, selectedPod, poll, lost, isStreaming, logs>>
    BY <1>4 DEF StartLogStream, pageVars
  <2>2. streamed' \in {buffered', NoTarget} /\ buffered' \in Target
    BY <1>4, <2>1 DEF StartLogStream, Target
  <2>3. ~LogsShown => answers' = {}
    BY <1>4 DEF StartLogStream
  <2> QED BY <2>1, <2>2, <2>3
<1>5. ASSUME NEW a \in answers, StartReturns(a) PROVE LogsInv'
  <2>1. LogsShown /\ UNCHANGED <<activeView, selectedPod, starts, streamed, buffered, logs>>
    BY <1>5 DEF StartReturns
  <2>2. /\ poll' \in PollKinds \cup {"none"} /\ lost' \subseteq PollKinds
        /\ isStreaming' <=> poll' # "none"
    BY <1>0, <1>5 DEF StartReturns, PollKinds
  <2> QED BY <2>1, <2>2
<1>6. CASE PollLogs \/ scrollToBottom \/ \E near \in BOOLEAN : handleScroll(near)
  BY <1>6 DEF PollLogs, scrollToBottom, handleScroll, serviceVars
<1>7. CASE (Connecting \/ Disconnecting) /\ LogsConnection
  <2>1. UNCHANGED activeView
    BY <1>7, FrameKeepsView
  <2>2. CASE UNCHANGED logsVars
    BY <2>1, <2>2 DEF logsVars, serviceVars, pageVars
  <2>3. CASE /\ LogsShown /\ UNCHANGED <<selectedPod, serviceVars, lost, autoScroll>>
             /\ \E online : Restart(selectedPod, online)
    <3>1. PICK online : Restart(selectedPod, online)
      BY <2>3
    <3>2. /\ poll' = "none" /\ isStreaming' = FALSE
          /\ UNCHANGED <<activeView, selectedPod, answers, streamed, buffered, lost>>
      BY <2>1, <2>3, <3>1 DEF Restart, stopLogs, serviceVars
    <3>3. starts' \subseteq [target : LogTargets, mine : BOOLEAN] /\ logs' \in Target
      <4>1. CASE starts' = starts /\ logs' = logs
        BY <4>1
      <4>2. CASE selectedPod # NoTarget /\ startLogs(selectedPod)
        BY <4>2, CallsTyped
      <4> QED BY <3>1, <4>1, <4>2 DEF Restart
    <3> QED BY <2>3, <3>2, <3>3
  <2> QED BY <1>7, <2>2, <2>3 DEF LogsConnection
<1> QED
  BY <1>1, <1>2, <1>3, <1>4, <1>5, <1>6, <1>7 DEF LogsFocus, LogsNext

-----------------------------------------------------------------------------
(* The dashboard: no scan or snapshot is its own once it is gone. *)
PanelStates == [loading : BOOLEAN, filled : BOOLEAN]
DashboardInv ==
  /\ DashboardTypeOK
  /\ panels \in [DashboardPanels -> PanelStates] /\ panelCalls \in [DashboardPanels -> Nat]
  /\ actions \subseteq [kind : Actions, mine : BOOLEAN]
  /\ ~DashboardShown => panelCalls = NoCalls /\ \A a \in actions : ~a.mine

LEMMA DashboardStarts == ShellInit /\ DashboardInit => DashboardInv
BY DEF ShellInit, DashboardInit, DashboardInv, DashboardTypeOK, Empty, NoCalls, PanelStates, FirstUses,
       DashboardShown

(* What of the dashboard is about its panels, and the rest of it. *)
PanelsFit ==
  /\ panels \in [DashboardPanels -> PanelStates] /\ panelCalls \in [DashboardPanels -> Nat]
  /\ \A p \in DashboardPanels : panels[p].loading => panelCalls[p] > 0
  /\ ~DashboardShown => panels = Empty /\ panelCalls = NoCalls
ActionsFit ==
  /\ scanning <=> [kind |-> "scan", mine |-> TRUE] \in actions
  /\ snapshotLoading <=> [kind |-> "snapshot", mine |-> TRUE] \in actions
  /\ actions \subseteq [kind : Actions, mine : BOOLEAN]
  /\ ~DashboardShown => toasts = 0 /\ \A a \in actions : ~a.mine
CardFits ==
  /\ firstUse \subseteq FirstUses
  /\ DashboardShown /\ isConnected => flags \ {"aiConfigured"} = firstUse

LEMMA DashboardParts == DashboardInv <=> PanelsFit /\ ActionsFit /\ CardFits
BY DEF DashboardInv, DashboardTypeOK, PanelsFit, ActionsFit, CardFits

LEMMA DashboardSteps ==
  ASSUME DashboardInv, isConnected \in BOOLEAN, DashboardFocus
  PROVE DashboardInv'
<1> SUFFICES ASSUME PanelsFit, ActionsFit, CardFits PROVE PanelsFit' /\ ActionsFit' /\ CardFits'
  <2>1. (DashboardInv <=> PanelsFit /\ ActionsFit /\ CardFits)'
    BY DashboardParts, PTL
  <2> QED BY <2>1, DashboardParts
<1> USE DEF DashboardShown, shellVars
<1>1. ASSUME UNCHANGED <<activeView, panelVars>> PROVE PanelsFit'
  BY <1>1 DEF PanelsFit, panelVars, Empty
<1>2. ASSUME UNCHANGED <<activeView, actionVars>> PROVE ActionsFit'
  BY <1>2 DEF ActionsFit, actionVars
<1>3. ASSUME UNCHANGED <<activeView, isConnected, firstUse, queried>> PROVE CardFits'
  BY <1>3 DEF CardFits, flags
<1>4. ASSUME Latch(DashboardShown' /\ isConnected'), UNCHANGED queried PROVE CardFits'
  <2>1. firstUse' \subseteq FirstUses
    BY <1>4 DEF Latch, CardFits, FirstUses
  <2>2. ASSUME DashboardShown', isConnected' PROVE flags' \ {"aiConfigured"} = firstUse'
    <3>1. "connected" \in firstUse' /\ (queried' => "aiQuerySent" \in firstUse')
      BY <1>4, <2>2 DEF Latch
    <3>2. flags' = firstUse' \cup (IF selectedModel' THEN {"aiConfigured"} ELSE {})
      BY <2>2, <3>1 DEF flags
    <3>3. "aiConfigured" \notin firstUse'
      BY <2>1 DEF FirstUses
    <3> HIDE DEF DashboardShown
    <3> QED BY <3>2, <3>3
  <2> QED BY <2>1, <2>2 DEF CardFits
<1>5. ASSUME fetchAll, UNCHANGED activeView, DashboardShown PROVE PanelsFit'
  <2>1. \A p \in DashboardPanels : [panels[p] EXCEPT !.loading = TRUE] \in PanelStates
    BY DEF PanelsFit, PanelStates
  <2>2. \A p \in DashboardPanels : panelCalls[p] + 1 \in Nat /\ panelCalls[p] + 1 > 0
    BY DEF PanelsFit
  <2>3. DashboardShown'
    BY <1>5
  <2> HIDE DEF DashboardShown
  <2>4. panels' \in [DashboardPanels -> PanelStates]
    BY <1>5, <2>1 DEF fetchAll
  <2>5. /\ panelCalls' \in [DashboardPanels -> Nat]
        /\ \A p \in DashboardPanels : panels'[p].loading => panelCalls'[p] > 0
    BY <1>5, <2>2 DEF fetchAll
  <2> QED BY <2>3, <2>4, <2>5 DEF PanelsFit
<1>6. CASE OpenDashboard
  <2>1. /\ activeView' = "dashboard" /\ UNCHANGED <<isConnected, queried, actionVars>>
        /\ ~DashboardShown /\ Latch(isConnected)
        /\ panels' = [p \in DashboardPanels |-> [loading |-> isConnected, filled |-> FALSE]]
        /\ panelCalls' = [p \in DashboardPanels |-> IF isConnected THEN 1 ELSE 0]
    BY <1>6 DEF OpenDashboard, Navigate
  <2>2. PanelsFit'
    <3>1. DashboardShown'
      BY <2>1
    <3>2. \A b \in BOOLEAN : [loading |-> b, filled |-> FALSE] \in PanelStates
      BY DEF PanelStates
    <3> HIDE DEF DashboardShown
    <3>3. panels' \in [DashboardPanels -> PanelStates] /\ panelCalls' \in [DashboardPanels -> Nat]
      BY <2>1, <3>2
    <3>4. \A p \in DashboardPanels : panels'[p].loading => panelCalls'[p] > 0
      BY <2>1
    <3> QED BY <3>1, <3>3, <3>4 DEF PanelsFit
  <2>3. ActionsFit'
    BY <2>1 DEF ActionsFit, actionVars
  <2>4. CardFits'
    BY <1>4, <2>1 DEF Latch
  <2> QED BY <2>2, <2>3, <2>4
<1>7. ASSUME NEW v \in Views, LeaveDashboard(v) PROVE PanelsFit' /\ ActionsFit' /\ CardFits'
  <2>1. PanelsFit'
    BY <1>7 DEF LeaveDashboard, Navigate, PanelsFit, Empty, NoCalls, PanelStates
  <2>2. ActionsFit'
    <3>1. actions' = {[a EXCEPT !.mine = FALSE] : a \in actions}
          /\ scanning' = FALSE /\ snapshotLoading' = FALSE /\ toasts' = 0
      BY <1>7 DEF LeaveDashboard
    <3>2. \A a \in actions' : a \in [kind : Actions, mine : BOOLEAN] /\ ~a.mine
      BY <3>1 DEF ActionsFit
    <3> QED BY <3>1, <3>2 DEF ActionsFit
  <2>3. CardFits'
    BY <1>7 DEF LeaveDashboard, Navigate, CardFits, cardVars
  <2> QED BY <2>1, <2>2, <2>3
<1>8. CASE RefreshDashboard
  <2>1. fetchAll /\ DashboardShown /\ UNCHANGED <<shellVars, actionVars, cardVars, queried>>
    BY <1>8 DEF RefreshDashboard
  <2> QED BY <1>2, <1>3, <1>5, <2>1 DEF cardVars
<1>9. ASSUME NEW p \in DashboardPanels, PanelReturns(p) PROVE PanelsFit' /\ ActionsFit' /\ CardFits'
  <2>1. PICK filled \in BOOLEAN : panels' = [panels EXCEPT ![p] = [loading |-> FALSE, filled |-> filled]]
    BY <1>9 DEF PanelReturns
  <2>2. panelCalls[p] > 0 /\ panelCalls' = [panelCalls EXCEPT ![p] = panelCalls[p] - 1]
        /\ UNCHANGED <<shellVars, actionVars, cardVars, queried>>
    BY <1>9 DEF PanelReturns
  <2>3. PanelsFit'
    <3>1. [loading |-> FALSE, filled |-> filled] \in PanelStates
      BY DEF PanelStates
    <3>2. DashboardShown /\ DashboardShown'
      BY <2>2 DEF PanelsFit, NoCalls
    <3> HIDE DEF DashboardShown
    <3> QED BY <2>1, <2>2, <3>1, <3>2 DEF PanelsFit
  <2> QED BY <1>2, <1>3, <2>2, <2>3 DEF cardVars
<1>10. ASSUME NEW a \in Actions, handleAction(a) PROVE PanelsFit' /\ ActionsFit' /\ CardFits'
  <2>1. /\ DashboardShown /\ scanning' = (scanning \/ a = "scan")
        /\ snapshotLoading' = (snapshotLoading \/ a = "snapshot")
        /\ actions' = actions \cup {[kind |-> a, mine |-> TRUE]}
        /\ UNCHANGED <<shellVars, panelVars, cardVars, queried>>
    BY <1>10 DEF handleAction
  <2>2. ActionsFit'
    <3>1. [kind |-> a, mine |-> TRUE] \in [kind : Actions, mine : BOOLEAN]
      OBVIOUS
    <3>2. \A k \in Actions : [kind |-> k, mine |-> TRUE] \in actions' <=>
             [kind |-> k, mine |-> TRUE] \in actions \/ a = k
      BY <2>1
    <3>3. actions' \subseteq [kind : Actions, mine : BOOLEAN]
      BY <2>1, <3>1 DEF ActionsFit
    <3>4. DashboardShown /\ DashboardShown'
      BY <2>1
    <3> HIDE DEF DashboardShown
    <3> QED BY <2>1, <3>2, <3>3, <3>4 DEF ActionsFit, Actions
  <2> QED BY <1>1, <1>3, <2>1, <2>2 DEF cardVars
<1>11. ASSUME NEW a \in actions, ActionReturns(a) PROVE PanelsFit' /\ ActionsFit' /\ CardFits'
  <2>1. a \in [kind : Actions, mine : BOOLEAN]
    BY DEF ActionsFit
  <2>2. /\ actions' = actions \ {a}
        /\ scanning' = (scanning /\ ~(a.mine /\ a.kind = "scan"))
        /\ snapshotLoading' = (snapshotLoading /\ ~(a.mine /\ a.kind = "snapshot"))
        /\ toasts' = IF a.mine THEN toasts + 1 ELSE toasts
        /\ UNCHANGED <<shellVars, panelCalls, queried>>
    BY <1>11 DEF ActionReturns
  <2>3. ActionsFit'
    BY <2>1, <2>2 DEF ActionsFit, Actions
  <2>4. PICK ok \in BOOLEAN :
          /\ firstUse' = firstUse \cup
               (IF ~ok THEN {} ELSE {IF a.kind = "scan" THEN "securityScanRun" ELSE "snapshotTaken"})
          /\ panels' = IF ok /\ a.mine /\ a.kind = "scan"
                       THEN [panels EXCEPT ![SecurityPanel].filled = TRUE] ELSE panels
    BY <1>11 DEF ActionReturns
  <2>5. CardFits'
    BY <2>2, <2>4 DEF CardFits, flags, FirstUses
  <2>6. PanelsFit'
    <3>1. a.mine => DashboardShown
      BY DEF ActionsFit
    <3> QED BY <2>2, <2>4, <3>1, DashboardAssumption DEF PanelsFit, PanelStates
  <2> QED BY <2>3, <2>5, <2>6
<1>12. CASE ToastExpires
  <2>1. /\ toasts > 0 /\ UNCHANGED <<shellVars, panelVars, scanning, snapshotLoading, actions, cardVars, queried>>
    BY <1>12 DEF ToastExpires
  <2>2. ActionsFit'
    BY <2>1 DEF ActionsFit
  <2> QED BY <1>1, <1>3, <2>1, <2>2 DEF cardVars
<1>13. CASE DismissCard
  BY <1>1, <1>2, <1>3, <1>13 DEF DismissCard
<1>14. CASE Elsewhere
  <2>1. CardFits'
    BY <1>14 DEF Elsewhere, CardFits, cardVars
  <2> QED BY <1>1, <1>2, <1>14, <2>1 DEF Elsewhere
<1>15. CASE (Connecting \/ Disconnecting) /\ DashboardConnection
  <2>1. UNCHANGED <<activeView, actionVars, queried>> /\ Latch(DashboardShown' /\ isConnected')
    BY <1>15, FrameKeepsView DEF DashboardConnection
  <2>2. PanelsFit'
    <3>1. CASE UNCHANGED panelVars
      BY <1>1, <2>1, <3>1
    <3>2. CASE DashboardShown /\ fetchAll
      BY <1>5, <2>1, <3>2
    <3>3. CASE /\ DashboardShown /\ UNCHANGED panelCalls
               /\ panels' = [p \in DashboardPanels |-> [panels[p] EXCEPT !.filled = FALSE]]
      BY <2>1, <3>3 DEF PanelsFit, PanelStates
    <3> QED BY <1>15, <3>1, <3>2, <3>3 DEF DashboardConnection
  <2> QED BY <1>2, <1>4, <2>1, <2>2
<1> QED
  BY <1>6, <1>7, <1>8, <1>9, <1>10, <1>11, <1>12, <1>13, <1>14, <1>15
     DEF DashboardFocus, DashboardNext

-----------------------------------------------------------------------------
(* The first launch: a choice is remembered before a hook takes it for given *)
(* or a connect is tracked, and never taken back.                            *)
Consented == stored \in {"granted", "denied"}
OnboardingInv ==
  /\ wizard \in {0} \cup STEP_LABELS /\ tour \in TOUR_STEPS /\ stored \in Consent
  /\ consents \in [Hooks -> Consent \cup {"unmounted"}] /\ consents["app"] \in Consent
  /\ consents["query"] # "unmounted" <=> activeView = "query"
  /\ consents["settings"] # "unmounted" => "settings" \in dialogs
  /\ showTelemetryConsent \/ wizard = 0 => completed
  /\ completed \in BOOLEAN
  /\ \A h \in Hooks : consents[h] = "granted" => Consented
  /\ tracked # {} => Consented
  /\ sent \subseteq {"granted", "denied"}

LEMMA OnboardingStarts == ShellInit /\ OnboardingInit => OnboardingInv
<1> SUFFICES ASSUME ShellInit, OnboardingInit PROVE OnboardingInv
  OBVIOUS
<1>1. /\ stored = "pending" /\ completed = FALSE /\ wizard = 1 /\ tour = 1 /\ tracked = {} /\ sent = {}
      /\ showTelemetryConsent = FALSE /\ activeView = "dashboard"
      /\ consents = [app |-> "pending", settings |-> "unmounted", query |-> "unmounted"]
  BY DEF ShellInit, OnboardingInit, OnlyApp, readConsent
<1>2. /\ consents \in [Hooks -> Consent \cup {"unmounted"}] /\ consents["app"] \in Consent
      /\ consents["query"] = "unmounted" /\ consents["settings"] = "unmounted"
      /\ \A h \in Hooks : consents[h] # "granted"
  BY <1>1 DEF Hooks, Consent
<1>3. wizard \in {0} \cup STEP_LABELS /\ tour \in TOUR_STEPS
  BY <1>1 DEF STEP_LABELS, TOUR_STEPS
<1>4. stored \in Consent
  BY <1>1 DEF Consent
<1>5. \A h \in Hooks : consents[h] = "granted" => Consented
  BY <1>2
<1>6. consents["query"] # "unmounted" <=> activeView = "query"
  BY <1>1, <1>2
<1>7. ~showTelemetryConsent /\ completed \in BOOLEAN
  BY <1>1, Zenon
<1>9. wizard # 0
  BY <1>1
<1>8. (tracked # {} => Consented) /\ sent \subseteq {"granted", "denied"}
  BY <1>1
<1> HIDE DEF Hooks, Consent
<1> QED BY <1>2, <1>3, <1>4, <1>5, <1>6, <1>7, <1>8, <1>9 DEF OnboardingInv

LEMMA OnboardingIsTyped == OnboardingInv => OnboardingTypeOK
BY DEF OnboardingInv, OnboardingTypeOK, Consented

(* A hook that is mounted or takes an answer. *)
ConsentsFit ==
  /\ consents \in [Hooks -> Consent \cup {"unmounted"}] /\ consents["app"] \in Consent
  /\ consents["query"] # "unmounted" <=> activeView = "query"
  /\ consents["settings"] # "unmounted" => "settings" \in dialogs
  /\ \A h \in Hooks : consents[h] = "granted" => Consented
WizardFits ==
  /\ wizard \in {0} \cup STEP_LABELS /\ tour \in TOUR_STEPS
  /\ showTelemetryConsent \/ wizard = 0 => completed
  /\ completed \in BOOLEAN
EventsFit ==
  /\ stored \in Consent /\ sent \subseteq {"granted", "denied"}
  /\ tracked # {} => Consented

LEMMA OnboardingParts == OnboardingInv <=> ConsentsFit /\ WizardFits /\ EventsFit
BY DEF OnboardingInv, ConsentsFit, WizardFits, EventsFit

LEMMA OnboardingSteps ==
  ASSUME OnboardingInv, OnboardingFocus
  PROVE OnboardingInv'
<1> SUFFICES ASSUME ConsentsFit, WizardFits, EventsFit PROVE ConsentsFit' /\ WizardFits' /\ EventsFit'
  <2>1. (OnboardingInv <=> ConsentsFit /\ WizardFits /\ EventsFit)'
    BY OnboardingParts, PTL
  <2> QED BY <2>1, OnboardingParts
<1>1. ASSUME UNCHANGED <<consents, activeView, stored>>, "settings" \in dialogs => "settings" \in dialogs'
      PROVE ConsentsFit'
  BY <1>1 DEF ConsentsFit, Consented
<1>2. ASSUME UNCHANGED <<wizardVars, showTelemetryConsent>> PROVE WizardFits'
  BY <1>2 DEF WizardFits, wizardVars
<1>3. ASSUME UNCHANGED <<stored, sent, tracked>> PROVE EventsFit'
  BY <1>3 DEF EventsFit, Consented
<1>4. CASE OpenOnboarding \/ NextStep \/ (\E i \in TOUR_STEPS : ShowTourStep(i)) \/ onFinish
  <2>1. UNCHANGED <<shellVars, stored, consents, tracked, sent>>
    BY <1>4 DEF OpenOnboarding, NextStep, ShowTourStep, onFinish, consentVars
  <2>2. wizard' \in {0} \cup STEP_LABELS /\ tour' \in TOUR_STEPS
    <3>1. CASE OpenOnboarding \/ onFinish
      BY <3>1 DEF OpenOnboarding, onFinish, WizardFits, STEP_LABELS, TOUR_STEPS
    <3>2. CASE NextStep
      BY <3>2 DEF NextStep, WizardFits, STEP_LABELS, TOUR_STEPS
    <3>3. CASE \E i \in TOUR_STEPS : ShowTourStep(i)
      BY <3>3 DEF ShowTourStep, WizardFits
    <3> QED BY <1>4, <3>1, <3>2, <3>3
  <2>3. /\ showTelemetryConsent' \/ wizard' = 0 => completed'
        /\ completed' \in BOOLEAN
    <3>1. CASE NextStep
      BY <3>1 DEF NextStep, consentVars, WizardFits
    <3>2. CASE onFinish
      BY <3>2 DEF onFinish
    <3>3. CASE OpenOnboarding \/ \E i \in TOUR_STEPS : ShowTourStep(i)
      BY <3>3 DEF OpenOnboarding, ShowTourStep, consentVars, WizardFits
    <3> QED BY <1>4, <3>1, <3>2, <3>3
  <2>4. WizardFits'
    BY <2>2, <2>3 DEF WizardFits
  <2> QED BY <1>1, <1>3, <2>1, <2>4 DEF shellVars
<1>5. ASSUME NEW x \in Contexts, WizardConnect(x) \/ TrackedConnect(x)
      PROVE ConsentsFit' /\ WizardFits' /\ EventsFit'
  <2>1. /\ activeView' = activeView /\ dialogs' = dialogs \ {"menu"}
        /\ tracked' = IF consents["app"] = "granted" THEN tracked \cup {x} ELSE tracked \ {x}
        /\ UNCHANGED <<wizardVars, stored, consents, showTelemetryConsent, sent>>
    BY <1>5 DEF WizardConnect, TrackedConnect, handleConnect, Connect
  <2>2. EventsFit'
    BY <2>1 DEF EventsFit, ConsentsFit, Hooks, Consented
  <2> QED BY <1>1, <1>2, <2>1, <2>2
<1>6. ASSUME NEW x \in Contexts, TrackedSuccess(x) PROVE ConsentsFit' /\ WizardFits' /\ EventsFit'
  <2>1. /\ UNCHANGED <<activeView, dialogs, wizardVars, stored, consents, showTelemetryConsent>>
        /\ tracked' = tracked \ {x}
        /\ sent' = IF x \in tracked THEN sent \cup {stored} ELSE sent
    BY <1>6 DEF TrackedSuccess, NamespacesListed
  <2>2. EventsFit'
    BY <2>1 DEF EventsFit, Consented
  <2> QED BY <1>1, <1>2, <2>1, <2>2
<1>7. ASSUME NEW x \in Contexts, ConnectReturns(x) \/ ConnectFails(x), UNCHANGED onboardingVars
      PROVE ConsentsFit' /\ WizardFits' /\ EventsFit'
  BY <1>1, <1>2, <1>3, <1>7 DEF ConnectReturns, ConnectFails, onboardingVars, wizardVars
<1>8. ASSUME NEW hook \in {"app", "settings"}, NEW answer \in {"granted", "denied"}, Record(hook, answer),
             UNCHANGED shellVars, hook = "app" \/ "settings" \in dialogs,
             showTelemetryConsent' => showTelemetryConsent
      PROVE ConsentsFit' /\ WizardFits' /\ EventsFit'
  <2>1. ConsentsFit'
    <3>1. /\ stored' = answer /\ consents' = [consents EXCEPT ![hook] = answer]
          /\ UNCHANGED <<activeView, dialogs>>
      BY <1>8 DEF Record, shellVars
    <3>2. hook \in Hooks /\ answer \in Consent /\ answer # "unmounted" /\ hook # "query"
      BY DEF Hooks, Consent
    <3>3. consents' \in [Hooks -> Consent \cup {"unmounted"}] /\ consents'["app"] \in Consent
      BY <3>1, <3>2 DEF ConsentsFit, Hooks
    <3>4. consents'["query"] = consents["query"]
          /\ (consents'["settings"] # "unmounted" => hook = "settings" \/ consents["settings"] # "unmounted")
      BY <3>1, <3>2 DEF ConsentsFit, Hooks
    <3>5. Consented'
      BY <3>1 DEF Consented
    <3> QED BY <1>8, <3>1, <3>3, <3>4, <3>5 DEF ConsentsFit
  <2>2. WizardFits' /\ EventsFit'
    <3>1. /\ UNCHANGED <<wizard, tour, completed, sent>> /\ stored' = answer
      BY <1>8 DEF Record, wizardVars
    <3>2. WizardFits'
      BY <1>8, <3>1 DEF WizardFits
    <3>3. EventsFit'
      BY <3>1 DEF EventsFit, Consented, Consent
    <3> QED BY <3>2, <3>3
  <2> QED BY <2>1, <2>2
<1>9. ASSUME NEW answer \in Consent, AnswerConsent(answer)
      PROVE ConsentsFit' /\ WizardFits' /\ EventsFit'
  BY <1>8, <1>9 DEF AnswerConsent
<1>10. CASE ToggleTelemetry
  BY <1>8, <1>10 DEF ToggleTelemetry
<1>11. CASE ShowTelemetrySettings \/ LeaveTelemetrySettings
  <2>1. /\ UNCHANGED <<activeView, dialogs, wizardVars, stored, showTelemetryConsent, tracked, sent>>
        /\ "settings" \in dialogs
        /\ consents' \in {[consents EXCEPT !["settings"] = stored],
                          [consents EXCEPT !["settings"] = "unmounted"]}
    BY <1>11 DEF ShowTelemetrySettings, LeaveTelemetrySettings, useTelemetry, readConsent, shellVars
  <2>2. ConsentsFit'
    BY <2>1 DEF ConsentsFit, EventsFit, Consented, Hooks
  <2> QED BY <1>2, <1>3, <2>1, <2>2
<1>12. CASE AskQuestion
  <2>1. /\ UNCHANGED <<activeView, dialogs, wizardVars, stored, consents, showTelemetryConsent, tracked>>
        /\ sent' = sent \cup (IF consents["query"] = "granted" THEN {stored} ELSE {})
    BY <1>12 DEF AskQuestion, track, shellVars
  <2>2. EventsFit'
    BY <2>1 DEF EventsFit, ConsentsFit, Consented, Hooks
  <2> QED BY <1>1, <1>2, <2>1, <2>2
<1>13. ASSUME OpenQuery \/ \E v \in Views : LeaveQuery(v)
       PROVE ConsentsFit' /\ WizardFits' /\ EventsFit'
  <2>1. /\ UNCHANGED <<dialogs, wizardVars, stored, showTelemetryConsent, tracked, sent>>
        /\ \/ activeView' = "query" /\ consents' = [consents EXCEPT !["query"] = stored]
           \/ activeView' # "query" /\ consents' = [consents EXCEPT !["query"] = "unmounted"]
    BY <1>13 DEF OpenQuery, LeaveQuery, useTelemetry, readConsent, Navigate
  <2>2. ConsentsFit'
    BY <2>1 DEF ConsentsFit, EventsFit, Consented, Hooks, Consent
  <2> QED BY <1>2, <1>3, <2>1, <2>2
<1>14. CASE DialogsChange
  <2>1. /\ UNCHANGED <<activeView, wizardVars, stored, showTelemetryConsent, tracked, sent>>
        /\ consents' = IF "settings" \in dialogs' THEN consents
                       ELSE [consents EXCEPT !["settings"] = "unmounted"]
    BY <1>14 DEF DialogsChange, OpenDialog, Escape, DismissError
  <2>2. ConsentsFit'
    BY <2>1 DEF ConsentsFit, Consented, Hooks
  <2> QED BY <1>2, <1>3, <2>1, <2>2
<1>15. CASE Relaunch
  <2>1. /\ activeView' = "dashboard" /\ wizard' = (IF completed THEN 0 ELSE 1) /\ tour' = 1
        /\ consents' = [app |-> stored, settings |-> "unmounted", query |-> "unmounted"]
        /\ showTelemetryConsent' = FALSE /\ tracked' = {} /\ sent' = {} /\ UNCHANGED <<stored, completed>>
    BY <1>15 DEF Relaunch, OnlyApp, readConsent
  <2>2. ConsentsFit'
    BY <2>1 DEF ConsentsFit, EventsFit, Consented, Hooks, Consent
  <2>3. WizardFits' /\ EventsFit'
    BY <2>1 DEF WizardFits, EventsFit, STEP_LABELS, TOUR_STEPS
  <2> QED BY <2>2, <2>3
<1> QED
  BY <1>4, <1>5, <1>6, <1>7, <1>9, <1>10, <1>11, <1>12, <1>13, <1>14, <1>15
     DEF OnboardingFocus, OnboardingNext
=============================================================================
