---------------------------- MODULE Views_proofs -----------------------------
(***************************************************************************)
(* Proofs about the views of the window, for any clusters, kinds,          *)
(* namespaces and places.  The explorer's rows settle on what is selected: *)
(* while no timer runs, the listing that carries the last number was asked *)
(* for what is selected.  Its table shows the rows that pass the filters,  *)
(* stably sorted, and its selection never leaves them.  The two sides of a *)
(* comparison keep apart, from which ever side the App reopens them.  And  *)
(* every view that can be looked at keeps its types, with the frame's      *)
(* steps in between: here the invariants of the list views, the pages and  *)
(* the visualizer come together.                                           *)
(***************************************************************************)
EXTENDS MCViews, ListViews_proofs, FunctionTheorems

(* No listing has a number that is still to come. *)
ListingsNumbered == fetchId \in Nat /\ \A f \in fetches : f.id \in Int /\ f.id <= fetchId

LastIsForSelection ==
  Mounted /\ isConnected /\ ~timer =>
    \A f \in fetches : f.id = fetchId =>
      f.kind = selectedKind /\ f.namespace = Scope(selectedKind, namespaceFilter)

RowsInv ==
  isConnected \in BOOLEAN /\ timer \in BOOLEAN /\ ListingsNumbered /\ LastIsForSelection /\ RowsSettle

(* What the invariant is about. *)
rowsAboutVars == <<rowVars, filterVars, isConnected, activeView>>

LEMMA RowsStart == ShellInit /\ ExplorerInit => RowsInv
<1> SUFFICES ASSUME ShellInit, ExplorerInit PROVE RowsInv
  OBVIOUS
<1>1. isConnected = FALSE /\ timer = FALSE /\ fetchId = 0 /\ fetches = {}
  BY DEF ShellInit, ExplorerInit
<1> QED BY <1>1 DEF RowsInv, ListingsNumbered, LastIsForSelection, RowsSettle, RowsShown

LEMMA RowsUntouched == RowsInv /\ UNCHANGED rowsAboutVars => RowsInv'
BY DEF rowsAboutVars, rowVars, filterVars, RowsInv, ListingsNumbered, LastIsForSelection, RowsSettle,
       RowsShown, Mounted, Scope

(* A new selection or connection arms the timer, or there is no connection. *)
LEMMA RefilterSettles ==
  ASSUME RowsInv, Refilter(isConnected'), isConnected' \in BOOLEAN
  PROVE RowsInv'
BY DEF Refilter, RowsInv, ListingsNumbered, LastIsForSelection, RowsSettle, RowsShown

(* A view that is not mounted shows nothing, and one just mounted waits. *)
LEMMA UnmountedSettles ==
  ASSUME RowsInv, isConnected' = isConnected, fetchId' = fetchId, fetches' \subseteq fetches,
         timer' \in BOOLEAN, activeView' # "explorer" \/ timer' = isConnected
  PROVE RowsInv'
BY DEF RowsInv, ListingsNumbered, LastIsForSelection, RowsSettle, RowsShown, Mounted

LEMMA ListingSteps == RowsInv /\ ListingNext => RowsInv'
<1> SUFFICES ASSUME RowsInv, ListingNext PROVE RowsInv'
  OBVIOUS
<1>1. CASE fetchResources
  <2> DEFINE new == [id |-> fetchId + 1, kind |-> selectedKind,
                     namespace |-> Scope(selectedKind, namespaceFilter)]
  <2>1. /\ fetchId' = fetchId + 1 /\ fetches' = fetches \cup {new} /\ loading' = TRUE
        /\ timer' = FALSE /\ UNCHANGED <<filterVars, isConnected, activeView>>
    BY <1>1 DEF fetchResources, shellVars
  <2>2. ListingsNumbered'
    BY <2>1 DEF RowsInv, ListingsNumbered
  <2>3. \A f \in fetches : f.id # fetchId'
    BY <2>1 DEF RowsInv, ListingsNumbered
  <2>4. LastIsForSelection'
    BY <2>1, <2>3 DEF LastIsForSelection, filterVars, Scope
  <2> QED BY <2>1, <2>2, <2>4 DEF RowsInv, RowsSettle, RowsShown
<1>2. CASE Enter
  <2>1. /\ isConnected' = isConnected /\ fetchId' = fetchId /\ fetches' = fetches
        /\ timer' = isConnected
    BY <1>2 DEF Enter, Navigate
  <2> QED BY <2>1, UnmountedSettles DEF RowsInv
<1>3. ASSUME NEW f \in fetches, ListingReturns(f) PROVE RowsInv'
  <2>1. /\ fetches' = fetches \ {f}
        /\ UNCHANGED <<filterVars, timer, fetchId, isConnected, activeView>>
    BY <1>3 DEF ListingReturns, shellVars
  <2>2. ListingsNumbered' /\ LastIsForSelection'
    BY <2>1 DEF RowsInv, ListingsNumbered, LastIsForSelection, filterVars, Scope, Mounted
  <2>3. CASE Current(f)
    <3>1. error' = TRUE \/ (resources'.kind = f.kind /\ resources'.namespace = f.namespace)
      BY <1>3, <2>3 DEF ListingReturns
    <3>2. RowsSettle'
      BY <2>1, <2>3, <3>1
      DEF RowsInv, LastIsForSelection, RowsSettle, RowsShown, Current, filterVars, Scope, Mounted
    <3> QED BY <2>1, <2>2, <3>2 DEF RowsInv
  <2>4. CASE ~Current(f)
    <3>1. RowsSettle'
      BY <1>3, <2>1, <2>4
      DEF ListingReturns, RowsInv, RowsSettle, RowsShown, filterVars, Scope, Mounted
    <3> QED BY <2>1, <2>2, <3>1 DEF RowsInv
  <2> QED BY <2>3, <2>4
<1>4. ASSUME NEW k \in Kinds, SelectKind(k) PROVE RowsInv'
  <2>1. Refilter(isConnected') /\ isConnected' = isConnected
    BY <1>4 DEF SelectKind, shellVars
  <2> QED BY <2>1, RefilterSettles DEF RowsInv
<1>5. ASSUME NEW ns \in Namespaces, SelectNamespace(ns) PROVE RowsInv'
  <2>1. CASE ns # namespaceFilter
    <3>1. Refilter(isConnected') /\ isConnected' = isConnected
      BY <1>5, <2>1 DEF SelectNamespace, shellVars
    <3> QED BY <3>1, RefilterSettles DEF RowsInv
  <2>2. CASE ns = namespaceFilter
    <3>1. UNCHANGED rowsAboutVars
      BY <1>5, <2>2 DEF SelectNamespace, shellVars, rowsAboutVars, rowVars, filterVars
    <3> QED BY <3>1, RowsUntouched
  <2> QED BY <2>1, <2>2
<1>6. ASSUME NEW d, ToggleDropdown(d) PROVE RowsInv'
  <2>1. UNCHANGED rowsAboutVars
    BY <1>6 DEF ToggleDropdown, shellVars, rowsAboutVars
  <2> QED BY <2>1, RowsUntouched
<1>7. ASSUME NEW v, Leave(v) PROVE RowsInv'
  <2>1. /\ activeView' # "explorer" /\ isConnected' = isConnected /\ fetchId' = fetchId
        /\ fetches' = {} /\ timer' = FALSE
    BY <1>7 DEF Leave, Navigate
  <2> QED BY <2>1, UnmountedSettles
<1> QED BY <1>1, <1>2, <1>3, <1>4, <1>5, <1>6, <1>7 DEF ListingNext

(* Menus, panels and shells leave the rows alone; a workload's logs are     *)
(* another view.                                                            *)
LEMMA PanelSteps == RowsInv /\ PanelNext => RowsInv'
<1> SUFFICES ASSUME RowsInv, PanelNext PROVE RowsInv'
  OBVIOUS
<1>1. ASSUME NEW row, ShowLogs(row) PROVE RowsInv'
  <2>1. /\ activeView' # "explorer" /\ isConnected' = isConnected /\ fetchId' = fetchId
        /\ fetches' = {} /\ timer' = FALSE
    BY <1>1 DEF ShowLogs, Leave, Navigate
  <2> QED BY <2>1, UnmountedSettles
<1>2. CASE SelectRow \/ OpenRowMenu \/ CloseRowMenu \/ CloseShell
  <2>1. UNCHANGED rowsAboutVars
    BY <1>2 DEF SelectRow, OpenRowMenu, CloseRowMenu, CloseShell, shellVars, rowsAboutVars
  <2> QED BY <2>1, RowsUntouched
<1>3. ASSUME NEW row, (\E p \in Panels : OpenPanel(p, row)) \/ OpenShell(row) PROVE RowsInv'
  <2>1. UNCHANGED rowsAboutVars
    BY <1>3 DEF OpenPanel, OpenShell, shellVars, rowsAboutVars
  <2> QED BY <2>1, RowsUntouched
<1>4. ASSUME NEW x, TextReturns(x) \/ ClosePanel(x) \/ ShellStarts(x) \/ ShellFails(x) PROVE RowsInv'
  <2>1. UNCHANGED rowsAboutVars
    BY <1>4 DEF TextReturns, ClosePanel, ShellStarts, ShellFails, shellVars, rowsAboutVars
  <2> QED BY <2>1, RowsUntouched
<1> QED BY <1>1, <1>2, <1>3, <1>4 DEF PanelNext

(* The frame changes the connection under the view, and nothing else of it. *)
LEMMA FrameSteps == RowsInv /\ ExplorerFrame => RowsInv'
<1> SUFFICES ASSUME RowsInv, ExplorerFrame PROVE RowsInv'
  OBVIOUS
<1>1. /\ isConnected' \in BOOLEAN
      /\ (activeView' = activeView) \/ (~Mounted /\ ~Mounted' /\ isConnected' = isConnected)
  BY DEF ExplorerFrame, ShellNext, ShellCalls, handleConnect, Connect, Start, ConnectReturns,
         NamespacesListed, ConnectFails, DisconnectReturns, handleDisconnect, Escape,
         DismissError, OpenDialog, Navigate, RowsInv, Mounted
<1>2. UNCHANGED filterVars
  BY DEF ExplorerFrame, ConnectionChanges
<1>3. CASE Mounted /\ isConnected' # isConnected
  BY <1>1, <1>3, RefilterSettles DEF ExplorerFrame, ConnectionChanges
<1>4. CASE ~(Mounted /\ isConnected' # isConnected)
  <2>1. UNCHANGED rowVars
    BY <1>4 DEF ExplorerFrame, ConnectionChanges
  <2>2. CASE isConnected' = isConnected /\ activeView' = activeView
    BY <1>2, <2>1, <2>2, RowsUntouched DEF rowsAboutVars
  <2>3. CASE ~Mounted /\ ~Mounted'
    BY <1>1, <2>1, <2>3 DEF rowVars, RowsInv, ListingsNumbered, LastIsForSelection, RowsSettle, RowsShown
  <2> QED BY <1>1, <1>4, <2>2, <2>3 DEF Mounted
<1> QED BY <1>3, <1>4

(* Once no timer runs, the rows shown are of the kind and the namespace     *)
(* selected, in whatever order listings are answered and connections and    *)
(* filters change meanwhile.                                                *)
THEOREM RowsFollowSelection == ExplorerSpec => []RowsSettle
<1>1. RowsInv => RowsSettle
  BY DEF RowsInv
<1>2. RowsInv /\ UNCHANGED <<shellVars, explorerVars>> => RowsInv'
  BY RowsUntouched DEF shellVars, explorerVars, rowsAboutVars
<1>3. RowsInv /\ [ListingNext \/ PanelNext \/ ExplorerFrame]_<<shellVars, explorerVars>> => RowsInv'
  BY <1>2, ListingSteps, PanelSteps, FrameSteps
<1> QED BY <1>1, <1>3, RowsStart, PTL DEF ExplorerSpec
-----------------------------------------------------------------------------
(* The order of the rows: by the column, and where they are equal in it by  *)
(* their places, a strict and total order of the places.                    *)
IsRows(given) == given \in Seq(Rows)

LEMMA ListingsAreRows ==
  ASSUME NEW given \in Listings
  PROVE IsRows(given)
<1>1. PICK n \in 0..MaxRows : given \in [1..n -> Rows]
  BY DEF Listings
<1>2. n \in Nat
  BY <1>1, TableAssumption
<1> QED BY <1>1, <1>2 DEF IsRows

LEMMA PlacesAreOrdered ==
  ASSUME NEW given, IsRows(given), NEW field, NEW direction, NEW i \in DOMAIN given,
         NEW j \in DOMAIN given, NEW k \in DOMAIN given
  PROVE /\ ~Precedes(given, field, direction, i, i)
        /\ \/ i = j \/ Precedes(given, field, direction, i, j)
           \/ Precedes(given, field, direction, j, i)
        /\ Precedes(given, field, direction, i, j) => ~Precedes(given, field, direction, j, i)
        /\ Precedes(given, field, direction, i, j) /\ Precedes(given, field, direction, j, k)
             => Precedes(given, field, direction, i, k)
<1> DEFINE key(n) == CASE field = "name" -> given[n].name
                       [] field = "age" -> given[n].age
                       [] OTHER -> 0
<1>1. \A n \in DOMAIN given : given[n].name \in Nat /\ given[n].age \in Nat /\ n \in Nat
  BY TableAssumption, SMTT(30) DEF IsRows
<1>2. \A n \in DOMAIN given : key(n) \in Nat /\ n \in Nat
  BY <1>1
<1>3. \A m, n \in DOMAIN given : Comparison(given[m], given[n], field) = key(m) - key(n)
  <2> TAKE m, n \in DOMAIN given
  <2>1. CASE field = "name"
    BY <2>1 DEF Comparison
  <2>2. CASE field = "age"
    BY <2>2 DEF Comparison
  <2>3. CASE field # "name" /\ field # "age"
    BY <2>3 DEF Comparison
  <2> QED BY <2>1, <2>2, <2>3
<1> HIDE DEF key
<1>4. \A m, n \in DOMAIN given :
        Precedes(given, field, direction, m, n)
          <=> IF direction = "asc" THEN key(m) < key(n) \/ (key(m) = key(n) /\ m < n)
              ELSE key(n) < key(m) \/ (key(m) = key(n) /\ m < n)
  <2> TAKE m, n \in DOMAIN given
  <2>1. key(m) \in Nat /\ key(n) \in Nat
    BY <1>2
  <2>2. CASE direction = "asc"
    BY <1>3, <2>1, <2>2 DEF Precedes
  <2>3. CASE direction # "asc"
    BY <1>3, <2>1, <2>3 DEF Precedes
  <2> QED BY <2>2, <2>3
<1>5. CASE direction = "asc"
  BY <1>2, <1>4, <1>5
<1>6. CASE direction # "asc"
  BY <1>2, <1>4, <1>6
<1> QED BY <1>5, <1>6

(* The rank of a place is the number of places kept before it: no two have *)
(* the same, and every number below theirs is the rank of one.             *)
LEMMA RanksAreDistinct ==
  ASSUME NEW given, IsRows(given), NEW kept \in SUBSET DOMAIN given, NEW field, NEW direction
  PROVE /\ Cardinality(kept) \in Nat
        /\ \A i \in kept : Rank(given, kept, field, direction, i) \in 0..(Cardinality(kept) - 1)
        /\ \A i, j \in kept :
             Precedes(given, field, direction, i, j)
               => Rank(given, kept, field, direction, i) < Rank(given, kept, field, direction, j)
        /\ \A n \in 0..(Cardinality(kept) - 1) :
             \E i \in kept : Rank(given, kept, field, direction, i) = n
<1> DEFINE before(i) == {j \in kept : Precedes(given, field, direction, j, i)}
           rank(i) == Rank(given, kept, field, direction, i)
           N == Cardinality(kept)
<1>1. IsFiniteSet(kept) /\ N \in Nat
  <2>1. IsFiniteSet(DOMAIN given)
    BY FS_Interval DEF IsRows
  <2> QED BY <2>1, FS_Subset, FS_CardinalityType
<1>2. \A i \in kept : /\ IsFiniteSet(before(i)) /\ Cardinality(before(i)) \in Nat
                      /\ rank(i) = Cardinality(before(i))
  BY <1>1, FS_Subset, FS_CardinalityType DEF Rank
<1>3. ASSUME NEW i \in kept PROVE rank(i) \in 0..(N - 1)
  <2>1. before(i) \in SUBSET (kept \ {i})
    BY PlacesAreOrdered
  <2>2. IsFiniteSet(kept \ {i}) /\ Cardinality(kept \ {i}) = N - 1
    BY <1>1, FS_RemoveElement
  <2>3. Cardinality(before(i)) <= N - 1
    BY <2>1, <2>2, FS_Subset
  <2> HIDE DEF before, rank, N
  <2> QED BY <1>1, <1>2, <2>3
<1>4. ASSUME NEW i \in kept, NEW j \in kept, Precedes(given, field, direction, i, j)
      PROVE rank(i) < rank(j)
  <2>1. before(i) \subseteq before(j) /\ i \in before(j) /\ i \notin before(i)
    BY <1>4, PlacesAreOrdered
  <2>2. before(i) # before(j) /\ before(i) \in SUBSET before(j)
    BY <2>1
  <2> HIDE DEF before, rank
  <2>3. Cardinality(before(i)) <= Cardinality(before(j))
        /\ Cardinality(before(i)) # Cardinality(before(j))
    BY <1>2, <2>2, FS_Subset
  <2> QED BY <1>2, <2>3
<1>5. ASSUME NEW n \in 0..(N - 1) PROVE \E i \in kept : rank(i) = n
  <2> DEFINE f == [i \in kept |-> rank(i)]
  <2>1. \A i, j \in kept : rank(i) = rank(j) => i = j
    <3> SUFFICES ASSUME NEW i \in kept, NEW j \in kept, i # j PROVE rank(i) # rank(j)
      OBVIOUS
    <3>1. rank(i) < rank(j) \/ rank(j) < rank(i)
      BY <1>4, PlacesAreOrdered
    <3> HIDE DEF rank, N
    <3>2. rank(i) \in Int /\ rank(j) \in Int
      BY <1>1, <1>3
    <3> QED BY <3>1, <3>2
  <2> HIDE DEF rank, N
  <2>2. f \in Injection(kept, 0..(N - 1))
    BY <1>3, <2>1 DEF Injection, IsInjective
  <2>3. IsFiniteSet(0..(N - 1)) /\ Cardinality(0..(N - 1)) = N
    BY <1>1, FS_Interval
  <2> USE DEF N
  <2>4. f \in Surjection(kept, 0..(N - 1))
    BY <2>2, <2>3, FS_Injection
  <2> QED BY <2>4 DEF Surjection
<1> QED BY <1>1, <1>3, <1>4, <1>5
(* What is shown has as many rows as are kept, each of them once and in    *)
(* their order.                                                            *)
THEOREM SortIsStable ==
  ASSUME NEW given, IsRows(given), NEW kept \in SUBSET DOMAIN given, NEW field, NEW direction
  PROVE LET shown == sortedResources(given, kept, field, direction) IN
        /\ Cardinality(kept) \in Nat /\ Len(shown) = Cardinality(kept)
        /\ StablySorted(shown, given, kept, field, direction)
<1> DEFINE shown == sortedResources(given, kept, field, direction)
           rank(i) == Rank(given, kept, field, direction, i)
           N == Cardinality(kept)
           spot == [k \in 1..N |-> CHOOSE i \in kept : rank(i) = k - 1]
<1>1. /\ N \in Nat
      /\ \A i \in kept : rank(i) \in 0..(N - 1)
      /\ \A n \in 0..(N - 1) : \E i \in kept : rank(i) = n
      /\ \A i, j \in kept : Precedes(given, field, direction, i, j) => rank(i) < rank(j)
  BY RanksAreDistinct
<1>2. Len(shown) = N /\ \A k \in 1..N : shown[k] = given[spot[k]]
  <2>1. \A k \in 1..N : shown[k] = given[spot[k]]
    BY DEF sortedResources
  <2>2. shown = [k \in 1..N |-> shown[k]]
    BY DEF sortedResources
  <2> HIDE DEF shown, spot, N
  <2> QED BY <1>1, <2>1, <2>2
<1> HIDE DEF rank
<1>3. \A k \in 1..N : spot[k] \in kept /\ rank(spot[k]) = k - 1
  <2> TAKE k \in 1..N
  <2>1. k - 1 \in 0..(N - 1)
    <3> HIDE DEF N
    <3> QED BY <1>1
  <2>2. \E i \in kept : rank(i) = k - 1
    BY <1>1, <2>1
  <2> QED BY <2>2
<1>4. \A i, j \in kept : /\ Precedes(given, field, direction, i, j) => rank(i) < rank(j)
                         /\ i = j \/ Precedes(given, field, direction, i, j)
                            \/ Precedes(given, field, direction, j, i)
  BY <1>1, PlacesAreOrdered
<1>6. spot \in [1..N -> kept]
  BY <1>3
<1> HIDE DEF spot, shown, N
<1>7. ASSUME NEW i \in kept PROVE \E k \in 1..N : spot[k] = i
  <2>1. rank(i) \in 0..(N - 1)
    BY <1>1
  <2>2. rank(i) + 1 \in 1..N /\ rank(i) \in Int
    BY <1>1, <2>1
  <2> DEFINE j == spot[rank(i) + 1]
  <2>3. j \in kept /\ rank(j) = rank(i)
    BY <1>3, <2>2
  <2>4. ~(rank(j) < rank(i)) /\ ~(rank(i) < rank(j))
    BY <2>2, <2>3
  <2>5. j = i
    BY <1>4, <2>3, <2>4
  <2> QED BY <2>2, <2>5
<1>8. ASSUME NEW k \in 1..N, NEW l \in 1..N, k < l
      PROVE Precedes(given, field, direction, spot[k], spot[l])
  <2>1. rank(spot[k]) < rank(spot[l])
    BY <1>3, <1>8
  <2>2. ~(rank(spot[l]) < rank(spot[k])) /\ rank(spot[k]) # rank(spot[l])
    BY <1>3, <1>8
  <2> QED BY <1>3, <1>4, <2>2
<1>9. StablySorted(shown, given, kept, field, direction)
  BY <1>2, <1>6, <1>7, <1>8 DEF StablySorted
<1> QED BY <1>1, <1>2, <1>9 DEF shown, N

-----------------------------------------------------------------------------
(* The table. *)
Held == listing \in Listings /\ sortField \in SortFields /\ sortDirection \in {"asc", "desc"}

ShownAreKept ==
  /\ Cardinality(Kept) \in Nat /\ Len(Shown) = Cardinality(Kept)
  /\ Cardinality(Kept) = 0 => Shown = <<>>
  /\ StablySorted(Shown, listing, Kept, sortField, sortDirection)

LEMMA ShownRows == Held => ShownAreKept
<1> SUFFICES ASSUME listing \in Listings PROVE ShownAreKept
  BY DEF Held
<1>1. Kept \in SUBSET DOMAIN listing
  BY DEF Kept, filteredResources
<1>2. IsRows(listing)
  BY ListingsAreRows
<1>3. /\ Cardinality(Kept) \in Nat /\ Len(Shown) = Cardinality(Kept)
      /\ StablySorted(Shown, listing, Kept, sortField, sortDirection)
  BY <1>1, <1>2, SortIsStable DEF Shown
<1>4. Cardinality(Kept) = 0 => Shown = <<>>
  <2> SUFFICES ASSUME Cardinality(Kept) = 0 PROVE Shown = <<>>
    OBVIOUS
  <2>1. DOMAIN Shown = {} /\ Shown = [k \in DOMAIN Shown |-> Shown[k]]
    BY DEF Shown, sortedResources
  <2> QED BY <2>1
<1> QED BY <1>3, <1>4 DEF ShownAreKept

(* The selection is on a row kept, or there is none and it is at the first. *)
InRows(i, n) == i \in -1..(n - 1) \/ (n = 0 /\ i = 0)
Selected == InRows(selectedIndex, Cardinality(Kept))
TableInv == Held /\ Selected

(* Other rows, another search: the selection stays only if as many are     *)
(* shown as before.                                                        *)
LEMMA ResetKeeps ==
  ASSUME TableInv, Held', selectedIndex' = Reset(Shown, Shown')
  PROVE TableInv'
<1>1. Cardinality(Kept) \in Nat /\ Len(Shown) = Cardinality(Kept)
  BY ShownRows DEF TableInv, ShownAreKept
<1>2. Cardinality(Kept') \in Nat /\ Len(Shown') = Cardinality(Kept')
  <2>1. (Held => ShownAreKept)'
    BY ShownRows, PTL
  <2> QED BY <2>1 DEF ShownAreKept
<1>3. Selected'
  <2>1. CASE Cardinality(Kept) = Cardinality(Kept')
    BY <1>1, <1>2, <2>1 DEF Reset, TableInv, Selected, InRows
  <2>2. CASE Cardinality(Kept) # Cardinality(Kept')
    BY <1>1, <1>2, <2>2 DEF Reset, Selected, InRows
  <2> QED BY <2>1, <2>2
<1> QED BY <1>3 DEF TableInv

LEMMA TableKeeps == TableInv /\ [TableNext]_tableVars => TableInv'
<1> SUFFICES ASSUME TableInv, [TableNext]_tableVars PROVE TableInv'
  OBVIOUS
<1>0. Held /\ Selected /\ Cardinality(Kept) \in Nat /\ Len(Shown) = Cardinality(Kept)
  BY ShownRows DEF TableInv, ShownAreKept
<1> DEFINE Filtering == <<listing, searched, showIssuesOnly>>
<1>1. ASSUME UNCHANGED Filtering PROVE Kept' = Kept
  BY <1>1 DEF Kept
<1>2. ASSUME NEW given \in Listings, RowsArrive(given) PROVE TableInv'
  <2>1. Held' /\ selectedIndex' = Reset(Shown, Shown')
    BY <1>0, <1>2 DEF RowsArrive, Held
  <2> QED BY <2>1, ResetKeeps
<1>3. ASSUME NEW k \in TableKinds, KindChanges(k) PROVE TableInv'
  BY <1>0, <1>1, <1>3 DEF KindChanges, TableInv, Held, Selected, InRows
<1>4. ASSUME NEW n, SearchFor(n) PROVE TableInv'
  <2>1. Held' /\ selectedIndex' = Reset(Shown, Shown')
    BY <1>0, <1>4 DEF SearchFor, Held
  <2> QED BY <2>1, ResetKeeps
<1>5. CASE ToggleIssues
  <2>1. Held' /\ selectedIndex' = Reset(Shown, Shown')
    BY <1>0, <1>5 DEF ToggleIssues, Held
  <2> QED BY <2>1, ResetKeeps
<1>6. ASSUME NEW f \in SortFields, handleSort(f) PROVE TableInv'
  BY <1>0, <1>1, <1>6 DEF handleSort, TableInv, Held, Selected
<1>7. ASSUME NEW f \in SortFields, NEW d \in {"asc", "desc"}, SortMenu(f, d) PROVE TableInv'
  BY <1>0, <1>1, <1>7 DEF SortMenu, TableInv, Held, Selected
<1>8. ASSUME NEW c, ToggleColumn(c) PROVE TableInv'
  BY <1>0, <1>1, <1>8 DEF ToggleColumn, TableInv, Held, Selected
<1>9. ASSUME NEW i, ClickRow(i) PROVE TableInv'
  <2>1. Kept' = Kept /\ Held' /\ selectedIndex' \in 0..(Cardinality(Kept) - 1)
    BY <1>0, <1>1, <1>9 DEF ClickRow, Held
  <2> QED BY <1>0, <2>1 DEF TableInv, Selected, InRows
<1>10. ASSUME NEW by \in {1, PAGE_SIZE}, MoveSelection(by) PROVE TableInv'
  <2>1. Kept' = Kept /\ Held' /\ selectedIndex' \in {Forward(by), Backward(by)}
    BY <1>0, <1>1, <1>10 DEF MoveSelection, Held
  <2>2. by \in Nat \ {0}
    BY TableAssumption
  <2>3. InRows(Forward(by), Cardinality(Kept))
    BY <1>0, <2>2 DEF Forward, Selected, InRows
  <2>4. InRows(Backward(by), Cardinality(Kept))
    BY <1>0, <2>2 DEF Backward, Selected, InRows
  <2> QED BY <2>1, <2>3, <2>4 DEF TableInv, Selected
<1>11. CASE UNCHANGED tableVars
  BY <1>0, <1>1, <1>11 DEF tableVars, TableInv, Held, Selected
<1> QED
  BY <1>2, <1>3, <1>4, <1>5, <1>6, <1>7, <1>8, <1>9, <1>10, <1>11 DEF TableNext

LEMMA TableStarts == TableInit => TableInv
<1> SUFFICES ASSUME TableInit PROVE TableInv
  OBVIOUS
<1>1. listing \in Listings
  <2>1. <<>> \in [1..0 -> Rows] /\ 0 \in 0..MaxRows
    BY TableAssumption
  <2> QED BY <2>1 DEF TableInit, Listings
<1>2. Held
  BY <1>1 DEF TableInit, Held, SortFields
<1>3. Cardinality(Kept) \in Nat /\ selectedIndex = -1
  BY <1>2, ShownRows DEF TableInit, ShownAreKept
<1> QED BY <1>2, <1>3 DEF TableInv, Selected, InRows

LEMMA TableInvariant == TableSpec => []TableInv
BY TableStarts, TableKeeps, PTL DEF TableSpec

LEMMA TableIsTyped == TableInv => TableTypeOK
<1> SUFFICES ASSUME TableInv PROVE TableTypeOK
  OBVIOUS
<1>1. StablySorted(Shown, listing, Kept, sortField, sortDirection)
  BY ShownRows DEF TableInv, ShownAreKept
<1> QED BY <1>1 DEF TableInv, Held, TableTypeOK, VisibleColumns

(* The table shows every row that passes the filters once, stably sorted by *)
(* the column and direction chosen.                                        *)
THEOREM TableTypes == TableSpec => []TableTypeOK
BY TableInvariant, TableIsTyped, PTL

(* The keys act on a row that is shown, whatever arrives, is filtered,     *)
(* sorted or paged through.                                                *)
THEOREM SelectionStaysInRows == TableSpec => []SelectionInRows
<1>1. TableInv => SelectionInRows
  <2> SUFFICES ASSUME TableInv PROVE SelectionInRows
    OBVIOUS
  <2>1. Len(Shown) = Cardinality(Kept) /\ (Cardinality(Kept) = 0 => Shown = <<>>)
    BY ShownRows DEF TableInv, ShownAreKept
  <2> QED BY <2>1 DEF TableInv, Selected, InRows, SelectionInRows
<1> QED BY <1>1, TableInvariant, PTL

-----------------------------------------------------------------------------
Several == \A c : Contexts # {c}
Apart(l, r) == Several /\ l.context # NoContext => l.context # r.context
Differ(request) == Several => request.left.context # request.right.context

(* Nothing is picked before the clusters are listed. *)
Unpicked(l, r) == contexts = {} => l.context = NoContext /\ r.context = NoContext
ListKnown ==
  /\ contexts = {} \/ contexts = Contexts
  /\ contexts = {} => connects = {} /\ activeContext = NoContext

(* What the App keeps is a record; of its fields the sources and the result *)
(* matter.                                                                  *)
KeptSelection(s) ==
  /\ s = [left |-> s.left, right |-> s.right, place |-> s.place, named |-> s.named,
          result |-> s.result]
  /\ s.left \in Source /\ s.right \in Source /\ Unpicked(s.left, s.right)
  /\ s.result # Unset => Differ(s.result.request)

Sides ==
  /\ left \in Source /\ right \in Source
  /\ Unpicked(left, right) /\ Apart(left, right)
Requests ==
  /\ comparing # Unset => Differ(comparing)
  /\ result # Unset => Differ(result.request)

SidesInv ==
  /\ ListKnown /\ activeContext \in Contexts \cup {NoContext}
  /\ Sides /\ Requests
  /\ DiffShown \/ saved # Unset => KeptSelection(saved)

-----------------------------------------------------------------------------
(* The effects on a source that has become the same as the other. *)
LEMMA KeptApartIsApart ==
  ASSUME NEW l \in Source, NEW r \in Source, NEW q \in KeptApart(l, r),
         (contexts = {} \/ contexts = Contexts), contexts = {} => l.context = NoContext
  PROVE q \in Source /\ Apart(l, q) /\ (contexts = {} => q = r)
<1>1. CASE l.context = r.context /\ l.context # NoContext /\ contexts \ {l.context} # {}
  <2>1. PICK c \in contexts \ {l.context} : q = [r EXCEPT !.context = c]
    BY <1>1 DEF KeptApart
  <2>2. c \in Contexts /\ c # l.context /\ contexts # {}
    BY <2>1
  <2>3. q.context = c /\ q \in Source
    BY <2>1, <2>2 DEF Source
  <2> QED BY <2>2, <2>3 DEF Apart
<1>2. CASE ~(l.context = r.context /\ l.context # NoContext /\ contexts \ {l.context} # {})
  <2>1. q = r
    BY <1>2 DEF KeptApart
  <2>2. Several /\ l.context # NoContext => contexts \ {l.context} # {}
    <3> SUFFICES ASSUME Several, l.context # NoContext PROVE contexts \ {l.context} # {}
      OBVIOUS
    <3>1. contexts = Contexts /\ l.context \in Contexts
      BY DEF Source
    <3> QED BY <3>1 DEF Several
  <2> QED BY <1>2, <2>1, <2>2 DEF Apart
<1> QED BY <1>1, <1>2

LEMMA FollowKeepsApart ==
  ASSUME NEW l \in Source, NEW r \in Source, NEW active \in Contexts \cup {NoContext},
         Follow(l, r, active), Unpicked(l, r), contexts' = contexts,
         (contexts = {} \/ contexts = Contexts), contexts = {} => active = NoContext
  PROVE Sides'
<1>1. left' \in Source /\ (contexts = {} => left'.context = NoContext)
  BY DEF Follow, Source, Unpicked
<1>2. right' \in KeptApart(left', r)
  BY DEF Follow
<1>3. right' \in Source /\ Apart(left', right') /\ (contexts = {} => right' = r)
  BY <1>1, <1>2, KeptApartIsApart
<1> QED BY <1>1, <1>3 DEF Sides, Unpicked, Apart

(* What is left of the invariant when the sources keep. *)
LEMMA SidesKept ==
  ASSUME SidesInv, UNCHANGED contexts, connects' = connects \/ contexts # {},
         activeContext' \in Contexts \cup {NoContext}, contexts = {} => activeContext' = NoContext,
         Sides', Requests', DiffShown' \/ saved' # Unset => KeptSelection(saved)'
  PROVE SidesInv'
BY DEF SidesInv, ListKnown

LEMMA SameSides ==
  ASSUME SidesInv, UNCHANGED <<contexts, connects, activeContext, left, right, saved, result>>,
         comparing' \in {comparing, Unset}, DiffShown' => DiffShown
  PROVE SidesInv'
<1>1. ListKnown' /\ Sides'
  BY DEF SidesInv, ListKnown, Sides, Unpicked, Apart, Several, Source
<1>2. Requests'
  BY DEF SidesInv, Requests, Differ, Several
<1>3. DiffShown' \/ saved' # Unset => KeptSelection(saved)'
  BY DEF SidesInv, KeptSelection, Differ, Several, Source, Unpicked
<1> QED BY <1>1, <1>2, <1>3 DEF SidesInv

LEMMA Persisted ==
  ASSUME Persist, Sides', Requests'
  PROVE KeptSelection(saved)'
<1>1. saved' = [left |-> left', right |-> right', place |-> place',
                named |-> named', result |-> result']
  BY DEF Persist
<1> QED BY <1>1 DEF KeptSelection, Sides, Requests, Unpicked, Differ

LEMMA SidesStart == ShellInit /\ DiffInit => SidesInv
<1> SUFFICES ASSUME ShellInit, DiffInit PROVE SidesInv
  OBVIOUS
<1>1. /\ activeContext = NoContext /\ ~DiffShown /\ saved = Unset /\ comparing = Unset
      /\ result = Unset /\ contexts = {} /\ connects = {}
  BY DEF ShellInit, DiffInit, DiffShown
<1>2. left \in Source /\ right \in Source /\ left.context = NoContext /\ right.context = NoContext
  BY DEF DiffInit, Source
<1> QED BY <1>1, <1>2 DEF SidesInv, ListKnown, Sides, Requests, Unpicked, Apart

-----------------------------------------------------------------------------
LEMMA DiffSteps == SidesInv /\ DiffNext => SidesInv'
<1> SUFFICES ASSUME SidesInv, DiffNext PROVE SidesInv'
  OBVIOUS
<1>0. /\ activeContext \in Contexts \cup {NoContext} /\ left \in Source /\ right \in Source
      /\ (DiffShown \/ saved # Unset => KeptSelection(saved)) /\ Apart(left, right)
      /\ (contexts = {} \/ contexts = Contexts) /\ (contexts = {} => activeContext = NoContext)
      /\ Unpicked(left, right) /\ Requests
  BY DEF SidesInv, Sides, ListKnown
<1>a. ASSUME Persist, Sides', Requests', UNCHANGED <<contexts, connects, activeContext>>
      PROVE SidesInv'
  <2>1. KeptSelection(saved)'
    BY <1>a, Persisted
  <2> QED BY <1>0, <1>a, <2>1, SidesKept
<1>b. ASSUME UNCHANGED <<contexts, left, right>> PROVE Sides'
  BY <1>0, <1>b DEF Sides, Unpicked, Apart, Several, Source
<1>c. ASSUME UNCHANGED <<comparing, result>> PROVE Requests'
  BY <1>0, <1>c DEF Requests, Differ, Several
<1>1. CASE OpenDiff
  <2>1. PICK first \in First :
          LET start == [context |-> first, live |-> TRUE]
              from == IF saved = Unset THEN start ELSE saved.left
              base == IF from.context = NoContext THEN first ELSE from.context IN
          \E c \in Others(base) :
            Follow(from, IF saved # Unset /\ saved.right.context # base
                         THEN saved.right ELSE [start EXCEPT !.context = c], activeContext)
    BY <1>1 DEF OpenDiff
  <2> DEFINE start == [context |-> first, live |-> TRUE]
             from == IF saved = Unset THEN start ELSE saved.left
             base == IF from.context = NoContext THEN first ELSE from.context
  <2>2. first \in Contexts \cup {NoContext} /\ (contexts = {} => first = NoContext)
    BY <1>0, <2>1 DEF First, ListedContexts
  <2>3. from \in Source /\ (contexts = {} => from.context = NoContext)
    BY <1>0, <2>2 DEF KeptSelection, Source, Unpicked
  <2>4. PICK c \in Others(base) :
          Follow(from, IF saved # Unset /\ saved.right.context # base
                       THEN saved.right ELSE [start EXCEPT !.context = c], activeContext)
    BY <2>1
  <2>5. c \in Contexts \cup {NoContext} /\ (contexts = {} => c = NoContext)
    BY <1>0, <2>4 DEF Others, ListedContexts
  <2> DEFINE to == IF saved # Unset /\ saved.right.context # base
                   THEN saved.right ELSE [start EXCEPT !.context = c]
  <2>6. to \in Source /\ (contexts = {} => to.context = NoContext)
    BY <1>0, <2>5 DEF KeptSelection, Source, Unpicked
  <2>7. Follow(from, to, activeContext)
    BY <2>4
  <2> HIDE DEF from, to
  <2>8. contexts' = contexts /\ activeContext' = activeContext /\ comparing' = comparing
        /\ connects' = connects /\ result' = (IF saved = Unset THEN Unset ELSE saved.result)
        /\ saved' = [left |-> left', right |-> right', place |-> place',
                     named |-> named', result |-> result']
    BY <1>1 DEF OpenDiff, Navigate
  <2>9. Sides'
    BY <1>0, <2>3, <2>6, <2>7, <2>8, FollowKeepsApart DEF Unpicked
  <2>10. Requests'
    BY <1>0, <2>8 DEF Requests, KeptSelection, Differ, Several
  <2>11. KeptSelection(saved)'
    BY <2>8, <2>9, <2>10 DEF KeptSelection, Sides, Requests, Unpicked, Differ
  <2> QED BY <1>0, <2>8, <2>9, <2>10, <2>11, SidesKept
<1>2. ASSUME NEW v \in Views, LeaveDiff(v) PROVE SidesInv'
  BY <1>2, SameSides DEF LeaveDiff, DiffShown
<1>3. CASE ToggleMode \/ ApplyButton \/ CloseApply \/ ApplyReturns
  BY <1>3, SameSides
  DEF ToggleMode, ApplyButton, CloseApply, ApplyReturns, shellVars, selectionVars, resultVars, DiffShown
<1>4. ASSUME NEW p \in Places, ResourcesListed(p) PROVE SidesInv'
  BY <1>4, SameSides DEF ResourcesListed, shellVars, selectionVars, resultVars, DiffShown
<1>5. ASSUME NEW kind, handleApply(kind) PROVE SidesInv'
  BY <1>5, SameSides DEF handleApply, shellVars, selectionVars, resultVars, DiffShown
<1>6. ASSUME NEW c \in Contexts, PickTarget(c) PROVE SidesInv'
  <2>1. /\ c # left.context /\ c \in contexts /\ right' = [right EXCEPT !.context = c]
        /\ UNCHANGED <<contexts, connects, left, comparing, result, activeContext>> /\ Persist
    BY <1>6 DEF PickTarget, shellVars, resultVars
  <2>2. right' \in Source /\ right'.context = c
    BY <1>0, <2>1 DEF Source
  <2>3. Sides'
    BY <1>0, <2>1, <2>2 DEF Sides, Apart, Unpicked
  <2> QED BY <1>a, <1>c, <2>1, <2>3
<1>7. ASSUME NEW l \in Source, NEW r \in Source, ChooseSource(l, r) PROVE SidesInv'
  <2>1. /\ left' = l /\ right' = r /\ Persist
        /\ UNCHANGED <<contexts, connects, comparing, result, activeContext>>
    BY <1>7 DEF ChooseSource, shellVars, resultVars
  <2>2. l.context = left.context /\ r.context = right.context
    BY <1>0, <1>7 DEF ChooseSource, Source
  <2>3. Sides'
    BY <1>0, <2>1, <2>2 DEF Sides, Apart, Several, Unpicked
  <2> QED BY <1>a, <1>c, <2>1, <2>3
<1>8. CASE (\E p \in Places : PickPlace(p)) \/ PickResource
  <2>1. /\ UNCHANGED <<contexts, connects, left, right, comparing, result, activeContext>> /\ Persist
    BY <1>8 DEF PickPlace, PickResource, shellVars, resultVars
  <2> QED BY <1>a, <1>b, <1>c, <2>1
<1>9. CASE handleCompare
  <2>1. /\ UNCHANGED <<contexts, connects, left, right, activeContext>> /\ Persist
        /\ NoContext \notin {left.context, right.context}
        /\ \/ UNCHANGED <<result, comparing>>
           \/ result' = Unset /\ comparing' = Request
    BY <1>9 DEF handleCompare, shellVars
  <2>2. Differ(Request)
    BY <1>0, <2>1 DEF Apart, Differ, Request
  <2>3. Requests'
    BY <1>0, <2>1, <2>2 DEF Requests, Differ, Several
  <2> QED BY <1>a, <1>b, <2>1, <2>3
<1>10. CASE ComputeDiff
  <2>1. /\ UNCHANGED <<contexts, connects, left, right, activeContext>> /\ Persist
        /\ comparing # Unset /\ comparing' = Unset
        /\ result' = result \/ result'.request = comparing
    BY <1>10 DEF ComputeDiff
  <2>2. Requests'
    BY <1>0, <2>1 DEF Requests, Differ, Several
  <2> QED BY <1>a, <1>b, <2>1, <2>2
<1>11. CASE ContextsListed
  <2>1. /\ contexts = {} /\ contexts' = Contexts
        /\ UNCHANGED <<connects, activeContext, left, right, saved, result, comparing, activeView>>
    BY <1>11 DEF ContextsListed, shellVars, selectionVars, resultVars
  <2> QED BY <2>1 DEF SidesInv, ListKnown, Sides, Requests, Unpicked, Apart, Several, Differ,
                      KeptSelection, Source, DiffShown
<1> QED BY <1>1, <1>2, <1>3, <1>4, <1>5, <1>6, <1>7, <1>8, <1>9, <1>10, <1>11 DEF DiffNext

LEMMA DiffFrameSteps == SidesInv /\ DiffFrame => SidesInv'
<1> SUFFICES ASSUME SidesInv, DiffFrame PROVE SidesInv'
  OBVIOUS
<1>1. activeContext' \in Contexts \cup {NoContext} /\ (DiffShown' => DiffShown)
  BY DEF DiffFrame, ShellNext, ShellCalls, handleConnect, Connect, Start, ConnectReturns,
         NamespacesListed, ConnectFails, DisconnectReturns, handleDisconnect, Escape,
         DismissError, OpenDialog, Navigate, SidesInv, DiffShown
<1>2. contexts' = contexts /\ (contexts = {} => connects = {} /\ connects' = connects)
  BY DEF DiffFrame, FrameChanges, SidesInv, ListKnown
<1>3. connects = {} => activeContext' \in {activeContext, NoContext}
  BY DEF DiffFrame, ShellNext, ShellCalls, handleConnect, Connect, Start, ConnectReturns,
         NamespacesListed, ConnectFails, DisconnectReturns, handleDisconnect, Escape,
         DismissError, OpenDialog, Navigate
<1>4. contexts = {} => activeContext' = NoContext
  BY <1>2, <1>3 DEF SidesInv, ListKnown
<1>5. CASE DiffShown
  <2>1. Sides'
    <3>1. CASE activeContext' # activeContext
      <4>1. Follow(left, right, activeContext')
        BY <1>5, <3>1 DEF DiffFrame, FrameChanges
      <4> QED BY <1>1, <1>2, <1>4, <4>1, FollowKeepsApart DEF SidesInv, Sides, ListKnown
    <3>2. CASE activeContext' = activeContext
      <4>1. UNCHANGED <<left, right>>
        BY <1>5, <3>2 DEF DiffFrame, FrameChanges
      <4> QED BY <1>2, <4>1 DEF SidesInv, Sides, Unpicked, Apart, Several, Source
    <3> QED BY <3>1, <3>2
  <2>2. saved' = [saved EXCEPT !.left = left', !.right = right'] /\ UNCHANGED <<comparing, result>>
    BY <1>5 DEF DiffFrame, FrameChanges, resultVars
  <2>3. Requests'
    BY <2>2 DEF SidesInv, Requests, Differ, Several
  <2>4. KeptSelection(saved)
    BY <1>5 DEF SidesInv
  <2>5. saved' = [left |-> left', right |-> right', place |-> saved.place,
                  named |-> saved.named, result |-> saved.result]
    BY <2>2, <2>4 DEF KeptSelection
  <2>6. saved'.left = left' /\ saved'.right = right' /\ saved'.place = saved.place
        /\ saved'.named = saved.named /\ saved'.result = saved.result
    BY <2>5
  <2>7. KeptSelection(saved)'
    BY <2>1, <2>4, <2>5, <2>6 DEF KeptSelection, Sides, Unpicked, Differ, Several
  <2> QED BY <1>1, <1>2, <1>4, <2>1, <2>3, <2>7, SidesKept
<1>6. CASE ~DiffShown
  <2>1. UNCHANGED <<left, right, saved, comparing, result>> /\ ~DiffShown'
    BY <1>1, <1>6 DEF DiffFrame, FrameChanges, diffVars, selectionVars, resultVars
  <2>2. Sides' /\ Requests' /\ (saved' # Unset => KeptSelection(saved)')
    BY <1>2, <2>1, ZenonT(60)
    DEF SidesInv, Sides, Requests, Unpicked, Apart, Several, Differ, KeptSelection, Source
  <2> QED BY <1>1, <1>2, <1>4, <2>1, <2>2, SidesKept
<1> QED BY <1>5, <1>6

(* While another cluster is listed, no side is the other's cluster and no   *)
(* cluster is compared with itself, in the request and in the result shown: *)
(* whatever becomes active, was kept from last time or is picked.           *)
THEOREM SidesStayApart == DiffSpec => []SidesDiffer
<1>1. SidesInv => SidesDiffer
  <2> SUFFICES ASSUME SidesInv, left.context # NoContext, contexts \ {left.context} # {}
               PROVE /\ left.context # right.context
                     /\ comparing # Unset => comparing.left.context # comparing.right.context
                     /\ result # Unset =>
                          result.request.left.context # result.request.right.context
    BY DEF SidesDiffer
  <2>1. PICK c \in Contexts : c # left.context
    BY DEF SidesInv, ListKnown
  <2>2. left.context \in Contexts
    BY DEF SidesInv, Sides, Source
  <2>3. Several
    BY <2>1, <2>2 DEF Several
  <2> QED BY <2>3 DEF SidesInv, Sides, Requests, Apart, Differ
<1>2. SidesInv /\ UNCHANGED <<shellVars, diffVars>> => SidesInv'
  BY SameSides DEF shellVars, diffVars, selectionVars, resultVars, DiffShown
<1>3. SidesInv /\ [DiffNext \/ DiffFrame]_<<shellVars, diffVars>> => SidesInv'
  BY <1>2, DiffSteps, DiffFrameSteps
<1> QED BY <1>1, <1>3, SidesStart, PTL DEF DiffSpec

-----------------------------------------------------------------------------
Selectable == Contexts \cup {NoContext}
(* The frame: what it takes for connected and what the backend has selected *)
(* are clusters or none.                                                    *)
FrameInv == isConnected \in BOOLEAN /\ selected \in Selectable

LEMMA FrameStarts == ShellInit => FrameInv
BY DEF ShellInit, FrameInv, Selectable

LEMMA CallsFit ==
  ASSUME FrameInv, ShellCalls \/ handleDisconnect \/ Connecting \/ Disconnecting
  PROVE FrameInv' /\ activeView' = activeView
<1>1. ASSUME NEW x \in Contexts, handleConnect(x) \/ ConnectReturns(x) \/ NamespacesListed(x)
      PROVE FrameInv' /\ activeView' = activeView
  BY <1>1 DEF handleConnect, Connect, ConnectReturns, NamespacesListed, FrameInv, Selectable
<1>2. ASSUME NEW x \in Contexts, ConnectFails(x) \/ DisconnectReturns(x)
      PROVE FrameInv' /\ activeView' = activeView
  BY <1>2 DEF ConnectFails, DisconnectReturns, FrameInv, Selectable
<1>3. CASE handleDisconnect \/ OpenDialog("menu")
  BY <1>3 DEF handleDisconnect, OpenDialog, FrameInv, Selectable
<1> QED BY <1>1, <1>2, <1>3 DEF ShellCalls, Connecting, Disconnecting

LEMMA ShellStepFits ==
  ASSUME FrameInv, ShellStep
  PROVE FrameInv' /\ activeView' = activeView
<1>1. CASE OpenDialog("menu") \/ Escape \/ DismissError
  BY <1>1 DEF OpenDialog, Escape, DismissError, FrameInv, Selectable
<1> QED BY <1>1, CallsFit DEF ShellStep

LEMMA FrameStays == FrameInv /\ UNCHANGED <<isConnected, selected>> => FrameInv'
BY DEF FrameInv, Selectable

-----------------------------------------------------------------------------
(* The explorer: the listings under way carry different numbers up to the  *)
(* last one, which is under way while the page is loading.                 *)
FetchesFit ==
  /\ fetchId \in Nat
  /\ \A f \in fetches : f.id \in 1..fetchId /\ f.kind \in Kinds /\ f.namespace \in Namespaces
  /\ \A f, g \in fetches : f.id = g.id => f = g
  /\ loading => \E f \in fetches : f.id = fetchId
ExplorerTyped ==
  /\ selectedKind \in Kinds /\ namespaceFilter \in Namespaces
  /\ resources \in Listing \cup {Nothing}
  /\ FetchesFit
  /\ shell \in shells \cup {Nothing}
ExplorerInv == FrameInv /\ ExplorerTyped

LEMMA ExplorerStarts == ShellInit /\ ExplorerInit => ExplorerInv
BY ExplorerAssumption, FrameStarts DEF ExplorerInit, ExplorerInv, ExplorerTyped, FetchesFit

LEMMA ExplorerIsTyped == ExplorerInv => ExplorerTypeOK
BY DEF ExplorerInv, ExplorerTyped, ExplorerTypeOK, FetchesFit

(* What the types are about, but for the kind and the namespace. *)
LEMMA ExplorerStays ==
  ASSUME ExplorerTyped, UNCHANGED <<filterVars, fetchId, fetches, loading, shell, shells>>,
         resources' \in {resources, Nothing}
  PROVE ExplorerTyped'
BY DEF ExplorerTyped, FetchesFit, filterVars, Listing

LEMMA ListingTypes ==
  ASSUME ExplorerInv, ListingNext
  PROVE ExplorerInv'
<1> USE DEF ExplorerInv
<1>1. CASE fetchResources
  <2> DEFINE new == [id |-> fetchId + 1, kind |-> selectedKind,
                     namespace |-> Scope(selectedKind, namespaceFilter)]
  <2>1. /\ fetchId' = fetchId + 1 /\ fetches' = fetches \cup {new}
        /\ UNCHANGED <<isConnected, selected, filterVars, resources, shell, shells>>
    BY <1>1 DEF fetchResources, shellVars, shellSessions
  <2>2. new.kind \in Kinds /\ new.namespace \in Namespaces /\ new.id = fetchId'
    BY <2>1, ExplorerAssumption DEF ExplorerTyped, Scope
  <2> HIDE DEF new
  <2>3. FetchesFit'
    <3>1. fetchId \in Nat /\ fetchId' \in Nat /\ fetchId' \in 1..fetchId'
          /\ \A i \in 1..fetchId : i \in 1..fetchId' /\ i # fetchId'
      BY <2>1 DEF ExplorerTyped, FetchesFit
    <3>2. \A f \in fetches' : f.id \in 1..fetchId' /\ f.kind \in Kinds /\ f.namespace \in Namespaces
      BY <2>1, <2>2, <3>1 DEF ExplorerTyped, FetchesFit
    <3>3. \A f, g \in fetches' : f.id = g.id => f = g
      BY <2>1, <2>2, <3>1 DEF ExplorerTyped, FetchesFit
    <3>4. \E f \in fetches' : f.id = fetchId'
      BY <2>1, <2>2
    <3> QED BY <3>1, <3>2, <3>3, <3>4 DEF FetchesFit
  <2>4. ExplorerTyped'
    BY <2>1, <2>3 DEF ExplorerTyped, filterVars, Listing
  <2> QED BY <2>1, <2>4, FrameStays
<1>2. CASE Enter
  BY <1>2, FrameStays, ExplorerStays DEF Enter, Navigate, shellSessions
<1>3. ASSUME NEW f \in fetches, ListingReturns(f) PROVE ExplorerInv'
  <2>1. /\ fetches' = fetches \ {f} /\ UNCHANGED <<isConnected, selected, filterVars, fetchId, shell, shells>>
    BY <1>3 DEF ListingReturns, shellVars, shellSessions
  <2>2. resources' \in {resources, Nothing}
          \/ (selected # NoContext
              /\ resources' = [kind |-> f.kind, namespace |-> f.namespace, cluster |-> selected])
    BY <1>3 DEF ListingReturns
  <2>3. resources' \in Listing \cup {Nothing}
    BY <2>2 DEF ExplorerTyped, FetchesFit, FrameInv, Selectable, Listing
  <2>4. loading' => loading /\ f.id # fetchId
    BY <1>3 DEF ListingReturns, Current
  <2>5. FetchesFit'
    BY <2>1, <2>4 DEF ExplorerTyped, FetchesFit
  <2> QED BY <2>1, <2>3, <2>5, FrameStays DEF ExplorerTyped, filterVars
<1>4. ASSUME Refilter(isConnected), UNCHANGED <<isConnected, selected, shell, shells>>,
             selectedKind' \in Kinds, namespaceFilter' \in Namespaces
      PROVE ExplorerInv'
  <2>1. resources' \in {resources, Nothing} /\ UNCHANGED <<loading, fetchId, fetches>>
    BY <1>4 DEF Refilter
  <2>2. FetchesFit'
    BY <2>1 DEF ExplorerTyped, FetchesFit
  <2> QED BY <1>4, <2>1, <2>2, FrameStays DEF ExplorerTyped, Listing
<1>5. ASSUME NEW k \in Kinds, SelectKind(k) PROVE ExplorerInv'
  BY <1>4, <1>5 DEF SelectKind, shellVars, shellSessions, ExplorerTyped
<1>6. ASSUME NEW ns \in Namespaces, SelectNamespace(ns) PROVE ExplorerInv'
  <2>1. namespaceFilter' = ns /\ UNCHANGED <<isConnected, selected, selectedKind, shell, shells>>
    BY <1>6 DEF SelectNamespace, shellVars, shellSessions
  <2>2. CASE Refilter(isConnected)
    BY <1>4, <2>1, <2>2 DEF ExplorerTyped
  <2>3. CASE ns = namespaceFilter /\ UNCHANGED rowVars
    BY <2>1, <2>3, FrameStays, ExplorerStays DEF rowVars, filterVars
  <2> QED BY <1>6, <2>2, <2>3 DEF SelectNamespace
<1>7. ASSUME NEW d, ToggleDropdown(d) PROVE ExplorerInv'
  BY <1>7, FrameStays, ExplorerStays DEF ToggleDropdown, shellVars, rowVars, shellSessions
<1>8. ASSUME NEW v, Leave(v) PROVE ExplorerInv'
  <2>1. /\ resources' = Nothing /\ loading' = FALSE /\ fetches' = {} /\ shell' = Nothing
        /\ UNCHANGED <<isConnected, selected, filterVars, fetchId>>
    BY <1>8 DEF Leave, Navigate
  <2> QED BY <2>1, FrameStays DEF ExplorerTyped, FetchesFit, filterVars
<1> QED BY <1>1, <1>2, <1>3, <1>5, <1>6, <1>7, <1>8 DEF ListingNext

LEMMA PanelTypes ==
  ASSUME ExplorerInv, PanelNext
  PROVE ExplorerInv'
<1> USE DEF ExplorerInv
<1>1. ASSUME UNCHANGED <<shellVars, filterVars, rowVars>>, shell' \in shells' \cup {Nothing}
      PROVE ExplorerInv'
  <2>1. UNCHANGED <<isConnected, selected, selectedKind, namespaceFilter, resources, fetchId, fetches, loading>>
    BY <1>1 DEF shellVars, filterVars, rowVars
  <2>2. FetchesFit'
    BY <2>1 DEF ExplorerTyped, FetchesFit
  <2> QED BY <1>1, <2>1, <2>2, FrameStays DEF ExplorerTyped, Listing
<1>2. CASE SelectRow \/ OpenRowMenu \/ CloseRowMenu
  BY <1>1, <1>2 DEF SelectRow, OpenRowMenu, CloseRowMenu, shellSessions, ExplorerTyped
<1>3. ASSUME NEW p, NEW row, OpenPanel(p, row) PROVE ExplorerInv'
  BY <1>1, <1>3 DEF OpenPanel, shellSessions, ExplorerTyped
<1>4. ASSUME NEW row, OpenShell(row) PROVE ExplorerInv'
  BY <1>1, <1>4 DEF OpenShell
<1>5. ASSUME NEW row, ShowLogs(row) PROVE ExplorerInv'
  <2>1. /\ resources' = Nothing /\ loading' = FALSE /\ fetches' = {} /\ shell' = Nothing
        /\ UNCHANGED <<isConnected, selected, filterVars, fetchId>>
    BY <1>5 DEF ShowLogs, Leave, Navigate
  <2> QED BY <2>1, FrameStays DEF ExplorerTyped, FetchesFit, filterVars
<1>6. ASSUME NEW t, TextReturns(t) PROVE ExplorerInv'
  BY <1>1, <1>6 DEF TextReturns, shellSessions, ExplorerTyped
<1>7. ASSUME NEW p, ClosePanel(p) PROVE ExplorerInv'
  BY <1>1, <1>7 DEF ClosePanel, shellSessions, ExplorerTyped
<1>8. ASSUME NEW s, ShellStarts(s) \/ ShellFails(s) PROVE ExplorerInv'
  BY <1>1, <1>8 DEF ShellStarts, ShellFails, ExplorerTyped
<1>9. CASE CloseShell
  BY <1>1, <1>9 DEF CloseShell
<1> QED BY <1>2, <1>3, <1>4, <1>5, <1>6, <1>7, <1>8, <1>9 DEF PanelNext

LEMMA ExplorerSteps ==
  ASSUME ExplorerInv, ListingFocus \/ PanelFocus
  PROVE ExplorerInv'
<1>1. CASE (ShellStep \/ Connecting) /\ ConnectionChanges
  <2>1. FrameInv'
    BY <1>1, CallsFit, ShellStepFits DEF ExplorerInv
  <2>2. /\ UNCHANGED <<filterVars, fetchId, fetches, loading, shell, shells>>
        /\ resources' \in {resources, Nothing}
    BY <1>1 DEF ConnectionChanges, Refilter, rowVars, shellSessions
  <2> QED BY <2>1, <2>2, ExplorerStays DEF ExplorerInv
<1> QED BY <1>1, ListingTypes, PanelTypes DEF ListingFocus, PanelFocus

-----------------------------------------------------------------------------
(* A side of a comparison is found only if it is live. *)
Found(r) ==
  r # Unset => /\ r.leftExists => r.request.left.live
               /\ r.rightExists => r.request.right.live

(* The rest of the comparison's types: what it shows, what the App keeps,  *)
(* and what is under way.                                                  *)
ShownFits == place \in Places /\ named \in Places \cup {Unset} /\ Found(result)
SavedFits ==
  /\ DiffShown \/ saved # Unset =>
       saved.place \in Places /\ saved.named \in Places \cup {Unset} /\ Found(saved.result)
  /\ DiffShown => saved.result = result /\ saved.left = left
ListedFits == listed \in Places \cup {Unset} /\ lists \subseteq Places
ComparedFits == comparing \in Selection \cup {Unset}
DiffInv == SidesInv /\ ShownFits /\ SavedFits /\ ListedFits /\ ComparedFits

LEMMA DiffStarts == ShellInit /\ DiffInit => DiffInv
<1> SUFFICES ASSUME ShellInit, DiffInit PROVE DiffInv
  OBVIOUS
<1>1. ~DiffShown /\ saved = Unset
  BY DEF ShellInit, DiffInit, DiffShown
<1> QED
  BY <1>1, SidesStart, DiffAssumption
  DEF DiffInit, DiffInv, ShownFits, SavedFits, ListedFits, ComparedFits, Found

LEMMA DiffIsTyped == DiffInv => DiffTypeOK
BY DEF DiffInv, SidesInv, Sides, ShownFits, SavedFits, ListedFits, ComparedFits, Found, DiffTypeOK

(* The App keeps what is shown, and lists again where it must. *)
LEMMA PersistFits ==
  ASSUME Persist, ListedFits, ShownFits'
  PROVE SavedFits' /\ ListedFits'
<1>1. /\ saved'.place = place' /\ saved'.named = named' /\ saved'.result = result' /\ saved'.left = left'
  BY DEF Persist
<1>2. SavedFits'
  BY <1>1 DEF SavedFits, ShownFits
<1>3. ListedFits'
  BY DEF Persist, List, listingVars, ListedFits, ShownFits
<1> QED BY <1>2, <1>3

LEMMA NothingShownChanges ==
  ASSUME UNCHANGED <<left, place, named, result, saved>>, ShownFits, SavedFits, DiffShown' => DiffShown
  PROVE ShownFits' /\ SavedFits'
BY DEF ShownFits, SavedFits, Found

LEMMA ComparisonFits ==
  ASSUME DiffInv, DiffNext
  PROVE DiffInv'
<1>0. SidesInv'
  BY DiffSteps DEF DiffInv
<1> USE DEF DiffInv
<1>1. CASE OpenDiff
  <2>1. /\ place' = (IF saved = Unset THEN FirstPlace ELSE saved.place)
        /\ named' = (IF saved = Unset THEN Unset ELSE saved.named)
        /\ result' = (IF saved = Unset THEN Unset ELSE saved.result)
        /\ saved'.place = place' /\ saved'.named = named' /\ saved'.result = result'
        /\ saved'.left = left' /\ lists' \subseteq lists \cup {place'}
        /\ UNCHANGED <<listed, comparing>>
    BY <1>1 DEF OpenDiff, List, listingVars
  <2>2. ShownFits'
    BY <2>1, DiffAssumption DEF ShownFits, SavedFits, Found
  <2>3. SavedFits'
    BY <2>1, <2>2 DEF SavedFits, ShownFits
  <2>4. ListedFits' /\ ComparedFits'
    BY <2>1, <2>2 DEF ListedFits, ComparedFits, ShownFits, Selection
  <2> QED BY <1>0, <2>2, <2>3, <2>4
<1>2. ASSUME NEW v, LeaveDiff(v) PROVE DiffInv'
  <2>1. /\ UNCHANGED <<left, place, named, result, saved>> /\ listed' = Unset /\ lists' = {}
        /\ comparing' = Unset /\ DiffShown
    BY <1>2 DEF LeaveDiff
  <2>2. ShownFits' /\ SavedFits'
    BY <2>1, NothingShownChanges
  <2> QED BY <1>0, <2>1, <2>2 DEF ListedFits, ComparedFits
<1>3. CASE ToggleMode \/ ApplyButton \/ CloseApply \/ ApplyReturns \/ ContextsListed
           \/ \E kind : handleApply(kind)
  <2>1. UNCHANGED <<activeView, left, place, named, result, saved, listed, lists, comparing>>
    BY <1>3 DEF ToggleMode, ApplyButton, CloseApply, ApplyReturns, ContextsListed, handleApply, shellVars,
       selectionVars, resultVars, listingVars
  <2>2. ShownFits' /\ SavedFits'
    BY <2>1, NothingShownChanges DEF DiffShown
  <2> QED BY <1>0, <2>1, <2>2 DEF ListedFits, ComparedFits, Selection, Source
<1>4. ASSUME NEW p \in Places, ResourcesListed(p) PROVE DiffInv'
  <2>1. /\ UNCHANGED <<activeView, left, place, named, result, saved, comparing>>
        /\ lists' = lists \ {p} /\ listed' \in {p, Unset}
    BY <1>4 DEF ResourcesListed, shellVars, selectionVars, resultVars
  <2>2. ShownFits' /\ SavedFits'
    BY <2>1, NothingShownChanges DEF DiffShown
  <2> QED BY <1>0, <2>1, <2>2 DEF ListedFits, ComparedFits, Selection, Source
<1>5. ASSUME Persist, ShownFits', ComparedFits' PROVE DiffInv'
  BY <1>0, <1>5, PersistFits
<1>6. ASSUME UNCHANGED comparing PROVE ComparedFits'
  BY <1>6 DEF ComparedFits, Selection, Source
<1>7. CASE (\E c \in Contexts : PickTarget(c)) \/ (\E l, r \in Source : ChooseSource(l, r))
  <2>1. Persist /\ UNCHANGED <<place, named, result, comparing>>
    BY <1>7 DEF PickTarget, ChooseSource, resultVars
  <2> QED BY <1>5, <1>6, <2>1 DEF ShownFits, Found
<1>8. CASE (\E p \in Places : PickPlace(p)) \/ PickResource
  <2>1. Persist /\ UNCHANGED <<result, comparing>>
    BY <1>8 DEF PickPlace, PickResource, resultVars
  <2>2. place' \in Places /\ named' \in Places \cup {Unset}
    BY <1>8 DEF PickPlace, PickResource, ShownFits, ListedFits
  <2> QED BY <1>5, <1>6, <2>1, <2>2 DEF ShownFits, Found
<1>9. CASE handleCompare
  <2>1. Persist /\ UNCHANGED <<place, named>> /\ result' \in {result, Unset}
        /\ comparing' \in {comparing, Request}
    BY <1>9 DEF handleCompare
  <2>2. Request \in Selection
    BY DEF Request, Selection, ShownFits, SidesInv, Sides
  <2>3. ComparedFits'
    BY <2>1, <2>2 DEF ComparedFits, Selection, Source
  <2> QED BY <1>5, <2>1, <2>3 DEF ShownFits, Found
<1>10. CASE ComputeDiff
  <2>1. Persist /\ UNCHANGED <<place, named>> /\ comparing' = Unset /\ comparing # Unset
    BY <1>10 DEF ComputeDiff
  <2>2. Found(result)'
    <3>1. CASE result' = result
      BY <3>1 DEF Found, ShownFits
    <3>2. CASE \E l \in {FALSE, comparing.left.live}, r \in {FALSE, comparing.right.live} :
                 result' = [request |-> comparing, leftExists |-> l, rightExists |-> r]
      <4>1. PICK l \in {FALSE, comparing.left.live}, r \in {FALSE, comparing.right.live} :
              result' = [request |-> comparing, leftExists |-> l, rightExists |-> r]
        BY <3>2
      <4>2. result'.request = comparing /\ result'.leftExists = l /\ result'.rightExists = r
        BY <4>1
      <4>3. (l => comparing.left.live) /\ (r => comparing.right.live)
        BY <4>1, Zenon
      <4> QED BY <4>2, <4>3, Zenon DEF Found
    <3> QED BY <1>10, <3>1, <3>2 DEF ComputeDiff
  <2> QED BY <1>5, <2>1, <2>2 DEF ShownFits, ComparedFits
<1> QED BY <1>1, <1>2, <1>3, <1>4, <1>7, <1>8, <1>9, <1>10 DEF DiffNext

LEMMA ComparisonFrameFits ==
  ASSUME DiffInv, Connecting, FrameChanges
  PROVE DiffInv'
<1> USE DEF DiffInv
<1>1. ShellNext
  BY DEF Connecting, ShellNext, ShellCalls, Dialogs
<1>2. SidesInv'
  BY <1>1, DiffFrameSteps DEF DiffFrame
<1>3. activeView' = activeView
  BY DEF Connecting, handleConnect, Connect, ConnectReturns, NamespacesListed, OpenDialog
<1>4. CASE DiffShown
  <2>1. /\ UNCHANGED <<place, named, result, comparing, listed>> /\ lists' \subseteq lists \cup {place}
        /\ saved' = [saved EXCEPT !.left = left', !.right = right']
    BY <1>4 DEF FrameChanges, resultVars, List, listingVars
  <2>2. saved'.place = saved.place /\ saved'.named = saved.named /\ saved'.result = saved.result
        /\ saved'.left = left'
    BY <1>4, <2>1 DEF SidesInv, KeptSelection
  <2>3. ShownFits' /\ ListedFits' /\ ComparedFits'
    BY <2>1 DEF ShownFits, ListedFits, ComparedFits, Found, Selection, Source
  <2>4. SavedFits'
    BY <1>4, <2>1, <2>2 DEF SavedFits, Found
  <2> QED BY <1>2, <2>3, <2>4
<1>5. CASE ~DiffShown
  <2>1. UNCHANGED <<left, place, named, result, saved, listed, lists, comparing>> /\ ~DiffShown'
    BY <1>3, <1>5 DEF FrameChanges, diffVars, selectionVars, resultVars, listingVars, DiffShown
  <2>2. ShownFits' /\ SavedFits'
    BY <2>1, NothingShownChanges
  <2> QED BY <1>2, <2>1, <2>2 DEF ListedFits, ComparedFits, Selection, Source
<1> QED BY <1>4, <1>5

-----------------------------------------------------------------------------
(* The window: what the view looked at needs.  Of the list views the one    *)
(* looked at, since the others are not mounted.                             *)
ListsInv ==
  /\ activeView \in {"dashboard", focus}
  /\ focus = "gitops" => (GitOpsShown => GitOpsTyped)
  /\ focus = "analyzer" => (AnalyzerShown => AnalyzerTyped)
  /\ focus = "portforwards" => (ForwardsShown => ForwardsTyped)
  /\ IF focus = "rbac" THEN RBACInv ELSE RBACInit
  /\ IF focus = "timeline" THEN TimelineInv ELSE TimelineInit
  /\ focus = "security" => SecurityInv /\ isConnected \in BOOLEAN

PagesInv ==
  /\ focus = "logs" => LogsInv
  /\ focus = "dashboard" => DashboardInv /\ isConnected \in BOOLEAN
  /\ focus = "onboarding" => OnboardingInv

ViewsInv ==
  /\ focus \in {"listing", "panels"} => ExplorerInv
  /\ focus \in {"graph", "scopes", "drawer"} => VisualizerInv
  /\ focus = "table" => TableInv
  /\ focus \in {"compare", "apply"} => DiffInv
  /\ focus \in ListFocuses => ListsInv
  /\ PagesInv

LEMMA ViewsStart == Init => ViewsInv
<1> SUFFICES ASSUME Init PROVE ViewsInv
  OBVIOUS
<1>1. ShellInit /\ ExplorerInit /\ VisualizerInit /\ TableInit /\ DiffInit /\ ListsInit /\ PagesInit
  BY DEF Init
<1>2. ExplorerInv /\ VisualizerInv /\ DiffInv
  BY <1>1, ExplorerStarts, VisualizerStarts, DiffStarts
<1>3. TableInv
  BY <1>1, TableStarts
<1>4. activeView = "dashboard" /\ isConnected \in BOOLEAN
  BY <1>1 DEF ShellInit
<1>5. ListsInv
  BY <1>1, <1>4
  DEF ListsInv, ListsInit, GitOpsShown, AnalyzerShown, ForwardsShown, RBACInv, RBACShown,
      TimelineInv, TimelineShown, SecurityInv, SecurityShown
<1>6. PagesInv
  BY <1>1, <1>4, LogsStart, DashboardStarts, OnboardingStarts DEF PagesInit, PagesInv
<1> QED BY <1>2, <1>3, <1>5, <1>6 DEF ViewsInv

LEMMA ViewsAreTyped == ViewsInv => TypeOK
<1> SUFFICES ASSUME ViewsInv PROVE TypeOK
  OBVIOUS
<1>1. focus \in {"listing", "panels"} => ExplorerTypeOK
  BY ExplorerIsTyped DEF ViewsInv
<1>2. focus \in {"graph", "scopes", "drawer"} => VisualizerTypeOK
  BY VisualizerIsTyped DEF ViewsInv
<1>3. focus = "table" => TableTypeOK
  BY TableIsTyped DEF ViewsInv
<1>4. focus \in {"compare", "apply"} => DiffTypeOK
  BY DiffIsTyped DEF ViewsInv
<1>5. ASSUME focus \in ListFocuses PROVE ListsTypeOK
  <2>1. ListsInv
    BY <1>5 DEF ViewsInv
  <2>2. GitOpsTypeOK
    BY <2>1, GitOpsIsTyped DEF ListsInv, GitOpsShown
  <2>3. AnalyzerTypeOK
    BY <2>1, AnalyzerIsTyped DEF ListsInv, AnalyzerShown
  <2>4. ForwardsTypeOK
    BY <2>1, ForwardsIsTyped DEF ListsInv, ForwardsShown
  <2>5. RBACTypeOK
    BY <2>1, RBACIsTyped DEF ListsInv, RBACInv, RBACShown
  <2>6. TimelineTypeOK
    BY <2>1, TimelineIsTyped DEF ListsInv, TimelineInv, TimelineShown
  <2>7. SecurityTypeOK
    BY <2>1, SecurityIsTyped DEF ListsInv, SecurityTypeOK, SecurityShown
  <2> QED BY <2>2, <2>3, <2>4, <2>5, <2>6, <2>7 DEF ListsTypeOK
<1>6. PagesTypeOK
  BY OnboardingIsTyped DEF ViewsInv, PagesInv, PagesTypeOK, LogsInv, DashboardInv
<1> QED BY <1>1, <1>2, <1>3, <1>4, <1>5, <1>6 DEF TypeOK

-----------------------------------------------------------------------------
(* The two views for which it matters that the window is connected or not. *)
LEMMA ConnectionStays ==
  ASSUME isConnected \in BOOLEAN, SecurityFocus \/ DashboardFocus
  PROVE isConnected' \in BOOLEAN
<1>1. CASE Connecting \/ Disconnecting
  BY <1>1 DEF Connecting, Disconnecting, handleConnect, Connect, ConnectReturns, NamespacesListed,
              OpenDialog, handleDisconnect, DisconnectReturns
<1>2. CASE SecurityNext
  <2>1. UNCHANGED isConnected
    <3>1. CASE OpenSecurity \/ \E v \in Views : CloseSecurity(v)
      BY <3>1 DEF OpenSecurity, CloseSecurity, Unmount, Navigate
    <3>2. CASE (\E m \in Modes : ChooseMode(m)) \/ (\E ns \in Filters \cup {NoFilter} : FilterSecurity(ns))
               \/ RefreshSecurity \/ ResourcesReturn \/ RBACAnalysed
      BY <3>2 DEF ChooseMode, FilterSecurity, RefreshSecurity, ResourcesReturn, RBACAnalysed, shellVars
    <3>3. CASE (\E t \in SecurityTabs : ChooseSecurityTab(t)) \/ ShowSystem \/ MoveInSecurity
               \/ (\E v \in RbacViews : ChooseRBACView(v)) \/ SearchRBAC
               \/ (\E b \in 1..MaxItems : SelectBinding(b))
      BY <3>3 DEF ChooseSecurityTab, ShowSystem, MoveInSecurity, ChooseRBACView, SearchRBAC,
                  SelectBinding, RestOfRBAC, shellVars
    <3>4. CASE handleAiQuery \/ AiReturns \/ (\E i \in -1..(MaxItems - 1) : RowMenu(i)) \/ ViewYAML
               \/ (\E r \in 1..MaxItems : YAMLReturns(r)) \/ CloseYAML \/ Audit \/ AnalysisModal
      BY <3>4 DEF handleAiQuery, AiReturns, RowMenu, ViewYAML, YAMLReturns, CloseYAML, Audit,
                  AnalysisModal, shellVars
    <3> QED BY <1>2, <3>1, <3>2, <3>3, <3>4 DEF SecurityNext
  <2> QED BY <2>1
<1>3. CASE DashboardNext
  <2>1. UNCHANGED isConnected
    <3>1. CASE OpenDashboard \/ \E v \in Views : LeaveDashboard(v)
      BY <3>1 DEF OpenDashboard, LeaveDashboard, Navigate
    <3>2. CASE ~(OpenDashboard \/ \E v \in Views : LeaveDashboard(v))
      BY <1>3, <3>2 DEF DashboardNext, RefreshDashboard, ToastExpires, DismissCard, Elsewhere,
           PanelReturns, handleAction, ActionReturns, shellVars
    <3> QED BY <3>1, <3>2
  <2> QED BY <2>1
<1> QED BY <1>1, <1>2, <1>3 DEF SecurityFocus, DashboardFocus

LEMMA ListsSteps ==
  ASSUME focus \in ListFocuses, ListsInv, ListsNext, focus' = focus
  PROVE ListsInv'
<1> USE DEF ListsInv
<1>1. CASE GitOpsFocus
  <2>1. focus = "gitops" /\ activeView' \in {"dashboard", "gitops"} /\ UNCHANGED <<ownVars, expanded>>
    BY <1>1 DEF GitOpsFocus, GitOpsBound, ListBound
  <2> QED BY <1>1, <2>1, GitOpsSteps DEF RBACInit, TimelineInit, ownVars
<1>2. CASE AnalyzerFocus
  <2>1. focus = "analyzer" /\ activeView' \in {"dashboard", "analyzer"} /\ UNCHANGED <<ownVars, expanded>>
    BY <1>2 DEF AnalyzerFocus, AnalyzerBound, ListBound
  <2> QED BY <1>2, <2>1, AnalyzerSteps DEF RBACInit, TimelineInit, ownVars
<1>3. CASE ForwardsFocus
  <2>1. focus = "portforwards" /\ activeView' \in {"dashboard", "portforwards"}
        /\ UNCHANGED <<ownVars, expanded>>
    BY <1>3 DEF ForwardsFocus, ListBound
  <2> QED BY <1>3, <2>1, ForwardsSteps DEF RBACInit, TimelineInit, ownVars
<1>4. CASE RBACFocus
  <2>1. focus = "rbac" /\ activeView' \in {"dashboard", "rbac"} /\ UNCHANGED ownVars
    BY <1>4 DEF RBACFocus, ListBound
  <2> QED BY <1>4, <2>1, RBACSteps DEF TimelineInit, ownVars
<1>5. CASE TimelineFocus
  <2>1. focus = "timeline" /\ activeView' \in {"dashboard", "timeline"} /\ UNCHANGED expanded
    BY <1>5 DEF TimelineFocus, TimelineBound, ListBound
  <2> QED BY <1>5, <2>1, TimelineSteps DEF RBACInit
<1>6. CASE SecurityFocus
  <2>1. focus = "security" /\ activeView' \in {"dashboard", "security"} /\ UNCHANGED <<ownVars, expanded>>
    BY <1>6 DEF SecurityFocus, SecurityBound
  <2> QED BY <1>6, <2>1, SecuritySteps, ConnectionStays DEF RBACInit, TimelineInit, ownVars
<1> QED BY <1>1, <1>2, <1>3, <1>4, <1>5, <1>6 DEF ListsNext

LEMMA PagesSteps ==
  ASSUME PagesInv, PagesNext, focus' = focus
  PROVE PagesInv'
<1>1. CASE LogsFocus
  BY <1>1, LogsSteps DEF PagesInv, LogsFocus
<1>2. CASE DashboardFocus
  BY <1>2, DashboardSteps, ConnectionStays DEF PagesInv, DashboardFocus
<1>3. CASE OnboardingFocus
  BY <1>3, OnboardingSteps DEF PagesInv, OnboardingFocus
<1> QED BY <1>1, <1>2, <1>3 DEF PagesNext

(* A step of one view is a step of its own specification. *)
LEMMA GraphSteps ==
  ASSUME VisualizerInv, GraphFocus \/ ScopesFocus \/ DrawerFocus
  PROVE VisualizerInv'
<1>1. CASE (Connecting \/ Disconnecting) /\ graphConnectionChanges
  <2>1. ShellNext
    BY <1>1 DEF Connecting, Disconnecting, ShellNext, ShellCalls, Dialogs
  <2> QED BY <1>1, <2>1, VisualizerKeeps DEF VisualizerFrame
<1>2. CASE GraphNext \/ DrawerNext
  BY <1>2, VisualizerKeeps
<1> QED BY <1>1, <1>2 DEF GraphFocus, ScopesFocus, DrawerFocus

LEMMA ComparisonSteps ==
  ASSUME DiffInv, CompareFocus \/ ApplyFocus
  PROVE DiffInv'
BY ComparisonFits, ComparisonFrameFits DEF CompareFocus, ApplyFocus

LEMMA ViewsKeep ==
  ASSUME ViewsInv, Next
  PROVE ViewsInv'
<1>0. focus' = focus
  BY DEF Next
<1>1. CASE ListingFocus \/ PanelFocus
  <2>1. focus \in {"listing", "panels"}
    BY <1>1 DEF ListingFocus, PanelFocus
  <2>2. ExplorerInv'
    BY <1>1, <2>1, ExplorerSteps DEF ViewsInv
  <2> QED BY <1>0, <2>1, <2>2 DEF ViewsInv, PagesInv, ListFocuses
<1>2. CASE GraphFocus \/ ScopesFocus \/ DrawerFocus
  <2>1. focus \in {"graph", "scopes", "drawer"}
    BY <1>2 DEF GraphFocus, ScopesFocus, DrawerFocus
  <2>2. VisualizerInv'
    BY <1>2, <2>1, GraphSteps DEF ViewsInv
  <2> QED BY <1>0, <2>1, <2>2 DEF ViewsInv, PagesInv, ListFocuses
<1>3. CASE TableFocus
  <2>1. focus = "table" /\ TableNext
    BY <1>3 DEF TableFocus
  <2>2. TableInv'
    BY <2>1, TableKeeps DEF ViewsInv
  <2> QED BY <1>0, <2>1, <2>2 DEF ViewsInv, PagesInv, ListFocuses
<1>4. CASE CompareFocus \/ ApplyFocus
  <2>1. focus \in {"compare", "apply"}
    BY <1>4 DEF CompareFocus, ApplyFocus
  <2>2. DiffInv'
    BY <1>4, <2>1, ComparisonSteps DEF ViewsInv
  <2> QED BY <1>0, <2>1, <2>2 DEF ViewsInv, PagesInv, ListFocuses
<1>5. CASE ListsNext
  <2>1. focus \in ListFocuses
    BY <1>5 DEF ListsNext, GitOpsFocus, AnalyzerFocus, ForwardsFocus, RBACFocus, TimelineFocus,
                SecurityFocus, ListFocuses
  <2>2. ListsInv'
    BY <1>0, <1>5, <2>1, ListsSteps DEF ViewsInv
  <2> QED BY <1>0, <2>1, <2>2 DEF ViewsInv, PagesInv, ListFocuses
<1>6. CASE PagesNext
  <2>1. focus \in PageFocuses
    BY <1>6 DEF PagesNext, LogsFocus, DashboardFocus, OnboardingFocus, PageFocuses
  <2>2. PagesInv'
    BY <1>0, <1>6, PagesSteps DEF ViewsInv
  <2> QED BY <1>0, <2>1, <2>2 DEF ViewsInv, ListFocuses, PageFocuses
<1> QED BY <1>1, <1>2, <1>3, <1>4, <1>5, <1>6 DEF Next

(* What the invariant is about, unchanged. *)
LEMMA ViewsStay ==
  ASSUME ViewsInv, UNCHANGED vars
  PROVE ViewsInv'
<1>1. UNCHANGED <<shellVars, explorerVars, visualizerVars, tableVars, diffVars, focus>>
  BY DEF vars
<1>2. UNCHANGED <<listVars, ownVars, expanded, securityOwn>>
  BY DEF vars, listsVars, timelineVars, ownVars
<1>3. UNCHANGED <<logsVars, dashboardVars, onboardingVars>>
  BY DEF vars, pagesVars
<1>4. ASSUME ExplorerInv PROVE ExplorerInv'
  BY <1>1, <1>4, FrameStays, ExplorerStays
  DEF ExplorerInv, shellVars, explorerVars, rowVars, shellSessions
<1>5. ASSUME VisualizerInv PROVE VisualizerInv'
  BY <1>1, <1>5, VisualizerKeeps
<1>6. ASSUME TableInv PROVE TableInv'
  BY <1>1, <1>6, TableKeeps
<1>7. ASSUME DiffInv PROVE DiffInv'
  <2>1. UNCHANGED <<contexts, connects, activeContext, activeView, left, right, place, named,
                    result, saved, listed, lists, comparing>>
    BY <1>1 DEF shellVars, diffVars, selectionVars, listingVars, resultVars
  <2>2. SidesInv'
    BY <1>7, <2>1, SameSides DEF DiffInv, DiffShown
  <2>3. ShownFits' /\ SavedFits'
    BY <1>7, <2>1, NothingShownChanges DEF DiffInv, DiffShown
  <2> QED BY <1>7, <2>1, <2>2, <2>3 DEF DiffInv, ListedFits, ComparedFits, Selection, Source
<1>8. ASSUME ListsInv PROVE ListsInv'
  <2>1. UNCHANGED <<activeView, isConnected, focus>>
    BY <1>1 DEF shellVars
  <2>2. (GitOpsShown => GitOpsTyped) => (GitOpsShown => GitOpsTyped)'
    BY <1>2, <2>1 DEF GitOpsShown, GitOpsTyped, Within, listVars
  <2>3. (AnalyzerShown => AnalyzerTyped) => (AnalyzerShown => AnalyzerTyped)'
    BY <1>2, <2>1 DEF AnalyzerShown, AnalyzerTyped, Within, listVars
  <2>4. (ForwardsShown => ForwardsTyped) => (ForwardsShown => ForwardsTyped)'
    BY <1>2, <2>1 DEF ForwardsShown, ForwardsTyped, Within, listVars
  <2>5. (RBACInit => RBACInit') /\ (RBACInv => RBACInv')
    BY <1>2, <2>1 DEF RBACInit, RBACInv, RBACShown, RBACTyped, listVars
  <2>6. (TimelineInit => TimelineInit') /\ (TimelineInv => TimelineInv')
    BY <1>2, <2>1 DEF TimelineInit, TimelineInv, TimelineShown, TimelineTyped, Different, Within,
                      listVars, ownVars
  <2>7. SecurityInv => SecurityInv'
    BY <1>2, <2>1 DEF SecurityInv, SecurityInit, SecurityShown, SecurityTyped, Within, currentList,
                      listVars, securityOwn
  <2> QED BY <1>8, <2>1, <2>2, <2>3, <2>4, <2>5, <2>6, <2>7 DEF ListsInv
<1>9. ASSUME PagesInv PROVE PagesInv'
  <2>1. UNCHANGED <<activeView, isConnected, dialogs, focus>>
    BY <1>1 DEF shellVars
  <2>2. LogsInv => LogsInv'
    BY <1>3, <2>1 DEF LogsInv, LogsTypeOK, LogsShown, logsVars, serviceVars, pageVars
  <2>3. DashboardInv => DashboardInv'
    BY <1>3, <2>1 DEF DashboardInv, DashboardTypeOK, DashboardShown, flags, dashboardVars, panelVars,
                      actionVars, cardVars
  <2>4. OnboardingInv => OnboardingInv'
    BY <1>3, <2>1 DEF OnboardingInv, Consented, onboardingVars
  <2> QED BY <1>9, <2>1, <2>2, <2>3, <2>4 DEF PagesInv
<1> QED BY <1>1, <1>4, <1>5, <1>6, <1>7, <1>8, <1>9 DEF ViewsInv

(* Whatever the window looks at, and however the frame connects, fails and  *)
(* disconnects meanwhile: the explorer holds a listing of its own and spins *)
(* only for the newest, a highlight is on a row that is counted, what is    *)
(* expanded or picked is there, a spinner turns only while its call is      *)
(* under way, a page that streams has a poll it can clear, and no event is  *)
(* sent before the consent has been chosen.                                 *)
THEOREM ViewTypes == Spec => []TypeOK
<1>1. ViewsInv /\ [Next]_vars => ViewsInv'
  BY ViewsKeep, ViewsStay
<1> QED BY <1>1, ViewsStart, ViewsAreTyped, PTL DEF Spec
=============================================================================
