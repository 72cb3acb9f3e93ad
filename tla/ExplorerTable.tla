---------------------------- MODULE ExplorerTable ----------------------------
(***************************************************************************)
(* The rows of the explorer (ExplorerView.tsx): a listing is filtered by   *)
(* the search and the issues button, sorted by a column in one direction,  *)
(* and one place in what is left is selected, by a click or the keys.  The *)
(* selection is an index, reset when the number of rows shown changes; the *)
(* keys for describe, logs and shells act on whatever row is there.        *)
(***************************************************************************)
EXTENDS Integers, Sequences, FiniteSets

CONSTANTS Rows,           \* [name, age : Nat, issue : BOOLEAN]
          MaxRows,        \* bound: rows of a listing
          TableKinds,
          togglesForKind, \* the optional columns each kind has
          PAGE_SIZE

ASSUME TableAssumption ==
  /\ Rows \subseteq [name : Nat, age : Nat, issue : BOOLEAN]
  /\ MaxRows \in Nat /\ PAGE_SIZE \in Nat \ {0}

VARIABLES
  tableKind, listing,        \* the kind, and the rows held in the order they came
  searched,                  \* the name searched for, 0 for none
  showIssuesOnly,
  sortField, sortDirection,
  columns,                   \* optional columns switched on, for whatever kind
  selectedIndex              \* from 0, as in the code; -1 for none

tableVars == <<tableKind, listing, searched, showIssuesOnly, sortField, sortDirection,
               columns, selectedIndex>>

SortFields == {"name", "age", "roles"}
Listings == UNION {[1..n -> Rows] : n \in 0..MaxRows}

TableInit ==
  /\ tableKind \in TableKinds /\ listing = <<>>
  /\ searched = 0 /\ showIssuesOnly = FALSE
  /\ sortField = "name" /\ sortDirection = "asc"
  /\ columns = {} /\ selectedIndex = -1

(* The places of the rows that the search and the issues button let through. *)
filteredResources(rows, name, issues) ==
  {i \in DOMAIN rows : (name = 0 \/ rows[i].name = name) /\ (issues => rows[i].issue)}

(* A stable sort.  Headers without a case in the comparison, like a node's *)
(* roles, leave the order as it came.                                      *)
Comparison(a, b, field) ==
  CASE field = "name" -> a.name - b.name
    [] field = "age" -> a.age - b.age
    [] OTHER -> 0
Precedes(rows, field, direction, i, j) ==
  LET c == IF direction = "asc" THEN Comparison(rows[i], rows[j], field)
           ELSE -Comparison(rows[i], rows[j], field)
  IN c < 0 \/ (c = 0 /\ i < j)
Rank(rows, kept, field, direction, i) ==
  Cardinality({j \in kept : Precedes(rows, field, direction, j, i)})
sortedResources(rows, kept, field, direction) ==
  [k \in 1..Cardinality(kept) |->
     rows[CHOOSE i \in kept : Rank(rows, kept, field, direction, i) = k - 1]]

Kept == filteredResources(listing, searched, showIssuesOnly)
Shown == sortedResources(listing, Kept, sortField, sortDirection)
VisibleColumns == columns \cap togglesForKind[tableKind]

(* The effect on the number of rows shown: another kind or namespace       *)
(* resets the selection too, even if the number is the same.               *)
Reset(before, after) == IF Len(before) # Len(after) THEN -1 ELSE selectedIndex

(* A listing arrives, also one of the same length with other rows. *)
RowsArrive(rows) ==
  /\ listing' = rows
  /\ UNCHANGED <<tableKind, searched, showIssuesOnly, sortField, sortDirection, columns>>
  /\ selectedIndex' = Reset(Shown, Shown')

(* Another kind: the rows of the old one stay until the new ones arrive. *)
KindChanges(kind) ==
  /\ kind # tableKind
  /\ tableKind' = kind /\ selectedIndex' = -1
  /\ UNCHANGED <<listing, searched, showIssuesOnly, sortField, sortDirection, columns>>

SearchFor(name) ==
  /\ searched' = name
  /\ UNCHANGED <<tableKind, listing, showIssuesOnly, sortField, sortDirection, columns>>
  /\ selectedIndex' = Reset(Shown, Shown')

ToggleIssues ==
  /\ showIssuesOnly' = ~showIssuesOnly
  /\ UNCHANGED <<tableKind, listing, searched, sortField, sortDirection, columns>>
  /\ selectedIndex' = Reset(Shown, Shown')

(* A header or its shifted key; sorting keeps the index, so that another   *)
(* row is selected than was.                                               *)
handleSort(field) ==
  /\ sortField' = field
  /\ sortDirection' = IF field = sortField /\ sortDirection = "asc" THEN "desc" ELSE "asc"
  /\ UNCHANGED <<tableKind, listing, searched, showIssuesOnly, columns, selectedIndex>>

(* The sort menu changes the field alone, and its arrow the direction. *)
SortMenu(field, direction) ==
  /\ field = sortField \/ (direction = sortDirection /\ field # "roles")
  /\ sortField' = field /\ sortDirection' = direction
  /\ UNCHANGED <<tableKind, listing, searched, showIssuesOnly, columns, selectedIndex>>

(* A column's button is there for its kinds, its key for all. *)
ToggleColumn(c) ==
  /\ columns' = IF c \in columns THEN columns \ {c} ELSE columns \cup {c}
  /\ UNCHANGED <<tableKind, listing, searched, showIssuesOnly, sortField, sortDirection,
                 selectedIndex>>

ClickRow(i) ==
  /\ i \in 0..(Len(Shown) - 1)
  /\ selectedIndex' = i
  /\ UNCHANGED <<tableKind, listing, searched, showIssuesOnly, sortField, sortDirection, columns>>

(* The arrow keys by one row or, shifted, by a page, as the page keys do. *)
(* Mutant: a page forward is not cut off at the last row. *)
ForwardUncut(by) == selectedIndex + by
Forward(by) ==
  IF by = 1 THEN (IF selectedIndex < Len(Shown) - 1 THEN selectedIndex + 1 ELSE selectedIndex)
  ELSE IF selectedIndex + by < Len(Shown) - 1 THEN selectedIndex + by ELSE Len(Shown) - 1
Backward(by) == IF selectedIndex - by > 0 THEN selectedIndex - by ELSE 0

MoveSelection(by) ==
  /\ selectedIndex' \in {Forward(by), Backward(by)}
  /\ UNCHANGED <<tableKind, listing, searched, showIssuesOnly, sortField, sortDirection, columns>>

TableNext ==
  \/ \E rows \in Listings : RowsArrive(rows)
  \/ \E k \in TableKinds : KindChanges(k)
  \/ \E n \in {0} \cup {r.name : r \in Rows} : SearchFor(n)
  \/ ToggleIssues
  \/ \E f \in SortFields : handleSort(f) \/ \E d \in {"asc", "desc"} : SortMenu(f, d)
  \/ \E c \in UNION {togglesForKind[k] : k \in TableKinds} : ToggleColumn(c)
  \/ \E i \in 0..(MaxRows - 1) : ClickRow(i)
  \/ \E by \in {1, PAGE_SIZE} : MoveSelection(by)

TableSpec == TableInit /\ [][TableNext]_tableVars

-----------------------------------------------------------------------------
(* What is shown are the rows of the listing that the filters let through, *)
(* each once, in the order chosen and, where that says nothing, as they    *)
(* came; columns of another kind are not.                                  *)
StablySorted(shown, rows, kept, field, direction) ==
  \E place \in [1..Len(shown) -> kept] :
    /\ \A i \in kept : \E k \in 1..Len(shown) : place[k] = i
    /\ \A k \in 1..Len(shown) : shown[k] = rows[place[k]]
    /\ \A k, l \in 1..Len(shown) :
         k < l => Precedes(rows, field, direction, place[k], place[l])

TableTypeOK ==
  /\ listing \in Listings /\ sortField \in SortFields /\ sortDirection \in {"asc", "desc"}
  /\ VisibleColumns \subseteq togglesForKind[tableKind]
  /\ StablySorted(Shown, listing, Kept, sortField, sortDirection)

(* The keys act on a row that is shown: the selection never points past the *)
(* last row, whatever arrives, is filtered or paged through; with no rows   *)
(* at all it points at none or at the first of none.                        *)
SelectionInRows ==
  selectedIndex \in -1..(Len(Shown) - 1) \/ (Shown = <<>> /\ selectedIndex = 0)
=============================================================================
