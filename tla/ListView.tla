------------------------------ MODULE ListView -------------------------------
(***************************************************************************)
(* What the views that list the backend's answers have in common: parts    *)
(* chosen by tabs, filters and a sort order, the rows held of each part,   *)
(* the calls under way, and a highlighted row that the arrow keys move.    *)
(* None of them tells the answer of a call from that of an older one, so   *)
(* only how many calls of a kind are under way is kept.  One view is       *)
(* mounted at a time and leaving it forgets all of this, so that they      *)
(* share the variables; rows are numbers of rows.                          *)
(***************************************************************************)
EXTENDS AppShell, Integers, Bags

CONSTANTS Filters, NoFilter,  \* the namespaces there are, and none chosen
          MaxItems,           \* bound: rows of an answer
          MaxCalls            \* bound: calls under way together

ASSUME ListAssumption == MaxItems \in Nat /\ MaxCalls \in Nat

VARIABLES
  tab,              \* the part or mode shown
  filter, search,   \* the namespace, and whether a text is searched for
  sort,             \* [field, direction]
  held,             \* the rows of each part
  calls,            \* a bag of the calls under way
  isLoading, failed,
  index,            \* the highlighted row, from 0; -1 for none
  opened            \* dropdowns, forms and panels

listVars == <<tab, filter, search, sort, held, calls, isLoading, failed, index, opened>>
chosenVars == <<tab, filter, search, sort>>

Sizes == 0..MaxItems
Ascending(field) == [field |-> field, direction |-> "asc"]
Turned(s) == [s EXCEPT !.direction = IF @ = "asc" THEN "desc" ELSE "asc"]

(* A view that has just been mounted; parts are those it lists. *)
Fresh(firstTab, parts, order) ==
  /\ tab' = firstTab /\ filter' = NoFilter /\ search' = FALSE /\ sort' = order
  /\ held' = [p \in parts |-> 0] /\ failed' = FALSE /\ index' = -1 /\ opened' = {}

ListInit ==
  /\ tab = "none" /\ filter = NoFilter /\ search = FALSE /\ sort = Ascending("name")
  /\ held = <<>> /\ calls = EmptyBag /\ isLoading = FALSE /\ failed = FALSE
  /\ index = -1 /\ opened = {}

Begin(names) ==
  /\ BagCardinality(calls) + Cardinality(names) <= MaxCalls
  /\ calls' = calls (+) SetToBag(names)
End(name) ==
  /\ BagIn(name, calls)
  /\ calls' = calls (-) SetToBag({name})

(* The parts whose lists came are replaced, the others keep their rows. *)
Replaced(rows, came) == [p \in DOMAIN rows |-> IF p \in DOMAIN came THEN came[p] ELSE rows[p]]

(* What is under way when the view goes away is answered to nobody. *)
Unmount(view, to) ==
  /\ activeView = view /\ to # view /\ Navigate(to)
  /\ tab' = "none" /\ filter' = NoFilter /\ search' = FALSE /\ sort' = Ascending("name")
  /\ held' = <<>> /\ calls' = EmptyBag /\ isLoading' = FALSE /\ failed' = FALSE
  /\ index' = -1 /\ opened' = {}

(* What a view shows instead of its rows, or the rows. *)
Page(spinning, rows) ==
  CASE ~isConnected -> "connect" [] isConnected /\ spinning -> "spinner"
    [] isConnected /\ ~spinning /\ failed -> "error"
    [] OTHER -> IF rows = 0 THEN "none" ELSE "rows"

(* The arrow keys, over the n rows the view counts. *)
MoveIndex(n) ==
  index' \in {IF index < n - 1 THEN index + 1 ELSE index,
              IF index > 0 THEN index - 1 ELSE 0}
(* Mutant: the effect that takes the highlight away is missing. *)
ResetNever(changed) == UNCHANGED index
ResetIf(changed) == index' = IF changed THEN -1 ELSE index

(* A header: another field starts ascending, the same one turns around. *)
SortBy(field) ==
  /\ sort' = IF sort.field = field THEN Turned(sort) ELSE Ascending(field)
  /\ UNCHANGED <<shellVars, tab, filter, search, held, calls, isLoading, failed, index, opened>>

Toggle(panel) ==
  /\ opened' = IF panel \in opened THEN opened \ {panel} ELSE opened \cup {panel}
  /\ UNCHANGED <<shellVars, chosenVars, held, calls, isLoading, failed, index>>

Type(text) ==
  /\ search' = text
  /\ UNCHANGED <<shellVars, tab, filter, sort, held, calls, isLoading, failed, index, opened>>

(* A row is highlighted only while the view counts one in its place, or it *)
(* is the first of none.                                                   *)
IndexWithin(n) == index \in -1..(n - 1) \/ (n = 0 /\ index = 0)
=============================================================================
