---------------------------- MODULE AnalyzerView -----------------------------
(***************************************************************************)
(* The issues a scan of the cluster finds (AnalyzerView.tsx).  The category *)
(* and the search narrow what is shown, the namespace only the next scan,  *)
(* and a scan that fails leaves the old summary behind.                    *)
(***************************************************************************)
EXTENDS ListView, Functions

CONSTANT Categories

ASSUME AnalyzerAssumption ==
  IsFiniteSet(Categories) /\ Categories \cap {"all", "matched", "summary"} = {}

AnalyzerFields == {"severity", "category", "resource", "kind"}
AnalyzerShown == activeView = "analyzer"

(* The issues of each category, those that category and search leave, and  *)
(* whether there is a summary at all.                                      *)
AnalyzerParts == Categories \cup {"matched", "summary"}
Severest == [field |-> "severity", direction |-> "desc"]
NoSummary == [p \in AnalyzerParts |-> 0]

InCategory(rows, category) ==
  SumFunctionOnSet(Restrict(rows, Categories),
                   IF category = "all" THEN Categories ELSE {category})
Searched(rows, category, text) ==
  IF text THEN 0..InCategory(rows, category) ELSE {InCategory(rows, category)}

(* The old issues are shown while a new scan is under way. *)
IssuesPage == Page(isLoading /\ held["summary"] = 0, held["matched"])

runScan == Begin({"scan"}) /\ isLoading' = TRUE /\ failed' = FALSE

OpenAnalyzer ==
  /\ ~AnalyzerShown /\ Navigate("analyzer")
  /\ IF isConnected THEN Begin({"scan"}) ELSE calls' = EmptyBag
  /\ isLoading' = isConnected
  /\ Fresh("all", AnalyzerParts, Severest)

AnalyzerConnection ==
  /\ AnalyzerShown
  /\ IF isConnected' = isConnected THEN UNCHANGED listVars
     ELSE /\ IF isConnected' THEN runScan /\ UNCHANGED <<held, index>>
             ELSE held' = NoSummary /\ ResetIf(held["summary"] = 1)
                  /\ UNCHANGED <<calls, isLoading, failed>>
          /\ UNCHANGED <<chosenVars, opened>>

(* The button and the key s. *)
ScanCluster ==
  /\ AnalyzerShown /\ ~isLoading /\ isConnected
  /\ runScan
  /\ UNCHANGED <<shellVars, chosenVars, held, index, opened>>

ScanReturns ==
  /\ AnalyzerShown /\ End("scan")
  /\ isLoading' = FALSE
  /\ \/ /\ index' = -1 /\ failed' = failed
        /\ \E n \in [Categories -> Sizes] : \E m \in Searched(n, tab, search) :
             held' = [p \in AnalyzerParts |-> CASE p = "matched" -> m [] p = "summary" -> 1
                                             [] OTHER -> n[p]]
     \/ failed' = TRUE /\ UNCHANGED <<held, index>>
  /\ UNCHANGED <<shellVars, chosenVars, opened>>

(* The namespaces offered are those of the issues; none is scanned anew. *)
ChooseAnalyzerNamespace(ns) ==
  /\ AnalyzerShown /\ "namespace" \in opened
  /\ ns = NoFilter \/ InCategory(held, "all") > 0
  /\ filter' = ns /\ opened' = opened \ {"namespace"}
  /\ UNCHANGED <<shellVars, tab, search, sort, held, calls, isLoading, failed, index>>

(* The menu offers the categories that have issues, and before a scan all; *)
(* the key a goes back to all of them.                                     *)
ChooseCategory(c) ==
  /\ AnalyzerShown
  /\ \/ c = "all" /\ opened' = opened
     \/ /\ "category" \in opened /\ opened' = opened \ {"category"}
        /\ c # "all" /\ held["summary"] = 1 => held[c] > 0
  /\ tab' = c /\ ResetIf(c # tab)
  /\ \E m \in IF c = tab THEN {held["matched"]} ELSE Searched(held, c, search) :
       held' = [held EXCEPT !["matched"] = m]
  /\ UNCHANGED <<shellVars, filter, search, sort, calls, isLoading, failed>>

(* The search does not move the highlight, which may be left past the end. *)
SearchIssues(text) ==
  /\ AnalyzerShown /\ search' = text
  /\ \E m \in Searched(held, tab, text) : held' = [held EXCEPT !["matched"] = m]
  /\ UNCHANGED <<shellVars, tab, filter, sort, calls, isLoading, failed, index, opened>>

(* The sort menu sets the field, the arrow beside it the direction. *)
SortIssues(s) ==
  /\ AnalyzerShown
  /\ \/ "sort" \in opened /\ s.direction = sort.direction /\ opened' = opened \ {"sort"}
     \/ s = Turned(sort) /\ opened' = opened
  /\ sort' = s
  /\ UNCHANGED <<shellVars, tab, filter, search, held, calls, isLoading, failed, index>>

MoveInAnalyzer ==
  /\ AnalyzerShown
  /\ MoveIndex(held["matched"])
  /\ UNCHANGED <<shellVars, chosenVars, held, calls, isLoading, failed, opened>>

(* Enter on a highlighted issue that is there, or a click, which highlights *)
(* it: the issue's fixes are opened, instead of another's, or closed.       *)
ToggleIssue(i) ==
  /\ AnalyzerShown /\ i \in 0..(held["matched"] - 1)
  /\ i = index \/ IssuesPage = "rows"
  /\ index' = i
  /\ opened' \in {opened \cup {"fixes"}} \cup
       (IF "fixes" \in opened THEN {opened \ {"fixes"}} ELSE {})
  /\ UNCHANGED <<shellVars, chosenVars, held, calls, isLoading, failed>>

AnalyzerNext ==
  \/ OpenAnalyzer \/ ScanCluster \/ ScanReturns \/ MoveInAnalyzer
  \/ AnalyzerShown /\ \E menu \in {"namespace", "category", "sort"} : Toggle(menu)
  \/ \E ns \in Filters \cup {NoFilter} : ChooseAnalyzerNamespace(ns)
  \/ \E c \in Categories \cup {"all"} : ChooseCategory(c)
  \/ \E text \in BOOLEAN : SearchIssues(text)
  \/ \E s \in [field : AnalyzerFields, direction : {"asc", "desc"}] : SortIssues(s)
  \/ \E i \in 0..(MaxItems * Cardinality(Categories)) : ToggleIssue(i)
  \/ \E v \in Views : Unmount("analyzer", v)

(* The highlight is on an issue of the category chosen, if not always on   *)
(* one that the search leaves; a search leaves no more than there are.     *)
AnalyzerTypeOK ==
  AnalyzerShown => /\ tab \in Categories \cup {"all"}
                   /\ sort \in [field : AnalyzerFields, direction : {"asc", "desc"}]
                   /\ held["matched"] \in Searched(held, tab, search)
                   /\ IndexWithin(InCategory(held, tab))
=============================================================================
