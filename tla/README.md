# Verification of kubecat

kubecat is a desktop client for Kubernetes: a Go backend (`app*.go`, `internal/`)
bound by Wails to a React frontend (`frontend/src/`). Every frontend call runs
in a goroutine of its own and is answered in no particular order. The backend
keeps its state in a handful of services, each behind a mutex, and starts further
goroutines: a heartbeat, collectors, two per watch or log stream, one per AI query.
The frontend keeps its state in components that are mounted and unmounted while
their calls are under way. What is hard to get right is what happens *between* two
critical sections, and between a call and its answer: that is what this project
models, model-checks with TLC and, where it matters most, proves with TLAPS.

## 1. Inventory

### Backend

| Part | State it keeps | Operations | Talks to |
|---|---|---|---|
| Cluster manager (`internal/client/manager.go`) | clients, infos, active name; each client's `closed` | Add, Remove, SetActive, Get, Active, List, Close; one mutex held across network calls; a mutex per client held across `Info`, port forwards and shells | API servers; asked by everything below |
| Cluster service, App connect calls (`internal/core/cluster.go`, `app_cluster.go`) | `activeContext`, context-list cache | Connect, Disconnect, GetContexts, RefreshContexts, IsConnected | manager, health monitor, event collector |
| Health monitor (`internal/health/monitor.go`) | state, consecutive failures, back-off | 30 s heartbeat, NotifyConnected, NotifyDisconnected, Start, Stop | `manager.Active()`, then `Info` with no lock |
| AI agent (`internal/ai/agent.go`, `guardrails.go`, `tools.go`) | iteration, rate window, call count | the tool loop, `CheckTool` | provider, approval handler, executor |
| Agent sessions (`app_agent.go`, `app_agent_executor.go`) | registry id -> cancel, one-slot approval channel | AIAgentQuery, RequestApproval, Approve/Reject, Stop, deferred cleanup, tool execution | the loop, the active cluster |
| Resource watchers (`resource_watcher.go`, `cluster.Watch`) | kind -> cancel; a channel per watch | start, stop, stop all, two goroutines per watch | API server, frontend events |
| Pod logs (`internal/core/logs.go`, `app_logs.go`, `cluster.Logs`) | one cancel function, the line buffer, two channels per stream | StreamLogs, StopStreaming, ClearBuffer, workload streams | API server; polled by the view |
| Port forwards (`internal/core/portforward.go`, `cluster.PortForward`) | id -> forward with status | create, stop, stop all, list; forwarder and monitor goroutines | API server, local ports |
| Terminals (`internal/terminal/manager.go`) | id -> session | Start, Write, Resize, Close; a reader per session | the operating system |
| History (`internal/history`, `internal/storage`) | watch registry; SQLite tables | event collection with re-sync and reconnect, correlation, snapshots, comparison, deletions | manager |
| Settings, keychain (`app_settings.go`, `internal/config`, `internal/keychain`) | one YAML file, the OS keychain | load-modify-save, migration at launch | |
| Audit log, updater, MCP server, alert monitors | a file, a time, a server, a throttle map | see `PROJECT.json` | |
| Analysis features (security, RBAC, cost, diff, GitOps, ...) | none between calls | transform listed resources | manager |

### Frontend

| Part | State it keeps | What makes it hard |
|---|---|---|
| Window frame (`App.tsx`, `useAppKeyboard.ts`) | the active view and context, connects under way, dialogs | connects overlap; keys act on what is open |
| Copilot (`AIQueryView.tsx`, `aiStore.ts`) | conversations, one loading flag, suggested commands, context items | answers and agent events that name no query, conversations switched and deleted, unmounts and reloads |
| AI settings (`AIProviderSettings.tsx`, the copilot's chips, `CloudAIConsentDialog.tsx`) | a form, a second copy of it, saves and model fetches under way | two copies, whole-file saves, `await` before edits land |
| Explorer, visualizer | rows or a graph, the number of the newest request, selection, panels, shells | debounced and overlapping fetches; asynchronous layouts |
| Cluster diff | two sides, a result, an apply dialog; kept by the App across unmounts | effects that repair each other's state |
| List views (GitOps, analyzer, timeline, port forwards, RBAC, security) | rows, a spinner, filters, an index | calls without request numbers: any answer is taken |
| Logs page, dashboard | polls, panels, toasts, first-use flags | a start's continuation runs after a stop or an unmount |
| Onboarding, telemetry | wizard step, consent in local storage | hooks that read it once |

The hard behaviours, line by line, are the `hazards` of `PROJECT.json`. The
properties that make the parts correct:

- *Connection layer*: no client is leaked or served closed; the active cluster
  changes only by a selection or by losing its client; the reported health fits
  the failures counted and is earned by the cluster it is reported for; it
  recovers, notices outages, and shutdown ends whatever locks are taken meanwhile.
- *Agent*: nothing takes effect without an accepted approval; the guardrails
  hold for what executes; the rate window and the cap are never exceeded; a
  stopped agent ends.
- *Streams*: registries name what runs; what is canceled ends; the log buffer
  keeps each stream's lines unbroken; ports and shells are not orphaned; of an
  event no older version is saved after a newer one.
- *Copilot*: the input comes back after a query, or an agent holds it that can be
  stopped; an answer shown stays; a command that was run or skipped is not offered
  again; a provider is selected while one is enabled; the key that was saved is held.
- *Views*: what has settled on the screen is of what is selected, in whatever
  order the calls were answered.

## 2. Modules

Each component is one module with its variables, `Init`, one action per critical
section or handler, and its properties; MC modules only instantiate and bound.
Definitions whose comment begins with "Mutant" are plausible bugs that the
properties are shown to notice; no specification uses them.

| Module | Models | Extends |
|---|---|---|
| `ClusterManager` | the client pool: clients are a context and a generation, so that a reconnected context is a new object while a goroutine still holds the old one | |
| `HealthMonitor` | state, failures, back-off | |
| `ClusterConnection` | frontend calls, heartbeat, resource diff, API-server outages, shutdown, as interleaved critical sections | both |
| `ActiveCluster` | abstract specification: which cluster is active may change only so | |
| `Guardrails` | `CheckTool` with its seven layers and the tool registry | |
| `AgentSession` | queries, loops, approvals, cards, stop, cluster switches, tool execution | `Guardrails` |
| `ResourceWatch`, `LogStream`, `PortForward`, `Terminal` | the services with goroutines per request | |
| `EventCollector` | the history's watch per connected cluster | |
| `AIStore`, `AIQueryView` | the conversations; the copilot's view over them | the second the first |
| `ProviderSettings` | provider form, quick switch, consent dialog, overtaking saves | |
| `ConfigFile` | the configuration file and the keychain over handlers, launches and quits | |
| `AppShell` | the window's frame: the views below react to its connects | |
| `ExplorerView`, `ExplorerTable` | the explorer's fetches, panels and shells; its table | `AppShell`; none |
| `ClusterVisualizer` | graph, layout, highlights | `AppShell` |
| `ClusterDiff` | the comparison and its apply dialog | `AppShell` |
| `ListView` | what the list views share: calls as a bag, spinner, index, sorting | `AppShell` |
| `GitOpsView`, `AnalyzerView`, `TimelineView`, `PortForwardsView`, `RBACView`, `SecurityView` | the list views | `ListView` |
| `LogsView`, `Dashboard`, `Onboarding` | pages | `AppShell` |
| `MCClusterConnection`, `MCAgentSession`, `MCStreams`, `MCCopilot`, `MCViews` (with `MCLists`, `MCPages`) | instances for TLC | |
| `ClusterConnection_proofs`, `AgentSession_proofs`, `ConfigFile_proofs`, `ClusterVisualizer_proofs` | theorems (section 6) | the module they are about |
| `StreamServices_proofs` | theorems on the services with goroutines per request | `MCStreams` |
| `Copilot_proofs` | theorems on the conversations, the provider settings and the copilot's instance | `MCCopilot`, `ConfigFile_proofs` |
| `ListViews_proofs` | lemmas on the list views and the pages: each keeps its types | `MCPages`, `ClusterVisualizer_proofs` |
| `Views_proofs` | theorems on the explorer, its table and the comparison; the types of all views together | `MCViews`, `ListViews_proofs` |

**Connection layer.** Where a goroutine is says which locks it holds: `callAt`,
`hbAt` and `phase`. Three kinds of lock are modelled. The manager's mutex is held from entry
to return, so `Add` is split where it waits for the API server (`AddBegin` stores the
client, `AddEnd` caches its information or takes it out again and closes it), and
`Remove` and `Close` where they wait for a client's mutex. Each client's mutex
(`cluster.go`) is held over the network waits of `Info` (write) and of a port
forward (read; `DialBegin`, `DialEnd`), and a writer that waits keeps new readers out. The
monitor's mutex is held while a transition of its state reads
`manager.ActiveContext()` for the event it emits (`monitor.go:198`, `NotifyEmit`,
`HeartbeatEmit`). Mutexes that are held over no wait and take no other (the service's, the
port-forward and log registries', the emitter's) cannot take part in a deadlock and are
left out. `App.Connect` is `Add`, `SetActive`, `NotifyConnected` and, if the state
changed, the transition; the resource diff's `manager.Add` selects nothing and tells
nobody. An `Info` ends within its timeout. A port forward does not: `PortForward` holds the
client's read lock until the forward is ready or has failed (`cluster.go`), no time limit
is set, and while it waits so does the heartbeat, a `Disconnect` of the cluster with the
manager's mutex in hand, and with it the shutdown. `HealthRecovers` and `ShutdownCompletes`
say so: they hold as long as every dial returns (`DialsReturn`). Nothing stops the frontend's
calls during the shutdown, so they go on; the heartbeat's loop may take one more tick.
`Flip` is the environment. The manager starts with the kubeconfig's current context
active and no client for it. Between the two steps of the shutdown the code also stops the
retention, the collector and the snapshotter and closes the database; those are left out
here (the collector's `Stop` is in `EventCollector`).

**Agent.** A query's object in the registry is named by its agent. `Think` is a
provider's answer with any tool calls, `Check` is `executeToolCall` up to the
approval event, `RequestApproval` the lookup, `Receive` and `Abandon` the two
arms of its select, `Execute` the tool on the cluster active *then*. `Decide` is a
click (the frontend's call and the non-blocking send), `Dismiss` the replacement
of the card when the call has returned; between the two the buttons are enabled.
A tool call id is the record of what the code formats into it (name, iteration,
tokens), and so not unique within a response. `scale`, `restart`, `apply` and
`patch` only return messages in this code, so only deletion and command
execution enter `executed`. The token budget is compared with the tokens the loop
passes to `CheckTool`; the guardrails' own `tokenUsage` is written and never read.

**Streams.** A watch is a source and a consumer goroutine with a bounded channel;
a log stream a scanner, a wrapper and two bounded channels, of which the second
is read by nobody; a port forward a forwarder holding a local port and a monitor;
a terminal a shell and a reader. The collector has a registry of cancel functions,
written by every `refreshWatches` (its loop's, and one per connect and disconnect,
run by a goroutine of its own), and per cluster goroutines that list, watch and
reconnect with the client they got at their start. Of a cluster's events one is
followed, as the version the API server has and the version saved last: the listing gives it,
and every watch, which asks for no version, begins with it again (`Replayed`), so that
after a listing and at every reconnect what was saved is saved again. The row it is saved in
is left out: events of one object and reason share it, a deletion is saved as well,
and every save adds to its count (section 7). Goroutine ends that run a
deferred clean-up are two steps, the decision to leave and the clean-up, since
other calls fall between.

**Copilot.** A query is a value that travels from `handleSubmit` to its answer;
`reply` is the assistant message it added, with what it shows and the commands
offered. The agent's events go to whatever the view finds when they arrive, as in
the code: the last reply still loading of the active conversation; one that ends out
of iterations sends none, and one that outlives a reload of the window is heard by the new
page. A command that
returns writes back the commands it had read when it was started. `ProviderSettings`
holds the three copies of the settings (form, chips, file) and the saves under
way, in any order; a save merges its entries into those of the file (`Overlaid`). A
provider may offer no model, in particular one the form knows no models of, and the
selected model may then be none, which sends `loadAIConfig` on to `handleModelChange`. A
model is named by its provider; the code finds the provider by the model's name, and
where two providers offer models of the same name takes the first, which is left out. The default
configuration has the switch off and Ollama enabled and selected. In `ConfigFile` a handler is `Loads`, then `SaveTo` in two
steps, truncation and writing, with the entries of the form merged into those
of the file (`Merged`); `MigrateAPIKeys` moves keys one by one before its save, with a
keychain that may refuse a key or fail to find the one it holds; `Quit` may fall between
any two. Which key is held is told apart: two keys, one of which may replace the other.

**Views.** A view's calls that carry a request number are records with it
(`fetches`, `graphFetches`); those that carry none are a bag of kinds of call
(`calls`), and any of them may be answered next. Unmounting forgets the state and
leaves the calls under way, whose answers then change nothing: React drops them,
except for what they do outside the component (a shell that is started, a poll
that is set, a toast), which the models keep. Rows are counted where only their
number matters (indices, spinners) and are values where their order does
(`ExplorerTable`). The comparison can be opened before the App has its list of
clusters (`ContextsListed`): its sides then have none, and nothing can be compared.

## 3. Runs

| Run | Module, cfg | Shows |
|---|---|---|
| `cluster_connection` | `MCClusterConnection`, `ClusterConnection.cfg` | safety of the connection layer under all its locks and failing connects, and that it implements `ActiveCluster` |
| `cluster_health` | `ClusterHealth.cfg` | health recovers, outages are noticed, no order of taking the locks keeps the shutdown from ending |
| `agent_session` | `MCAgentSession`, `AgentSession.cfg` | approvals, guardrails and registry under interleaving |
| `agent_loop` | `AgentLoop.cfg` | rate window, cap, and that a stopped agent ends |
| `agent_approval` | `AgentApproval.cfg` | *violation*: one card's approval serves another call |
| `agent_cluster` | `AgentCluster.cfg` | *violation*: checked for one cluster, run on another |
| `agent_stop` | `AgentStop.cfg` | *violation*: Stop names an id that is not registered |
| `streams` | `MCStreams`, `Streams.cfg` | the stream services and the collector, safety and liveness; an event's versions are saved in their order |
| `log_stall` | `LogStream`, `LogStall.cfg` | *violation*: a stream stalls on the channel nobody reads |
| `copilot` | `MCCopilot`, `Copilot.cfg` | conversations, provider settings, configuration file |
| `stored_key` | `ConfigFile`, `StoredKey.cfg` | *violation*: queries ask the file for a key that was moved to the keychain |
| `views` | `MCViews`, `Views.cfg` | the frame with each of the views |

The violations are disagreements between the code and what its own comments or
docs say; `findings` quotes both. Where the code loses a property in one known
way, the property that is checked says exactly which way is the only one:
`WatchersNamed` (a watch escapes its registry only by the clean-up of a predecessor),
`RunningIsListed`, `KeysHeld` (no two writers at once, no write cut short, and no key
entered while the keychain holds another), `InputReturns` (an agent that does not say that
it ended leaves the input to the stop button), `ShutdownCompletes` (every dial returns).

## 4. Bounds

*Connection and agent.* Two contexts: one to leave and one to arrive at. Two
callers: each property speaks of at most one pair of calls. Two generations: one
in the manager, one in the heartbeat's hand; `Fresh` lets an object that nobody
holds be allocated again, so the number of reconnects is not bounded.
`MaxFailures` saturates the failure counter above the last threshold, at which
nothing distinguishes larger counts (back-off has reached its cap). In
`cluster_health` the thresholds are lowered and one caller is left, to keep the liveness
graph small: the heartbeat, that caller and the shutdown are then the three that
can wait for one another, over the manager's, one client's and the monitor's mutex. Two
agents with one conversation make all registry conflicts; in `agent_session` one
response of one call keeps two full agents affordable, and `agent_loop` has one
agent with two iterations of two calls, a window of two ticks and a cap the
iterations can only reach together.

*Streams.* Three calls per service (two log streams): one that lingers, its
successor, and one more; channels have one slot and the log buffer two lines so that both
fill. Two collector goroutines of one cluster, one for each of two client objects, two
refreshes beside the loop's, and an event that occurs twice: an older version in one
watch's hand and a newer one in the other's. The services share no variable, so a behavior follows one of them
(`focus`): their product has no further behavior of any one. Calls of a service
are interchangeable, and so are the kinds, pods and shells they ask for: what they
ask for is taken in order, from the first on. `QueueBound` lets events wait in one
watch's channel at a time.

*Copilot.* Two queries in two conversations, two commands, one context item
(`ContextBound`: only until a command is run); three providers, one of them local and
one with no models of its own, two saves or fetches under way, three edits; two keys for
each of two providers, two handlers at once, two calls of them and three launches: a key is
entered, moved to the keychain, entered anew and looked at again. One query that lingers and
its successor are what every property compares.

*Views.* One view is mounted at a time, so a behavior looks at one (`focus`) with
the frame's steps that it can notice. `MCViews`, `MCLists` and `MCPages` bound what
the user has changed to one thing at a time (`AtMost`), so that every answer still
meets every filter, tab, order and panel, and allow one cluster to be connected
to, two in the comparisons, whose list of clusters is empty or complete; two fetches under way beside what is shown are an older
and a newer one. Every bound is a named definition of those modules or a constant
of the `.cfg`.

Deadlock is not checked where every call may have been made and ended (`streams`,
`copilot`, `views`, `log_stall`, `stored_key`); everywhere else it is.

## 5. Fairness

Only goroutines and answers are fair: a started call runs on, the heartbeat's
ticker fires, an agent's goroutine proceeds, the consumer of a canceled watch is
scheduled, a wrapper is scheduled, monitors and readers run, and a query that is no
agent's returns (`AIFairness`: its timer fires at the latest), as does the call of the stop
button. An agent need not end, since its cards wait for the user. The user, API servers,
pods and the dial of a port forward owe nothing. `WF` suffices outside the connection
layer: each of those steps, once possible, stays possible until taken, or belongs to a
disjunction that does. In the connection layer a goroutine that waits for a mutex finds it
taken again and again, and Go's mutexes, which hand over to one that has waited for a
millisecond, justify `SF`. The views' properties need no fairness: they are about what has settled.

## 6. Proofs

TLAPS proves what the runs check on small instances for every value of the
constants. Each `*_proofs` module extends the module it is about and proves
`Init => IInv`, `IInv /\ [Next]_vars => IInv'` and `IInv => Inv`; it assumes only
the module's named assumptions (bounds and thresholds are numbers in the order the
code gives them; the markers for "none" are not values). The views have no single
specification in their MC modules, which mix bounds in; what is proved is about
`ExplorerSpec`, `TableSpec`, `VisualizerSpec` and `DiffSpec`, the view with the
window's frame and any bounds, of which the run checks a part. `AISpec`, `ProviderSpec`,
`ConfigSpec` and the stream services' specifications are likewise the components
alone; the runs `copilot` and `streams` look at one of them per behavior, and the type
invariants of these two runs are proved of the runs' own `Spec`, whose steps are steps
of the components.

**`ClusterConnection_proofs`.** `TypeCorrect`: `TypeOK`. `OpenIsManagedHolds` and
`ClientsHaveInfo`: each of the two is inductive with the types and what a call in
flight is about (`IInv`), and not without (a generation outside `Gens` could be
stored); `Fresh` is what keeps a new object apart from the open ones. That the manager's mutex has one
holder at a time (`MutualExclusion`, inductive on its own) is why the context a call
is adding stays as it was until its answer; `ManagerSteps` reduces every step of the
connection layer to what it does to the manager.
`ActiveClientStays` and `ImplementsPromise` (the refinement of `ActiveCluster`)
follow from `IInv` too: each action leaves the mapped variables alone or
is a step of the abstract specification. `HealthLadderHolds`; `DegradedIsEarnedHolds`
rests on `StrayFailureIsAlone`: once every Connect has notified the monitor, at most
one counted failure comes from a heartbeat of another cluster, so with
`DegradeAfter > 1` the active one has failed a heartbeat itself. `DanglingIsQuiet`
covers the start, where the active context has no client yet.

**`AgentSession_proofs`.** `TypeCorrect`: `TypeOK`, with `LoopShape` (an agent in the
middle of a response has a call in hand). `RegistrySafe`: starting and ending a query
are the only writes of the registry and the session ids (`StartOrEndOrSteady`).
`ApprovalsSafe`: `ApprovedById` says nothing of messages under way, so
`ApprovalsFlow` does, in three parts that need each other: an approving message
answers an accepted card of its channel's session (`ChannelsFlow`), a waiting agent
waits on an object of its own session (`WaitsFlow`), a call that needs approval and is
executing has its accepted card (`RunsFlow`). `GuardsHold`: `VerdictStands` carries
the guardrails' verdict from the check across the approval to the execution.
`CapSafe`, `RateSafe`: by `WindowInv` the window, cut down at every check, still holds
every recent call, so the recent calls are those counted, fewer than the limit, and
the call itself.

**`StreamServices_proofs`.** `ShellsHaveSessions` adds that a session is for its own
id and holds a shell not yet reaped (`SessionsFit`): a reader closes by id, and this is
why it cannot close another's. `EventsCollectedOnce` is inductive with its types;
what needs care is a refresh, which cancels and starts many watches at once
(`RefreshKeeps`). It serves `EventsGoForward`: whoever may still save an event
(`Saver`) has no version older than the one saved (`SavedFits`), and by
`CollectedOnce` there is one such goroutine per cluster, so none saves in between. `RunningWatchesAreNamed` adds `UnstartedIsApart`. In
`RunningForwardsAreListed` a forward under an id is the id's own (`EntriesFit`) and of
the forwarders of an id one holds the port (`OneHolder`). `OneStreamRuns` and
`BufferIsUnbroken` follow from `LogInv`: a line is followed from the scanner's next
number through the channel to the one the wrapper holds, each one more than the last
(`ChannelInOrder`, `HeldIsNext`), and `UnbrokenGrows` shows that appending the next
line and dropping the oldest keeps every stream's run unbroken. `StreamTypes`, the type invariant
of the run, combines the five invariants (`ServicesInv`): that an entry's goroutine
exists is part of its service's argument, not of its variables' ranges.

**`ConfigFile_proofs`.** `SavedKeysStay`: `KeysHeld` speaks of the key that was saved
last, wherever it is, and of a file which for a while is empty. The invariant says
where that key is (`Backed`: the keychain has it, or has none and the entry
does, and no entry has another), what the one busy writer carries (`Carries`: before
its write what the user will have entered, afterwards what has been), and that what the
window's copy of the settings lacks, which the next save writes back, the keychain
has (`Elsewhere`). The exception (`Promised`) is a key entered while the keychain
holds another: the next launch blanks it in favour of the old one, and from the moment
it is entered until the user changes the entry again nothing is claimed of it. A
deletion that could not be saved stays in the window's copy and is carried out by a
later save, so `entered` counts it from when the user makes it. `Counted` are the types of
what `KeysHeld` does not need (launches, saves, the key last asked for).

**`Copilot_proofs`.** `AnswersAreKept` and `CommandsOnlyAdvance` are about steps, and
their steps keep `AIInv`. A reply is overwritten when some query ends, so the invariant
says that nothing in the store or held by a command under way is of a query that has
not ended (`Unanswered`), and that what shows an answer does not load, so that no later
agent's event takes it for the reply it looks for (`Settled`). A command that returns
writes back all the commands it had read. What it read differs from what the reply
shows in this one command, because no two commands of the same answer run at once
(`OneAtATime`), and that rests in turn on the commands being run from the first on.
That all messages are in the conversation of their query is `Sent`. `DefaultStays`:
what form and file promise is not inductive, since copies of settings wait in saves and
in fetches of models to be written or shown later; all of them make the promise
(`FitsTogether`). Nor is that enough, since a save is merged over the file: what
selects no provider has an entry for every one (`Complete`), so that merged over
any file it leaves none enabled. `CopilotTypes`, the type invariant of the run, combines the invariants
of the conversations, the providers and the configuration file.

**`ClusterVisualizer_proofs`.** `WalkFindsPaths`: the breadth-first walk behind the
highlights visits a node if and only if a path leads to it. The walk is a recursive
function on rounds, cut off after as many rounds as there are nodes; the proof goes
by induction over numbers, which it takes from the well-foundedness of their order
(`NatLessThanWellFounded`, by the least counterexample), and the cut-off is enough
since each round but the last visits a new node. `HighlightIsCurrent`: the
lights drawn are those of the edges and selection held (`Lit`), whichever layout is
still under way, since a layout that returns takes the selection of its return;
with the walk's theorem and its mirror for the reversed edges (`LeadsBack`) they are
what paths ask for. `GraphIsOfScope`: as for the explorer, the newest fetch is of the
namespace chosen unless the timer is to fetch anew (`LatestOfScope`). `VisualizerTypes`: while the
view spins, the fetch it waits for is under way (`Awaited`).

**`Views_proofs`.** `RowsFollowSelection`: while no timer runs, the listing
with the last number was asked for what is selected (`LastIsForSelection`); any other
is discarded when it is answered. `SortIsStable`: the table puts each row kept at the
number of rows that come before it; these ranks are numbers below the rows kept and
differ from one another, and so are a bijection, which gives what is shown as many rows
as are kept, in their order and with rows that compare equal in the order they came in.
From it follow `TableTypes`, which states that of the table at every step, and
`SelectionStaysInRows`: a key moves the selection by what is shown, an effect resets it
when the number of rows changes, and only for a table with as many rows shown as kept
do the two agree.

`SidesStayApart`: each effect that moves one side of a comparison moves the other out
of its way (`FollowKeepsApart`), and what the App kept is opened apart even if a side's
cluster has become the other's (`KeptApartIsApart`). Nothing is picked before the App
has its list of clusters (`Unpicked`, `ListKnown`), and a request is made only of two
sides that both have a cluster, so what holds of the sides holds of the
request under way and of the result shown.

`ViewTypes`, the type invariant of `MCViews`, is proved from one invariant per view,
in `ListViews_proofs` for list views and pages. The view's types alone are not
inductive. A view that is not mounted has its first state, so that what is opened
is typed although the type is stated of shown views only. The explorer spins only
while its newest fetch, which its number singles out, is under way (`FetchesFit`); what
the App keeps of a comparison has its type from the first time the view is opened, and
is what the view shows while it is shown (`SavedFits`). The highlight is within the rows that are shown, which
needs their number: in the analyzer a sum over categories, and that the sum is a
number is shown from the existence of a function that adds up, by induction on the size
of the set (`SumExists`). The dashboard has no call under way that could answer while
it is not shown; the hooks that take a consent for given run only after one was
chosen (`Consented`). The proof found guards of a CASE that overlap where the code's early
returns do not (`toggleSnapshotSelection`); `Repicked` now states the order of those
returns. The assumptions are on what an instance has to contain: `ListAssumption`,
`AnalyzerAssumption`, `SecurityAssumption`, `DashboardAssumption`, `ExplorerAssumption`
and `DiffAssumption` give bounds in Nat, a first tab, panel, place or kind among those
there are, and categories whose names are not those of the analyzer's other parts.

*Model-checked only* are the properties under fairness, which these provers cannot
treat (`HealthRecovers`, `OutageNoticed`, `ShutdownCompletes`, `StoppedEnds`,
`CanceledConsumerEnds`, `CanceledStreamEnds`, `EndIsShown`, `ExitIsReaped`,
`InputReturns`).

## 7. What the models show beyond the findings

These follow from the code, and properties are stated so as to hold beside them. Most
are behaviours of the models that no line of the repository claims otherwise. Where a
document does, it is quoted here and not made a finding: what it contradicts (the counts of
a row, the shells of a closing app, snapshots that are compared) is not in the models.

- *Settings*: a handler that loads while another has truncated the file saves
  defaults (`config.go:354`); a key entered anew is blanked at the next launch in
  favour of the keychain's (`migrate.go:41`); consent to a cloud provider is kept by
  nothing, enabling one in the form asks for none (`AIProviderSettings.tsx:241`).
- *Copilot*: a failed first query of a new conversation, a stop, an agent error or a
  reload leaves its reply loading; an agent out of iterations says nothing, so that the
  input stays disabled until it is stopped (`agent.go:178`); a failed command
  locks those after it; context items added while a query is awaited are dropped with the
  others; an enabled provider without models is selected with no model.
- *Connection*: a port forward's dial without a time limit makes the heartbeat, a
  `Disconnect` with the manager's mutex, and the shutdown wait for it.
- *Frame*: of two connects the window shows the one that returns last, the backend
  the one that selected last; a failed connect shows "disconnected" while the
  backend keeps the cluster it had.
- *Explorer and visualizer*: a direct switch of clusters leaves the old cluster's
  rows and listing (`ExplorerView.tsx:207`); shells outlive the drawer that is left or replaced;
  a description that arrives late fills the panel of another row; a layout
  that fails leaves an error page.
- *Lists*: any answer is taken, so rows of an old filter or cluster may replace newer
  ones and one answer stops the spinner of all; selections are indices.
- *Cluster diff*: an apply takes the result's manifest and the cluster chosen now,
  which may be the one the manifest came from (`ClusterDiff.tsx:230`); `SidesDiffer`
  claims nothing of it. `docs/user-guide/cluster-diff.md:22` tells how to
  compare two snapshots of one cluster; the effects and lists that keep the sides'
  clusters apart (`ClusterDiff.tsx:135`, `536`), which `SidesDiffer` is about, rule
  that out.
- *Terminals*: closing the app ends no shell in the code (`app.go`), though
  `docs/user-guide/terminal.md:52` says that it does.
- *Logs and dashboard*: a start that returns after a stop or an unmount sets a poll that
  nothing clears; an action's answer after an unmount counts as the first use.
- *Collector*: a watch that fails to start keeps its entry and is not started again
  while the cluster stays connected (`events.go:178`); a reconnect loop keeps a client
  that was closed; every replay adds the event's count to its row once more
  (`storage/events.go:83`; `docs/architecture/history.md:56` has it replaced); the row
  of an object and reason is shared by its events, so it may go back though no event
  does; a deleted event is saved again.

## 8. Not modelled

`PROJECT.json` lists every component with its status. Not modelled are:

- the *analysis features* (scanners, policies, cost, GitOps detection, textual diffs):
  functions of one listing with no state between calls;
- the *correlator, snapshotter and storage*: single SQL statements and periodic
  readers over them; what SQLite promises would be assumed, not shown;
- the *audit log, updater, MCP server, alert monitors*: one writer behind one mutex,
  one ticker, a loop over stdio, monitors no running code starts;
- *providers' HTTP clients* and the streaming path of a query: no state beyond a call;
- code that nothing imports: `agent/AgentPanel.tsx`, `pages/`, `clusterStore.ts`,
  `internal/telemetry`, `NetworkPolicyView`;
- *rendering*: text, layout, charts.

Left of the plan: the context-list cache, workload log streams, snapshots with their
lookup by time, and the shutdown of the history services against the closing database.
