# ClusterTrail: verification of the engine and its window

ClusterTrail is a desktop client for Kubernetes clusters. A Go engine
(`src/engine`) holds the connections to the clusters and a Vue window
(`src/app`) talks to it over one local WebSocket. The program reads a lot and
writes little, and every write goes through one *change gate*: a plan is dry
run, shown to a person, approved, executed and recorded in a hash-chained audit
log. A demo on the project's site runs the same window over a recording. This
directory models the log, the gate, the live tables and the socket; the
comparison of a repository with a cluster; the panes and screens of the window,
with the shells and log streams some of them hold on to; and how the demo is
recorded and answers.

    AuditLog            audit/audit.go            proofs: AuditLogProofs
    ChangeLifecycle     what the gate promises
    ChangeGate          change/change.go          proofs: ChangeGateProofs
    ResourceStream      watch/resources.go, with what it meets of
                        cluster/metrics.go, store/snapshot.go, api/server.go
                        and useResource.ts        proofs: ResourceStreamProofs
    SessionFactories    cluster/registry.go       proofs: EngineSocketProofs
    EngineSocket        api/socket.ts, useResource.ts, api/server.go; EXTENDS
                        SessionFactories          proofs: EngineSocketProofs
    DriftScan           drift/drift.go (Scan), cli/drift.go
    DriftRender         drift/drift.go (render), drift/render.go, drift/chart.go
                                                  proofs of these: MCEngineProofs
    ObjectDrawer        useObject.ts and the drawer's panes (Drawer.vue,
                        ContainerDetail.vue, YamlEditor.vue, ...)
    ScopedScreens       TimelineScreen.vue, HelmScreen.vue, DriftScreen.vue
    WindowNav           App.vue, state.ts and what writes it
    ChangeReview        useChanges.ts and its dialogs
    OverviewClaims      OverviewScreen.vue
    DemoRecording       scripts/record-demo.mjs, scripts/scrub-demo.mjs
    DemoEngine          demo/socket.ts; EXTENDS DemoRecording
                                                  proofs of these: WindowProofs
    LogFollow           useLogs.ts, LogView.vue, the engine's log streams
    TerminalSession     TerminalView.vue, the engine's shells
    ExplainPane         ExplainPanel.vue
    PortForwards        forward/forward.go, useForwards.ts
    DriftCapture        drift/capture.go          proofs of these: PanesProofs
    MCChangeGate, MCEngineSocket, MCDriftScan, MCDriftRender   instances for TLC
    MCSettles           ResourceStream and MCChangeGate in one run, for what
                        must come to an end
    MCEngine            AuditLog, MCEngineSocket, MCDriftScan, MCDriftRender
                        in one run                proofs: MCEngineProofs
    MCWindow            the window's modules in one run
                                                  proofs: MCWindowProofs

Each `.cfg` is one run of `PROJECT.json`, which also holds the line of the code
each definition stands for, a mutated form of the code that each property
rejects, the hazards, the findings and the theorems. A definition that is such
a mutated form says so in its comment and is used by no specification.

## 1. Inventory

Paths are below `src/engine/internal` unless they begin with `app`.

| Component | State | Operations | Meets | What makes it hard |
|---|---|---|---|---|
| Audit log `audit/audit.go` | `audit.jsonl`, `audit.head`; the last entry in memory | `Open`, `Append` + `writeHead`, `Verify`, `Entries` | gate, explain, terminals append; UI and CLI verify | two files and no transaction; torn writes; crashes; no fsync |
| Change gate `change/change.go` | the map of changes, in memory | `Propose`, `Decide`, `List`; `dryRun`, `execute`, `record` | audit log, API server, socket | concurrent decisions; time between review and write; partial failure; lost replies |
| Engine socket `app/src/api/socket.ts`, `api/server.go` | queue, promises, subscriptions; per connection the running streams | request, subscribe, unsubscribe, reconnect; the read loop | everything the window does | either side may be the first to notice that the link is gone |
| Resource streams `watch/resources.go`, `useResource.ts` | batcher, informer, `lastMetrics`, rows of the table | snapshot, delta flush, metrics tick | informers, metrics cache, snapshot cache, socket | three goroutines and a table, no common lock |
| Cluster sessions `cluster/registry.go` | sessions, factories with reference counts | `Session`, `Factory`, `Start`, release | streams | acquire, start and release of many tables interleave |
| Metrics cache `cluster/metrics.go` | usage, history rings, listeners | `refresh`, `Subscribe`, `Decorate`, `History` | streams | limits; ticks dropped |
| Snapshot cache `store/snapshot.go` | one file per subscription | `Save`, `Load`, `Forget` | streams, socket | stale rows shown first |
| Drift capture `drift/capture.go` | a git repository | `CaptureToBranch` | drift report | a failure at each of ten steps |
| Drift comparison `drift/*.go`, `cli/drift.go` | none but the report it writes | `render`, `Scan`, exit code | cluster, kustomize, Helm; capture, CLI, MCP call it | others write meanwhile; single lookups fail; roots that nest and list each other |
| Timeline, Helm, consumers, events | none | queries | socket | merging and ordering |
| Logs, terminals, forwards | buffers, sessions, listeners | stream, stop | socket | a stream outlives what asked for it; shells left behind |
| Explain, MCP server | none in the engine; evidence and answer in the pane | request and reply | LLM endpoint, stdio | the selection moves under a request |
| Drawer `app/src/components` | what each pane shows, edits, reveals | select, answer, type, save, reveal | socket, gate | answers land in any order, on a selection that moved on |
| Screens `app/src/screens` | report shown, detail, scope | read, refresh, roll back, capture | socket, gate, capture | the same, and a write goes to the scope selected *now* |
| Navigation `app/src/App.vue`, `state.ts` | screen, cluster, namespace, selection, tab, rows, counts, filter | clicks and the watchers they wake | every screen | five watchers each move what another watches |
| Review of a change `app/src/composables/useChanges.ts` | dialog, list, toasts | propose, decide, refresh | gate | other windows decide too; the dialog changes under an answer |
| Overview `app/src/screens/OverviewScreen.vue` | none; computed from four subscriptions and a clock | | streams | one fact worked out in five places |
| Demo `app/src/demo`, `scripts` | the tape; the timers of its socket | record, scrub, answer | engine, the window | what changes while it is recorded; keys built twice |

Correctness, in one line each:

* **log**: what `Append` acknowledged can be read or its loss is detected; an
  honest log never fails to verify; numbers are not reused.
* **gate**: nothing is written before its approval is on disk; each op at most
  once, in order; the status tells what happened; an apply hits what was
  reviewed; every approval gets an outcome.
* **tables**: a table that has settled shows what the cluster holds.
* **socket**: the engine streams what the window wants, no more; a request is
  carried out at most once and its promise settles.
* **sessions**: informers run while somebody uses them and not after.
* **panes and screens**: once the answers are in, what is shown is of what is
  selected; a value of a Secret shows only where it was asked for; an edit does
  not undo what somebody else wrote.
* **navigation**: selection, tab, rows, counts and filter fit the screen.
* **review**: what the window says of a decision is what the gate did.
* **overview**: its five statements about the cluster agree.
* **logs, terminals**: every line once and in order; no shell without a pane.
* **demo**: the tape has, under each key, what the demo looks up by it; the demo
  shows nothing else; what a Secret holds is blanked.
* **forwards**: every listener can be stopped, once, and is listed.
* **comparison**: what the report says of an object was so; nothing declared is
  lost or read twice; the exit code tells what the report does.
* **capture**: no branch but a new one changes, and that one gets all of the
  objects or none; nobody's file is written over; no Secret's value is written.

## 2. The models

### AuditLog

`file` is the sequence of lines; a line is an entry or `Garbled`, and
`unterminated` says that the last one has no newline yet, so what comes next is
glued to it. A hash is the sequence of what has been hashed, which makes it
collision free and nothing else. `Append` is `AppendWritten` followed by
`HeadWritten` or `HeadFailed`, because the line and the head are two writes and
the process may stop between them; a refused or short write ends it early.
`anchoring` is the point between the two, where `l.mu` is still held. `Open`
takes the last line that parses. `Verify` and `Entries` are operators on
the two files. `acked` and `failed` are history: the instants of appends that
returned nil, or an error.

`Faults` selects what may go wrong. `intact` becomes false with the first
write that was not whole, and with any loss or edit of the file; `ChainVerifies`
(no false alarm) is claimed while it holds, `AckedOrDetected` (no silent loss)
whatever happens, except that a lost tail that was appended over is beyond the
head's reach.

### ChangeGate and ChangeLifecycle

One action per stretch of code between two points where another goroutine, or
the API server, may act: `Propose` is `StartPropose`, one `DryRun` per op,
`Publish` (the map entry), `RecordProposed`; `Decide` is the test and set
of the status under `g.mu`, the audit append, and per op the read
(`ExecuteGet`), comparison and write (`ExecuteWrite`). `call[d]` holds where
goroutine `d` is. Other writers of the cluster are `Edit`. A *content* is what
the diff of an object shows; `rv` moves with every write, also those that
change only status, which is what makes the pin of an apply
differ from the comparison `execute` makes itself. An append may fail and leave
its entry or not, a call may be refused or done with its reply lost. `Crash`
forgets everything but the log and the cluster.

`ChangeLifecycle` says what a client and an auditor may rely on: proposed,
decided once, carried out op by op after the approval went on record,
concluded. `ImplementsLifecycle` is that specification under the mapping
status, plan length, "the log has `change.approved`", ops that reached the
cluster.

### ResourceStream

One table, from the informer's store to the window's `Map`. The informer
(`Change`) updates the store first and queues a notification; the handler
projects a row (`Handle`) and puts it later (`HandlerUpsert`), because the
batcher's lock is taken only for the put; the stream lists (`List`), sends
(`SendSnapshot`), flushes, and on a metrics tick lists again and puts row
by row. `out` is the bounded channel; a full one disconnects the window
(`TooSlow`), as a lost link does (`Lose`). `Subscribe` is a new connection
with the same subscription: handlers are told of every object, and rows saved
earlier are painted first, unless they expired. A save may be refused.

A row is an object's version and its usage cell. Objects that cannot be
projected and the watch error handler are left out.

### SessionFactories and EngineSocket

`SessionFactories` is `Session.Factory`, `Session.Start` and the release func,
for one session. A holder is one call of `Factory`; an entry is named after the
holder that made it, so that a factory made after another was closed is another
factory. `running` is what `e.stop` will stop; `leaked` would say that `Start`
fell back to the session's own stop channel.

`EngineSocket` EXTENDS it: its streams are the holders, and its actions
contain the factory actions (`HandleSubscribe` contains `Factory`,
`StartStream` contains `Start`, `EndStream` contains `Release`). The window has
one socket after another (`Connections`), each with two queues and a read loop
in the engine. When the link goes, a prefix of what was sent has been received
and the engine works through it (`Closed`, `Lost`, `Disconnected`) while the
window may be connected anew: nothing says that the engine is done with the old
connection first. `carriedOut` and `strays` are history.

Requests are one kind of message, each served by its own goroutine. The
handlers that answer on the read loop itself (`clusters`) differ from that in
nothing the properties see. `AddEventHandler` fails only on an informer that
has stopped, which `HeldKeepsRunning` excludes, so that branch of
`watch.Resources` is left out. `WaitForCacheSync` looks at the informer before
it looks at the context, so a stream that was stopped may still send its
snapshot (`Synced`), and a select with two ready cases may take the ticker
(`SendDelta`).

### The window: what the modules share

The window is one event loop. An action is an event handler (a click, an
answer, a timer) *with the watchers it wakes*, since Vue runs those before the
next event; nothing else is atomic. The engine answers each request on a
goroutine of its own, so the answers of one pane land in any order, and may be
refusals. Requests carry a *ticket* that tells two for the same object apart.
What is shown is modelled by what it was read *of*: the property is then a
relation between that and what is selected.

The code drops an overtaken answer in some places and not in others. Where it
does not, something out of date may be shown, and no property can say otherwise.
A ghost variable then records that this has happened, and the property, its
comment and its theorem name it as an exception. The exception is often the
hazard's own case: then the property shows that there is no *other* way to
go wrong, and the hazard's note in `PROJECT.json` says what is not ruled out.

| Ghost | Set | What is not claimed then |
|---|---|---|
| `late` (`ObjectDrawer`) | what landed last was not the answer to the newest request, or that was refused | that a settled pane shows the selection |
| `strayed` (`ObjectDrawer`) | the selection went from an object to another of the same key, with no close in between | that a settled pane shows the selection |
| `strays` (`ScopedScreens`) | an answer filled the report after a newer one's, or the release after its cluster was left | that this report, or this release, fits |
| `kept` (`WindowNav`) | the palette changed the screen under a selection | that the selection is of the table's kind |
| `late` of a tally (`WindowNav`) | counted from rows of a subscription the table had replaced | that the count is of the cluster on screen |
| `again` (`LogFollow`) | the link came back; the stream starts from the tail again | that no line is repeated |
| `severed` (`TerminalSession`) | the link went down under a session; the pane is not told | that an open terminal has a shell |
| `crossed` (`ExplainPane`) | evidence or answer came for another object than the one selected, or was left by a namesake | that it is of the selection |
| `missed` (`DemoRecording`) | an ask was refused or given up on | that the tape is complete, and has the events of that key |
| `untold` (`PortForwards`) | the last change of the list was told to nobody, or by a list older than it | that the rail lists what there is |
| `alone` (`DriftCapture`) | is false once another capture or the person came between, or going back failed | that the capture stays on its own branch, whole |

### ObjectDrawer

One pane per behaviour (`pane` is fixed by `DrawerInit`): the panes share
the selection, the tab and the cluster, which all move in `Move`, and nothing
else. `Watched` is what a pane's watcher watches, so a move that leaves it
alone loads nothing, which is how a pane comes to show an object of another kind
or cluster under the same key. `Taken` is the check `useObject` makes before it
takes an answer; no other pane makes one, and it compares kind and name, not the
cluster. `Reveal` reads the Secret named by the spec that is *shown*
(`ContainerDetail.vue:99`), in the cluster and namespace selected, and what it
reveals is kept by container and variable through whatever replaces the object
shown; so `revealed` holds both, where the value was read and whose spec named
it, and `BoxesAreSelected` claims of the second its kind and name only.

The editor (`Type`, `Save`, `Revert`) proposes what it holds for the object
*selected*. `GateTakes` is the check of `change.go`: a body of another name is
refused. One of another kind, or of another cluster's object, which bears that
object's uid, is refused by the API server's dry run (`ServerTakes`, external). What is left is the text that
has become old (`OtherWrites`, `outdated`): the documentation has it refused by
its resourceVersion, and the run `drawer_edit` shows that it is not.

### ScopedScreens

`screen` is fixed like `pane`. A *scope* is cluster and view (namespace, and
minutes on the timeline). The timeline and Helm read again when the scope
moves, the drift screen when told to. `OpenRelease`, `Rollback` and
`CaptureAll` are further reads whose answers meet a scope that may have moved:
a release, and a capture's new scan, change what is shown. The drift screen's
apply and delete, and the proposal a rollback ends in, write nothing the screen
shows and are left out; they go to the cluster the window is on when they are clicked, wherever the
report was read, and no property says otherwise.

### WindowNav

`Settle` is what the watchers of `App.vue`, `Drawer.vue`, `ResourceScreen.vue`
and `useCounts` have made of the state after a click wrote its part of the state. A selection is
a kind: two kinds that share a key are the interesting case, so one object
stands for every key. `SelectTab`, `TabsOf` and `SpaceFor` are the code's
`select`, `tabs` and `nsForSub`. `subscribed` is what the table's id has been
subscribed to since it was mounted: `RowsArrive` delivers rows of any of these,
since `useResource.ts:20` compares the id and nothing else (finding 5). So the
kind of the rows is claimed, and not their cluster and namespace.

### ChangeReview

The window's dialog, list and toasts over a gate that is seen by what it
answers: `gate` is the status map of `ChangeGate`, and `GateDecides` and
`GateEnds` are its `Decide` in two steps. Other windows and agents propose and
decide without this window hearing (`GateProposes`, `OtherDecides`).
`awaits` is the list answer that the code's `await refreshChanges()` waits
for: only then is the dialog no longer busy.

### OverviewClaims

The state is what the four subscriptions hold: any snapshot, then any delta,
in any order, a scope that moves, and a clock that ages the warnings. The
sentence, the pill, the colour, the attention list and the histogram are
operators on it, each translated from its own `computed`.

### LogFollow, TerminalSession, ExplainPane

The panes that hold on to something in the engine. `LogFollow` is `useLogs`
with the engine's stream goroutines: a stream that was cancelled may flush once
more, its reader may end it, and a paused pane buffers. `TerminalSession` is
`TerminalView` with the engine's read loop: what is typed, started and stopped
travels in order in `uplink`, output returns in order but late in `downlink`.
`ExplainPane` keeps the requests of `ExplainPanel` apart, since each
finds the pane in a state another may have made: an engine that does not answer
`checkKey` counts as one without a key, and an error of `saveKey` changes
nothing.

### DriftCapture

A tree is a set of files, a file its path and who wrote it; `head`, `tree`,
`work` and `staged` are the repository as git sees it. Each git command of
`CaptureToBranch` is a process of its own and here an action, so another
window's capture, the person, and the end of the engine come between any two.
A command that fails has done its work or not, since a killed one may have. All
run in the context of the window's link: when that is lost the rest
fail at once, the `checkout` that goes back among them, which is `Forget` in
`Restore`. `Put` is the `O_EXCL` write. What `.gitignore` hides is not seen by
the check for uncommitted changes and not added.

The comment of `capture.go:286`, "Any failure from here leaves the person back
where they started", is true of the branch when `restore` succeeds and a
branch was checked out. It is not true of the files: what was written
or staged stays in the working tree, and the next capture is refused until the
person has cleaned it. On a detached head `currentBranch` returns
`HEAD` and going back goes nowhere. `Alone` states what does hold.

It is claimed of captures that nobody came between (`alone`). Two at
once, or a person who switches branches in the middle, do make one capture
commit to another one's branch: `git commit` takes whatever is staged to
whatever is checked out. `NothingWrittenOver` holds of these too.
`stripSecretData` is an operator over the shapes a Secret's two fields can
have. Three things are not seen: after a way back that failed nothing is claimed
of where the person is; the run does not put an act of the person between two
captures that overlap (`CaptureBound`); and a file that `.gitignore` hides is
written over by git itself when a branch that has it is checked out.

### DriftScan and DriftRender

`DriftScan` is one comparison. A document is looked up by a read (`Found`,
`NotFound`, `GetFails`) and, if the object exists, by a dry-run update that pins
the version read (`Accepted`, `Refused`); then the kinds worth a look are listed
(`Listed`, `ListFails`), and the command ends on the summary (`Finish`). Between
any two calls somebody else may write (`Write`). `Conclude` is what each branch
of the loop does with its result: all append an item, all but a failed read
count it. An object's version is the number of the write that made it, so that
one deleted and created again, or changed and changed back, is another. `NsOf`,
`KeyOf` and `Path` are three names for one object that the code builds in three
places: the namespace assumed, what is noted for the lists, and what is looked
up. A dry run is taken to return the document's body: defaults that the API
server fills in would be the same on both sides. `was` and `unlisted` are
history: the bodies each object had since the scan began, and the lists that
failed.

What `render` returns is any of `Repositories` there. `DriftRender` is `render`:
a tree says which directories have a kustomization or a chart, which directories
a kustomization lists, and whether the manifest in a directory can be read as it
is. `Topmost` is the walk that does not descend into what it found, `dropBases`
and `charts` (`outsideOf`) are the code's, and so is the asymmetry of the last walk,
which skips the kustomizations it found and not the charts (`left`). What
kustomize takes in (`Inputs`) and refuses (`Buildable`) and what Helm takes for a
template are external. A build that fails fails the whole (`BuildFails`).

### PortForwards

`Start` is a goroutine whose `select` takes any branch that is ready: the error
of `ForwardPorts`, a listener (`StartReady`), or the end of the connection that
asked (`StartCut`). `tunnel` is client-go's side. Errors reach the window as
toasts, which are left out. `Stop` and `List` are the
read loop's. All three answer with a list that is read first and sent
later (`answers`), and the window shows the list it took last, so a forward that
was stopped can come back to the rail. The window and the engine are taken to
notice a lost link at once here; `EngineSocket` has them apart. Three things the
code does that no property forbids: a forward whose pod was lost stays
listed with an `Error` the rail does not show; `docs/features.md:425` calls what
is listed active; and the toast of `startForward` names the first forward of
that pod and port, which may be one of another namespace.

### DemoRecording and DemoEngine

`Agenda` is what each stage of `record-demo.mjs` asks, from what the earlier
stages have put on the tape. An answer may come after its ask was given up on
(`GiveUp`), things may be gone when they are asked for (`Refused`), and the
release may be upgraded between two asks (`Upgrade`). Events are asked for with
no kind (`record-demo.mjs:86`), and `EventsFor` then takes those of any
object of that namespace and name: `NamedAs` is this set, and what is filed
under a Deployment's key includes its Service's. An ask for events that came to
nothing files none (`Miss`).

`redactSecretYaml` is a fold over the lines of an object, a line being what it is
to that function. A quoted key and a line of a block scalar are kinds of their own,
since the regular expression does not read them as `key: value` and leaves
them. `Cleaned` says which lines go and which stay, by what is above
them. That is a statement about the function, and no property of a run: the tape
carries no text here. The scrub applies it to the tape's `objects` only; a
release's manifest and the objects of a rollback change pass the sweep over texts
and nothing else, and are not modelled.

`DemoEngine` EXTENDS the recorder: its socket starts from whatever tape was
published, and a tape key is built once by the recorder (`RowKey`) and once by
the demo (`Key`), as in the code. `Reply` to `helm.list` is every release on
tape, whatever the namespace. `findEvents` takes the first key that includes the
name; a name here is not a part of another, so `Within` compares whole names,
and a name that is the beginning of another, as `web` and `web-2`, would match
too. `DemoAnswers` holds of the first match, whichever it is.

### MCEngine and MCWindow

`MCWindow` runs the modules of the window, the capture, the forwards and the demo as
eleven *scenes*: `scene` is chosen at the start and only that module's variables
move, so the state space is the sum of theirs. They are not composed because the code does not couple
them: what two scenes share (the selection, the cluster) is an arbitrary input
to each, which covers what the other would do to it. `MCEngine` does the same with
four scenes: the socket with its streams, the audit log, the scan and the
rendering, none of which calls another but the scan the rendering, and of that it
uses the result only: any sequence of documents, which covers what is rendered.

## 3. Runs

| Run | Instance | Shows |
|---|---|---|
| `engine` | one scene at a time, below | `EngineTypeOK` and the ten properties below |
| `audit_torn` (violation) | short writes | the comment "Every failure leaves the chain untouched" is wrong for a write that fails half way |
| `gate_safe` | 2 changes, 2 deciders, 1 object, 1 edit, 1 crash | `ApprovalOnDisk`, `ExecutedOnceInOrder`, `OutcomeIsTrue`, `OneStory`, `ApplyHitsReviewed` |
| `settles`, gate | 1 change, 2 deciders, 2 objects, 2 edits, 1 crash | `SettlesTypeOK`, `OutcomeRecorded`, `ImplementsLifecycle` |
| `settles`, table | 1 object, 2 changes, 2 polls, 1 disconnection | `SettlesTypeOK`, `TableMatchesCluster`, `NothingMissing`, `CatchesUp` |
| `gate_unrecorded` (violation) | a refused append | a proposal that was refused because it could not be recorded is held and can be approved |
| `stream_metrics` (violation) | 1 change, 1 poll | a tick puts back the row of a pod that was deleted |
| `socket_requests` | 1 request, 1 subscription, 2 connections | `CarriedOutOnce`, `EveryRequestSettles`, `StoppedReleases` |
| `socket_answer` (violation) | 1 request | a rejected request is sent and carried out after all |
| `socket_rows` (violation) | 1 table, 2 subscriptions | a table keeps the rows of what it showed before |
| `drift_zero` (violation) | the scan of `engine` | exit code 0 when nothing could be looked up |
| `window` | one scene at a time, below | `WindowTypeOK` and the fourteen properties below |
| `drawer_edit` (violation) | the drawer of `window` | an edit of a text that is out of date is written |

| Property of `engine` | Scene | Says |
|---|---|---|
| `SubscriptionsAgree` | socket | at rest the engine streams what the window subscribed to, that and once |
| `NoOrphanStream` | socket | a stream that runs can be stopped |
| `HeldKeepsRunning`, `NothingLeftRunning` | socket | informers run while a stream holds them, and not after |
| `ChainVerifies` | log | no false alarm |
| `AckedOrDetected` | log | no silent loss of what was acknowledged |
| `SequenceGrows` | log | numbers grow, across garbled lines and lost tails |
| `ReportTrue` | scan | what a report says of an object was so at some time during the scan |
| `ReportTells` | scan | each document once, nothing both declared and unmanaged, no unmanaged object missed; the exit code is 1 exactly when something compared differs |
| `RenderFits` | render | no manifest a root or chart takes in, or the walk reaches, is lost, unless roots list each other; none that is patched is read raw too |

| Property of `window` | Scene | Says |
|---|---|---|
| `BoxesAreSelected` | drawer | containers shown are of the kind and name selected; revealed values were read where the selection is, from a Secret that an object of its kind and name refers to |
| `SettledPanesFit` | drawer | with nothing in flight a pane shows the selection, data masked; not after a refusal, an overtaken answer, or a namesake |
| `SettledReportFits` | scoped | with nothing asked the report is the one last asked for, and of the scope where the screen follows it; the release is of the cluster; not what an answer out of order filled |
| `WindowFits` | nav | tab, kind of the rows, selection, counts and filter fit the screen |
| `ReviewIsTrue` | review | toasts tell the gate's outcome; the list catches up; the dialog is freed |
| `ClaimsAgree` | overview | pill, colour, sentence and attention list agree, whichever of the four subscriptions has answered |
| `HistogramCounts` | overview | the bars add up to the warnings counted beside them, but those newer than the clock |
| `LogFollows` | logs | the last lines of what came, paused or not; whole and in order until a link comes back |
| `ShellsAreOwned` | terminal | a shell's output on its own pane; no shell left without one |
| `ExplainIsOfItsEvidence` | explain | the answer is of the evidence beside it; one question out at most; both of the selection but in the two cases it names |
| `ForwardsHeld` | forwards | every listener can be stopped, once; the rail lists them unless its last list came late or to nobody |
| `CaptureHoldsItsOwn` | capture | a capture changes its own branch only, all or nothing; no file written over; no Secret's value written |
| `TapeFits` | demo | what is on tape is under its own key, events under their name's, and complete but for what was missed |
| `DemoAnswers` | demo | the demo shows what was recorded of what is selected, and only that, but for events, releases and what its keys cannot find |

### Why the bounds are enough

* `engine`, log: one engine, every fault, four appends. A torn line, the entry glued to it, a reopen and an entry after that
  take three appends, the fourth lets the chain go on. Two entries before an
  edit are needed for the edit to have a successor.
* `gate_safe`: a plan of two ops on one object is the shortest that meets what
  it did itself; two deciders on one change are the race for the status, two
  changes the race for the object; one edit separates review from write, one
  crash what was done from what is recorded. The two changes and the two deciders are interchangeable, so the run uses
  symmetry (it checks no liveness).
* `settles`, gate: the plans have two objects and all op kinds, without symmetry.
* `settles`, table: nothing in the code relates two keys (the batcher, the rows,
  `lastMetrics` are maps by key, and a flush or a snapshot takes all of them in
  one step), so a table of one object has every order of events an object can
  meet. Two changes are a deletion and a return; two polls in one
  connection reach the case where the usage has not moved. With `MaxOut` 2
  the queue holds a cached and a live snapshot and is then full.
* `engine`, socket: one table, four targets, two orders, two connections. An
  order is a subscription, and each may be taken back: a table that shows one
  thing, then another, or the same again, closed in between or not, with a drop
  anywhere; each connection may get the same subscription from the map and from the queue. A
  connection that cannot be opened may fail any number of times. Two tables
  meet only in the session's factories, where the old and the new stream of
  one table, on two connections, already overlap.
* `socket_requests`: one request is lost, queued, answered late, or waits
  behind a subscription or the end of one. Requests share nothing but the queues.

* `engine`, scan: three objects, five repositories, five requests, two writes. One kind that is listed and has a namespace and one that is of
  the whole cluster; two namespaces, one of them the flag's. The documents name
  their namespace, leave it out, name one although their kind has none, and are
  there twice with different bodies. Two writes are an object changed between
  its read and its dry run and changed back, or deleted and created
  again; documents share nothing but the report.
* `engine`, render: seven directories. A root can lie at the top, in another one, beside one, in a
  chart, and where no walk goes; the six listings are downward, sideways,
  back, and into what no walk enters, in every combination. A chart with a
  template, of the template language or plain, in a kustomization or not.
* `window`: two clusters, two keys and two kinds per cluster are every way
  in which two selections can agree in part; two requests of a purpose in flight
  are the least that can cross, and a third would be a third crossing of the
  same kind. In the review two changes let an answer meet the dialog of
  another one. The overview has two pods, so that a count differs from
  "some", and three histogram buckets, so that there is an inner one. The
  log pane keeps two lines of three written, so that lines fall off the front,
  and three sessions are one stopped, one replaced and one running. The demo's
  five things are two namesakes across namespaces, one of another
  kind, one without a namespace and a release; the release may be upgraded
  once between any two asks; one ask comes to nothing. A capture has a
  request of two objects, the least that can be half done, and one whose file is
  hidden; two windows, whose captures overlap; two branch names, so that the
  second starts from where the first ended; and one act of the person, at any
  point: after it, one capture at a time (`CaptureBound`). Two forwards, a stop and a
  lost link are what a race takes. About 1.3 million states, told apart by the
  variables of their scene (`SceneView`), without the tab where the pane of the drawer
  does not look at it (`TabSeen`).

`CHECK_DEADLOCK FALSE` is set everywhere: each system may rest, and with the
bounds used up it does.

### Fairness

* gate: weak fairness of each `Propose` and each `Decide` goroutine. Go
  schedules runnable goroutines, an append returns, and `dryRun` and `execute`
  put deadlines of 15 and 30 s on their calls. Nobody has to decide or edit.
* stream: weak fairness of handler, stream goroutine, window, and of
  reconnecting. No cluster change, poll, or loss is forced.
  `CatchesUp` needs nothing else because those are bounded: it says what
  happens when the cluster comes to rest.
* socket: weak fairness of the window's event loop, of each connection's read
  loop, each request goroutine and each stream goroutine. `Closed` is not fair
  and `Opened` may lose to it for ever: `EveryRequestSettles` holds for
  an engine that never comes back. A request handler that called a cluster
  without a deadline would break the assumption; those that do not set one
  use the connection's context, which ends with the connection.

* window, comparison: none. Their specifications are safety only: no property of theirs
  needs an answer to come, and "once nothing is in flight" is a state.

## 4. Findings

Seven runs show the code disagree with its own words; each is quoted in
`PROJECT.json`.

1. A short write leaves torn bytes in the log (`audit_torn`, `audit.go:96`).
2. A change whose proposal could not be recorded is held (`gate_unrecorded`,
   `change.go:143`).
3. A metrics tick overtakes a delete and the row stays (`stream_metrics`,
   `resources.go:185`). `NothingMissing` is what does hold with metrics.
4. The queue survives `onclose` and the promises do not (`socket_answer`,
   `socket.ts:53`).
5. A replaced stream's snapshot lands on the table of its successor
   (`socket_rows`, `resources.go:170`).
6. A comparison in which every read failed, as with a cluster that cannot be
   reached, exits 0 (`drift_zero`, `cli/drift.go:71`). `ExitTells` is what holds.

7. Saving an edit does not use the resourceVersion that was loaded
   (`drawer_edit`, `change.go:454`): the dry run is sent without one (line 383)
   and execute sends that of the object it has just read. Somebody else's change
   from before the review is undone without a conflict. The diff under review shows it,
   and a change after the review is refused (`ApplyHitsReviewed`).

Five more sentences about the comparison do not hold. Each is a definition at
the end of its module which TLC refutes as an invariant of the instances
`MCDriftScan` and `MCDriftRender`:

* `OneNamespace`: `docs/cli.md:32` has `--namespace` restrict the comparison to
  one namespace. It fills in the namespace of documents that name none and
  restricts what is listed as unmanaged; a document of another namespace is compared
  and counted (`drift.go:227`).
* `ReadOnlyIsEnough`: `docs/cli.md:108` says that a read-only credential is
  enough. The dry-run update is refused to it and every object that exists is
  reported as modified (`drift.go:258`); `mcp/tools.go:202` knows better.
* `LoudOrWhole`: `drift_test.go:217` wants a kustomization that cannot build to
  fail. Those that list each other, or themselves, are dropped as bases and skipped by
  the walk (`render.go:138`). `NothingLost` has the exception.
* `OnlyThroughHelm`: `drift_test.go:321` wants a chart's files to come through Helm
  only. The walk enters charts, so a template without template syntax is rendered
  and read raw (`drift.go:141`).
* `BaseOnce`: `render.go:122` drops bases so that no object is reported twice. A
  base that a root takes in through a kustomization nested below it is not among
  those it looks at, and is built on its own as well (`render.go:127`).

## 5. Proofs

`tlapm` checks every leaf. No theorem assumes anything but the named ASSUMEs on
the constants, and in the log that there is one engine, where the theorem says
so. The ASSUMEs say of what kind the bounds are, that names are finitely many,
and that what stands for "nothing" is no value. Three say more:
`RecordingAssumption` makes a thing a triple of strings (kind, namespace,
name), as the JSON has it; `RenderAssumption` has only kustomizations list
directories; `DemoAssumption` excludes a namespace of the name
`undefined`, which is legal in a cluster and which the keys of the tape confuse with
no namespace at all.

**AuditLogProofs.** `LogTyping` is an induction on the actions; the lemmas say
that `TailOf` returns an entry and that `Emit` keeps a sequence of lines.
`NoFalseAlarm`: with one engine, `ChainVerifies` holds. The property alone is
not inductive: what `Append` writes next comes from `last`, not from the file.
The invariant `ChainInv` adds, while `intact`, that every line continues
the chain, that a running engine's `last` is the last line of the file, and
that the head is not ahead of it. With two engines it is false, which the
theorem's assumption records.

`NumbersGrow` and `AcknowledgedOrDetected` are proved for one engine and any
faults. `SequenceGrows` follows from `GrowInv`: the numbers in the file grow
and a running engine's next number is beyond them, also across garbled lines
and lost tails. `AckedOrDetected` needs to know how an acknowledged line can be
missing from the file. An entry's hash lists the instants it covers, so that the argument is about
sets of instants: `KeptInv` says that until a tail is lost, a chain that is
whole up to the head holds every acknowledged instant, and that one `Append` is
about to acknowledge; `LostInv` the same once a tail was lost, when the line the
head points at must also bear the head's hash; `HistoryInv` that no hash names
an instant that has not been, which is why a line written over a lost tail
cannot bear the hash the head has.

**ChangeGateProofs.** One inductive invariant `IInv` carries all six theorems;
`Typing`, `ApprovalFirst`, `OnceInOrder`, `TrueOutcome`, `SingleStory` and
`AppliesReviewed` are its corollaries. Its parts:

* `ProposalInv`: how far the review got fits where `Propose` is, and only a
  fully reviewed change has a status;
* `CallInv`: a goroutine inside `Decide` decides a change whose status is the
  one that stretch of code works under, and no two goroutines are inside the
  execution of one change. This is what the test and set under the lock buys,
  and everything else hangs on it;
* `ExecInv`: the ops that reached the cluster are a prefix of the plan, its
  length fixed by the position of the one goroutine, or by the status when
  there is none;
* `LogInv`: the same for the entries of the log;
* `SeenInv`: what `execute` read, and may pin an apply to, was compared with
  the review, and an unchanged version means unchanged content.

There is one lemma per action and `NextInv` puts them together. Crash and
edits are actions like the others.

`GateImplementsLifecycle`, in the same module: every step of the gate is
a step of `ChangeLifecycle`, or leaves the mapped state alone, given `IInv`.
`SameApproved` and `OtherEntry` say which log entries matter.

**ResourceStreamProofs.** `StreamTyping`, `TableCorrect` and `TableComplete`, for
any objects, polls and queue limit. The settled table is where each key's last
word was obeyed. `LastWord(k)` says where that word is: in the
handler's queue, in the batch, in what the stream has listed, in the last
message of `out` that says anything of `k`, or, when all of these are silent, in
the rows themselves; and that it fits the store. Each step moves the word one
place on, and `Settled` leaves it only the last place. `CachedInv` does the same for the
last snapshot, since a settled table may not show the file on disk. With metrics
a tick can put a word of an older version behind the last, so `Fits` asks
for the version only without them; what remains is `NothingMissing`.

**EngineSocketProofs.** Of the factories: `HeldRuns` and `NothingLeft`, for any
number of holders, namespaces and kinds. The inductive invariant says that
`refs[e]` is the number of holders of `e`, so that the release that counts to
zero is the last; the two properties follow for held and unheld entries. Of the
socket: `SocketTyping`, `EngineAgrees`, `StreamsOwned` and
`RequestsOnce`, for any tables, targets, connections and requests; and
`SocketImplementsFactories`: every step of the socket is a step of
`SessionFactories` or a stutter, with a stream as holder, so what is proved of holders
holds of streams (`StreamsKeepRunning`, `StreamsLeaveNothing`). `LinkInv` relates the
two ends of a link, `StreamsInv` where a stream is to what it holds.
`WordInv` is the last word again: the last message on the way
about a table is what the window subscribed to, or nothing is on the way
and the engine does that already (`Engaged`). `OnceInv` has a request in at
most one of the window's queue, a link and the engine's tasks, and in none of
them after it was carried out.

**WindowProofs** has a part for each of seven modules.

*Drawer.* `DrawerTyping` and `BoxesCorrect`, for any
clusters, keys and requests in flight. `HereInv`: the object selected is in
the cluster the window is on. `BoxInv`: a request to reveal that is in flight
is for the object selected and for a Secret that an object of its kind and name refers to,
because the component that would take its answer dies when the name does.
`SettledCorrect` is `SettledPanesFit`. `NewestInv`: the newest request is for the object selected,
because each move that changes what a pane watches also asks or clears.
`ComesInv`: what is wanted is shown or that request is still out. `OnlyInv`: nothing
else is shown. These hold while no older answer came last, and, for panes
that compare less than the whole object, while the selection
did not stray to one they take for the same; the property excepts both, because
the code lets them happen.

*Scoped screens.* `ScopedTyping` and `ScopedCorrect`. The invariant ties
the ticket in `latest` to the scope in `asked` (`LatestInv`), and `asked` to the
scope the window has (`AskedInv`); says which screen makes which reads
(`ScreenInv`); and of the report, that the newest is still to come, has failed, or is
the one shown unless an older one was put over it (`ShownInv`).

*Review.* `ReviewTyping` and `ReviewCorrect`. `BusyInv`: while a
decision or its list is on the way, and only then, the dialog is busy, and there
is one decision at most. `AnswerInv`: what is on the way back is the status the gate has.
`ToldInv`: a told status is final. `ListInv`: the newest list,
asked for, on the way or shown, was or will be taken after every outcome told.

*Navigation.* `NavTyping` and `NavigationFits`, for any clusters and
namespaces. `WindowFits` is inductive but for the tab: a tab must fit also while
nothing is selected, since the next selection may keep it (`TabInv`), and only a
table has subscriptions (`StreamInv`). Nearly all
actions are `Settle`, so one lemma says what its arguments must satisfy and
each action is shown to satisfy that.

*Overview.* `OverviewCorrect` proves `ClaimsAgree`, for any pods, deployments and
nodes. The five statements are operators of one state, so the type invariant is all
the induction there is; the work is in the lemmas on counts: a count is zero
when nothing is counted, the parts of a total add up to it, and the attention
list has as many entries of a feed as the sentence says. `HistogramCorrect` proves
`HistogramCounts`, for any number of bars: the sum of the bars is a fold, whose value
`FoldExists` shows to be what its definition says, and the sum over the first
`n` bars is the number of warnings that fall into these.

*Demo.* `RecordingCorrect` and `DemoCorrect`, for any things on the
cluster. `RedactionCorrect` says of a text of any length which lines
`redactSecretYaml` blanks, drops and keeps: after each line the fold is in the state, and has kept the
lines, that the definition of `Cleaned` says. `EventsFound` says of the key the demo finds
events under what `DemoAnswers` needs.
`AskInv`: what is asked, or will be, fits the stage and what is on tape
already, so an answer can be filed under its own key (`FiledInv`).
`HomeInv` and `ConsumersInv`: past the stage that asks for a thing it is on
tape, unless something was missed. `RevisionInv` relates the release listed to the
plan to undo it. For the player, `TimersInv`: the body of a reply
was fixed when its timer was set and is what the tape says still. `TableInv` and
`VisitInv` are last words: the last reply on its way is of the table,
or the object, that is open now. `BlankInv`: nothing is shown of an unpublished
tape.

**PanesProofs** has a part for each of five modules.

*Terminals.* `ShellsCorrect`. `ShellInv`: a shell that is not on the screen
has its stop on the way. `OrderInv`: a session is started once and ended once,
and in the order of `uplink`, so a stop cannot overtake its start, and
nothing of a session follows word of its end.

*Explain.* `ExplainCorrect`. `ExplainInv`: while the pane works no answer is shown,
and the question that is out finds the evidence it was sent still there, or none.

*Logs.* `LogCorrect`. `TailInv`: lines and buffer end as all that landed does,
however it was cut and whenever the pane paused. `CurrentInv`: one stream is of the choice, its
frames are chained (each begins where the one before ended), and the lines shown
continue to the first of them.

*Forwards.* `ForwardsCorrect`. `TunnelInv`: an open listener is in the list or
its `Start` is still running and will end it. `RequestedInv` and `RepliedInv`: a request
and its answer are in one place at a time, so no answer resolves another's promise.
`WordInv`: the last list on its way is the engine's, or another
will follow.

*Capture.* `CaptureCorrect`. `ApartInv`: a path has one file in every tree, which
is what `O_EXCL` and the check for uncommitted changes keep, whoever comes
between. `AloneInv`: of a capture nobody came between, where it
is fixes the branch checked out, the files written and staged, and the
trees of its two branches.

**MCWindowProofs.** Each behaviour of `WindowSpec` is one of every
module, stuttering while another scene is on. So `WindowTyping`, `PanesCorrect`,
`ScreensCorrect`, `WindowCaptures` and `WindowDemo` carry over the properties the
run checks.

**MCEngineProofs** has a part for each of two modules, and one for the instance.

*Scan.* `ReportsTrue` and `ReportsTell`, for any
objects, documents, requests and number of writes by others. Of what is read in one
action and used in a later one the invariant says what stays true of it: `WasInv`, that an
object's present body is among those it had; `ReadInv`, that so is the one read.
`ItemInv` says what an item may be of, `ItemsInv` that each document the loop
has passed is in one item and no other in any. `SumInv`:
a state's number is 0 exactly when no counted item has it, which is all the exit code
looks at. `ListInv`: of the kinds listed so far, whatever was there all along and is
nobody's is in the report.

*Render.* `RendersFit`, for any directories
and trees. `TopmostAbove`: every kustomization that a walk can reach lies in one that was
found, the shortest above it; so what is read raw lies in none, and a build takes
in directories with a kustomization only (`HowInv`). `BuiltInv` and `EndInv`: what was built is
in the result whole. `NothingIsLost` takes the set of roots found whose inputs are in
no build: each is listed by another root, which is lost as well, since the
inputs of a root are among those of a root that lists it (`InputsOfInputs`); such
a set is empty unless it has a circle.

*Instance.* Each behaviour of `EngineSpec` is one of every module, stuttering while
another scene is on, so `EngineTyping`, `EngineCorrect` and, for one engine,
`EngineRecords` carry over the properties the run checks.

Folds and inductions over numbers are proved without the library's induction
theorems: a set of numbers without a least one is empty (`LeastNumber`, from the
well-foundedness of `<`), and the counterexamples to a claim are such a set.

Only model-checked:

* liveness (`OutcomeRecorded`, `CatchesUp`, `EveryRequestSettles`,
  `StoppedReleases`): under fairness, and so beyond the prover.

Every other property of a passing run is a theorem, `SettlesTypeOK` in its two parts
(`StreamTyping`, `Typing`).

## 6. Not modelled

Besides the components marked so in `PROJECT.json`:

* two engines on one data directory: `docs/architecture.md:96` takes one writer
  for granted and nothing enforces it. `AuditLog` has the constant `Engines`,
  and with two `ChainVerifies` fails at once;
* the text of diffs, blast radius, redaction; wording and layout of screens;
* usage cells: a stale one is corrected when usage moves again;
* the kubeconfig, the read-only transport, the handshake;
* the end of the process, beyond the crashes of log and gate;
* the rest of the window: charts and their points, formats, themes, sorting,
  column choice, the toasts of forwards, and the scale, restart and delete
  buttons, which only propose;
* of the capture: the push and the URL, after which nothing of the repository
  changes; the checks of the folder and the branch name; the server's fields
  that `cleanForGit` drops; a log entry that is not written
  (`server.go:377` ignores the error);
* of the comparison: the checks of the path, decoding and kinds the registry does
  not know (a document is one that decodes, of a known kind), the text of
  diffs and the masking of Secrets in them, which values files a chart gets,
  the order of the report and its printing;
* the rest of the scripts: the scrub's allowlist of fields and its sweep over
  texts, which is all that a release's manifest and a rollback's objects pass, the shift of recorded times, and `serve`, `stamp`, `check` and
  `shoot`, which read files and drive a browser;
* `site/` holds the built output of `app/` and is not source.

## 7. Plan

Written so far: everything down to the line of `DriftRender`. "Done" means
that all safety properties of the runs are theorems.

| Module | Abstract specification | Runs | Theorems |
|---|---|---|---|
| `AuditLog` | | `engine`, `audit_torn` | done, for one engine |
| `ChangeGate` | `ChangeLifecycle` | `gate_*`, `settles` | done |
| `ResourceStream` | table = cluster when settled | `settles`, `stream_metrics` | done |
| `SessionFactories` | | `engine`, through `EngineSocket` | done |
| `EngineSocket` | `SessionFactories` | `engine`, `socket_*` | done; next: a delta of a stopped stream reaches no table that was not replaced |
| `ObjectDrawer`, `ScopedScreens`, `WindowNav`, `ChangeReview` | | `window`, `drawer_edit` | done |
| `OverviewClaims` | | `window` | done |
| `LogFollow`, `TerminalSession`, `ExplainPane`, `PortForwards` | | `window` | done |
| `DemoRecording`, `DemoEngine` | | `window` | done |
| `DriftCapture` | | `window` | done |
| `DriftScan`, `DriftRender` | | `engine`, `drift_zero` | done |
| `MetricsHistory` | | bounded rings | next: ring and key limits |
| `PlanRollback`, timeline merge | | as far as the runs allow | |
