# 3x-ui: a TLA+ verification project

3x-ui is a web panel that manages Xray cores. Its server, in Go, keeps inbounds
and clients in a database, generates the configuration of the local core,
accounts traffic, enforces quotas and deadlines and, as a *master*, drives other
panels (*nodes*). Its web interface, in TypeScript, edits all this through
dialogs that stay open while answers, notices and other operators' changes come
in. This directory holds TLA+ models of the parts of both in which several
goroutines, several copies of the same data, several requests or several
machines have to agree, the TLC runs that check them on small instances, and
TLAPS proofs of the most important properties for every value of the constants.

`PROJECT.json` lists the components, the runs, the hazards each property is
for, the faults the properties were tried against, and, for each definition,
the source lines it stands for. All paths below are under `src/`.

## 1. Inventory

### The server

| part | state | operations | what is hard |
|---|---|---|---|
| **Traffic writer** `internal/web/service/traffic_writer.go` | package variables `twQueue`, `twCtx`, `twCancel`, `twDone` under `twMu` | start, stop, submit with retry | a stop racing a send; generations of channels; retries |
| **Local traffic, quota, expiry** `inbound_traffic.go`, `inbound_disable.go` | `client_traffics`, settings JSON of the inbounds, `clients` | the traffic tick: add usage, start delayed deadlines, renew, disable | three copies of every deadline and flag; the order of the parts of a tick; boundaries |
| **Client editing** `client_crud.go`, `client_inbound_apply.go`, `client_link.go`, `client_locks.go` | the same tables, tombstones | create, update, delete, attach, detach, reset | one transaction per inbound; settings read before the transaction that saves them; failures half way |
| **Node traffic accounting** `inbound_node.go` | `client_traffics`, `node_client_traffics`, `client_inbounds`, tombstones | fetch a snapshot, merge it | snapshots older than edits, counters that fall, copies of one counter that diverge |
| **Xray reconciliation** `xray.go`, `internal/xray/hot_diff.go`, `process.go` | process object `p` with its snapshot, flags `isNeedXrayRestart`, `isManuallyStopped`, package lock | restart, hot apply, stop, crash check, pushes of users | database, snapshot and core drift apart; calls that fail; edits during a restart |
| Node configuration sync `node.go`, `internal/web/runtime` (not modelled) | `config_dirty`, `config_dirty_at`, fingerprints | push plan, reconcile, mark and clear dirty | compare-and-set on a time stamp, pushes that fail |
| Event bus, WebSocket hub, tunnel monitor (not modelled) | channels, subscriber lists, failure counters | publish, broadcast, probe | full buffers, stop against publish, cooldown |
| Client IP limit, inbound editing, MTProto and AmneziaWG managers (not modelled) | tables, child processes | scan the log; add, update, delete; reconcile | log rotation; checks outside the saving transaction |

Cron jobs (`internal/web/web.go`, each wrapped so that a job never overlaps with
itself), HTTP handlers and the Telegram bot call the services. Everything that
changes `client_traffics` or `inbounds` in the hot path goes through the traffic
writer, so those transactions are serial; what a handler read *before* it
submitted, and what it pushes to a core or a node *after* its transaction
committed, is not. A service that changed something the core must know pushes
it through the core's API and, when that fails, sets `isNeedXrayRestart`; a cron
job turns the flag into `RestartXray`. Nodes are polled for traffic; the
snapshots are merged on the writer.

### The web interface (`frontend/src`)

| part | state | what is hard |
|---|---|---|
| **Xray template** `pages/xray/` with `reference-cleanup.ts` | outbounds, rules, balancers, observers that name each other | deletions and renames in any order; a confirmation that was computed earlier; answers that overwrite rows by an index read earlier |
| **Draft of the Xray settings** `hooks/useXraySetting.ts` | text and structure of the template, server's copy, cache, Save | edits while a save or a refetch is in flight; a server that changes the template by itself |
| **Tests of outbounds** the same hook, outbounds tab | results by row, two lanes of workers | rows that come and go; an endpoint that refuses a second batch |
| **WARP, DNS, basic controls, outbound form** `pages/xray/` | dialogs and lists over parts of the template | an adapter crossed in both directions; lists that stand for rules; two answers that have to belong together |
| **Share links** `lib/xray/inbound-link.ts`, `outbound-link-parser.ts` | none | a writer and a parser that were written apart |
| **Inbounds** `pages/inbounds/` | dialogs, fallback rows, live rows and counts | requests of a dialog that are answered in the next dialog; maps seeded and pushed |
| **Clients, groups** `pages/clients/`, `pages/groups/` | paged list, selection, dialogs | hydration before opening; saves of up to four requests, each of which may fail |
| **Nodes, hosts** `pages/nodes/`, `pages/hosts/` | tables and dialogs | stale answers; whole orders computed from a stale list |
| **Panel settings** `api/queries/useAllSettings.ts`, `pages/settings/` | draft, redacted secrets | a blank secret means "keep"; refetch against edits |
| **Dashboard** `pages/index/` | update, version and geodata, charts, logs | a panel that is away while it updates; a result file of an earlier run; answers out of order |
| **Requests and session** `api/http-init.ts` | CSRF token, shared fetch | a retry must not carry a request out twice |
| **WebSocket client, live lists** `api/websocket.ts`, `websocketBridge.ts`, `invalidationTracker.ts` | socket, timer, query cache | superseded sockets, lost notices, one timer for two lists |

One browser thread runs every handler to its end; the interleavings are those of
handlers with the answers of requests, timers, effects and the server. A page
keeps its state to itself; what pages share (query cache, WebSocket, session) is
modelled with the part that owns it, and each page models the server as far as
it talks to it, other operators included.

### Parts left out

The other parts of the server (subscription server, controllers, Telegram bot,
mail, migrations), the documentation site, the shell scripts and the layout and
generated code of the interface are not modelled: they format, parse, forward or
run once. `PROJECT.json` gives the reason for each.

## 2. Modules

| module | models |
|---|---|
| `TrafficWriter` | the serial writer, its callers, its start and stop |
| `NodeTraffic` | nodes, snapshots and the master's merge; resets and deletion of clients |
| `XrayReconcile` | database, snapshot and core; edits, polls, crash, stop, restart |
| `ClientQuota` | the traffic tick and concurrent client edits on the three copies of a client |
| `XrayTemplate` | outbounds, rules, balancers and observers, every handler that edits them, the dialogs |
| `ReliableLink`, `WebSocketClient` | what the link promises, and the socket with its timer that implements it |
| `LiveList` | notices, pushed lists, query cache and poll of inbounds and clients |
| `OutboundTests` | the test of one row and of all rows, with the endpoint |
| `Charts` | the views that poll |
| `LiveParts` | the four parts above in one module |
| `SettingsDraft`, `XrayEditor` | the drafts of the panel settings and of the Xray template |
| `DnsEditor`, `XrayBasics`, `WarpModal`, `OutboundForm`, `ShareLinks` | the rest of the Xray page |
| `InboundForm`, `InboundActions`, `InboundRollup` | the inbounds page |
| `ClientForm`, `ClientsList`, `ClientViews`, `Groups` | clients and groups |
| `Nodes`, `Hosts` | remote panels, host rows |
| `PanelUpdate`, `Geodata` | the dashboard |
| `HttpSession` | unsafe requests and their token |
| `PanelPages` | the nineteen pages and dialogs in one module |

An `MC` module gives values to the constants of the module it is named after; a
`Proofs` module holds its theorems. Definitions described as a fault or a
mutant are not used by any specification. Each is a plausible bug in the code of
the definition that follows, kept to show that a property notices it.

### TrafficWriter

One action per blocking point of the three kinds of goroutine. A caller of
`submitTrafficWrite` takes `twMu` and looks at the package state (`Inspect`),
puts its request into the channel with the mutex held (`Enqueue`), or gives up
when the channel stays full (`QueueFull`), waits for the reply or the closing of the
generation's done channel (`AwaitReply`), and repeats an attempt that was
aborted as a deadlock (`Finish`). Without a live writer the function runs on
the caller (`RunInline`). `runTrafficWriter` receives, applies, sees the
cancellation, drains and closes its channel; the main goroutine starts and
stops generations. What a function does is abstracted to its outcome, so
`commits` counts effects.

### NodeTraffic

The nodes are external: their actions produce what the master can read, a
counter per client that is shown under every inbound, sometimes with a stale
copy, and that falls when the node resets, renews or re-creates the client. A
snapshot is fetched and merged later; everything may happen in between. The
merge (`SetRemoteTraffic`) is the whole of `setRemoteTrafficLocked`: sweep of
vanished inbounds, seed or difference to the baseline, renewal, rows and
baselines of departed clients, links, settings, orphans. The master's own
requests (put a client on an inbound, take it off, delete it) read the settings
of an inbound under its lock and save them whole in a later transaction (`req`),
so that merges and sweeps fall in between; `Delete` does that inbound by inbound
and may fail half way. The history variables `gen`, `charged`, `local`, `exact`
and `since` say what really happened and whose share of the row is whose, and
`sticks` what a deletion must have removed for good; no guard reads them.

### XrayReconcile

A configuration maps each user to its credential (or `Absent`) and `Static`,
which stands for every section without a reload API, to a value. `want` is the
database, `cfg` the snapshot `p.config`, `live` the running core. A client edit
commits and then pushes a removal and an addition, each of which may fail;
polls remove depleted users; `RestartXray` runs in phases under the lock
(`RestartXray`, `GetXrayConfig`, `KeepRunning`, `HotRemove`, `HotAdd`,
`StopProcess`, `StartProcess`) for each of its callers. The lock serializes
restarts only: edits, depletions and settings commit in every phase of a
restart, and between the commit of an edit and its push. `Faults` says what may
fail, `MaxWaiting` how many callers wait at a time. Two history variables name
what the code does not repair: `lapsed`, a failure of which nobody told
`RestartXray`, and `raced`, the parts that the database changed behind a restart
that had read it or behind a push.

### ClientQuota

`row`, `conf` and `rec` are `client_traffics`, the settings of each inbound and
the table `clients`. A tick is one transaction and its parts are functions from
database to database, composed in the order of `addTrafficLocked`. `Update` is
a sequence: for each inbound it reads the settings under the inbound's lock
(`ReadInbound`), submits a transaction that saves them whole, updates the row
and copies the settings to the records (`SaveInbound`), and at the end writes the
record's flag (`FinishUpdate`). `ResetTrafficByEmail` enables a disabled client
through the same steps before it resets the row. A tick waits for none of this:
it falls between any two steps, and what it changed since a request read it is
lost when the request saves. The history variables `missed` and `stale` follow
that: the clients of whom a request saved, or goes on to save, what it knew
before a tick. Every client is on every inbound, and one client has one request
at a time.

### XrayTemplate

Every handler is one action over the whole lists. A dialog is an action that
opens it and keeps in `dialog` what its component captured (an index, a form, a
deletion plan), and one that confirms it; in between the other handlers and the
answers of `request` run. `taint` is history: it names the paths on which the
program itself gives up the references (raw JSON, values typed freely, an
answer written at an old index, the rename of an outbound that an observer
selects), and each part of `ReferencesResolve` states which of them it excepts.
Rows are cut down to the tags they hold; `RowsAt` stands for the `filter` calls.

### The live parts

`WebSocketClient` has the socket in use, superseded sockets whose close event is
still to come, the timer with its attempts and the pages that connect and
disconnect. `ReliableLink` has three states and says that a wanted link is down
only for a while; `KeepsLink` is the refinement (`INSTANCE ReliableLink WITH ...`)
and `LiveList` uses the link through the same three states. `OutboundTests`
keeps two lanes and the rows by index; `Charts` the requests under way with what each asked for.

### The pages

Each page module has its own `...Vars`, `...Init`, `...Next` and `...TypeOK`. Its
actions carry the names of the handlers (`onSave`, `openEdit`, `SettingsArrive`
for an answer); its server is a variable that handlers of this page and "another
operator" change. History variables (`edits`, `behind`, `late`, `replaced`,
`inbAlibi`, ...) record what excuses a deviation and are read by no guard but
bounds.

### Composition

`LiveParts` and `PanelPages` choose one part or page in the initial state and
let it run while the others rest in a state they may start in. The browser shows
one page at a time, and the modules share no variable, so that an interleaving
of two pages shows nothing that neither shows alone; the disjoint choice keeps
the state space a sum instead of a product. `VIEW PageShown` identifies states
that differ only in pages that rest, or in the inputs of a closed dialog: client and
inbound form are filled anew, and their history begun, when they open
(`clientShown`, `inbShown`). Each property of a composition is a
conjunction with one named part per page, so that a violation names its page.

## 3. Runs

| run | instance | shows |
|---|---|---|
| `writer` | 2 callers with one call of 2 attempts each, a channel of 1 slot, 2 generations | no request is abandoned by a stop, a function takes effect at most once and is reported truthfully, a stop drains, one writer applies at a time, nothing is sent to a cancelled generation; every submit and every stop returns |
| `traffic_moves` | 1 node, 2 tags, 1 client, 2 units of traffic, all edits on the node | traffic is charged once and, while the share must be exact, none is lost, with copies that diverge and clients that leave one inbound and stay on another; the tables keep their shape |
| `traffic_share` | 2 nodes and the local core with one client that renews | the row is the sum of the shares, an activated deadline stays |
| `traffic_delete` | 1 node, 1 tag, 2 clients, one of which is deleted, requests and edits for both | a deletion that ended well sticks while its tombstone lives, with snapshots in flight, sweeps, and requests that save what they read before |
| `xray_drift` | 1 user, 2 credentials, 2 static values, all calls may fail, changes in every phase of a restart | a lasting difference between core and database is hidden by the snapshot, changed behind a restart or a push, or comes from an unreported failure; snapshot and core agree on static sections |
| `xray_live` | 1 user, 1 credential, 1 static value, no failures, all six callers at once | a crashed core comes back, a difference that somebody can notice heals |
| `quota` | 2 clients that renew on 2 inbounds, 2 requests, deadlines and edits as in `MCClientQuota`, a quota of 1 unit, ticks anywhere | the copies of a client agree on its deadline, a client shown as enabled has an enabled row, but for lost updates; limits hold after every tick; only an edit takes an activated deadline back |
| `template` | 4 outbound tags, 1 balancer tag, lists of up to 2, 1 and 1 rows | references resolve, a deletion disarms no rule and does what it announced |
| `live` | 3 sockets, 2 changes and messages, 3 outbounds, 1 worker, 3 selections | the socket implements the reliable link, screens are truthful at rest, retries are prompt, every part settles |
| `pages` | per page two or three subjects and one to three acts of each kind | dialogs act on what they were opened for, pages show what is stored, requests are well formed, links lead back, what is saved is what was shown, edits do not touch what is beside them |

Runs that show a disagreement between the code and what the repository says
(the findings in `PROJECT.json` quote the lines):

| run | property | what happens |
|---|---|---|
| `traffic_rename` | `RowOutlivesInbound` | a node's inbound comes back under a new tag; the merge creates the new inbound, asks outside its transaction who uses the client, and drops the row of a client that is still attached |
| `live_notices` | `NoticesHonoured` | two notices within the delay of the bridge: the second clears the timer of the first, whose list is not fetched |

More disagreements were met while modelling; they need other values of the
constants than the runs have, or are excused in a property by name, and are
described in section 5.

### Bounds and why they are enough

The writer needs two callers so that one can hold the mutex while another
waits, one slot so that the channel fills, two attempts for a retry to differ
from a first attempt, and two generations for a caller to wait on a dead one.
The accounting needs two tags for a client to leave one inbound and stay on
another and for copies to diverge (`traffic_moves`), two nodes to share a row
(`traffic_share`), and two units of traffic for a counter to fall and rise again
between two merges. A deletion needs a second client, whose request on the same
inbound saves settings that it read before the deletion; traffic plays no part
in it. In `XrayReconcile` users do not interact with each other; one user with
two credentials has every combination of database, snapshot and core, and two
static values make a change without reload API. One waiting caller suffices for
safety, since what a caller does depends on the state when it gets the lock;
liveness has all six wait at once, and one static value, because a restart for a
static change is the restart of any change. `ClientQuota` needs two inbounds for
the copies to differ, two clients for one edit to carry the other client along,
a clock that passes a deadline, and two requests at a time. The template needs a chain of
two outbounds, a rule and a balancer, because a reference is between two rows;
it has the longest lists that still finish, and its theorems hold for all
lengths. `live` needs a third socket for a superseded one to close late while the
next is being opened, and three selections for two answers to be overtaken.
A page needs a second subject (client, inbound, row, group) to be confused with
the first, and as many acts as its longest bad sequence: `MaxEdits`,
`MaxTyped...`, `Max...Clicks`, `MaxOpens`, `MaxKnobs`, `MaxViews`, `MaxActs`,
`MaxMoves`, `MaxTouches`, `MaxOthers`, `MaxPolls`, `MaxTasks`, `MaxRuns` and their
like are pure bounds on how often something is done, as are `MaxGen`, `MaxExp`,
`MaxTime`, `Total`, `MaxCalls`, `MaxRequests`, `Editable`, `Deletable` and
`Requested`.

`writer`, `live` and `pages` do not check for deadlock: callers, restarts, changes
and clicks are bounded, and the system may come to rest. All other runs do.

### Fairness

`writer`: weak fairness of the writer goroutine and of each caller's send, wait
and inline run, since Go schedules a runnable goroutine eventually; a select
on a full channel has a timeout, so send or give-up is always enabled. Taking
`twMu` (`Inspect`, `StopClear`) has strong fairness because Go's mutex is
starvation-free. That a submitted function returns is assumed. Starting and
stopping the panel, and making calls, is not fair.

`xray_live`: weak fairness of the pushes that follow a commit, of the flag and
settings handlers, of the two cron jobs (the restart flag and the crash check)
and of the restart itself once it has the lock. Edits, depletions, crashes and
administrators are not fair.

`live` (`PartsFairness`): a browser timer fires (`TimerFires`, `Interval`, `Poll`),
a socket opens or closes, an answer is delivered or fails, the lanes of a test
advance. The fetch of the clients is strongly fair: each poll asks again, and a
server that is reachable again and again answers at some time. Connections
lost, changes, clicks and notices are not fair.

## 4. Proofs

All theorems hold for every value of the constants that satisfies the named
assumptions of the modules; those say that bounds are numbers, that lists of
initial rows are well-formed and that marks such as `NoTag` are no real value.
None is about liveness.

**TrafficWriterProofs**: `TypeCorrect`, `NoWriteAbandoned`, `StopHasDrained`,
`SingleWriter`, `CancelledIsClosedToSends`, `ResultIsEffect`. The properties
are not inductive: that a waiting caller is answered needs to know where its
request is. `Inv` says who holds `twMu`, that a send goes only to the live and
uncancelled generation (`Locked`), that a writer ends only drained (`Phases`),
that superseded generations are closed (`Superseded`) and that an unanswered
request is queued or being applied (`Held`). A second layer, `Once`, says that a
pending request is in one place only and is the one its caller waits for, which
makes commits unique across retries.

**NodeTrafficProofs**: `TypeCorrect`, `NeverChargedTwice`, `NothingIsLost`
(`ExactShare`), `RowsAreSums` (`RowIsSum`), `ActivationLasts`, `DeletionSticks`
(`DeletedIsGone`). The invariant relates, per
node and client, the share in the row, the baseline, the counter and the
traffic that happened (`charged + ctr - base <= gen`), and says the same of every
snapshot in flight as of the time of its fetch (`FlightInv`), because a merge
uses the snapshot's value against the baseline of now. `CanonIsTop` shows that
the fold over diverging copies finds the true counter. For `NothingIsLost` the
inequality is an equation as long as the history says that the share is exact
(`ExactInv`).
`RowsAreSums` says that a row is the sum of its shares over the nodes
(`SumInv`): every merge changes one share and the row by the same amount, and the
sum over a finite set of nodes changes with its summand (`SumExists`; the module
assumes that the nodes are finitely many).
For `DeletionSticks` the invariant `GoneInv` follows the deletion: while it is
under way, the settings that still name the client and the requests that read
them are on inbounds it has yet to come to; afterwards there are none of either,
and the tombstone keeps every snapshot from attaching the client again.

**XrayReconcileProofs**: `Typing`, `StaticAgreement` and `LastingDriftIsMasked`,
all for any failures and any order of edits, polls and restarts. `FreshInv` says
that what is being applied is still what the database says, part by part, unless
the part has raced; `MaskInv` that every difference is hidden by the snapshot,
being dealt with, raced, or lapsed. The exceptions are the code's: section 5.

**ClientQuotaProofs**: `TypeCorrect`, `CopiesShareDeadline`, `EnabledIsServed`,
`TickEnforcesLimits` and `ActivationIsKept`, with ticks between any steps of the
requests. The clients of whom a request overwrote what a tick had changed
(`stale`) are excepted from those three that this breaks. Between the steps of an edit the copies differ, so the
invariant `CopiesInv` follows the edit: before its first write the row agrees
with all inbounds (`Settled`); afterwards the row and the inbounds visited have
the new client (`Moving`); the record always has the deadline of some inbound
(`Copied`); the settings a request is about to save are those in the database,
because of the inbound's lock and where no tick came in between (`Guarded`,
`missed`). Ticks are handled by one lemma per
part: each keeps the agreement of a database that agrees.

**XrayTemplateProofs**: `TemplateTyping`, `ReferencesAlwaysResolve`,
`DeletionsDisarmNoRule`, `DeletionsAreAnnounced`. The lemmas about `RowsAt` and
`FirstIndex` say which rows a clean-up keeps and where; `CleanupKeeps` that what it
keeps refers to what it keeps. A reference written when a dialog is confirmed
was valid when the dialog opened, so `TemplateInv` needs `DialogFresh`: while no
late answer came in, what an open dialog captured (the row at its index, the
tags it offers, the plan of a deletion) is what the template has.

**LivePartsProofs**: for the WebSocket client, `SocketTyping`; `NeverStrandedNorDouble`
(while a page wants the link there is a live socket or a timer that makes one,
never two live sockets); `RetriedFast`; `ImplementsLink`, the step simulation of
`ReliableLink`; and for the composition `PartsTyping`, `ScreensAreTruthful`,
`PartsNeverStranded`, `RetriesArePrompt`, `PartsKeepLink`. `LiveInv` follows a
change of the server to the lists: a list that is behind has a fetch, a timer, a
mark or a message on its way, or one of the named causes. `TestsInv` says that
what is under way and what is stored belongs to the row at its index for as long
as no row was moved, and that the lock a run holds is that of a batch it waits for.

**DraftPagesProofs** and **PanelPagesProofs**: one inductive invariant per page,
and two theorems about each of the small components (`CarriedOutAtMostOnce` and
`RefusalHasCause` for a request and its token, `ReportsItsOwnRun` and
`CoveredUntilTold` for the update). A behaviour of `PagesSpec` stays on its page, so
`PagesInv`, the invariants of eighteen pages, is inductive page by page, and six of
the properties of the run `pages` follow whole: `PagesTyped` (`PagesTypeOK`),
`RequestsSound`, `ShownIsTrue` (`PagesShowTheTruth`), `DialogsKeepTheirSubject`, and
the two action properties `SavesStoreTheDialog` (`SavedIsWhatWasShown`) and
`EditsStandApart` (`EditsStayApart`). They hold for any sizes and any order of
answers, with the exceptions that the properties name in their comments; what the
code does in the excepted cases is in section 5. What the invariants add to the properties:

| page | needed in addition |
|---|---|
| settings (`SettingsInv`) | a secret that is to be cleared is not typed, in the draft and in the save under way |
| DNS (`DnsInv`, `ServerOpenInv`) | the keys of the rows, that an answer under way is no older than what is shown unless `behind` says so, and that the dialog of a server stands at a row of the list unless an answer replaced the list |
| template (`EditorInv`, `UntouchedInv`) | while no answer was late, the cache is what the server has, or an answer under way will bring it |
| requests (`HttpInv`) | a call waiting for its retry has not been carried out, and the retry has the token that was fetched for it |
| update (`UpdateInv`) | the status file tells the truth about the run whose id it carries |
| rollup (`RollupInv`) | the counts belong to the client rows and the online list they were computed from |
| list of clients (`ListInv`) | the answer shown belongs to the query on the screen; that a page after the first has rows rests on a count of places (`PlacesCount`) |
| client details (`ViewsInv`) | which answer an open dialog still waits for |
| client form (`ClientFormInv`, `FormAlone`) | only the answer that opens a form says for whom; beside a form that opened alone no record of another row is awaited; an untouched save carries, through its update, attachments, detachments and links, what the client had when the dialog was filled |
| inbound form (`FormInv`, `FormKnows`) | one transport in what the form holds; an untouched form is what the inbound stores, and its fallback rows are those stored or still being loaded |
| outbound form (`OutInv`) | text and form stand for each other while neither was edited after the last change of tab; reading a form back gives what it was filled with where every field is shown |
| inbounds (`ActionsInv`) | a list that a picker loads is that of its inbound, late answers included |
| groups (`GroupsInv`) | lists read after the last change show what is stored; while a request is carried out and not answered, its answer will ask again |
| nodes (`NodesInv`) | the channel that will be sent is the one the open confirmation shows; a save after a test carries the address that the test reached |
| hosts (`HostsInv`, `RequestSound`) | a request knows the rows it was opened for, and a move the order that was shown |
| geodata (`GeoInv`) | a save in the confirmation or under way is what was composed at the click; a restart that follows it serves it unless somebody else saved |
| WARP (`WarpInv`) | both answers of a registration are of one account |
| basic controls (`BasicsInv`, `OutboundsSound`, `TemplateSound`) | no outbound tag twice, the direct settings with the direct outbound; every rule stays a rule, and its lists stay lists |

Three of these rest on lemmas about data that the provers cannot get by induction
over an operator. They use instead that a set of numbers that is not empty has a
least one (`LeastNatural`): the smallest set of nodes, the shortest sequence or the
first position that breaks the claim does not exist. In this way `RowsAreSums`
gets the sum over the nodes (`SumExists`); the basic controls, what `FlattenSeq`
returns and that a list edited by `ruleSetter` reads back through `ruleGetter`
(`FlatIs`, `EditedReadsBack`, `EditedLeavesOthers`); the hosts, that an ascending
enumeration of the rows of an inbound exists and that it is the only one
(`OrderExists`, `OrderIsOne`), so that numbering the rows anew as the server does
shows them in the order that was sent (`NumbersGiveOrder`).

For the proofs `inboundHostsInOrder` is the ascending enumeration (and not a call of
the library's sort), a removed entry is dropped by `FlattenSeq` (`WithoutEntry`),
the values of the outbound form are a named set, and these facts about the
constants, which TLC evaluates on the run `pages`, are assumed: `NoHost` is no
host, `Missing` no sequence of entries or rules; the first inbounds of the inbound
form are such as it can have saved (one transport, no key without reality), their
fallbacks name finitely many targets, and "no inbound" is not one of them; the
first clients have flows only where they are attached.

Checked by TLC only:

- Liveness: `CallsReturn`, `Recovers`, `PartsSettle` and the fairness part of
  `KeepsLink`.
- `LinksLeadBack`: a property of two pure functions, the writer of share links and
  their parser, composed of conversions that take strings apart, the empty string
  among them, which the SMT backend cannot represent. TLC evaluates the round trip
  for every inbound, entry and host of the run.
- The two properties that fail, `RowOutlivesInbound` and `NoticesHonoured`.

## 5. Disagreements and limits

### Further disagreements

A passing run does not show these, since its properties except them by name. Each
can happen in the models: TLC finds it when the exception is taken out of the
property, and the theorems carry the same exceptions. They are no runs of their
own, because no line of the repository promises the contrary in so many words, or
because the promise is about more than the case.

The server:

- *A difference that no restart repairs* (`OnlyMaskedDrift`, the snapshot): an
  edit disables a client and enables it again, and the push of the second edit
  fails. The snapshot `p.config` was taken before the first and equals the
  database again, so `RestartXray` finds nothing to do while the core lacks the
  client, until something else differs or an administrator restarts the core. A
  comment says that change detection "compares against what is actually running"
  (`internal/xray/process.go:306`); it compares against the snapshot.
- *A change behind a restart or a push* (`raced`): nothing serializes a commit
  with `RestartXray`. An edit or a depletion that commits after `GetXrayConfig` has
  read the database, and whose own push comes before the stop or the hot apply
  (`xray.go:948`), is not in the configuration that the restart applies. A tick
  that disables a depleted client between the commit of an edit and its push
  (`client_inbound_apply.go:922`) is undone by the push: the core serves a client
  that the database has disabled.
- *Ticks lost to requests* (`DeadlinesAgree`, `ShownIsServed`, `stale`): a request
  reads the settings of an inbound before its transaction
  (`client_inbound_apply.go:870`) and saves them whole. What a tick renewed,
  activated or disabled in between is undone in the settings and the record, for
  every client of the inbound, and kept in the rows: the copies of a deadline
  part, and a client shown as enabled has a disabled row.
- *An activated deadline taken back by a reset* (`ActivatedStays`): a tick starts
  a delayed deadline between the reset's reading of the record
  (`client_traffic.go:30`) and its update, which writes the duration again.
- *A deleted client that comes back* (`DeletedIsGone`, `sticks`), under a live
  tombstone: a request read an inbound's settings, a sweep takes the inbound, the
  deletion therefore skips it, and the request's save inserts the inbound again,
  the deleted client with it; a request on an inbound that is not in the
  deletion's list does the same without a sweep; and an inbound that is new to
  the master is taken over with the node's settings as they are
  (`inbound_node.go:514`, `:711`), although tombstoned clients are stripped where
  a known inbound adopts them, "so adopting a stale snapshot can't re-add them to
  the central inbound" (`client_locks.go:187`).
- *A row that goes too early*: `DelInboundClientByEmail` asks whether the client
  is on another inbound before its transaction; attached meanwhile, the client
  loses its row.

The web interface:

- *Another client in an open form* (`FormIsItsClient`, `alone`): while the record of
  one row is fetched, another row's dialog can be opened; the first answer then
  replaces the client of the open form (`ClientsPage.tsx:471`). What was typed
  for one client is on the screen as an edit of the other, and a save started
  for the first goes on with the attachments of the second. The group dialogs share
  one `groupForAction` in the same way (`DialogsAimRight`), and the information
  dialog keeps the links of the client shown before when the next one has no
  subscription.
- *Edits taken by an answer* (`TakenOnlyByNews`, `DiscardedOnlyByNews`): every
  answer that differs from the one before seeds the editor anew
  (`useXraySetting.ts:157-174`; the draft of the panel settings does the same).
  Edits made while a save or a refetch is on its way are lost, as are all edits
  when the server has moved meanwhile and the page is refetched: by the refetch
  after a subscription operation, for one.
- *Fallbacks deleted by a save* (`InboundKept`, `rowsOf`): the fallback rows of an
  inbound are loaded after its dialog opened. When that fails, or the dialog is
  saved before it is done, the save that follows the inbound's writes the empty
  list (`useInboundFallbacks.ts:26`).
- *An empty last page* (`EmptyMeansNone`): when the clients of the last page are
  deleted, the page number stays where it was until the next change, and the table
  says that there is no client (`ClientsPage.tsx:291-293`).
- *A refusal with a good session* (`RefusedForCause`): the retry of a refused
  request takes the token of the page's meta tag, which is stale when another tab
  has renewed the session's token (`http-init.ts:153`).
- *Links that do not lead back* (`StreamLost`, `LoginLost`): the parser leaves the
  user name of a URL percent-encoded (`outbound-link-parser.ts:421`, `:436`, `:505`),
  so that a password of Trojan or Hysteria with special characters arrives
  changed; it cannot read the base64 of a Shadowsocks login that has the characters
  of the URL form; it takes little of a stream beside VLESS and Trojan; it drops `mtu` and
  `tti` of kcp, which the writer writes (`inbound-link.ts:383`, `:481`); and
  the pre-shared key of a WireGuard peer is never written. The two operators list
  every field; nothing else is lost.

The next four are excused in `Stored` (`ClientForm`), each by a condition of its own;
TLC finds each when its condition is dropped.

- *A flow that does not arrive*: chosen in the dialog that also attaches the first
  inbound that takes one. `Update` writes to the inbounds attached before
  (`client_crud.go:366-398`), and `Attach` takes the flow from what they have
  (`EffectiveFlow`, `client_crud.go:557`).
- *A limit that is not stored*: of a client that is on no inbound, for the same
  reason.
- *A client added switched off is stored switched on*: `if !client.Enable {
  client.Enable = true }` (`client_crud.go:66`).
- *Attachments counted from an old row*: a dialog whose record did not load is
  filled from its row of the list; what to attach and to detach is the difference
  to the row.

One was met beside the models: the switch of a row (`setEnable`,
`useClients.ts:574-600`) sends no `adTag`, and `Update` writes `ad_tag` whatever it is
sent (`client_crud.go:438-444`), so that the switch clears the override.

### What the models do not show

Transactions are atomic, and those of `ClientQuota` do not fail. Upload and
download are one counter, and arithmetic is unbounded (the code clamps).
`ClientQuota` has local inbounds only, with every client on each, and one edit of
a client at a time. Left out are limits and counters of inbounds, traffic across
panels, bulk operations of the server, the verdict of a node's test, the mTLS
dialog and the tree of sub-nodes; the automatic tag and the protocols' own fields
of the inbound form; the switch of the update channel; the order and the switch
of routing rules, and the panel's own API rule; the interval of WARP and the
server dialog of NordVPN; credentials and tokens in the security tab. `PROJECT.json`
says of each hazard without a property why it has none.

## 6. Plan

1. Theorems: every safety property of the runs but `LinksLeadBack` is proved. What
   is worth adding is the round trip of share links, once for each conversion, over
   values that are no strings.
2. Further components, most valuable first: the configuration sync of nodes
   (dirty marks, reconcile, delete and rename on the node), the event bus with the
   WebSocket hub, the tunnel monitor, the port conflicts of inbounds.
