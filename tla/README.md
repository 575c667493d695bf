# XMRay in TLA+

XMRay is a backend for the XMPlus panel: one process embeds an Xray-core
instance, and for every node the panel assigns to this server it runs a
*controller* that keeps the core's inbound, its users, its relays, its limiter
and its reports in step with the panel. This directory holds the specifications
of the parts where that is hard to get right: several goroutines, a remote
panel, a shared Redis, and periodic tasks that are restarted while they run.

## 1. The system

| Component | Source | State it keeps | Operations |
|---|---|---|---|
| Periodic task | `helper/scheduler/periodic.go`, `scheduler.go` | `running`, `gen`, `Interval`, `timer`; `PeriodicTask.running`; the manager's map of tasks | `Start`, `Close`, `Restart`, `RestartWithInterval`, the timer's `run`; `Add`, `StartAll`, `CloseAll`, `GetTask`, `RemoveTask` |
| Controller | `controller/controller.go`, `cert_tasks.go` | `nodeInfo`, `subscriptionList`, `Tag`, `RelayTag`, `Relay`, `currentPollInterval`, three trigger channels | `Start`, `Close`, `apiMonitor`, `webhookTriggerLoop`, `serverMonitor`, `certMonitor` |
| Node manager | `node/manager.go` and its builders | none of its own: the core's inbound, outbound and routing managers | `AddTag`, `RemoveTag`, `AddRelayTag`, `RemoveRelayTag`, `RemoveRelayRules`, `AddBlackHoleRuleTag`, `RemoveBlockingRules` |
| Subscription manager | `subscription/manager.go` | none: the core's users, the limiter | `AddNewSubscription`, `Remove`, `Compare`, `SubscriptionMonitor` (`reportTraffic`, `reportOnlineIPs`) |
| Limiter | `limiter/limiter.go` | per tag: speed limit, ignored addresses, `SubscriptionInfo`, `BucketHub`, the Redis client and expiry; the shared Redis hashes; the core's counters | `AddInboundLimiter`, `UpdateInboundLimiter`, `UpdateNodeInfo`, `DeleteInboundLimiter`, `DeleteSubscriptionBuckets`, `GetLimiter`, `GetOnlineIPs`, `DrainDeltas`, `ResetTraffic` |
| Dispatcher | `core/dispatcher/dispatcher.go` | `conns` and `links`: what is open, by tagged email | `Dispatch`, `DispatchLink`, `DeleteSubscriptionBuckets`, untracking when a session's context ends |
| API client | `api/*.go` | two ETags | `GetNodeInfo`, `GetSubscriptionList`, `GetTransitNode`, `ReportTraffic`, `ReportOnlineIPs`, ... |
| Instance | `core/instance/instance.go`, `server_poller.go` | the core, the controllers by node, the outbound queue of Reverb | `Start`, `Close`, `syncServerNodes`, `PushEvent` |
| Reverb | `core/instance/reverb.go` | the websocket session, the current pusher | connect, subscribe, read, push, reconnect |
| Certificates | `helper/cert`, `controller/cert_tasks.go` | files on disk, renewal tasks | obtain, renew, self-sign |
| Command line, monitor, installers | `cmd/`, `helper/monitor`, `files/`, `install.sh` | configuration files | one-shot tools |

How they interact. `Instance.Start` builds the core, installs the limiting
dispatcher, and starts one controller per node; a poller and the
`server_updated` message start and stop controllers later. Each controller
creates tasks (`node`, `subscriptions`, `server_status`, `cert`) and one
goroutine, `webhookTriggerLoop`, that runs `apiMonitor` when Reverb announces a
change. `apiMonitor` calls the panel, the core's managers and the limiter. A
connection runs through the dispatcher, which asks the limiter and through it
Redis. The `subscriptions` task drains the counters and sweeps Redis, and sends
both to the panel, over Reverb or by HTTP.

## 2. Modules

| Module | Models | Proofs | Instances |
|---|---|---|---|
| `Ticker` | what a task promises its owner (abstract) | | |
| `PeriodicTask` | one `PeriodicTask` with its `Periodic`; implements `Ticker` | `PeriodicTaskProofs` | `PeriodicTaskMC` |
| `TrafficReport` | counters, drain, push, post and reset | `TrafficReportProofs` | `TrafficReportMC` |
| `IPLimit` | one subscription's Redis hash, its connections and sweeps | `IPLimitProofs` | `IPLimitMC` |
| `NodeSync` | `apiMonitor` against the panel, the core and the limiter | `NodeSyncProofs` | `NodeSyncMC` |
| `Sessions` | sessions of the dispatcher, deletions and rate buckets | `SessionsProofs` | `SessionsMC` |
| `Instance` | the process: start, node list syncs, reload, close | `InstanceProofs` | `InstanceMC` |
| `Reverb` | websocket sessions, `PushEvent` and its drain | `ReverbProofs` | `ReverbMC` |
| `NodeConfig` | what a node's record becomes (operators only) | | |
| `NodeManager` | the node manager's calls to the core; extends `NodeConfig` | `NodeManagerProofs` | `NodeManagerMC` |

How they fit together. `Instance` has a controller as what its `Start` and
`Close` leave behind; `NodeManager` is that `Start`, `apiMonitor` and `Close`
call by call for one execution, driven by the record; `NodeSync` is
`apiMonitor` with the same methods as single steps that may fail, for
executions that interleave. `PeriodicTask` is what executes `apiMonitor`,
`SubscriptionMonitor` and the server poller; `TrafficReport`, `IPLimit` and
`NodeSync` take `Ticker`'s promise as their fairness. `Reverb`'s `PushEvent` is
the push of `TrafficReport`, and its `Handle` the webhook of `NodeSync` and
`Instance`.

One rule decides what a step is. A lock section, a call to a `sync.Map`, to
Redis, to the panel or to one of the core's managers is one action, and between
two of them anything else may run. Code that holds no lock and touches no shared
state belongs to the action before or after it.

### 2.1 `PeriodicTask`, `Ticker`

`started` is `PeriodicTask.running`; `running`, `gen`, `interval` and `timer`
are the fields of `Periodic`. `run[t]` is an `AfterFunc` timer with the
goroutine it starts: armed, fired (waiting for the lock), executing, or gone,
with the generation it was made for and the duration it waits. `call[c]` is a
`RestartWithInterval` between its three lock sections.

| Action | Code |
|---|---|
| `TaskStart`, `TaskClose` | `PeriodicTask.Start` and `Close` with the `Periodic` call inside |
| `RestartClose`, `RestartSet`, `RestartStart` | `Restart` (no interval) and `RestartWithInterval` |
| `Fire`, `Check`, `Finish` | the runtime fires the timer; `run` compares generations; `Execute` returns and `run` re-arms |

A run that executes may itself call the task, as `apiMonitor` and the server
poller do: `Threads` are the outside callers and the timers. The generation is
what keeps a fired timer of an earlier start from becoming a second chain. A
call of `Close` does not wait for the `Execute` it interrupts, and `Ticker`
states what is left of "one job at a time": one for the present start, and late
ones that can only finish.

### 2.2 `TrafficReport`

`registered` is the key set of `SubscriptionInfo`, `counter` the core's stats
counters, `total` and `billed` are history: what was carried and what the panel
booked. Each member of `Monitors` is an execution of `SubscriptionMonitor`;
`left` and `snap` are inside `DrainDeltas`, `todo`, `cur` and `undelivered` are
the batches that `reportTraffic` has yet to cut, has delivered and not yet
reset, and keeps for the API. `trouble` is chosen once and says what may go
wrong in a behaviour: a push that returned nil is lost later (`lost_push`), a
post is booked and its answer lost (`lost_answer`), the process restarts
(`crash`), two monitors run at once (`overlap`). The panel and the network are
external.

### 2.3 `IPLimit`

`hash` holds the fields `address|tag` of one subscription's key and `ttl` its
expiry. `Admit` and `Refuse` are `ipLimitScript`, atomic in Redis;
`AdmitUnchecked` is the code's decision to let a connection in when Redis does
not answer. `setting` is chosen once: the limit, and whether Redis and the panel
may fail. `SweepBegin` to `SweepEnd` are one `SubscriptionMonitor` from the
firing of the task to the end of `reportOnlineIPs`; `claimed` is what the sweep
has read and not yet sent. `unreported` and `between` are history: what was
recorded and not yet sent, and what was recorded between a read and its delete.
`serving` are the
tags that have a limiter: `Leave` is `DeleteInboundLimiter`, when a tag changes
or a node is closed, `Join` its return; the fields of a tag without a limiter
stay, for no sweep takes another tag's (`limiter.go:306`). `late` and `expired`
are history too: the fields that the hash's last `EXPIRE` gave less time than
their node may need to come and read, and those that went with the whole hash.
`Tick` advances time, and cannot pass a sweep that is due.

### 2.4 `NodeSync`

`panelInfo` and `panelList` are the panel's; `eTags` the client's two ETags;
`nodeInfo`, `subs`, `tag`, `relayOn`, `interval` the controller's fields;
`inbounds`, `blocking`, `relays` the core's; `limits` the limiter's. `loc[p]`
holds where an execution of `apiMonitor` is, with its local variables. The
branches are those of the code: `RelayDown`, then `Rebuild`, `Adopt`, `RelayUp`,
`AddTag`, `AddUsers`, `Limiter` when the structure changed, and `Adjust`,
`RelayUp`, `RemoveDeleted`, `AddAdded`, `RemoveModified`, `ReaddModified` when
it did not. `setting` is chosen once: which executions run, what the panel may
hold, how often it changes, and whether calls fail. Every early return on an
error is there, with the fields that have been assigned by then. `GetNode` and `GetSubs` take the ETag with the answer,
which is why an update that is dropped afterwards is not asked for again. Some
actions join a call to the core with the limiter's call right after it
(`RemoveDeleted`, `AddAdded`, `RemoveModified`, `ReaddModified`, `Limiter`); the
properties that look at both are checked for one execution at a time, where
nothing could come between, and those checked for two look at the inbounds only.

A list is a function of ids; an entry has its email, its plan (the limits and
the password) and its UUID. `Modified` is `Compare`'s condition, which does not
look at the UUID. `missed` is history: what the code passes over as it stands,
worked out from what an execution is given. `missed.uuid` holds the ids whose
UUID changed while nothing else of them did (`subscription/manager.go:107-110`);
`missed.email` says that an email changed under an id, whose old user nobody
removes (`controller.go:471` removes the new email); `missed.relay` that a
relaying node's configuration changed in place while its list did not
(`controller.go:295`). A rebuild ends the first and the last, and the second
when the tag changes.

### 2.5 `Sessions`

`core` is the users the inbound authenticates, `limit` and `nodeRate` what the
limiter knows of speed, `hub` the `BucketHub` and `rate` each bucket's limit;
`conns` and `links` are the dispatcher's maps. A session authenticates, reads
the limit and the node's rate, takes a bucket (`LoadOrStore`; only
`UpdateInboundLimiter` sets the limit of one that exists), is
tracked by connection and by link, and is untracked when its context ends, which
may be before the tracking. `op` and `target` are the one goroutine that changes
subscriptions, as `apiMonitor` does: remove the user, forget it, collect its
connections, collect its links, close what was caught; or add, store, set the
rate.

### 2.6 `Instance`

`proc` is main's place in `run` and `runManager` of `cmd/root.go`; `lock`,
`mapped`, `nilMap` and `services` are `statusLock`, `controllerMap` and the
`Service` list; `running` and `inbound` are what controllers leave in the
scheduler and the core; `sync[s]` is an execution of `syncServerNodes` with the
list it has fetched. A controller whose `Start` fails after `AddTag` (`late`)
leaves its inbound in the core, and stays in the service list when main started
it but not when a sync did; one whose `Start` panics
ends the process (`controller.go:130`), as does a sync that meets the nil map and
the closed server of a closed Instance, or an unsynchronised read of
`controllerMap` that meets a write (`race`).

| Action | Code |
|---|---|
| `Boot`, `StartService`, `ServicePanics`, `Started` | `run`, and `Instance.Start` under the lock |
| `Edit`, `Woken` | the watcher's callback (a full `restartChan` drops the request), main's `select` |
| `CloseBegin`, `CloseServices`, `Leave` | `Instance.Close`; the exit, or `syscall.Exec` with the new file |
| `Begin`, `Fetch`, `FetchFails`, `Apply`, `StartNode`, `NodePanics`, `Unlock`, `Restart` | `syncServerNodes`, from the request to `RestartWithInterval` after the lock |
| `PanelChange`, `ServerUpdated`, `MapRace` | the panel; `server_updated`; a webhook that looks up a controller |

### 2.7 `Reverb`

`pc`, `sess`, `reader` and `queue` are a listener, its session, its reader
goroutine and the session's `msgs`; `pusher` is `currentPusher`; `out` is
`reverbOutbound`, `serving` and `using` the event and the pusher that
`drainReverbOutbound` holds. `Dial`, `Install`, `Handle`, `PingFails`, `Stop`,
`Withdraw`, `Close` follow a session from the handshake to its deferred calls,
in their order; `Receive`, `Unblock`, `ReadFails` the reader; `PushEvent`,
`Enqueue`, `Take`, `Answer` the push. A name of `Ids` is used again only when no
listener, reader or drain holds it (`Free`), so that a pointer to a session that
has ended is never confused with a later one.

### 2.8 `NodeConfig`, `NodeManager`

`NodeConfig` has a record as [type, port, net, sec], the keys that are present,
and the values the code tells apart. `NodeResponse` and `GetTransitNode` are the
parsers of `api/node.go`, `InboundBuilder`, `OutboundBuilder`,
`OutboundRelayBuilder`, the router and the stream builders those of `node/`. An
operator that may choose (a random port) or fail returns the set of its results,
empty for an error; what dereferences nil is a predicate of its own
(`InboundPanics`, `RelayPanics`).

`NodeManager` applies them. `steps` are the manager's methods that the
controller's present operation has still to call, as `Order` lists them; `todo`
the calls to the core that the present method has still to make; `inbounds`,
`outbounds` and `rules` what the core holds, and `first` its default outbound,
which is there from the beginning (`OutboundConfig` is enabled, or another node
came first) or becomes the first that is added. Each `CallMade` or `CallRefused` is
one call: the core refuses a tag it already has, and the removal of an inbound
it does not have (outbounds and rules may be removed twice), and a refusal
aborts what the code aborts. `RemoveRelay`,
`RemoveBlockingRules`, `RemoveTag`, `Adopt`, `AddRelayTag`, `AddTag` and
`AddBlackHoleRuleTag` are the methods; `Start`, `Sync`, `Close` the operations;
`Reboot` the process after a panic.

What the records leave out because nothing decides on it: sniffing, the
listening address, QUIC parameters and the entries of a mask, header and path
texts (one opaque `value` for all that is copied as it stands), spaces in port
texts, and that type `hysteria2` is `hysteria`'s. Blocking lists and ports are
one rule, whose conditions must all be met (`router.go:115-133`): a connection of
the kind `blocked` is one that meets them all, and with lists and ports together
that is less than what either names.

## 3. Runs

A run's configuration chooses its case in the initial state (`trouble`,
`setting`, `enabled`), so that one run asks its question of several instances
and each property names, as a hypothesis, the case in which it is promised.

| Run | Instance | Shows |
|---|---|---|
| `periodic_restart` | 3 timers, 2 callers, 2 intervals, 7 generations | `SingleChain`, `NoLeakedTimer`: exactly one run may re-arm, and `Close` knows its timer. `AdoptsInterval`: a started task goes on with the interval set last. `ImplementsTicker`, liveness included: it keeps executing |
| `traffic_troubles` | 2 subscriptions, batches of 1, 2 monitors; lost pushes and restarts, or lost answers, or overlap | `NoOverbilling`: no byte is billed twice. `NoLoss`: none is forgotten. `CounterNonNegative`: a reset never takes more than was counted. `EventuallyBilled`: a subscription that stays has its traffic booked. `OverlapBalances`: two overlapping reports bill the same bytes twice and take them twice, so the counter is left below zero and the next report gives the credit back |
| `iplimit_sweeps` | 2 nodes, 2 addresses, periods 3 and 2, each with an expiry of its period; limit 2 and all well, or limit 1 and a tag that comes and goes, or limit 1 and failures | `LimitHolds`. `NothingDroppedUnreported`: only what is recorded, or last had the hash renewed, too soon before its node's pause is lost, and only by the expiry of the hash. `SlotsReleased`: every slot of a node that keeps its limiter is given back |
| `iplimit_expiry` | 1 node, 2 addresses, expiry = period = 2 | violation, finding 1 |
| `nodesync_sync` | 1 execution, 3 changes: of 5 configurations and 4 lists, of 3 and 9 with changed emails and UUIDs, or of 4 relaying ones and 2; or 2 executions, 2 changes, any call fails | `UpdatesApplied`, `Converges` in the first three: structure, speed, users, limits and relays are the panel's but for what `missed` names. `OneInbound`: the node never listens under a stale tag, and `Exclusive`: there is no lock, but `RemoveTag` acts as one, so rebuilds never overlap, in both |
| `nodesync_race` | 2 executions, no failures | violation, finding 2 |
| `sessions_cut` | 1 user, 2 sessions on 1 or 2 connections, rates 0 and 1 | `Reachable`: a running session can be cut by a deletion at any time. `NothingLeaks`: what is tracked will be untracked. `TypeOK` holds that a bucket in use never has rate 0, which would block it |
| `sessions_rate` | 1 session, rates 1 and 2 | violation, finding 3 |
| `instance_lifecycle` | 2 nodes, 1 poller and the webhook, 1 change of the list, 1 edit; nothing goes wrong, or everything | `Managed`: the controllers that run are those that are known and will be closed. `ClosedIsQuiet`: a sync that comes after `Close` starts nothing. `CrashOnlyClosed`: while nothing else goes wrong a late sync can only crash what was closed already. `ServesListed`, `Reloads`: the list comes to be served, an edit to be loaded |
| `reverb_sessions` | 1 or 2 of 2 listeners, 2 sessions, 1 caller, capacities 1 | `PusherOpen`, `SoleListenerPushes`: the pusher is open, and is the sole listener's whenever that serves. `Answered`: every push returns. `ListenersEnd`: `Close` ends every listener |
| `manager_core` | every protocol over every transport, each key missing, port, mask, masque, xhttp and security variations, relayed to; 10 records edited into each other | `NoDangling`: no rule leads nowhere, between any two calls. `OwnExit`: which connections leave by the node's own outbound, and that all others leave by the core's default. `BlocksApply`: what is blocked is, until a rebuild. `Clean`: what was built is taken away. `RelayAgrees`: what a relay dials is what the node listens for, but for three differences that it states exactly |
| `manager_relay` | a plain and a relaying record | violation, finding 4 |

### Why the bounds are enough

- `PeriodicTask`: with three timers one run is current, one is late and one is
  fired but not yet past its check; a fourth would be a second copy of one of
  these. Seven generations let two restarts by each of two callers and by a
  run overlap. Calls stop at `MaxGen`, so the system stops and deadlock is not
  checked in this run.
- `TrafficReport`: two subscriptions in batches of one give two batches, one of
  which may fail. Two units of traffic for one of them let a link count before,
  between and after a read and its reset. `MaxBilled` bounds only how often a
  lost answer may book a post again.
- `IPLimit`: two nodes share the hash; two addresses under a limit of one is the
  smallest instance where one is refused, two under a limit of two the smallest
  where a sweep of one node leaves the other's field. Each node's expiry is its
  period, as the code sets both; the periods differ, so that one node's
  `EXPIRE` may shorten the life of the other's fields. The sweep that may last
  a unit of time is the least that lets the hash expire before the next.
- `NodeSync`: the five configurations change each thing `apiMonitor` compares
  (port, structure, relay, speed, interval) against a plain one; the four lists
  give an addition, a removal, a change of plan, and replacement. Five more
  change an email or a UUID, alone, with the plan, or with another
  subscription that joins. Emails are
  distinct within a list (`NodeSyncAssumption`).
- `Sessions`: users do not share buckets, connections' entries or links, so one
  is enough for TLC (the proofs take any number). Two sessions are the least
  that share a connection, and the least that race on `LoadOrStore`.
- `Instance`: one poller and the webhook are two syncs that overlap, with lists
  of different age once the panel's has changed; two nodes let one stay while
  the other comes or goes. Changes and edits are bounded, syncs are not.
- `Reverb`: two listeners are the least that withdraw each other's pusher, two
  sessions the least where a pointer outlives its session. Capacities of one
  have both queues full. The drain serves one caller at a time, so one caller
  is the queue's head; the proofs take any number.
- `NodeManager`: a record is varied one thing at a time, because the builders
  treat its parts one by one, except protocols with transports, which they
  combine. Only 10 records are edited into each other: they are those whose
  rebuild, failure or relay differ. `MaxPort` 3 gives ports at, below and above
  the bound. `RelayAgrees` is proved for every record.

Symmetry is used in `sessions_cut` only, which has no temporal property.
Deadlock is not checked in `periodic_restart` (calls end at `MaxGen`) and
`instance_lifecycle` (the process exits).

### Fairness

- A timer that is armed fires, a goroutine that holds or waits for a lock goes
  on, and `Execute` returns (`PeriodicTask!Step`, `Progress`): the API client
  has a timeout and the Redis calls have one each. Callers owe nothing: nobody
  has to start or close a task.
- `SubscriptionMonitor` runs again and again, which is what `Ticker!Fairness`
  promises, and each run ends (`WF` of `Report`). `SF` of `PostAccepted` says that a
  panel asked for ever answers now and then; without it nothing could ever be billed.
- `IPLimit`: time passes, a sweep that began ends, and a node that has a limiter
  sweeps when its timer fires (`SweepBegin` needs `serving`). Nothing sweeps for
  a tag that is gone. Connections, `Leave` and `Join` owe nothing.
- `NodeSync`: executions begin and go on; the panel owes nothing.
- `Instance`: main goes on, and nobody has to send a signal (`WF` of `RunMain`
  except for waking up by itself). A `sync.Mutex` serves a waiter in the end,
  whatever the others do: `SF` of `CloseBegin` and of the poller's `Apply`. `SF`
  of `Fetch` and of a successful `StartNode` say that a panel asked for ever
  answers now and then.
- `Reverb`: writes, reads and handshakes have deadlines (`WF` of what ends
  them), and a full queue that is drained for ever admits a waiting sender (`SF`
  of `Enqueue`). Nothing has to dial, greet, send or succeed.
- `Sessions` and `NodeManager` have no liveness property and assume no fairness.

## 4. Findings

1. `iplimit_expiry`. The key's TTL is `UpdateTime`, the pause between sweeps
   (`limiter/limiter.go:497`, `controller.go` sets both from the same field). An
   address recorded while a sweep that takes time is under way expires before
   the next sweep reads it. The comment at `limiter/limiter.go:321-323` says it
   "stays to be reported next cycle rather than being dropped unreported".
2. `nodesync_race`. The node task and `webhookTriggerLoop` run `apiMonitor`
   together (`controller.go:488`) with no lock. The older list can be stored
   last while both ETags say that the panel has nothing new, and the core's
   users differ from the panel's until the list changes again.
3. `sessions_rate`. `UpdateNodeInfo` "refreshes node-level limiter settings"
   (`limiter/limiter.go:218-220`) but touches no bucket, and `GetLimiter` hands
   the old bucket to new sessions too.
4. `manager_relay`. A relay's rule asks for the user `tag|email|id`
   (`node/router.go:18`), the inbound's users are named `tag_email`
   (`subscription/manager.go:222`), which is what the core's router compares.
   No relay rule matches, a relaying node has no default rule, and all its
   connections leave by the core's default: an outbound of the custom file or of
   another node, or the first that was added, which is
   one subscription's relay. `dispatcher.go:315` splits the name at `|` too, as if the longer form were in use.

Met while modelling, and written into the models as the code has it. No document
says otherwise, so they are no findings:

- Relays that a non-structural update without new subscriptions removes, and
  nothing adds back (`controller.go:295`).
- A rebuild whose `AddTag` fails before `addInbound` leaves the node without an
  inbound, and every later rebuild stops at `RemoveTag` (`controller.go:314`).
  When it fails after it, because the outbound cannot be built
  (`manager.go:77`), the inbound stays, later syncs give it users, and they
  leave by the core's default (`OwnExit`). When `AddRelayTag` succeeded before,
  its outbounds stay.
- A UUID that changes by itself is never applied, and an email that changes
  leaves its old user admitted (`missed`, section 2.4).
- The fields `address|tag` of a tag that changed or was closed are reported by
  nobody, and keep their slots as long as connections to other nodes renew the
  hash (`IPLimit`).
- Users skipped by a partial failure while the new list is stored
  (`controller.go:450`).
- After a rebuild the default rule stands before the blackhole rule, and the
  router takes the first match: `BlocksApply` is promised until then.
- `AddTag` adds the default rule for relay type 0 or no relay node, while a
  relay is made for type 1 only: a node of type 2 has neither, and its
  connections leave by the core's default. `OwnExit` states both. A blocking
  rule whose port text is only commas matches everything, its hypothesis.
- A relay and the node it leads to differ in three ways, which `RelayAgrees`
  states exactly. A relay to a node with tls and `certMode` none asks for tls
  where none is spoken (`Plain`). `xPaddingBytes` is not among what is moved
  into the relay's `extra`, so a record's own value reaches the inbound only
  (`Padded`); `README.md:368` of the repository speaks of "all obfuscation
  fields" and that the relay's are wrapped, and its example has
  `xPaddingBytes`. A relay's key is the password where the inbound takes the
  UUID, and with a cipher of 2022 it is encoded where the inbound's is not
  (`KeysAgree`).
- The settings of the transports `websocket` and `splithttp` are not parsed:
  the first gets defaults, the second is refused (`inbound.go:161`). What does
  dereference nil is a hysteria inbound, and a hysteria or masque relay, over
  another transport than its own (`InboundPanics`, `RelayPanics`). A final rule
  with a malformed port loses the port and not the rule.
- With two Reverb listeners the end of one session withdraws the other's pusher,
  and events go by the API until that one reconnects: the hypothesis of
  `SoleListenerPushes`.

## 5. Proofs

All theorems hold for every value of the constants under the module's own
assumption (`PeriodicAssumption`, `TrafficAssumption`, `IPLimitAssumption`,
`NodeSyncAssumption`, `SessionsAssumption`, `InstanceAssumption`,
`ReverbAssumption`, `NodeConfigAssumption`, `NodeManagerAssumption`):
finite and non-empty sets, positive times and capacities, and that a `nil` is none of the things it stands in for.

| Module | Theorems | Argument |
|---|---|---|
| `PeriodicTaskProofs` | `TypeCorrect`, `SingleChainHolds`, `NoLeakedTimerHolds`, `RefinesTicker` | `SingleChain` is not inductive. `IInv` adds that no live run has a generation above the present one (or `Start` could bring an old run back to life), that the wrapper's flag agrees with the flag it guards, and that only a restart with an interval reaches `SetInterval`. `RefinesTicker` maps each action to one of `Ticker` or a stutter |
| `TrafficReportProofs` | `TypeCorrect`, `CounterNonNegativeHolds`, `NoOverbillingHolds`, `NoLossHolds`, `OverlapBalancesHolds` | The middle three are about reports that do not overlap. `Backed`: the counter of a record that is not reset yet still holds what was read. `Over` and `Under`, the halves of the balance, add the records delivered and not reset; `Over` needs that no answer is lost, `Under` that pushes arrive and the process stays up; each property names its case. `OverlapBalancesHolds` is for any number of reports at once: `Balance` counts, as the members of a set, the units that are delivered and not reset (`Due`) and those of credits (`Credit`, for a counter may be below zero), and a delivery or a reset moves one record's units |
| `IPLimitProofs` | `TypeCorrect`, `LimitIsKept`, `SweepTakesOwnHolds`, `NothingIsDropped`, `LateOnlyAroundSweeps` | Only `Admit` can add an address, and it either counts it already or finds room; the rest removes fields (`FewerFields`). `NothingIsDropped` is for any periods and expiries: its invariant is that a field that is not `late` is in a hash that lives at least as long as it takes its node to read it (`ReadIn`). `LateOnlyAroundSweeps` says when a field can be `late` if the expiry is the period: from its node's read until the pause has lasted as long as sweeps may vary, which is finding 1 |
| `NodeSyncProofs` | `TypeCorrect`, `OneInboundHolds`, `ExclusiveHolds`, `UpdatesAppliedHolds` | `OneInbound` alone is not inductive: between `RemoveTag` and the assignment of `c.Tag` another execution might add the old tag. `Exclusive` forbids it: `RemoveTag` succeeds only while the inbound is there, so it takes a token that only the `AddTag` of the same execution gives back. `TypeOK` carries, branch by branch, what an execution holds. `UpdatesAppliedHolds` is for one execution at a time (`Solo`; with two, finding 2 refutes it), and any changes of any list. `Follows` says, label by label, what has been made by then of inbound, relays and limiter, and of what is missed; `AfterDeletes`, `AfterAdds`, `AfterRemoves` and `AfterReadds` are the lemmas on `Compare`: where no email changed the four calls it leads to are never refused and end in the new list's users, those with an overlooked UUID excepted, and `PlansApply` is the same of the limiter after a rebuild that keeps the tag |
| `SessionsProofs` | `TypeCorrect`, `ReachableHolds`, `NothingLeaksHolds` | `TypeOK` needs that a bucket in the hub has a positive rate; `Reachable` that a deletion starts with nothing in hand; `NothingLeaks` that a link is tracked under its own user |
| `InstanceProofs` | `TypeCorrect`, `ManagedHolds`, `ClosedIsQuietHolds`, `CrashOnlyClosedHolds` | `Managed` is inductive with `TypeOK`, which says who holds `statusLock`. The others need that what a sync is about to start is chosen under the lock and nobody else adds to it (`Disjoint`), that only `Close` makes the map nil, last of all (`NilWhenClosed`), and that no sync begins before main has started the poller (`AloneAtFirst`) |
| `ReverbProofs` | `TypeCorrect`, `PusherOpenHolds`, `SoleListenerPushesHolds` | A session is open until its listener closes it (`InHand`); a listener that has withdrawn does not hold the pusher (`Withdrawn`), for which no two listeners may hold one session (`Apart`) |
| `NodeManagerProofs` | `TypeCorrect`, `NothingDangles`, `OwnExitTaken`, `WhatIsBlockedStaysBlocked`, `NothingIsLeft`, `RelayAgreesHolds` | See below |

### The manager's invariant

What `NodeManager` promises at rest, or between two calls to the core, holds
because of what each method has done and has still to do, so the invariant of
`NodeManagerProofs` speaks of every position of `todo`. `Inv` has six parts:

- `Typed` and `Known`: the controller's variables, and that the tag is that of
  the record it has. A list of subscriptions is a sequence (the module's
  assumption).
- `Left`: at each place of the execution, which calls can be left. The methods
  that make a fixed number of calls have them listed (`Unblock3`, `Remove4`,
  `Listening`, `Blocking`); for relays, whose number is the list's length,
  `Unrelaying` says that a rule goes before the outbound it leads to and
  `Relaying` that it comes after it.
- `Ours`: outbounds and rules are this tag's or a relay's, no two rules share a
  tag, and a relay's rule has its outbound.
- `Inbound` and `BlackholeInv`: inbound, own outbound and default rule come and
  go together, and so do the blackhole and the rule to it; where one is there
  without the other the place in the method says so.

`TypeOK` and `NoDangling` follow from `Inv`. `OwnExit` needs that `AddTag` makes
the calls its record asks for and no others: `Exits` says that an inbound that
listens has its outbound if there can be one, or that adding it is the very next
call, and that there is a default rule only where the record does not relay.
`BlocksApply` needs the order of the rules too: `First` says that until a
rebuild the default rule comes after the blackhole's. `Clean` needs the relays:
`Inventory` says which are in the core at each place, the old list's, none, or
the new list's, and that each one still there in `RemoveRelay` has its two
calls to come. Three groups of lemmas carry the steps:

- `AfterOrder` and `Succession`: which method follows which, so that a step that
  leaves a method is a case on the mode (`ReturnPlaces`).
- `FlattenIn`: what holds of the calls of one subscription, and is kept by
  joining, holds of all of them. `FlattenSeq` is a recursive definition; the
  lemma is proved from the least counterexample that a set of numbers has
  (`WFMin` of the library), which needs no operator as a parameter.
- `WithoutRule`, `WithoutTags`, `OneRuleMore`: the router's list after a removal
  and after an addition.

`RelayAgrees` is a fact about every record, so there is no induction over steps:
one lemma per part (`PortListened`, `SettingsKept`, `CommonTransportAgrees`,
`XhttpAgrees`, `SecurityAgrees`, `KeyAgrees`), put together in `RecordAgrees`;
each difference is proved to be there exactly where it is said to be.

Two theorems prove what no run checks: `SweepTakesOwnHolds`, that a sweep deletes
fields of its own node only (`IPLimit!SweepTakesOwn`), and
`LateOnlyAroundSweeps`.

Every invariant and action property of the passing runs is proved. Only
model-checked is what is temporal (`AdoptsInterval`, `EventuallyBilled`,
`SlotsReleased`, `Converges`, `ServesListed`, `Reloads`, `Answered`,
`ListenersEnd`, the fairness part of `ImplementsTicker`), for the prover has no
`ENABLED` and no liveness under fairness. The violations of section 4 are
model-checked by their nature.

## 6. Not modelled

- Xray-core, Redis, the panel, the network and lego are external: they appear as
  what this code makes of their answers.
- `loadCore`'s reading of the core's own configuration, the host's statistics
  and the `server_status` task, `serverMonitor`: data without control.
- `certMonitor`, the certificate store and its renewal: ACME by an external
  library and writes of files. `NodeConfig` has the outcome, a certificate or
  none.
- The debounce of `webhookTriggerLoop` and its drained channels. A webhook is a
  sync that may begin at any time (`NodeSync`), which is more than the code
  allows; one that comes within three seconds of the last sync is drained
  (`controller.go:212`) and its change waits for the next poll.
- `Close` of a controller while its `apiMonitor` runs: `NodeManager` runs one
  operation at a time, `NodeSync` has no `Close`.
- The scheduler's `Manager`, the rate-limiting wrappers of links, the command
  line's tools and the installers do one thing, or one thing after another.
- Derivation of Shadowsocks 2022 keys beyond the check of a password's length.

`PROJECT.json` lists each component with its status, and each hazard with the
properties that watch it.

## 7. What could come next

In order of importance: `Close` against a running `apiMonitor`, as a composition
of `NodeSync` with `PeriodicTask`; the certificate store, with a crash between
the writes of a certificate and its metadata; a ledger of what is owed and
booked as the abstract specification of `TrafficReport`, with the refinement
proved from `Over`, `Under` and `Balance`; what `NodeSync` has as single steps
shown to be what `NodeManager` does call by call.
