# A TLA+ verification of sing-box

sing-box is a proxy platform: inbounds accept connections, a router matches them
against rules, outbounds dial them on, and a DNS subsystem resolves names on the
way. This directory holds TLA+ models of the parts of it where goroutines, locks,
timers, networks and restarts meet, the TLC configurations that check them on small
instances, and proofs, checked by TLAPS, of the properties that matter most.

Contents: [The system](#the-system) · [Conventions](#conventions) ·
[Modules](#modules) · [Runs](#runs) · [Fairness](#fairness) · [Proofs](#proofs) ·
[Findings](#findings) · [Not modelled](#what-is-not-modelled) ·
[Further hazards](#further-hazards)

To check a run: `tlc -config MCWalks.cfg MCWalks`. To check the proofs of a module:
`tlapm RoutingProofs.tla`. `PROJECT.json` lists the components, runs, theorems,
findings and hazards, gives for every definition that models code the lines it models
(`map`), and for every property a plausible fault of the code that breaks it
(`mutants`). The faults stand in the modules, each next to the definition it would
replace, marked "Fault".

## The system

For each part: its state, what changes it, and what makes it correct.

### DNS

| part | state | operations | correct means |
|---|---|---|---|
| connector, `dns/transport/connector.go` | cached connection and its cancel function, the `connecting` channel of the dial in flight, `closed` | `Get`, `completeDial`, `dialWithCancellation`, `Close`, `Reset` | one dial at a time; nothing leaked; a cancelled request neither breaks the cached connection nor leaves one behind; every `Get` returns |
| base transport, `dns/transport/base.go` | lifecycle state, queries in flight, the channel that tells they are complete | `SetStarted`, `BeginQuery`, `EndQuery`, `Shutdown` | exact count, no lost or double wake-up, no query after closing |
| UDP transport, `dns/transport/udp.go` | callbacks by 16-bit id, the id counter, the buffer size | `Exchange`, the receive loop, `Reset`, `Close` | an id has one owner; answers meet their query; exchanges and `Close` end |
| TLS transport, `dns/transport/tls.go` | the pool of idle connections | `Exchange`, `Reset`, `Close` | no connection shared, lost, or pooled with an answer or deadline left on it |
| client, `dns/client.go` | cache, lock per cache key, RDRC, background refreshes | `Exchange`, `Lookup`, `ClearCache` | nobody waits for ever; filters hold; stale answers are being refreshed |
| transport manager, `dns/transport_manager.go` | list, map by tag, reverse dependencies, default, fakeip server, stage | `Create`, `Remove`, `Start`, `Close` | tables agree; start order respects dependencies; nothing missed or leaked |
| fakeip store, `dns/transport/fakeip/store.go` | place in the range, tables in both directions, metadata timer | `Create`, `Lookup`, `Start`, `Close`, `Reset` | tables inverse; late reuse; only addresses of the range |
| router, `dns/router.go` | the rules, `started`, `closing` | `Start`, `Close`, `Exchange`, `Lookup`, validation of rule-set updates | no rules of a closed router alive; an update accepted is one the rules allow |
| DHCP transport, `dns/transport/dhcp/dhcp.go` | the servers, when and for which interface they were fetched, the last error | `Exchange`, `fetch`, `interfaceUpdated`, `Reset` | the servers are those of the default interface |
| resolved service and transport, `service/resolved` | links by interface, their servers, the default routes | the D-Bus calls, network updates, `Exchange` | a query finds the servers of its link |
| other transports | HTTP, HTTP/3, QUIC and TCP clients, hosts file, system resolver | `Exchange` | as their library |

The client calls a transport, which may call the client again to resolve the name of
its own server; the client's loopback check and the connector's context-based
detection of recursion exist for this.

### Routing and groups

| part | state | operations | correct means |
|---|---|---|---|
| outbound manager, `adapter/outbound/manager.go` | as the transport manager, without the fakeip role; endpoints as dependencies | `Create`, `Remove`, `Start`, `Close` | as the transport manager |
| inbound, endpoint, service, certificate managers | list, map, stage | the same | the same |
| urltest group, `protocol/group/urltest.go` | ticker, idle time, selection per network, delay history, interrupt group | `Touch`, `loopCheck`, `urlTest`, `Select`, dials, `Close` | one loop per ticker; it ends; switches justified; old connections interrupted |
| selector, `protocol/group/selector.go` | selection, its copy in the cache file | `SelectOutbound`, dials | group and file agree |
| parallel dials, `common/dialer/default_parallel_*.go` | the racers, the fallback timer, when a fallback was needed last | the dials of interfaces and of address families | fails only when all failed; one connection is left |
| connection manager, `route/conn.go` | list of connections, a done flag per connection | `TrackConn`, `CloseAll`, the two copies | closed once, none missed |
| network manager, `route/network.go` | interfaces, pause state | interface and power events | not paused for ever; connections reset after a change |
| router, `route/route.go`, and rules, `route/rule` | rules; matching itself has none | match, sniff, resolve, hand over | first match decides |
| rule sets, `route/rule/rule_set_*.go` | rules, metadata, reference count, callbacks, etag | restore, fetch, `Cleanup`, `Close` | readers see one version; nothing comes back after `Close` |

### Around it

| part | state | operations | correct means |
|---|---|---|---|
| cache file, `experimental/cachefile` | bbolt buckets, pending asynchronous saves, the metadata timer | saves, loads, clears, `Close` | the newest save is what a load or a restart finds |
| box, `box.go` | `done`, the managers | `New`, `PreStart`, `Start`, `Close` | a failed start closes all it started, once |
| daemon, `daemon/started_service.go` | service status, current instance | start or reload, close, wait for start | the status tells of the current instance |
| Shadowsocks manager, `service/ssmapi` | users, counters, the cache file | HTTP handlers, the tracker, saves, `Close` | traffic counted once; users served as listed; the file is what was saved |
| memory guard, `service/oomkiller` | services, one monitor, a timer with a state per service | `Start`, `Close`, callbacks, polls | one reset per time of pressure; a closed guard rests |
| NAT test, `common/stun` | what was sent and seen on one socket | binding, mapping and filtering tests | reports what the NAT does |
| usage statistics, `service/ccm`, `service/ocm` | usages in memory, a pending save, two files | adding, saving, `Close` | a usage is in the file or will be |
| Clash and V2Ray API, libbox, other services, protocols, stream transports, TLS, sniffing, tools, options, commands | mostly none of their own | adapters to libraries, parsers, I/O | not looked at here |

## Conventions

* A section of code under one mutex is one action; every unlock, blocking point,
  callback or access to unlocked shared state separates two.
* A goroutine or call is a member of a constant set or a number; what it returned
  stays in the state, so that properties can speak of it.
* Names are the source's (`connectionCancel`, `queriesComplete`, `saveDNSCache`),
  methods are actions (`Shutdown`, `completeDial`), and where a method takes several
  steps the action is named after the step.
* Payloads, addresses and messages are members of small sets. A DNS answer is good,
  refused by a filter, of TTL 0, or a failure, since these are the kinds that the
  client tells apart.
* A few variables exist for the properties only (`used` and `outgrown` in the UDP
  transport, `order` and `given` in the fakeip store, `newest` and `excused` in the DNS cache file,
  `window` in the TLS transport, `did` and `refused` in the managers, `seen` in the
  urltest scan, `races`, `excused` and their like, which remember that two calls met in
  a way for which the code gives no guarantee). No guard of an action reads them.
* A property that excuses a case names it by such a variable, so that nothing beyond
  that case is excused; the cases are listed under [Findings](#findings).

## Modules

### DNS

**AbstractConnector** is what a connector promises its transport: each `Get` takes
effect at one instant, at which it returns the cached connection, caches and returns
one of its own, or fails; `Close` and `Reset` close the cached connection.
**Connector** is `connector.go` itself: a `Get` call goes through its locked section
(`GetClosed`, `GetCached`, `GetJoin`, `GetCtxDone`, `GetDial`), waits (`Wake`) or
selects on its own dial (`Abandon`, or the hand-over in `completeDial`). The dial goroutine
takes the two context checks, the dial, the setting of `dialComplete` and the send as
steps of their own, with the `context.AfterFunc` goroutine running beside it, and the
dial function may call `Get` again (`NestedGet`). `ImplementsAbstract` is the
refinement, with a connection being visible from the moment it is returned.

**BaseTransport** is the lifecycle shared by the transports. **UDPTransport** EXTENDS
it and uses the connector through AbstractConnector, which is sound because of the
refinement: an exchange gets a connection, registers an id (`nextQueryId` and the
table in one locked section), writes, and waits for its callback, the connection, its
context or the deadline. The network keeps what was written, so that answers may be
lost, late, duplicated and out of order. A query with a larger buffer resets the
connector, so that no connection stays whose receive loop reads into a smaller one (the
loop takes the size when it starts, during the dial, and after every message); a truncated
answer goes on over TCP. **TLSTransport** composes an instance
of BaseTransport with the pool; a request that gave up leaves its answer pending on its
connection, so that a wrongly pooled connection would deliver it to another.
**DHCPTransport** has the servers that a DHCP query named, fetched under the lock by
whoever wants them and without it by the interface monitor. **ResolvedLinks** has the
links that D-Bus clients set up, the servers kept for them, the network updates that
drop them and the queries that pick one of them.

**DNSClient** follows `Exchange` and `lookupToExchange` for one record type: the lock
per cache key (store a channel, or wait for the one that is there, and look into the
cache again), the cache with fresh, stale and absent entries, RDRC, the transport's
answer or timeout, the address filter, storing, and the background refresh of a stale
entry. While a transport asks, it may look its server's name up through the same client.
**DNSRules** is the router's walk over its rules for one query, in legacy mode and in the
one with `evaluate` and `respond`. **DNSMode** is the choice of that mode by `Start`
and the check of later rule-set updates against it.

**FakeIPStore** has the store, its tables in the cache file or in memory, the
metadata timer, flushes, kills and restarts with another range. An address is its number
in a range; the first two and the last are not given out, as `Create` skips them.
**DNSCacheFile** has the asynchronous saves: the queue by key, the goroutine that
writes until its entry is the newest, loads, `ClearDNSCache`, which may fail half-way, and
the removal of what has expired. **SavedState** puts the two
and the usage statistics (UsageStore) side by side and states `CacheFlushes` of them.

### Managers, routing and groups

**StartWalk** is the loop that starts members in dependency order, several passes over
the list, with the explanation (`lintOutbound`) that follows a chain of dependencies
when a pass starts nothing. **OutboundManager** and **TransportManager** instance it:
`Create` in its unlocked and locked parts (the transport manager's is all locked),
`Remove`, which takes its member out before it looks who depends on it, the staged `Start`
walking the list it took, and `Close` closing what it took. **TagManager** is the manager
of inbounds, endpoints, services and certificate providers. A walk that runs without the
lock reads a slice whose array the manager goes on writing to: `AfterRemove` and
`AfterAppend` say what of that shows in the walk.

**RuleMatch** is the matching of one rule with the rule-sets it includes, as the code
does it (sets of match states) and as the documentation of route rules says it (`Holds`;
`docs/configuration/route/rule.md:211-217`). That of DNS rules (`dns/rule.md:233-238`) has
`ip_cidr` among the fields that are and-ed, although the same code matches them.
**RouteRules** is the router's way with one connection: the walk over the rules with
sniffing and resolving, the buffers it reads, and the hand-over, or `PreMatch`.
**RemoteRuleSet** is a downloaded rule-set with its ETag, cache entry, references,
crashes and restarts. **ParallelDial** is the race of dials over interfaces or address
families; **Relay** the connection manager with its two copies per connection and
`CloseAll`. **NetworkManager** has the default interface as the platform reports it,
power events, and the reset that closes tracked connections beside dials.

**URLTestGroup** has the selection: a test writes the history entry by entry,
`Select` reads it entry by entry while failing dials delete from it, the update stores
and then interrupts. **MCURLTestGroup** has the other half, `Touch`, the ticker, its
goroutine, and `Close`, with time as the age of the last use. The two share only the flag
that one test runs at a time, so they are checked side by side and not multiplied.
**Selector** has `SelectOutbound` in its three unlocked steps, dials, the interrupt group,
inbound connections and restarts from the stored choice.

### Around it

**Box** is `preStart`, `start` and `Close`, part by part. **ServiceStatus** is the
daemon's service: reload, close and `SetError`, which leave the lock while instances are
started and closed, and the clients that wait for STARTED through the observer.
**SSMAPI** is the Shadowsocks manager, **OOMKiller** the memory guard of a network
extension, **STUN** the NAT test against a NAT of any kind, **UsageStore** the usage
statistics with the temporary file that all saves share.

### MC modules

`MC*` modules give constants, choose in the initial state, where several components of one
run do not interact, which of them a behaviour is about, and state the properties of the
run: those of an instanced component by its name. The others' variables stay as they
are at rest. Bounds that are no constants are definitions of these modules, each with
a comment that begins with "Bound".

## Runs

Every run's bounds let its interesting case happen; the mutant of each property,
which TLC refutes under the same bounds, is the evidence.

| run | instance | checks |
|---|---|---|
| transports | 2 `Get` calls, one with a recursive dial, any cancellations, deaths, resets, `Close`; or 2 UDP queries, one growing the buffer, and 2 `Close` calls | `SingleFlight`, `NoLeak`, `CacheSafe`, `ShutdownContract`, `BufferFits`, the refinement `ImplementsAbstract`, `CallsReturn` |
| managers | 3 members over 2 tags in one of the six managers | `TablesAgree` (list, map and reverse dependencies), `LeaksAreReported`, `EveryoneStarted` |
| platform | the DNS client with 2 requests of 4 kinds, 1 nested lookup, 2 keys; the Shadowsocks manager with 2 handlers and both savers; the NAT test; 2 memory guards; the network manager with 2 interfaces | `NoOrphanWaiter`, `FilteredAnswers`, `ReturnsUnlessHeld`; `AccountsKept`; `NATTypeRight`; `GuardSound`; `ConnectionsFollow` |
| dns_state | fakeip with 3 domains over 2 usable addresses in 2 families, 2 ranges, 2 starts; 3 saves of a key; usages over 2 processes; 2 links; 2 interfaces for DHCP; 3 queries over 2 UDP ids, or over TLS with 2 closers | `TablesInverse`, `ReusedInOrder`, `CacheFlushes`, `QueriesMeetAnswers` |
| urltest_group | 3 outbounds of which one is TCP only, delays 0, 1, 4, tolerance 2; 2 tickers | `LoopOwnsTicker`, `NoStaleConnection`, `SwitchJustified`, `ComesToRest` |
| core | every rule of a bounded shape with its rule-set; every list of 3 route rules; the service with 3 reloads, or 2 and a waiter; the box; a selector with 2 calls and 2 connections; a rule-set with 3 fetches; the mode with 2 rule-sets | `MatchesReference`, `TwoLooksAgree`, `RoutedRight`, `StatusHonest`, `NoInstanceLost`, `BoxInOrder`, `SwitchComplete`, `FreshMeansConfirmed`, `ModeFits` |
| walks | the start walk on all lists over 3 tags with up to 2 dependencies each; every 3 DNS rules; 2 relayed connections; dials over 2 interfaces or 2 addresses per family | `ExactlyTheStartable` against a reference closure, `FirstDecides`, `OnCloseOnce`, `FailsOnlyWhenAllFailed`, `EndsUnlessHeld` |
| transport_fakeip_default, dns_filter_cached, fakeip_range, selector_inbound, stun_filtering | as managers, platform, dns_state, core, platform | one documented statement each, which TLC refutes: see [Findings](#findings) |

Some bounds and why they suffice:

* Two ids for three queries wrap the counter at once, where the code's 2^16 would take
  that many queries; three queries are one more than the ids, so exhaustion is reached.
* Two `Get` calls are a dialler and a waiter, and each can become the other; the
  proofs cover any number. Of two calls that are alike (`ClosersInOrder` for the two
  `Close` calls, `DNSNext` for the two requests and keys, `GuardBound` for the two
  guards) one is taken to begin first, which leaves out only the mirror images.
* Three members over two tags include a replacement, and a dependency on what is
  replaced or removed. A third tag adds only unrelated members; the walk itself, where
  longer chains matter, is checked with three. After `Close` no member is made
  and `Start` goes no further (`MadeBeforeClose`): what `Close` must do has been done.
* A fakeip range of five addresses leaves two usable ones for three domains, so every
  third domain takes an address away. The proof covers every size.
* Three saves of a key make a goroutine find its entry replaced while it writes, before
  and after a clear. Four were checked once, with the module alone, on 624 thousand
  states; the proof covers any number.
* Delays 1 and 4 differ by more than the tolerance, 0 is the code's "no measurement".
* `SSMNext`, `UsageBound`, `ResolvedBound` and `GuardBound` keep rare events (a crash, a
  refused list, a failed write, a late usage) from being multiplied with each other. Without
  them the modules were checked alone: the usage statistics on 1.7 million states, the
  links, with both settings of `acceptDefaultResolvers`, on 1.18 million. The
  proofs of the Shadowsocks manager and the memory guard assume none of them.
* The box has no constants at all: its run is exhaustive, and there is nothing that a
  theorem would add to it.

`CHECK_DEADLOCK FALSE` is set because every one of these systems may stop: when all calls
of a bounded instance have returned nothing more happens. That those which must not stop
early do not is the liveness property of the run (`CallsReturn`, `ReturnsUnlessHeld`,
`ComesToRest`, `EndsUnlessHeld`). Symmetry is used only in runs that check invariants alone.

## Fairness

Only liveness properties use it, and only weak fairness:

* *Goroutines are scheduled* (the Go runtime): `GetStep`, `DialStep`, `AfterFuncStep`,
  `UDPStep`, a `Shutdown` that has begun, `Step` and `RefreshStep` of the client, the
  urltest group's loop, the steps of the start walk and of the DNS rule walk.
* *Dials, exchanges and tests end*, because they run under a context with a deadline:
  the request's for the connector, `exchangeToTransport`'s for the client, the URL test's,
  the dial's for the racers. The deadline of an outer exchange also reaches the lookup made
  below it. It does not reach a transport that reads from a stream (`dns/transport/tcp.go:78`,
  the fallback of `udp.go:145`): nothing makes a request at "reading" go on, and
  `ReturnsUnlessHeld` says who may be held up by it: the request, those that wait for its
  answer, and those whose server it looks up.
* *Time passes*: tickers tick in the urltest group, the fallback timer of a parallel
  dial fires.
* *Of a relayed connection only what the code obliges to happen does* (`Obliged` in
  Relay): a copy whose end was closed returns; one whose ends are open may run for ever.
  `CloseAll` closes the remote end only, so `EndsUnlessHeld` asks the end of every connection
  it met except where all that is left waits for the client. A DNS query may likewise be left
  with a server that does not answer.

Nothing is assumed of callers: nobody has to call `Close`, cancel a request or dial.
Nothing makes the TCP retry of the UDP transport return, which reads without a
deadline; `CallsReturn` therefore says nothing of it, and `Close` returns by the timeout of
`Shutdown`'s own context.

## Proofs

Proved for every value of the constants, without the bounds of the MC modules. Each safety
theorem has an inductive invariant that implies the property; where a property is not
inductive as it stands, the invariant adds why. The assumptions, beside those that the
modules declare, are hypotheses of the theorems. Most say that `None`, the models' nil, is
none of the values it is told apart from; the others are named below. A theorem with a
"property" in `PROJECT.json` states the definition that a run checks; the others are steps
towards one that a reader may want on their own. A component that its run checks through an
instance has its theorem about the instance (`DR!Spec`, `Guard!Spec`): the specification is
the component's own, without the choice of the MC module which part runs.

**TransportsProofs**. *The connector*, for any set of callers. `SingleFlight` and `NoLeak` are
not inductive: whether a connection that a dial yields may be cached depends on how far the
dial came. `IInv` adds what a dial goroutine at each point has done (`DialProgress`), that
a dial whose request still stands has a live context (`DialContext`, `SentContext`), which
calls have a dial (`CallProgress`), and that nothing is cached while a dial is in flight
(`Cached`). From it follow `TypeCorrect`, `SingleFlightHolds`, `NoLeakHolds` and
`CacheHolds`. `Implements` shows the refinement: initial states map to initial states, and
under `IInv` each action maps to `GetCached`, a fresh connection, a failure, `Close`,
`Reset` or the death of a connection of the abstract connector, or to a stutter.
*The UDP transport*, for any number of exchanges and `Close` calls. `BufferFitsHolds` needs that
only the cached connection is open (`OnlyCached`), so that the `Reset` after a growth leaves
none behind, and what is known of every open one, used or not (`OpenFits`).
`ShutdownContractHolds`, for a finite set of queries, needs to know when the channel exists: `ShutdownWaits` (a `Shutdown` waits
only while the transport is closing and there is a channel to wake it), `Channel` (it exists
only while queries run, and is closed only when none does) and `DrainedComplete`. The
count `inFlight` is a cardinality, so one lemma collects the facts on cardinalities.

**DNSClientProofs**, for any requests, keys and options. `NoOrphanWaiter` needs to know where
the owner of a channel is: `Locks` says that it is on its way to the deferred release, that
only the owner runs that, and that a waiter's channel is closed, owned, or about to be
closed. `FilteredAnswersHolds` follows from `Filtered`: what was cached after a check passed
it, and a refused answer reaches a filtered request only from the cache.
The actions go
through a few lemmas on a request that moves from one place of `Exchange` to another.

**CacheFileProofs**. *The fakeip store*, for any domains, ranges and a size of at least four
(one usable address). `TablesInverse` is inductive together with the types:
overwriting an address removes both old entries. `ReusedInOrder` is not: it says that the
addresses last taken are different, and why the next one is different too is known only
from their place. `Window` says that they are exactly the places before `current`,
going around; that they differ is then linear arithmetic. *The DNS cache*, for any keys and
number of saves: `Sound` says of a key with which no removal or failed write met that it has
exactly one live goroutine while it is queued, that what this one holds is not newer than the
queue, and equal to it under the same sequence number, and that what it has written is in
the file. *The usage statistics*, for any number of requests, saves and restarts: `UsageKept`
compares the file with what was counted, and between the two stand saves that share one
temporary file. `UsageInv` says of a save beside which no other ran that it has that file
for itself (`Apart`, `Undisturbed`) and holds the statistics as they are unless somebody
has yet to take them again (`Pending`), and when the flag of `scheduleSave` may be up and what
the save of `Close` has done (`Scheduled`). `CacheFlushesHolds` puts the three together.

**URLTestGroupProofs**. *The ticker*, for any number of tickers: a test is attributed to the
loop that waits for it, and every live loop is that of the group's ticker. *The selection*, for any
list of outbounds, what they support, delays and dials. `NoStaleConnectionHolds`: until a
connection that belongs to an earlier selection is interrupted, the test in progress knows that
it has to (`Interrupts`). `SwitchJustifiedHolds` is an action property; it needs what a scan that is under
way has measured (`Measured`): `Select` reads the history load by load while tests and failing
dials write it, so that nothing can be said of the history itself. `NoOverflow` assumes that
no delay plus the tolerance exceeds the 16 bits it is computed in; a test gives up after 15
seconds, so that this holds for every tolerance below 50 seconds (the default is 50 ms).

**CoreProofs**. *The daemon's service*, for any calls: a reload that closes the old instance is
`Alone` between two instances because the status keeps everybody else out; while the
service is `Starting` or `Running` the current instance is the one the status tells of;
and the last status handed to the observer is the status (`Told`), which is why a waiter that
has nothing left to read has not missed it. The first three hold until a `SetError` came during
a reload, which the properties excuse. *A downloaded rule-set*, for any contents and number of
fetches, changes and restarts: every entry is what the server had at the fetch its time
names (`Confirmed`), file and memory agree but for a download that is not saved yet
(`Agree`), and the rules are those of what is loaded. *The selector*: while no two calls
overlapped, one call at most has swapped and not stored, and what it was given is selected
(`Stores`). *The mode of the DNS router*: what `buildRules` and every accepted update have
checked still holds of what the rule-sets contain now (`Checked`).

**RoutingProofs**. *The connection manager*, for any set of connections: `Fine` says of each
that the done flag is set by the first copy that ends, and that `onClose` was called when the
second did (the first, for packets). *The race of dials*, for a finite set of
interfaces and any number of addresses: as long as nothing is returned, the errors count the
racers that are over, each of which has tried all its addresses (`Counted`); when the count
reaches the number of racers, the two finite sets are equal. *The walk over the DNS rules*, for
every list of rules that `buildRules` accepts: `FirstDecides` compares the walk with the whole
list. `LegacyInv` says that the index is at the last rule that failed, with every stop
before it failed as well; `ModernInv` that nothing behind the index decides, and which options and
which evaluated answer the rules behind it have left. That a walk which stops has stopped
at the first possible rule needs a least number of a set, which `LeastOf` takes from the
well-foundedness of the naturals, without an induction over the list.

**PlatformProofs**. *The NAT test*: what the tests know of the NAT when they decide (`NATInv`).
*The network manager*: connections follow the default interface except from a change of the
default to the end of its notification, and meanwhile the update under way knows the interface
(`NetworkInv`). *The memory guard*, memory being counted in natural numbers: a sample below the
resume mark belongs to a service that has been cleared since its reset, or to a poll that a
reset has overtaken (`Spaced`), a service that is being closed is in no callback's copy
(`Quiet`), and a single call under way knows whether it is the first or the last (`Matches`).

**SSMAPIProofs**, for any users and number of handlers. `AccountsKept` is about a process at
rest; `SSMInv` adds what holds on the way: a link counts in the map only while its user
has a counter, one saver writes at a time, what `Close` has encoded is what there is as long as
nothing happens beside it, and a process that is down holds nothing. The theorem of the same
name in PlatformProofs carries it over to the instance that the run checks.

Model-checked only:

* liveness, which is out of the prover's reach: `CallsReturn`, `ReturnsUnlessHeld`, `ComesToRest`,
  `EndsUnlessHeld`;
* what recursive definitions compute, which takes an induction over data: `MatchesReference`
  and `TwoLooksAgree` (rules nested in rules), `ExactlyTheStartable` (a closure);
* `TablesAgree`, `LeaksAreReported` and `EveryoneStarted` of the managers: `Remove` on a
  sequence is a selection over it, whose properties take an induction over data;
* `QueriesMeetAnswers` (ids of UDP, the pool of TLS, links, DHCP) and `RoutedRight` (two walks
  over the route rules, with sniffing and resolving between them), which nothing speaks
  against proving and which have no theorem yet;
* `BoxInOrder`, whose run is exhaustive.

## Findings

Five statements of the repository that the code does not keep; each has a run in
which TLC shows how.

1. `dns/transport_manager.go:216`, run transport_fakeip_default. When the default
   transport is removed, the condition that should refuse a fakeip server as the next
   default is inverted: any other server is refused with "default server cannot be
   fakeip", and a fakeip server becomes the default.
2. `dns/client.go:198`, run dns_filter_cached. A cached response is returned without the
   rule's address filter. `docs/configuration/dns/rule.md:607` says that a rule whose
   filter does not match the results is skipped. `FilteredAnswers`, in the passing run,
   says that this is the only way around the filter.
3. `experimental/cachefile/fakeip.go:182`, run fakeip_range. After the configured range
   changed, `FakeIPReset` deletes three buckets in one transaction; if the bucket of one
   family never came to exist the transaction is rolled back, the error is ignored, and
   known domains keep addresses of the old range.
4. `protocol/group/selector.go:165`, run selector_inbound. An inbound connection is handed to
   the selected outbound and never joins the interrupt group, so that a switch leaves it
   where it was, although `docs/configuration/outbound/selector.md:38` names inbound
   connections as the ones that the setting is about.
5. `common/stun/stun.go:588`, run stun_filtering. The filtering test uses the socket with which
   the mapping test has just sent to the server's other address; a filter by address is open for
   it by then and is reported as independent of the endpoint. `NATTypeRight`, in the passing
   run and in the proofs, says that this and lost packets are the only ways to a wrong report.

What passing properties excuse, because the code gives no guarantee of it, and the hazard
list records:

* transports: a connection that is pooled between the two halves of the TLS transport's
  `Close` stays open (`QueriesMeetAnswers`); an answer may meet another query once every id was
  in use since (same); DHCP updates without the lock may meet (same); a UDP connection that is
  being dialled when the buffer grows may keep the smaller one until it has read a message
  (`BufferFits`);
* requests: a read from a stream holds up its request and what waits for it
  (`ReturnsUnlessHeld`); a client that neither sends nor reads holds its connection after
  `CloseAll` (`EndsUnlessHeld`); an answer from the cache is not looked at by the rule's filter
  (`FirstDecides`, `FilteredAnswers`);
* groups: a connection that enters a urltest group belongs to the selection it meets there,
  whichever one it was dialled through, and what entered before the first selection to that one
  (`NoStaleConnection`); a dial under way during a switch of the selector survives it
  (`SwitchComplete`); a delay of 0 counts as none (`SwitchJustified`); overlapping calls of
  `SelectOutbound` may store another choice than they selected (`SwitchComplete`);
* files: a DNS save that meets `ClearDNSCache` or the removal of what has expired, or whose
  write fails, may be lost or survive, and so may all keys when the clearing fails;
  usage saves that overlap share their temporary file (`CacheFlushes`); a kill while the
  Shadowsocks manager writes tears its file (`AccountsKept`);
* managers: a call that reports an error may have dropped a member unclosed
  (`LeaksAreReported`); a removal may move members under a walk (`EveryoneStarted`);
* rules: a second sniff action that reads reorders segments and repeats packets
  (`RoutedRight`); the look before the query decides an inverted rule with further items, or one
  whose plain items miss, before its address items are known, and does not read the addresses of a
  rule-set that are for the source (`DecidedEarly`, `SourceUnread`, in `TwoLooksAgree`); two rule-set updates are each checked against the other's old content (`ModeFits`); content
  without an ETag, or a failed save, may be confirmed by a later 304 (`FreshMeansConfirmed`);
* service: after a `SetError` during a reload an instance may be lost, and one that is closed
  while it is starting runs on (`NoInstanceLost`);
  a client may subscribe too late (`StatusHonest`);
* network: a connection that is dialled during a reset is not closed by it
  (`ConnectionsFollow`); the start of the first guard beside the close of the last may leave the
  monitor off (`GuardSound`).

## What is not modelled

`PROJECT.json` lists every component with its status and the reason. In short:

* of the modelled parts: TTL arithmetic, EDNS0 rewriting, response truncation, the
  pairing of A and AAAA and the lookup of a server's name below a refresh in the client; fakeip
  ranges of one or two addresses, which are not refused and from which `Create` takes addresses
  outside them (`SizeSuffices`); the expiry and the plain entries of the cache file
  and its recovery from corruption; groups as members of groups, a history of delays that
  several groups share, and the pause manager's
  stopping of the urltest ticker; the construction of the box, the router and the dialers from
  options; the repetition of a dial without a network strategy after EPERM (`default.go:302`);
  observers of the daemon with a full buffer; a saved rule-set that fails to load; the attempts over servers and search names of the DHCP and resolved transports;
* not meant to be: adapters to protocol and TLS libraries, stream transports, parsers of
  byte formats, platform calls, API servers, options, constants, generated code, commands.

## Further hazards

Beside those of `PROJECT.json`; no property is about them unless one is named:

| where | what can go wrong |
|---|---|
| `adapter/outbound/manager.go:310` | with no default tag, replacing the default outbound closes it and leaves the default on it |
| `dns/transport_manager.go:294` | the fakeip role is never given back by `Remove` or a replacement |
| `dns/client.go:384` | a `Lookup` with a client subnet reads the cache that `Exchange` keeps such requests out of |
| `dns/client.go:139` | the least TTL is sought from 0, which is also a TTL a record may have |
| `dns/client.go:493` | several readers of a stale entry race to refresh it while it is replaced, evicted or cleared (`ReturnsUnlessHeld`) |
| `dns/router.go:668` | a refused answer makes the walk start over from the caller's options: the route options collected before no longer apply (`FirstDecides` says what is in force) |
| `experimental/cachefile/rdrc.go:58` | a load deletes an expired rejection in a second transaction, and with it one saved in between |
| `protocol/group/urltest.go:322` | delay plus tolerance wraps around in 16 bits for a large tolerance |
| `protocol/group/urltest.go:142` | a failed dial deletes the history of a member group under another tag than it is kept under |
| `route/rule/rule_set_remote.go:213` | no references are seen, a rule takes one, and the rules are cleared under it |
| `route/rule/rule_set_remote.go:99` | a saved rule set that no longer parses fails the start, though a fetch would replace it |
| `route/rule/rule_set_remote.go:337` | a match ranges over the rules without the lock while a fetch replaces them and `Cleanup` clears them |
