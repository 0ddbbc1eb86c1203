# EdgeGuard in TLA+

A formal model of EdgeGuard (the `eggrd` repository), the edge reverse proxy, kept beside its
code: TLA+ modules translated from the Rust source, TLC configurations that check them on small
instances, and theorems that TLAPS proves for every size. `PROJECT.json` is the index: every
definition with the source lines it models, every run, the mutants that show each property can
fail, the hazards, the findings and the theorems.

1. The system
2. What is modelled, and how it corresponds to the code
3. The runs
4. Fairness
5. What is proved
6. Findings
7. What is not modelled
8. Plan

## 1. The system

EdgeGuard is one process in front of an application. A request goes through gates (access lists,
authentication, limits, WAF, LLM policy), is sent to one of the route's upstream targets, and its
answer is inspected and returned. Around the request path, background tasks keep the state the
path reads.

| Component | State | Operations | Interacts with |
|---|---|---|---|
| Upstream pool (`pool.rs`) | per target: verdict, streak, failures in a row, in-flight count, ejection; round-robin turn | order targets, start/end an attempt, eject, check, carry health | requests call it; the check task writes it; a reload shares it between pools |
| Failover (`proxy.rs` `send_to_pool`) | list of targets, attempt, in-flight guard | attempt, retry, give up | the pool |
| LLM budgets (`budget.rs`) | counter and expiry per budget, scope value and window; settle markers | reserve, roll back, settle, release | requests; Redis, shared by every edge |
| Policy and reload (`policy.rs`, `reload.rs`) | two layers behind a mutex, live runtime, pending flag, cache file | set the file, apply a pushed policy, restore the cache | the file watcher, the policy poller, every request |
| Control-plane client (`cp.rs`) | ETag cursor, usage deltas, quota verdict | pull, report and restore, poll quota, flush CSP | policy, metrics, requests |
| Rate limiter (`limiter.rs`) | arrival time per key (GCRA), local, in memory or in Redis | check | requests |
| Certificates (`acme.rs`, `acme_budget.rs`, `certstore.rs`, `selfsigned.rs`) | a pair of files, the served certificate, the issuance ledger, fleet leases, the renewal plan | order, debit, publish, reload, renew | TLS listener, CA, control plane |
| Serving (`serve.rs`, `supervisor.rs`, `main.rs`) | connection slots, shutdown flags, the wrapped app | accept, drain, restart and stop the app | everything |
| Client identity (`proxy_protocol.rs`, `client_auth.rs`, `client_cert_header.rs`, `auth.rs`, `access.rs`) | the verifier's CAs and CRLs, the JWKS cache | derive the address and the certificate, check credentials, reload | every request |
| Screening and answers (`waf.rs`, `keyvault.rs`, `cors.rs`, `proxy.rs`) | none of their own | match rules, choose a key, rewrite headers | every request, browsers and their caches |
| Log shipper, CSP sink, metrics, alerts | bounded queues, batches, label registries, latches | enqueue, ship, fold, drain | requests, collectors, control plane |
| Stream inspection and DLP (`stream_inspect.rs`, `dlp.rs`) | tail carried between chunks, the mask map | scan, redact, mask, unmask | bodies both ways |
| LLM metering (`llm.rs`) | the tail of a stream's last lines | read usage, price it | budgets, usage reports |
| Outbound and upstream clients (`outbound.rs`, `upstream.rs`) | client certificates shared by file pair, TLS profiles per target | build, rotate, connect, name a failure | everything that opens a connection |
| Configuration and start (`config.rs`, `unknown_keys.rs`, `doctor.rs`, `main.rs`) | the file, what a start leaves on disk | load, warn, foretell, start | operators |

What is hard here, and the properties that make each part right:

- *Reloads under load.* A request keeps the runtime it loaded; the next runtime shares the
  targets' health. Nothing in flight may be lost, and no target may change rotation by the swap.
- *Concurrent ejection.* Several requests cross a threshold together; the last target must stay.
- *Failover.* A request that may have reached one target must not be sent to another.
- *Two sources of policy.* File and control plane rebuild the runtime concurrently; neither may
  undo the other, and an edge told to wait for a policy must not serve without one.
- *Distributed budgets.* Reservations of many edges over one store, with lost replies and retries:
  the counter may be too high for a while, never too low, and drift must be reported.
- *Crash and restart.* The cache file may be old, or of another tenant.
- *Files that change under their reader.* Certificate and key, CA and CRL are two files each; every
  pair that is served must be one that was written.
- *Queues, ledgers, tables and slots at their limit*: what is dropped is counted, what is counted
  comes back, and a background task never stalls on a slow collector.
- *Shutdown.* Requests finish, the app outlives them, the process ends.
- *Whose word counts.* A client may write any forwarded header; the address, the certificate, the
  host and the key that the edge acts on must come from who it trusts.
- *Cuts.* A header, a placeholder, a usage line or a check's answer may arrive in any pieces.
- *Two accounts of one thing.* `doctor` and the start, the log and the clients, the preflight and
  the answer must agree.

## 2. What is modelled, and how it corresponds to the code

The general rule: a step is what no other task can come between. A handler is split where it
awaits, where it takes or releases a lock, and where it reads an atomic that it later acts on.
Definitions marked `Mutant:` in their comment are deliberately wrong variants of the definition
after them; nothing uses them except the mutation runs listed in `PROJECT.json`.

### PoolOrder, Balancing, LeastConn

`PoolOrder` is `Pool::order_for` as a function: the tiers (primary, backup), the balancing modes,
the weighted turn, the sticky target moved to the front, and the fallback to every target when none
is in rotation. `Orders(c, up)` is what its callers rely on, the *contract*: any order of the
targets that may be tried. `Balancing` drives `order_for` with the shared turn counter while
targets leave and return, and `OrderKeepsContract` shows that the real order is always one that
`Orders` allows; the pool it starts with is any of the constant `Pools`. `UpstreamPool` uses the
contract, so its results hold for every balancing mode.
`LeastConn` takes `least_loaded` apart into its three unlocked passes over the in-flight counts,
interleaved with requests that start and end; it is checked only for what the code says of a count
that changes under it, which it does not do (section 6).

### UpstreamPool

One route's pool. `health` is the set of `TargetHealth` values, named by the target and generation
that made them; `arc[g][t]` is the `Arc` that generation `g`'s target `t` points to, so that
`carry_health_from` is an assignment to `arc`. Requests (`req`) go through `Accept`, `Order`,
`Attempt`, an outcome (`AnsweredOk`, `Answered5xx`, `ConnectFailed`, `BrokenOff`), the ejection
decision under `eject_lock` (`Decide`, `Eject5xx`), `Retry` or `GiveUp`, `Finish`. The check task
is `Wake`, `Claim`, `Skip`, `CheckEnds`. A reload is `Build` (which carries the health) and
`Install` (which swaps the runtime).

Abstractions. Instants become the time left until them, and `Tick` counts it down. Counters stop
at `MaxCount`, past every threshold they are compared with. The stores of one `eject` call are one
step: each field is read alone by other tasks, and no property relates two of them within one call.
A checker's HTTP exchange is its outcome, passed or failed.

### Budget

`BudgetEngine` and its use by requests. A key is the store, budget, scope value and window, as in
`Budget::key`; `used` and `expires` are the store's entries. `Reserve` is one run of the reserving
script (or one critical section of `MemoryStore`); `ReserveFails` is an error with the script run
or not; `Settle` and `SettleFails` are the settling script, its retries and its marker; `Finish`
records the failures. A buffered answer is settled by the request's own task (`Commit`), a streamed
one and a dropped guard by a spawned one (`StreamEnds`, `Release`), which is why `Cancel` can cut
the first short and not the others. `Reload` makes new requests use another engine, which has its
own store when the store is in memory.

Abstractions. The arithmetic of the estimate (`llm.rs`) is any member of `Spends`. Settle markers
do not expire: they live for five minutes and retries end within a fraction of a second. Budget
names are taken to be distinct, as keys are built from them. Saturation of 64-bit counters, loss of
Redis's data and death of an edge with reservations held are left out; the last one leaves holds
until the window ends by design.

### Pipeline

`handle` and `handle_inner`: one request from the gates to the last byte of its answer. `cfg` is the
runtime's configuration, `req` what the client sends, `pc` where the request's task is. Every early
return is an action (`Refuse`, `BodyRefused`, `Block`, `VaultRefused`, `Denied`, `Fail`,
`CollectFails`...), and all of them leave through `Reply`, which is `finish`, the access line of
`handle` and the drop of the reservation guard. The body is read whole, streamed, or streamed
behind an inspected window (`BodyMode`); `UploadFrame` is `StreamedRequestBody::poll_frame` with
the tail inspector and runs beside the request's task, so an answer may come before the upload is
over. An answer is collected and rewritten (`Collect` to `Respond`) or streamed through
`CountingBody` (`Stream`, `StreamFrame`, `StreamEnds`, `StreamCut`), whose drop counts, logs and
settles. `Cancel` is a client that leaves while the task awaits.

Abstractions. What a gate decides is any outcome. A body is any number of frames, an answer `Frames`
of them, and at most one thing in each is worth finding, in one frame or across two: the carried
overlap is taken to be long enough for it, the limit that `StreamInspectCfg` states. In a redacted stream a frame stands for the bytes
held back. What sending does to the targets is `UpstreamPool`, what the reservation does to the
counters is `Budget`; here they are one wait and one state (`hold`). A `Cancel` in `commit` leaves
`hold` at `leaked`, which is what the code does (section 6).

### PolicyLayers

`Policy` with its two layers and mutex, the live runtime (represented by the layers it was built
from), the pending flag, the cache file, the file watcher and the poll loop. `set_local` is
`SetLocal` (rebuild and store the runtime) and `LocalSet` (store the layer), because requests see
the runtime between the two; `install` is `Install` and `Installed`. `Save` may fail, which the
code only logs. `Start` is the whole start up to the listener, which is bound after the cache was
restored. A request is `ReadPending`, `LoadRuntime`, `Respond`. `Crash` stops everything; files and
control plane stay. Which file builds with which policy is the constant `Buildable`: a pair outside
it stands for a merge or a build that fails, and a file in no pair for one that does not parse.

Abstractions. The process is in managed mode. `tenant` is the control plane and tenant the process
was started with; a later edit of the file does not change the client or the cache's identity, as
in the code. A failed pull and a 304 change nothing and are not steps. `missed` is a history
variable: an edit that no watch could see.

### Certificates, Gcra

`Certificates` is the listener's certificate from its order to its handshake. Certificates and keys
are numbered; `disk` holds the two live paths and the backup, and `publish_pair` is one step per
rename, so that the watcher, the hourly check and a crash come between any two. The store reads
the certificate, then the key, and keeps what it has unless they match (`load_pair`). The renewal plan, the ARI window, the
ledger (a `Gcra` debited and saved before the order), the leases of the fleet and their outcome,
the challenge server or DNS record and the handover of port 80 are the steps of an order. The first
start finds nothing on disk or any pair, a self-signed one with ACME on included: `run` orders only
when a file is missing and keeps what is there, whoever issued it. Each certificate has how it came
to be (`Hows`): found, made, or made with a new key because the old one could not be read. Every read
of a file, the ledger's too, can fail. `books.left` marks a lease that nobody will report on: its
grant or its report was lost, it was granted without an id, or the process crashed in between.

Abstractions. One domain stands for all, and the three buckets of the ledger move together. A step
of the clock is a third of a certificate's life. The CA's own limit is the same bucket without the
edge's losses. X.509, key types and the DNS provider's API are external.

### Process, Shipper, Usage, CspSink, Series

`Process` is the life of the edge as its background tasks see it: requests arrive and are served, a
signal starts the drain, and the exit cuts any task wherever it is. `Shipper` is the queue, batch
and retry of access-log records, and with one try that of spans. `Usage` has the accumulators as
separate atomics, which a request adds to one by one and the reporter swaps and restores one by
one, and the quota verdict with its two stores. `CspSink` splits a report at each of its tables; one
that an edge without a control plane, or without `forward_csp`, takes in ends after the parser
(`NotForwarded`), and `prunes` is the history of the clock readings that the table was scanned by;
`Series` is the copy-on-write map with its `rcu` retry, and the latch of the budget alerts.

Abstractions. Three accumulators stand for all: tokens and cost move as bytes do. Batches are timed
by a step that may come at any moment. A post or a parse is its outcome. `MCReports` moves one
reporter per behaviour: they share only the process's phase.

### Connections, Supervisor, Lifecycle

`Connections` is one listener: the accept loop with its cap, its pause after an error and its
drain, and a task per connection through PROXY header, handshake, first head and requests. The
drain's registration with `Notify` is a step of its own, before it looks at the count. `Supervisor`
is the wrapped app: spawn, exit, backoff, stop with a grace, kill, and the process group that it may
leave behind. `Lifecycle` is `run` in `main.rs`: readiness fails, the public listener drains, then
the app and the admin listener are stopped, then the process ends. `IsProcess` shows that
`Lifecycle` implements `Process`, which the reporters assume.

Abstractions. Timers are countdowns that fire on time. A connection serves one request at a time;
HTTP/2 streams and upgraded connections are not counted apart. The admin and redirect listeners are
other instances of the same code.

### Address, ClientCerts, Auth

`Address` takes a request from a client through proxies and balancers to the edge: the PROXY header
read from any pieces, the walk along `X-Forwarded-For`, the access lists. `ClientCerts` is the
verifier, its reload from two kinds of files, session resumption, the forwarded header in its
formats, what the app sees and the principal. `Auth` is where each mode reads its credential, and
the JWKS cache with its double check under the write lock.

Abstractions. Proxies append to the header and balancers put their own in front, as they are
documented to; `AddressDeployed` and `CertsDeployed` state what a deployment must satisfy (the
configured hops are the real ones, nobody but the balancer reaches a listener that trusts it),
which is also what `doctor` asks for. The bytes of a header are tokens, a name a sequence of
segments. A value in Envoy's format is a sequence of elements, each of which may leave a double quote
open; `split_quoted` separates at a comma only outside quotes, so the last element may be made of
several (`LastPieces`), and what is then read comes from any of them or is nothing readable, which
covers every way their quotes may fall. There is one request per connection and one session ticket,
the last. The issuer
withdraws keys when it likes. Signatures and chains are external.

### LeakyBucket, Limiter

`LeakyBucket` is what a rate limit promises. `Limiter` is the shared-store limiter, with GCRA's
stored arrival time in a map or in a Redis whose keys expire in milliseconds, per client, per route
and per key; its refinement mapping turns the arrival time into the bucket's level, and a rebuilt
in-memory runtime is a `Reset`. The replicas' clocks are one clock, as `limiter.rs:25` requires of a
deployment. A store that fails answers as `fail_open` says and is charged or not; the `local` store
is the governor crate and external.

### Outbound

`Outbound` is what each of the edge's own clients takes from its section and from `[outbound]`, the
process-wide table of client certificates by file pair with the claims of runtimes, drafts and
requests on it, and their rotation; and, of the connections to upstreams, the TLS profile, for requests and
for health checks that dial another port or host, the reading of a check's answer frame by frame,
and the cause that is named for a failure. A pair is a generation, 0 when it does not load; the
system's roots stand as one CA, "public". A TCP check connects and hangs up.

### Masking, Metering, Screening, Answers

Functions of a request or an answer, each with the steps in which its input arrives. `Masking`
merges findings, redacts or masks, and unmasks the provider's answer, whole or by frames, on texts
of characters in which one character has two bytes. `Metering` reads usage from an answer or from a
stream cut anywhere, keeping the head and tail of a line as the code does, and prices it.
`Screening` is the effective host, the WAF's view of a path, headers and body, the vault's choice
and the headers sent on. `Answers` is CORS, security headers and cookies through a cache that
browsers share.

Abstractions. Detectors and providers are external: any findings, any usage. The placeholder's
prefix is two characters. Saturation of `u64` sums is left out. Percent-decoding is single-pass, as
in the code, and a list of header values stands as several lines. Upstreams send no CORS headers of
their own. A cookie with a byte outside visible ASCII is one with the word `NotAscii` in it: `to_str`
refuses the value, and `harden_response` passes it on as it came.

### UnknownKeys, Startup

`UnknownKeys` is the search for keys that the parser ignored, by reading the document again without
them, and the suggestion. `Startup` is `run` up to the listener in the order of its checks, writes
and binds, beside what `doctor` says of the same settings, with a restart on what the first start
left. A setting's own text is only whether it loads (`broken`); the ACME order's outcome is
external. `Unforetold` names the refusals that `doctor` does not foretell, each of which the model
has (section 6), and `DoctorForetells` is about all others. The fields that a flattening table has
of its own are leaves.

## 3. The runs

Each run is a `.cfg` of an `MC` module. Bounds are small on purpose; the reason why they are enough
is given with each. A property of a run is one promise of a component; most are conjunctions of
named parts, each stated and explained where it is defined. The parts are listed after the table.

### Passing

| Run | Checks | Bounds, and why they are enough |
|---|---|---|
| `decisions` | `TurnsKept`, `ConnectsAsConfigured`, `TextsKept`, `AnswersKept`, `StartIsForetold` | One part moves per behaviour. A round-robin pool with weights 3, 1, 2 and a backup, and a hashing one with three targets and two backups: eight turns hold a whole cycle of six from three starts. Two client certificates of two generations, and three sections, one of which reloads rebuild. Texts of a handful of characters with overlapping, touching and nested findings; frames of one and of three characters cut every placeholder everywhere. Streams whose last line fits the head, the tail, or neither. The settings of a start: every change of one or two settings of a TLS edge and of one setting of a plain and two ACME ones, started twice. |
| `requests` | `LastTargetKept`, `ReachesOneTarget`, `RequestsResolve` (under `FairSpec`) | Two requests and two targets, ejected on the first 5xx: both can cross the threshold together, wait for the lock, and fail over into a target that is out. |
| `reload` | `InFlightIsHeld`, `ReloadKeepsRotation` | One request in flight, with least connections, checks and ejection on the first failure, across a reload that adds a backup: a guard can outlive its generation, and an ejection or a verdict can fall between the build and the swap. |
| `checks` | `ChecksInTurn`, `ChecksRecover` (under `FairSpec`) | Four generations: two checks needed, then one, then no checks and one target less, then checks again. A check can end in any later generation than the one that started it. |
| `budgets` | `NeverUnderstated`, `WithinBudget`, `DriftIsReported` | Two requests of one key, a token and a cost budget with different windows, two attempts at settling, every fault, failing open, a reload and a window boundary in the middle. The two requests are symmetric. |
| `exchanges` | `SentUnderPolicy`, `WithheldFromClient`, `AccountedOnce` | Every way of reading a request's body under every WAF and DLP mode and each part of the LLM gateway, with findings in or across any of three frames and bodies over the cap; and every way of giving an answer under every DLP setting and each part of the gateway, with findings in or across any of its three frames. Bodies have one frame or three: a window, a frame that the window's tail is carried into, and one that a tail frame is. |
| `policy` | `ServedUnderPolicy`, `RuntimeIsLayers`, `ReportedIsServed`, `OwnPolicy`, `LayersFollowed` (under `FairSpec`) | Three files of two tenants, three policies, one pair that does not build, one request, crashes at every step. |
| `certificates` | `PairKept`, `OrdersKept`, `RenewalsReach` | Eight configurations, one for each source of a certificate and each way of ordering; three certificates, so a renewal can overtake a reload of the one before; two faults, so that the undoing of a failure can fail, or a lease be lost and its order's ledger unreadable; a first start on nothing, on an issued pair or on a self-signed one; time for one life and a third. |
| `reports` | `UsageAccounted`, `ShippingKept`, `SinkKept`, `ShownIsTrue`, `ReportersGoOn` | Two requests race a reporter with three accumulators and two reports; a queue of one and a batch of two, so that every path of the task is met with the queue full; two threads for each unlocked read and write, with reports to forward and others; every cap is passed. |
| `drain` | `ConnectionsAccounted`, `ShutdownInOrder`, `WaitsEnd`, `IsProcess` | Two connections against a cap of one, or without a cap; four listeners cover TLS, PROXY headers, a head timeout, a drain delay and no drain time at all; the wrapped app is behind the plain one and may crash, leave children, ignore its stop. |
| `gate` | `AddressIsTheClients`, `CertificateIsTheClients`, `CredentialsChecked`, `RatesKept`, `GateGoesOn` | Chains of up to three hosts of every role over a two-bit address space, in IPv4, mapped and IPv6 form; two clients and a balancer, whose elements may leave quotes open, against CA and CRL files replaced twice; two requests that miss the key cache together around one rotation; four limiter configurations whose periods do not divide evenly, over a horizon of several expiries. |

### The parts of the properties

| Property | Module | Parts | What it says |
|---|---|---|---|
| `ChecksInTurn` | `UpstreamPool` | `FlagIsTheTask`, `VerdictEarned` | checks of a target never overlap, and a verdict changes only after the checks it needs |
| `ChecksRecover` | `UpstreamPool` | `ChecksGoOn`, `VerdictFollowsChecks` | checks go on for ever, and the verdict comes to agree with them |
| `WithinBudget` | `Budget` | `TypeOK`, `OvershootIsUnderestimate` | a counter passes its limit only by what estimates missed |
| `LayersFollowed` | `PolicyLayers` | `FileFollowed`, `PolicyFollowed` | the last edit and the last policy come to be live |
| `SentUnderPolicy` | `Pipeline` | `InspectedBeforeSent`, `KeySwapped` | nothing goes up uninspected, or under the client's own key |
| `AccountedOnce` | `Pipeline` | `TypeOK`, `FoundOnce`, `SettledOnce`, `OneLine` | findings, reservation, count and access line, once each |
| `PairKept` | `Certificates` | `CertTypeOK`, `NeverMismatched`, `PairConsistent`, `StartsAgain`, `NeverDowngraded` | the served pair and the pair on disk, through crashes and failed renames and reads; with ACME on, no self-signed pair but one that was found |
| `OrdersKept` | `Certificates` | `RefusalExplained`, `RenewalJustified`, `PortIsFree`, `ChallengeAnswered`, `LeaseClosed` | orders are counted, justified, and give back port, challenge and lease, unless the lease's grant or report was lost |
| `RenewalsReach` | `Certificates` | `RenewedInTime`, `KeyKept`, `EventuallyServed` | renewed in time, same key unless it could not be read, served in the end |
| `UsageAccounted` | `Usage` | `UsageNotLost`, `BilledTwiceOnlyUnanswered`, `LastReportIsAll` | nothing lost, nothing billed twice but by a lost answer |
| `ShippingKept` | `Shipper` | `RecordsAccounted`, `SentIsStored` | every record is held or counted, and what is counted as sent is there |
| `SinkKept` | `CspSink` | `ReportsAccounted`, `FlushBounded`, `TrackedBounded`, `PrunedOncePerInterval` | the public sink counts what it drops of what it would forward, and stays within its bounds |
| `ShownIsTrue` | `Series` | `CountsExported`, `SeriesBounded`, `ModelsAddUp`, `OneAlertPerCrossing` | exported series and alerts |
| `ReportersGoOn` | `Shipper`, `Usage` | `RecordsLeave`, `QuotaFollows` | a slow collector stalls nothing; the quota verdict arrives |
| `ConnectionsAccounted` | `Connections` | `SlotPerConnection`, `OneTimeoutForFirstHead`, `DrainIsWoken`, `HandshakesAccounted` | slots, the first head's time, the drain's wake-up, handshakes |
| `ShutdownInOrder` | `Lifecycle`, `Supervisor` | `NotReadyFirst`, `RequestsFinish`, `OneApp`, `AppStopsFirst` | readiness, requests, app, process |
| `WaitsEnd` | `Lifecycle` | `PatienceEnds`, `ShutdownEnds` | silent clients and shutdowns end |
| `AddressIsTheClients` | `Address` | `ServedAsItsClient`, `DeniedStaysOut`, `ReadsDoNotMatter` | whatever the client wrote and however its bytes were cut |
| `CertificateIsTheClients` | `ClientCerts` | `CertIsTheClients`, `AppSeesTheClient` | for the edge and for the app, where an appended XFCC has its quotes closed |
| `CredentialsChecked` | `Auth` | `NoOtherCredential`, `OneFetchForAll`, `WithdrawnKeyExpires`, `PublishedKeyAccepted` | rotation, withdrawal and a failing issuer |
| `RatesKept` | `Limiter` | `IsLeakyBucket`, `RateHolds`, `RetryIsExact`, `RemainingWithinOne` | the refinement of `LeakyBucket`, and the instants callers are told |
| `GateGoesOn` | `ClientCerts`, `Auth` | `RevokedStaysOut`, `ReloadCatchesUp`, `GateDecides` | reloads catch up, requests are decided |
| `TurnsKept` | `Balancing`, `Outbound` | `TargetsInOrder` (`TypeOK`, `WeightedShare`, `OrderKeepsContract`, `StickyKept`, `OnlyItsKeysMove`), `RotationReaches` | weights, cookies, keys and the contract that `UpstreamPool` uses; rotated certificates reach their clients |
| `ConnectsAsConfigured` | `Outbound` | `ClientsAsConfigured` (`ReportedIsPresented`, `PresentsCurrent`, `OwnSettingsHold`, `OutboundToldTrue`), `TargetsAsConfigured` (`CheckedAsRequested`, `UnusedEntriesWarned`, `VerdictIgnoresFrames`, `CauseIsNamed`) | the edge's own clients, and its connections to upstreams for requests and for checks |
| `TextsKept` | `Masking`, `Metering`, `Screening`, `UnknownKeys` | `MaskingKept` (`FoundIsCovered`, `NothingFoundLeaves`, `MaskIsUndone`, `StreamedAsWhole`), `MeteringKept` (`MeteredAsUsed`, `NeverOverMetered`, `BilledOnce`), `ScreenedIsSent` (`SeenDecoded`, `UnreadBodyIsIdle`, `HostScreenedIsHostTold`, `UpstreamToldByEdge`, `CookiesArrive`, `ProtoIsTheClients`, `KeyIsEarned`), `IgnoredKeysTold` (`ReportedIffIgnored`, `SuggestionIsMeant`, `EditsAreNeighbours`) | what is hidden, given back and billed, in frames as in whole; what was decided by is what is sent on; what is said of ignored keys |
| `AnswersKept` | `Answers` | `CorsIsolated`, `PreflightIsKept`, `CookiesHardened` | what browsers are told, also through a shared cache; cookies of visible ASCII are hardened |
| `StartIsForetold` | `Startup` | `DoctorForetells`, `RefusalsAreTrue`, `SomeoneIsLetIn`, `IssuedOnce`, `EdgeLocalStays`, `NudgeIsTrue` | what `doctor` says of a configuration is true of its starts |

### Violations

A run of this kind checks what a comment or a document of the repository says, and TLC finds a
behaviour of the code that contradicts it: `least_conn_panic`. Section 6 says what it shows.

Deadlock is checked except in `decisions`, `gate`, `reports` and `drain`. There the system really
stops: a decision is made once, a request is decided once, and a process that has exited does
nothing more; that everything which must happen does is then a liveness property of the run. The
requests of `Budget` end for good too, and its `Ended` step stands for the rest of the process's
life.

## 4. Fairness

Safety runs assume none. The liveness runs assume:

- *Tasks go on.* Weak fairness of the steps a Tokio task takes by itself (an attempt, a retry, the
  check round, the watcher, the poller). Tokio schedules every woken task, and no task
  here blocks another.
- *Answers or timeouts.* `Attempt(r) \/ Outcome(r)` is weakly fair because `upstream_timeout` ends every
  wait. With `upstream_timeout = 0` there is no such limit, and `RequestsResolve` is then not
  claimed.
- *Locks.* `Decide` waits for `eject_lock`, which others take and release again and again: strong
  fairness. The holder never awaits, so it releases it; the standard mutex does not starve a waiter
  for ever in practice, which is an assumption. The same goes for the policy mutex in
  `PolicyLayers`.
- *The outside.* Time passes; a health check ends (it has a timeout). The control plane answers a
  pull now and then (`WF(Pull)`): without it no edge can follow a policy. Nothing is assumed of
  which outcome a check, an attempt or a script has. Neither crashes nor restarts are fair:
  `FileFollowed` and `PolicyFollowed` speak of behaviours in which the process stays up from some
  time on.

- *Watchers, reporters and reloads* of the other modules are Tokio tasks in a loop and weakly fair:
  the certificate watcher and the hourly check, the CA reload, the client-identity watchers, the
  shipper's task. That a post or a fetch ends is the timeout of its HTTP client. `QuotaFollows`
  also assumes that a control plane that is polled answers in the end.
- *The accept loop's select.* Tokio polls the branches of `select!` in random order, so a shutdown
  that stays signalled is seen although connections keep coming: strong fairness of that branch
  (`Signalled`, `DelayOver`).
- *The JWKS lock.* Tokio's `RwLock` is fair, first come first served: strong fairness of a
  request's step at the gate.
- *Timers.* Timers fire on time: `Clock` does not pass a timer that has run out, and time goes on.

## 5. What is proved

TLAPS checks the proofs of eight modules. They hold for any number of requests, connections, targets,
generations, files, policies, tenants, budgets, clients, hosts, keys, threads, frames and for any
clock, as far as the constants satisfy the named assumptions of the modules; TLC evaluates every
assumption on its runs. The assumptions say what the types are, that the sets which are counted are
finite, and what the code itself checks or fixes:

- `ValidConfig` is what `from_route` accepts; a rate leaves an interval of at least one
  (`Gcra::from_rate`); the process waits longer for its supervisor than the supervisor for the app
  (`StopGrace > TermGrace`, two constants of the code); reversible masking is a kind of redaction, and
  a finding spans neighbouring frames.
- A certificate belongs to a client or to the balancer, and the balancer is no client; a PROXY v2
  signature comes with the rest of its fixed part, and the longest v1 line holds one (`Address`); a
  token without a key id has none of the issuer's (`Auth`).
- No CORS policy lists `*` among its origins (`build` reads it as the wildcard), and a `Set-Cookie`
  line has a first part (`Answers`); `challenge` and `users` have one of the values that the start
  tells apart (`Startup`).
- No CA bundle is named as the public roots are; URLs are `http` or `https` (`check_url` and
  `from_route` refuse others); an error of TLS has no further cause, as in rustls (`Outbound`).

Each proof is an inductive invariant, one lemma per action or group of actions, and the theorems.
The invariants were model-checked on the instance of the component's run before they were proved.

`UpstreamPoolProofs`:

- `TypeCorrect`: `TypeOK`. It is inductive by itself; the work is in the lengths of ejections
  (`EjectType`: at most `eject_for_max`) and in the index of the failover loop.
- `InFlightExact`: `InFlightIsHeld`. The count is a cardinality, so the proof moves one request in
  or out of a finite set at a time. The invariant adds that a request which is not sending holds
  nothing (`HoldsNothingUnsent`): without it `Attempt` could overwrite a held guard.
- `AtMostOneTargetReached`: `ReachesOneTarget`. The invariant adds `ReachedIsFinal`: a request that
  can still try another target has reached none.
- `LastTargetSurvives5xx`: `LastTargetKept` within one generation. The invariant says that who is
  about to eject holds the lock and that another target was in rotation when it decided
  (`SpareTarget`); it survives because only the holder of the lock ejects for 5xx. Across
  generations the property is false (section 6, `pool.rs:947`).
- `VerdictsAreEarned`: `ChecksInTurn`. A streak is never longer than the run of checks that disagree
  with the verdict (`StreakEarned`), also when checks of two generations end in turn.
- `ReloadKeepsTargets`: `ReloadKeepsRotation`. From the build to the swap the two pools point to the
  same healths (`CarriedOver`), so nothing that falls between can set them apart.

`PolicyLayersProofs`, all from one inductive invariant `Inv`:

- `NoLayerLost` (`RuntimeIsLayers`): the mutex is held exactly by the task between its two stores
  (`Locked`), and meanwhile the runtime is ahead of the layers by that task's own layer (`Ahead`).
- `NoServiceWithoutPolicy` (`ServedUnderPolicy`): the flag is down, or was down when a request read
  it, only once a policy is in the layers (`Cleared`), and no step takes it out again. The argument
  is the order of the two reads in `handle` and of the two writes in `install`.
- `ReportIsTrue` (`ReportedIsServed`) from `Cursor`; `TenantsApart` (`OwnPolicy`) from `Provenance`;
  `NeverBackToFile` (`PolicyNotDropped`); `PolicyTypeCorrect` (`TypeOK`).

`PipelineProofs`, for bodies and answers of any length, from `PipeInv`:

- `PolicyFirst` (`SentUnderPolicy`). The invariant of the upload is `Swept(n)`: frames 0 to n are up,
  what lies within them was found and was not to be blocked, and nothing was found that neither they
  nor the window hold. A frame that completes a finding is one whose predecessor is carried, which is
  where the bound on a finding's length is used (`TailFacts`).
- `KeptBack` (`WithheldFromClient`). While a stream is redacted, what is found lies wholly in what is
  held back or wholly in what was redacted (`Back`); a frame can move it from the one to the other
  and not cut it.
- `AllAccounted` (`AccountedOnce`). `Booked` says for every place of the task what was reserved,
  counted and logged so far; every way out is one of `Reply`, `DropBody` and `Cancel`.

`BudgetProofs`, from `BudgetInv`, with sums over the requests of a window:

- `NothingUnderstated` (`NeverUnderstated`), `CapsHold` (`WithinBudget`), `DriftShows`
  (`DriftIsReported`). For each key the counter is at least the sum of what its requests hold and
  have spent, at most the limit and what estimates missed, and equal to the sum while nothing was
  disturbed (`SumInv`). The sums move one request at a time; that a settling script runs at most once
  per request and key, whatever replies are lost, is `KeyInv` with the markers.

`GateProofs`, the parts of the gate one by one:

- `ImplementsBucket` (`IsLeakyBucket`), from `LimiterInv`: the refinement, step by step. A stored
  arrival time stands for the credit it leaves, and what Redis forgets by expiry is worth nothing,
  since a key outlives its arrival time.
- `LimitsAreKept` (`RatesKept`): the refinement, the admissions since the start against the rate (an
  invariant that pays each admission out of the tolerance and the time passed), and that the instant
  told to a refused caller is the first at which it is admitted.
- `ServedAsTheirOwn` (`CertificateIsTheClients`) and `RevokedAreOut` (`RevokedStaysOut`), from
  `CertsInv`: a connection's certificate is its sender's, and a session that could be resumed has one
  only where resumption is off. The second is an action property; it needs the first to know whose
  certificate a resumed session brings. With no quote open the last piece of an XFCC is the last
  element alone, which is the balancer's; with one open nothing is claimed (section 6).
- `CredentialsAreChecked` (`CredentialsChecked`), from `AuthInv`. For a request in each wait the
  invariant says what it has behind it (`WaitingOk`): fetched keys were published not longer ago than
  the fetch has lasted, and who may select has a cache that is fresh, or holds its key, or failed to
  be refreshed. `KeptUntil` bounds the age of what the cache holds, through rotations that fall
  between a fetch and its answer.
- `ClientsAreKnown` (`AddressIsTheClients`), from `AddressInv`. `Travelled` says which entries at the
  end of `X-Forwarded-For` were written by which of the proxies that end the path; the walk over the
  trusted ones stops at the first that is not, which is then the client's. `Unread` keeps what was
  sent as what was read and what was not, so the outcome is that of one read of everything.

`ReportsProofs`, one invariant for each reporter; the reporters stop by the `Process` of
`LifecycleProofs`:

- `UsageIsBilled` (`UsageAccounted`): for every accumulator, what was added and what will be billed
  again is what was billed, is still here, is drained or was missed (`Balance`); which accumulators
  are drained follows from where the reporter is (`Drained`), and the last report has at least what
  had been added at the signal (`Due`).
- `RecordsAreShipped` (`ShippingKept`): a record is in one place (`Apart`), the counters and the
  lengths add up to the requests that are over (`Tallied`), and what counts as sent is stored and not
  being posted (`Confirmed`).
- `SinkIsBounded` (`SinkKept`): the table has room for each thread that is past the check of the hard
  cap (`Room`), and of any number of threads that find a prune due one replaces the timestamp, so the
  readings of the clock are an interval apart (`Spread`), which also bounds their number
  (`OneReadingMore`). The sums move one report at a time (`SinkSums`).
- `ShownAsItIs` (`ShownIsTrue`): a copy of the map has an earlier version or is the map (`Copies`), so
  a swap loses no series, and an object that is counted on is exported (`Objects`); the alerts posted
  are the entries into the alert zone so far (`AlertInv`).

`CertificatesProofs`, from `CertInv`:

- `PairSurvives` (`PairKept`): for every step of a publication, which of the files are of which
  certificate (`Files`), with crashes, failing renames and failing reads between any two steps; a
  self-signed certificate under ACME is one that was found.
- `OrdersAccounted` (`OrdersKept`): the ledger is never behind the CA's own limit but by the retry
  that is not debited or by a ledger that could not be read, and port, challenge and lease are held
  only by the steps that end with giving them back (`Orders`, `Leftovers`); a lease is left open only
  by a fault. `PinnedKeyKept` is `KeyKept`.

- `ClientsAreAsConfigured` (`ClientsAsConfigured`), from `OutInv`: clients are told apart by build and
  section (`Apart`), the ones of the build under way are of the latest read, and the claims are exactly
  those of the clients that exist and of the ones being built (`ClaimsOk`). Dropping a failed build or
  the last holder of a client then takes away exactly their claims (`ClaimsWithout`). What a section
  inherits is a computation for any configuration (`SettingsAre`).
- `TargetsAreAsConfigured` (`TargetsAsConfigured`), from `UpInv`: for every split of a body into frames
  what was read is the beginning of the body, what is left its end, and the text is not in it
  (`Reading`); a search that begins `Len(Expected) - 1` bytes before the new ones misses nothing
  (`TailSearch`). Which entries connections use is computed for any targets (`LintIs`).
  `ConnectionsAreAsConfigured` puts the two together as `ConnectsAsConfigured`.

`LifecycleProofs`, from `LifeInv`:

- `ListenerAccounts` (`ConnectionsAccounted`): slots are the cardinality of the connections that hold
  one; the drain registers before it looks (`DrainInv`).
- `ShutdownOrdered` (`ShutdownInOrder`): who may have been told of the shutdown, and when
  (`OrderInv`), and the two grace periods against each other (`AppInv`).
- `ImplementsProcess` (`IsProcess`): `Lifecycle` implements `Process`, on which the reporters of
  section 2 are built.

- `StartsAreForetold` (`StartIsForetold`), from `StartInv` of `Startup`: what each phase of a start has
  behind it (`Passed`), that a refusal is for a check that fails (`Refused`), and that what `doctor`
  printed it printed of these settings (`Informed`). That each check of the start has its lint, or is
  in `Unforetold`, is one lemma per check. A second start begins on what the first one left.

`PipelineProofs` also has `BrowsersAreTold` (`AnswersKept`), from `AnswersInv` of `Answers`: every
answer that the cache keeps is one that the policy gives to the origin it was asked from
(`CacheWell`), and names that origin only with `Vary: Origin` (`Varies`); hardening a cookie
keeps the upstream's parts as a prefix and adds an attribute at most once (`HardenedIs`), and a cookie
that is not text is sent on as it is (`SentOn`).

The type invariants of the pool and the policy layers, `PolicyNotDropped`, `KeyKept`,
`IsLeakyBucket` and `RevokedStaysOut` have theorems of their own and no entry in a run: they are
parts of a property there, or the proof alone covers them.

What the proofs changed. Two of them found the model wrong. `Finish` of `Budget` had overlapping
guards, under which a request whose answer was settling could end as one that was denied;
`Certificates` kept the mark of a publication that was cut short after a later one had completed, so
that `PairConsistent` claimed nothing from then on. Both are corrected, and every property holds as
before. `CookiesHardened` was stated again for cookies of any length, and is stronger: the upstream's
own parts stay where they were.

Only model-checked, and why:

- Every liveness property, since fairness and `ENABLED` are outside the prover: `RequestsResolve`,
  `ChecksRecover`, `LayersFollowed`, `RenewalsReach`, `ReportersGoOn`, `WaitsEnd`, `GateGoesOn`,
  `RotationReaches` of `TurnsKept`. The safety parts of the mixed ones (`KeyKept`, `RevokedStaysOut`) are proved.
- `MaskingKept` and `MeteringKept` of `TextsKept`: merging findings, unmasking a stream and cutting a line are recursive functions on
  texts; what they compute for every input needs induction over data.
- `IgnoredKeysTold` of `TextsKept`: the edit distance and the search by reading the document again are recursive.
- `TargetsInOrder` of `TurnsKept`: the weighted turn is recursive, and the order of a list is made of selections
  (`SelectSeq`) of any length.
- `ScreenedIsSent` of `TextsKept`: decoded paths and filtered header lists, for the same reason.

Where a proof above needed an induction (a sum over a finite set, the rounding of a rate, a walk over
a list) it is by a least counterexample in the natural numbers, with a lemma of its own for each
statement.

## 6. Findings

| Run | What it shows |
|---|---|
| `least_conn_panic` | `least_loaded` counts the tied targets in a second pass; a count that changed in between leaves none, and the turn is taken modulo zero. The comment expects "the lightest found". |

Also seen while modelling, and part of the models' behaviour without a run of their own. The first
four contradict a comment or document of the repository, as the listed lines say:

- `carry_health_from` resets a verdict when the new pool has no checks, but a check still running
  ends later and fails the shared health, which nothing undoes (`pool.rs:1124`; the comment at 1123
  expects that nothing is kept).
- A request on the replaced runtime decides its ejection by the old pool's targets, under the old
  pool's lock, and can eject the last target of the current pool (`pool.rs:947`; `README.md:1340`
  says that it is never the last).
- When the reply of the reserving script is lost, the unacknowledged hold is neither retried nor
  rolled back nor counted (`budget.rs:657`; 620 says that a partial reservation never leaks).
- `commit` takes the reservation before it awaits the store, and a request dropped there releases
  nothing (`proxy.rs:3116`; 3104 says that a failed request never consumes budget for good).
- Records that arrive after the shipper's last look at its queue at shutdown are in no counter
  (`logship.rs:267`).
- `Gcra::remaining` can be one too high (`limiter.rs:113`), and `RemainingWithinOne` says no more.
- The usage accumulators are drained one by one, so a report can have more `blocked` than
  `requests` (`metrics.rs:257` calls it a subset). The last report is made at the signal and not
  after the drain (`cp.rs:595`).
- A reload starts the alert latches again (`lib.rs:266`), and budgets per key share one latch by
  name (`proxy.rs:1346`), so that "exactly one alert per crossing" (`alert.rs:7`) holds for a
  runtime and a name.
- The quota's two fields are two relaxed stores (`cp.rs:160`): a refusal may carry the reset time of
  the verdict before.
- An order refused because of the certificate it says it replaces is sent again without a debit
  (`acme.rs:382`), which `RefusalExplained` allows for.
- A pair that a first start finds is kept whoever issued it (`main.rs:805`): an edge that ran
  self-signed and is then given `[tls.acme]` serves the self-signed pair until it is due for renewal.
  `NeverDowngraded` says that no start or renewal makes such a pair with ACME on.
- A ledger that cannot be read or parsed counts as empty and is written over (`acme_budget.rs:215`),
  so orders before it are forgotten; the CA can then refuse one (`RefusalExplained` has the case).
- The report of a lease's outcome is best-effort (`cp.rs:425`), and the answer to a lease request can
  be lost after the lease was granted: the control plane closes such a lease when it expires.
- A renewal that is to keep the key makes a new one when the old one cannot be read or parsed
  (`selfsigned.rs:246`), and clients that pinned the old one must learn the new one, as the code's
  warning says.
- A CSP report is counted as received and then, on an edge that is not managed or does not forward
  (`proxy.rs:2377`), counted nowhere else. Two prunes' scans of the table can run closer together
  than the interval, since a thread may stall between replacing the timestamp and its scan: the limit
  of `csp_sink.rs:53` is one on the timestamps.
- `xfcc` takes the last element for the one that the trusted peer added (`client_cert_header.rs:382`).
  That needs a peer that replaces the value, or appends to one whose quotes are closed: after a quote
  left open, the comma before the peer's element separates nothing. `CertIsTheClients` and
  `AppSeesTheClient` are conditional on it.
- A `Set-Cookie` value that is not visible ASCII goes on as the upstream sent it, without the
  attributes of `secure_cookies` (`proxy.rs:3814`).
- The supervisor's backoff is never reset, and what the app starts outside its process group is out
  of its reach (`supervisor.rs:45`, 143).
- `doctor` and the start disagree in a few places, although `main.rs:331` says that they cannot
  drift: the refusals in `Unforetold`; a `redirect_status` of 304, which `doctor` accepts and
  `tls.rs:292` refuses; "will refuse to start" said of `[tls.acme]` while TLS is off; an empty
  secret in the environment, which `doctor` takes for the source and the loader does not.
- A pushed policy takes its sections whole, so secrets of those sections that came from the
  environment are gone (`with_policy_from`).
- A placeholder that a provider leaves open and begins again inside is held back or passed as it is
  (`dlp.rs:670`), and a cut usage line can leave totals that `finish` prefers (`llm.rs:516`).
- An answer to a request without an allowed `Origin` carries no `Vary: Origin`.
- An upgrade's request is sent without the edge's trace context (`proxy.rs:2721`).
- In a flattening section the suggestion for an unknown key need not be the nearest
  (`unknown_keys.rs:35`).

- `connect_failed` does not look whether the target is already out: requests that were connecting
  when it was ejected eject it again, which lengthens the stay (`pool.rs:1513`, `EjectConnect`).
- With the in-memory store, each reload or pushed policy starts the window's count again
  (`budget.rs:596`; `Reload` with `Shared = FALSE`, which the run `budgets` does not have).
- The answer to a declined handshake is passed on without DLP and its bytes are not counted in the
  usage (`proxy.rs:2863`, `Declined`).
- A config file edited after it was read at the start and before the watch is registered is not
  applied until the next edit (`main.rs:650`; the history variable `missed`).
- A file that does not build with the policy of the moment is dropped, and is not tried again when
  a policy comes that it would build with (`reload.rs:84`).

## 7. What is not modelled

- Cryptography and parsers that belong to libraries: X.509 and chains, JWT signatures, TLS, TOML and
  serde, JSON, regular expressions, the detectors of `dlp.rs`. Models take any outcome of them.
- Text: the exposition of metrics, OTLP encoding, log lines, error pages, the files that
  `generate.rs` and `scaffold.rs` write, redaction of URLs in messages (`redact.rs`), the wording of
  `doctor`'s advice. Its lints that only advise are left out too, but for those about TLS, client
  certificates, secrets and upstream TLS.
- The default values of `config.rs` and settings that are passed straight to a library.
- The signature of the sticky cookie, the status page and the admin routes of `proxy.rs`.
- Provider APIs of `acme_dns.rs`: pure I/O.
- A start that fails after the supervisor was spawned (`main.rs:495`; the binds at 998 and 1024) ends
  the process, and with it the app, without a grace: `ShutdownInOrder` is about shutdowns only.
- That a record whose post was confirmed is never posted again: `SentIsStored` says that what counts as
  sent is stored, and the batch is given up at that step, but no property follows a record after it.
- The edge worker and the named-entity recogniser: no state, other runtimes.

`PROJECT.json` gives each component's status. Where it says "partly", what is left is of the kinds
above; no state that two actors share is left out knowingly.

## 8. Plan

Done: the pool, budgets, policy layers and the pipeline; certificates; reporters; serving, supervisor
and shutdown; client identity and the limiter; the decisions of a request and of a start. Proofs about
every module with shared state, and of the safety properties of the runs all but `TextsKept` and
`TargetsInOrder` (section 5).

Proofs to add, if the prover learns induction over data: `StreamedAsWhole` and `MaskIsUndone` of
`Masking`, and `WeightedShare` of `Balancing`.

Models to refine, if the code grows there: HTTP/2 streams and upgrades in `Connections`, the
estimate of a request's tokens in `Metering`, `doctor`'s remaining lints in `Startup`.
