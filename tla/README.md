# A TLA+ model of unio-api

unio-api is a gateway between customers and upstream LLM providers. A customer
calls an OpenAI- or Anthropic-shaped API with an API key; the gateway freezes an
estimate of the price, picks a channel, calls the provider, and settles what the
response really cost. Everything that decides who pays lives in PostgreSQL;
everything that decides which channel may be called lives in Redis. This
directory models the parts of that machinery whose errors are expensive and
hardly testable: concurrent transactions, crashes between two of them, lost
answers, workers with leases, sweepers that race live requests.

## 1. Inventory

| Component | State | Operations | Talks to | What makes it correct |
|---|---|---|---|---|
| Customer ledger (`core/ledger`, `sql/queries/shared`) | balance and reserved balance per (user, currency); reservations; append-only entries; billing exceptions | credit, debit, pre-authorize, capture, release, release with billing exception | called by authorization, settlement, recovery, sweepers, admin adjustments | no more is frozen than there is; every balance is explained by its entries; a hold is paid or returned once; a charge is split without loss |
| Settlement (`lifecycle/settlement.go`) | request, attempt, usage, price and cost snapshot rows | settle, replay, finalize dead / orphan / stranded | ledger, request log, recovery job | all rows of a settlement move together; a replay recognises its own settlement and nothing else |
| Settlement recovery (`lifecycle/settlement_recovery.go`, `workers/settlement_recovery_worker.go`) | one job per request: status, attempt count, lease | create, claim, replay, retry, dead, exhausted, succeeded | settlement | a recorded settlement ends; a stale worker changes nothing |
| Sweepers (`workers/orphan_*`, `workers/stranded_*`) | none of their own: scans of reservations | list, prove dead by permit, finalize | ledger, permits, request rows | never cross a live settlement; return what nobody owns |
| Attempt runner (`lifecycle/attempt_runner*.go`) | the goroutine's locals: candidate, facts, what was emitted | authorize, candidate loop, upstream call, emit, settle, release, close | all of the above, permits, sticky sessions, capacity wait | at most one billable attempt; every exit releases or settles |
| Request log (`core/requestlog`) | request, attempt and delivery status | create, mark succeeded / failed / canceled, delivery marks | attempt runner, settlement | terminal rows are final |
| Attempt permits and breaker store (`platform/breakerstore`, Lua) | permits, breaker state per provider / endpoint / channel, cooldown, concurrency slots, half-open probes | gate and acquire, renew, mark usage, finish, abort | attempt runner, orphan sweeper | slots and probes never leak and never exceed their limit; a late finish changes nothing |
| Runtime control (`core/runtimecontrol`) | operations in PostgreSQL, pending and active controls and an epoch in Redis | publish: prepare, commit business, commit control, abort; reconcile; epoch seed and transition | breaker store, admin services | Redis never activates what PostgreSQL did not commit; what it committed is activated in the end |
| Request admission (`gateway/requestadmission`) | request leases per route and user in Redis | acquire, renew in the background, bind attempt, finalize | breaker store | never above the limit; a finalized lease is not renewed back to life |
| Sticky sessions (`platform/stickysession`, `lifecycle/sticky.go`) | session to channel binding with a version | lookup, bind if absent, refresh and clear if current | attempt runner | a stale request never undoes a newer binding |
| Permission recheck (`workers/permission_recheck_worker.go`) | per-channel 403 recheck state | claim, probe, complete | breaker store | one claim at a time; a stale probe does not close the circuit |
| Capacity wait (`lifecycle/capacity_wait.go`) | one wait per request | wait, rescan | permits | waits at most once, only for a full pool |
| Credential gate (`lifecycle/credential_gate.go`) | consecutive 401s per channel | record, invalidate | channel rows | invalidates the credential that failed, not its replacement |
| TPM observer (`gateway/tpmobserver`) | minute buckets of tokens | observe, correct | routing | a correction lands in the minute of its observation |
| Provider ledger (`core/providerledger`) | provider balance, cost entries | record request cost, adjust | settlement | one cost entry per request |
| Billing, routing, usage, token estimation | none (pure) | formulas, candidate filters, mapping | attempt runner, settlement | agree with a reference definition |
| Admin login limiter, admin sessions, API keys, app settings, catalog sync, admin services | small records | CRUD, failure windows, versioned settings | HTTP APIs | mostly data; see the component list of `PROJECT.json` |
| Adapters, protocol services, HTTP APIs, bootstrap, config, observability, generated store | none or wiring | codecs, rendering, wiring | everything | not modelled |

Hard behaviours, in the order they matter: (1) the money path under crashes and
lost answers; (2) the race of gateway, recovery workers and sweepers for one
reservation; (3) permits, half-open probes and concurrency slots in Redis when
holders disappear; (4) the two-phase runtime control across two stores;
(5) leases that are renewed in the background while their owner finishes. The
list with file and line is `hazards` in `PROJECT.json`.

## 2. Modules

| Module | What it models |
|---|---|
| `Amounts` | least, greatest and the total of a function |
| `CustomerLedger` | `core/ledger`: accounts, reservations, entries, billing exceptions |
| `RequestSettlement` | one request from authorization to its last row: gateway, delivery audit, recovery workers, both sweepers |
| `Breaker` | one breaker record: closed, open, half-open, what its window counts (pure operators) |
| `AttemptPermit` | the permit scripts over a Provider's breaker, its channels' breakers and slots, and the permits' owners |
| `AttemptRunner` (with `StickySession`) | the candidate loop of a sticky session's requests: permits, fail-over, capacity wait, bindings |
| `RequestAdmission` | the three admission scripts and the session with its background renewer |
| `ProviderControl`, `RuntimeControl` | publishing, reconciling and restoring routing fences, and settings with capacities |
| `StateEpoch`, `FaultLatch` | how gateways agree on one Redis epoch at start-up, and how they shut and reopen after a Redis fault |
| `SettingsCache`, `DebugLogging` | a setting's row, mirror and local copies; the timed DEBUG session |
| `PermissionRecheck`, `CredentialGate` | pauses after a 403 and their rechecks; streaks of 401s and the credential's standing |
| `ModelVerification`, `ModelDiscovery` | inventory runs of one channel, their workers, and the bindings enabled on their evidence |
| `TpmObserver` | observed tokens on their way to minute buckets, and the correction to the reported usage |
| `PriceFormulas`, `Pricing` | the price formulas, and one request's price from routing to settlement under edited price lists |
| `ProviderLedger` | entries, probes, adjustments and cost risks of one Provider balance, statement by statement |
| `LeasePool`, `FollowedRevision` | two abstract specifications: leased limits, and a revision that a second store follows |
| `...Proofs` | theorems (section 4) |
| `MC...` | instances for TLC (section 3) |

`AttemptPermit` implements `LeasePool` (each channel's slots) and so does
`RequestAdmission` (the slots of a route and user); `ProviderControl` and
`RuntimeControl` implement `FollowedRevision`. `AttemptRunner` EXTENDS
`StickySession`, whose scripts its requests call. What a permit, a hold or an
epoch is to the other components is modelled there as they see it: the sweepers
of `RequestSettlement` see whether a permit is active, the runner whether a
candidate is admitted, the admission which epoch the marker holds.

### CustomerLedger

`balance` and `reserved` are the two columns of `user_balances`; `rsv`,
`entries` and `exceptions` are the rows of the other tables, keyed by what makes
them unique (request, idempotency key, reservation); `call` holds the
transactions that have looked up their idempotency key and have not yet taken
the row lock. Credit, debit and pre-authorize do that lookup without a lock, so
each is two actions (`...Lookup`, `...Apply` / `...Reserve`) with any other
transaction between; capture and release lock first and are one action. A
transaction that fails rolls back: a stuttering step, or `Rollback` where it had
a first half. Decimal amounts are exact in the code (`big.Rat`, `NUMERIC`), so
integers of the smallest unit lose nothing.

Manual adjustments take a free-text idempotency key from an operator. The
instance contains a key equal to that of a settlement (`chat:settle:<id>`): the
two then meet in the unique index, and the model keeps what the code does (the
second one fails as a whole).

### RequestSettlement

One request is enough: requests share no rows but the balance, which
`CustomerLedger` covers, and every lock here is on the request's own rows.

- **Gateway** (`pc`, `cur`, `facts`, `risk`, `closing`, `sent`): authorize, try
  candidates, stream, record the job, settle inline, mark the job, deliver; or
  release and write the terminal status. It may crash before every step; a panic
  of the serving goroutine is the same crash with the audit goroutine surviving.
- **Audit** (`audit`): the asynchronous `MarkDeliveryStarted` may land any time,
  or never.
- **Recovery workers** (`wk`, `job`): claim with `attempt_count` + 1 and a lease;
  replay; mark succeeded (no lease needed), retry or dead (lease owner and count
  compared); mark exhausted; finalize dead jobs. Restart anywhere.
- **Sweepers** (`orphan`, `stranded`): scan, proof (permits read from Redis), and
  finalizing transaction are separate steps.
- **Lost answers**: a transaction commits and the caller sees an error. Written
  into each action as a second outcome (`Authorize`, `CreateJob`, `InlineSettle`,
  `Release`, `Close`, `Replay`).
- **Time**: `Age` (the hold is older than the sweepers' threshold), `LeaseExpires`
  and `PermitExpires` may happen as soon as they can. A permit may expire under a
  live gateway, as it does when Redis is unreachable for longer than its TTL.

Left out: prices and usage (only whether the charge is zero), the provider
ledger entry in the settlement transaction, metrics, traces and logs, and the
breaker outcome a permit is finished with.

### AttemptPermit

`origin`, `channel`, `control`, `bound`, `slots`, `permit`, `cooldown`,
`evidence` and `rpd` are the Redis keys of one Provider; `owner` and `tries` are
the gateway goroutines and their terminal calls. One script is one action:
`gate_and_acquire.lua` (`Acquire`), `renew.lua`, `finish.lua`, `abort.lua`,
`set_cooldown.lua`, the resets and the fence scripts. A terminal call may run
and lose its answer, be repeated, or never arrive; a gateway may die at any
point; a lease ends by `Tick`; the Redis state may be lost, after which the
epoch advances. Generations, fences and revisions say for which breaker window
a permit was granted; `WindowCountsItsOwn` says what that is good for.

### ProviderControl and RuntimeControl

A publication is: insert the operation row, prepare in Redis, record it, commit
the business change and the operation in one transaction, commit in Redis, close
the row. Each is an action, each may fail or lose its answer (`MaxFaults`), and
the publisher may die between any two. A reconciler's pass lists open
operations, reads one row and acts on what it read, however old; a start-up
restores or overwrites controls. `mark` is what Redis remembers of an operation.
The two modules differ as the code does: `ProviderControl` fences an address or
status by pinning a pending operation, `RuntimeControl` replaces a payload and
keeps tombstones that expire. Three revisions of settings, route and channel
capacities share one protocol and are one `row` there.

### The other components

The comment at the head of each module says what its variables stand for, which
calls are atomic (a script, a statement, a locked section) and where another
actor may come between. Common to all: a remote call is a request and an answer
that may be lost; a write whose caller gave up may still run later
(`StickySession`, `RequestAdmission`); background workers poll, and their claims
are leases.

## 3. Runs

| Run | Instance | Distinct states | Question |
|---|---|---|---|
| `ledger` | 2 accounts, 2 requests, 2 callers, amounts {1, 3}, 2 manual keys of which one collides | 309,879 | Do concurrent credits, debits, holds, captures and releases keep balances explained and holds funded? |
| `settlement` | 2 attempts, 1 worker, 2 tries per job | 978,334 | Is a settlement all or nothing, do sweeps stay away from it, is cost accounted for, are terminal rows final? |
| `settlement_leases` | 1 attempt, 2 workers, 3 tries | 893,834 | Can a worker whose lease ran out bury, reset or falsely close a job? Can a request be charged and written off? |
| `settlement_liveness` | 1 attempt, 1 worker, 2 tries | 163,544 | Does a recorded settlement end, and is an abandoned or left-behind hold returned? |
| `control` | 2 publishers, start-ups, operators or workers and 1 reconciler of each component | 750,413 | Is Redis never ahead of PostgreSQL, and does late or overtaken work never win? |
| `permits` | 2 permits, 1 channel of limit 1, terms of 1 tick | 645,247 | Do slots and probes live exactly as long as their leases, and is an outcome counted once, in its own window? |
| `gateway` | 2 requests, channels or probes of each component | 857,231 | Do permits follow calls, bindings survive late writes, limits hold and tokens add up? |
| `money` | 7 price rows, 1 request; 3 transactions on one Provider balance | 619,878 | Is the bill of the routed price, is the margin kept, does the ledger explain the balance? |
| `progress` | 1 actor of each component, 1 fault | 89,228 | Does what must end, end? |
| `stranded_cost`, `orphan_window`, `recovery_complement` | 1 attempt, 1 worker, 1 try | stops at the trace | Three statements of comments that the code does not keep (section 6). |

**Runs of several components.** `control`, `gateway`, `money` and `progress`
check several components in one run. Those components share no variables and
call none of each other's operations, so a behaviour of all of them is an
interleaving of behaviours of each, and a property of one of them holds of all
interleavings exactly when it holds of each alone. The variable `subject`
therefore chooses one component, whose variables move while the others rest, and
the state space is the sum of the components' instead of their product. A
property of such a run is a conjunction of named properties of the components,
each under `Of(subject, ...)`; the names are those of the component's module, and
`hazards` and the mutants of `PROJECT.json` give the conjunct that is meant.

**Why the bounds suffice.** *Ledger*: the guards compare two amounts of one
account; two amounts, one of them larger than what one credit leaves after a
hold, give every outcome of each comparison (covered, overage collected, partly
collected, nothing left). Every key is written at most once, which bounds the
behaviours without a counter; that is also why the ledger and a request really
stop, and why configurations say `CHECK_DEADLOCK FALSE`. *Settlement*: two
attempts give a failed attempt before the billable one (and a running one that a
lost audit write left behind); a third repeats the second. Two workers give the
takeover of a lease, and three tries let each of them claim and one claim again.
*Permits*: two permits are enough for one that holds the last slot or the probe
and one that wants it or comes late. A breaker opens only after several
failures, so `InitAfterFailures` also begins with a breaker that earlier attempts
opened; the constraint `OneDisturbance` admits one fence, reset, loss of state,
rotation, switch or repeated call at a time, because two of them together exceed
the time TLC has. The proofs of section 4 need neither. *Control*: a revision
can be overtaken by one other, so two operations and one reconciler give each
order of "read, overtaken, written"; two losses or faults give a fault in the
recovery from a fault. *Gateway*: two requests of one session, three binding
versions (first, overtaking, late). *Money*: rows that differ in tiers, absent
components and ratios that do not divide; three transactions give a waiter behind
a waiter. `MaxRev`, `MaxEdits`, `MaxToggles`, `MaxRuns`, `MaxTurns`, `MaxGen`,
`MaxTime`, `MaxClock`, `MaxFences`, `MaxConfig`, `MaxResets`, `MaxLosses`,
`MaxFaults`, `MaxProbes`, `MaxWrites` and `MaxInFlight` bound counters or
disturbances the code does not bound; they appear in guards only.

Some of them are tight, and are split over two instances of a module: `bindings`
lets bindings be edited and deleted during a run (`MaxWrites` 2) but keeps one
revision of the upstream's configuration (`MaxRev` 1), `verification` has a second
revision and a second model and no edits (`MaxWrites` 0). In `gateway`, every
channel's breaker stays closed, without cooldown or pause (`MaxTurns` 0); in
`progress` a channel's health changes once, with one request on one channel. The theorems of section 4 about
these modules hold for every value of the bounds, so of both disturbances together.

**Symmetry.** Callers, reservation keys, accounts, attempts, workers, permits,
and the two tokens `t1`, `t2` of the larger runs are interchangeable; requests and
manual keys of the ledger are not, because one manual key is tied to one request.
Liveness is checked without symmetry.

**Fairness.** Each liveness property assumes the `Fairness` of its component.

- `RequestSettlement`: recovery workers and sweepers run on tickers in a loop
  that retries after an error (`app/workers/runner.go`), so each has weak
  fairness. A sweeper's proof and finalizing transaction have strong fairness:
  they can be skipped by an error in one round and are tried again in each. The
  clock is weakly fair; permits expire only once their gateway is gone. Nothing
  is assumed of the gateway, of the audit or of replays.
- `AttemptPermit`, `RequestAdmission`: time passes, and whoever holds a permit or
  a session ends it, because transport timeouts bound every call and the ending
  calls have their own deadlines. That the ending call reaches Redis is not assumed.
- `ProviderControl`, `RuntimeControl`: a publisher that has not died goes on, and
  the reconciler's ticker never stops. A tombstone's expiry has strong fairness:
  it is set again by each pass and expires once passes leave it alone.
- `StateEpoch`, `FaultLatch`: a gateway whose start-up failed starts again; passes
  recur. `PermissionRecheck`, `ModelVerification`, `ModelDiscovery`: workers poll
  for ever and probes end by their timeouts; no new requests are promised.
- `CredentialGate`: requests keep coming, and the answer of an attempt is strongly
  fair (an attempt may end by an error each time, but not always).
- `TpmObserver`, `SettingsCache`, `DebugLogging`: the observer's ticker, the
  polling of settings and timers that are due.
- `ProviderLedger`: PostgreSQL runs what it is sent, and its lock queues starve
  nobody, hence strong fairness of the two lock statements.

`MaxFaults` makes calls fail finitely often: liveness says what happens once
faults stop, not that they do.

## 4. Proofs

Each `...Proofs` module states an inductive invariant `IInv`, proves
`Init => IInv` and `IInv /\ [Next]_vars => IInv'` with one step per action, and
draws the properties from it. TLC checked the parts of each `IInv` on small
instances first. The theorems hold for all values of the constants that satisfy
the module's named assumption: identifiers and their null values differ, bounds
and limits are naturals, sets that are counted are finite.

### CustomerLedgerProofs

| Theorem | Statement |
|---|---|
| `TypeCorrect` | `Spec => []TypeOK`; balances and reserved amounts never go below zero |
| `ReservedCorrect` | reserved is the sum of the authorized holds |
| `FundingCorrect` | reserved never exceeds the balance |
| `AlwaysSettleable` | every authorized hold can be captured or released: the `WHERE` guards of the balance update hold |
| `BalanceCorrect` | every balance is its credits minus its debits |
| `FactsStayFinal` | entries, exceptions and closed reservations never change |
| `PaymentCorrect` | a request has its settlement entry, of the captured amount, exactly when its hold is captured; its only other entry is the overage, and both are debits of the hold's account |
| `SplitCorrect` | captured, overage and write-off add up to the charge |

The argument has three layers. `TypeInv` is the type invariant with `RowShape`
(a missing row has its default columns, a reservation's account is an account),
without which a release could name no account. `HoldsInv` adds `ReservedIsHeld`
and `HoldsAreFunded`; neither is inductive alone, because a capture subtracts the
hold from `reserved` (which needs reserved to be at least the hold, hence the sum)
and the captured amount from `balance` (which needs the funding). The last layer
relates reservations to entries, in both directions (`SettledInv`): a captured
reservation has its settlement entry, and an entry of a request lies under one of
the request's own two keys and belongs to a captured reservation. Hence a capture
finds no entry of its request, and an entry that an operator wrote under one of its
keys makes it roll back; without that direction, the overage read from the key would
not be known to be this capture's. Sums are handled by the lemmas on `Total` at the module's head: changing a
function at one point changes its total by the difference; `Total` counts one
element per unit of money, so this is cardinality reasoning without recursion.

### RequestSettlementProofs

| Theorem | Statement |
|---|---|
| `InvariantHolds`, `TypeCorrect` | `Spec => []IInv`, `Spec => []TypeOK` |
| `SettlementIsWholeTheorem` | attempt, usage, hold and request of a settlement move together |
| `SucceededJobTheorem` | a succeeded job has a committed settlement |
| `NeverExposedAndChargedTheorem` | no request is written off and charged |
| `SweptHoldTheorem`, `SweptRequestTheorem` | a swept hold has no job, a swept request no running attempt |
| `CostIsAccountedTheorem` | a hold that goes back after upstream cost was settled for free or left an exposure, unless the stranded sweeper returned it (section 6) |
| `TerminalRowsTheorem` | `[][KeepsTerminalRows]_vars` |
| `LeaseTheorem` | `[][RespectsLease]_vars` |

None of these is inductive. `IInv` is `TypeOK`, `SettlementIsWhole` and four
parts that say what the actors know. `Stage`: what the gateway goroutine has done
when it stands at a program point (it settles only with a job that carries its
facts, and it has cost only behind the upstream call). `JobShape`: a job has
facts from its insertion, workers act on a job that exists, and who is about to
close it as succeeded has seen the settlement. `SweepShape`: a sweeper acts on a
request that is closed, or closes it, without a job, and the orphan sweeper with
no running attempt; this is preserved because inserting a job or an attempt
rechecks the status of the locked request row. `ReleaseShape`: why a hold is
back. `SweptRequestTheorem` needs the recheck in `AttemptInsertable`,
`NeverExposedAndChargedTheorem` that a settlement needs the hold still authorized.

### ControlProofs

| Theorem | Statement |
|---|---|
| `NeverAheadTheorem` | Redis serves no address or status that PostgreSQL has not committed |
| `CommittedIsDurableTheorem` | what Redis records as committed has a committed row |
| `FollowsDatabaseTheorem` | for each kind of control, publishers and reconcilers implement `FollowedRevision` |

Of the Provider's control. All assume `ControlAssumption`, which the instances of `control` and `progress`
check. `NeverAheadOfDatabase` needs to know what everybody is about to write:
`DurableOperations` (a committed operation leads to a revision PostgreSQL has
reached), `Committers` (who is about to commit in Redis works on a committed
row), `ReadersAreBehind` (what a pass has read is not ahead, however old: the row
only moves forward) and `PendingIsPinned` (a pending fence still has the revision
it starts from, so a commit moves the control by exactly one). The refinement
maps `durable` to the row's revision, `active` to the control's and `present` to
its existence. It has the hypothesis `StartUps = {}`: the overwrite of a start-up
may take a control back to what it read before a newer publication, which
`FollowedRevision` does not allow to a control that is present. The code relies
on the next pass there; `progress` checks that such a start-up settles
(`StartUpSettles`). Safety (`NeverAheadTheorem`) is proved with start-ups.

The other components of `control` are proved here as instances on variables of
their own. Each rests on its component's named assumption (`LatchAssumption`,
`EpochAssumption`, `CacheAssumption`, `DebugAssumption`,
`RuntimeControlAssumption`), which the instances TLC checks satisfy:

| Theorem | Statement |
|---|---|
| `ProvedIsSoundTheorem` (`FaultLatch`) | Redis says "proved" of an instance only while it holds the marker and every control |
| `FaultOutlivesOlderPassTheorem` | a gateway that found a fault stays shut until a pass that began later succeeded |
| `OneEpochTheorem` (`StateEpoch`) | a marker of ours speaks for the row, a ready row has its marker while nothing is lost, a start-up that reports ready has a durable row |
| `ForeignMarkerIsKeptTheorem` | a marker of another database is not overwritten before the row is ready |
| `MirrorsUnlessOverlappedTheorem` (`SettingsCache`) | at rest, without failures and overlaps, the mirror is the row |
| `ActiveWasStartedTheorem`, `NeverGoesBackTheorem`, `OneSessionTheorem` (`DebugLogging`) | a gateway logs DEBUG for a session that was started, never returns to an older setting, and a new session begins only where none was running |
| `RuntimeNeverAheadTheorem` (`RuntimeControl`) | what Redis enforces was committed, revision and payload |
| `CommittedIsActiveTheorem` | without losses and start-ups, committed means active in Redis |
| `RuntimeFollowsTheorem` | without start-ups, the control implements `FollowedRevision`, tombstones included |

What makes them inductive: of the latch, that a pass in progress carries a
generation not younger than the fault's (`PassesAreOlder`) and a proof is of an
instance somebody has seen (`ProofIsOfAnInstanceSeen`); of the epoch, what a
start-up may conclude from what it read (`StartUpKnows`) and that the row and
its operation move together; of the settings, that a writer between its commit
and the mirror holds the row (`WritersHoldTheRow`); of the DEBUG session, that
every copy anywhere is one the row once was (`CopiesOnly`); of the runtime
control, that whatever revision a publisher, a reconciler or the control carries
was decided: committed by the operation it names, with that payload
(`OperationsAreDecided`, `PassesAreDecided`, `ControlIsDecided`).

### AttemptPermitProofs

| Theorem | Statement |
|---|---|
| `PermitsAreLeasedTheorem` | slots within the limit, a slot for exactly as long as its permit's lease, a live probe's holder has a live lease |
| `OutcomesCountOnceTheorem` | an attempt is counted once, and a closed breaker's window counts only attempts admitted in its own generation, binding and epoch |
| `LeasePoolsTheorem` | the slots of every channel implement `LeasePool` |

`IInv` adds three facts to the properties. `OwnersHaveCalls`: an unused id has no
permit, so `Acquire` never finds one. `TermsAreOld`: what was admitted carries the
present epoch and no later generation than its breakers have; generations only
grow, so an outcome refused once for a moved generation is refused for good.
`FencesAreOld`: an active permit carries no later fence than the control, and
never that of a change under way. `SlotLivesWithItsLease` and
`WindowCountsItsOwn` need them because finish and abort repeat and a rotation
resets a channel's breaker under live permits. The movements all scripts share
(a generation grows by at most one, and while it stays so do the state and
whoever else holds the probe) are stated once, in `Movement`, and the loss of
Redis is the one step apart. `LeasePoolsTheorem` has the hypothesis
`ChannelLimit > 0`: the code's 0 means no limit, and then there is no pool.

### GatewayProofs

| Theorem | Statement |
|---|---|
| `PermitsAreCallsTheorem` | a slot of a channel is held by exactly the calls in flight there |
| `BindingsAreCurrentTheorem` | rebinding only through the unbound state; only who found or made a binding takes it away; only a success on its channel extends it; a cleared binding stays gone |

Of the attempt runner: `IInv` is `TypeOK` with `InHand` and `Beliefs`. `InHand`: a request that calls,
judges or replays has a candidate and has called it as often as the transparent
fallback allows; without it the plan could run empty under a call. `Beliefs` is
what makes comparing versions as good as comparing bindings: no two bindings
that Redis holds or a request remembers share a version (`VersionsName`), a bind
that has not run yet brings a version of its own (`LateBindsAreNew`), a request
believes in nothing, in what it found or in what it made (`OwnBeliefs`), and a
write that was left behind hits only a binding its request found or made
(`LateWritesAreTheirs`) and, if it extends or makes one, belongs to a request
that was served by that channel (`WritersWentOn`). Whatever a step of the loop
does to the session is one lookup, one write or nothing (`StickyStep`), so all
the places of the loop that write share one case of the preservation proof.
The hypotheses are `StickyAssumption`, `RunnerAssumption`, finitely many requests
and channels, and an unlimited supply of versions: the code draws a random number
below 2^52, and a collision with a remembered version is not modelled.

What a channel may be used for is proved behind it, again as instances, from
`GateAssumption`, `RecheckAssumption`, `VerificationAssumption` and
`DiscoveryAssumption`; then, from `ObserverAssumption`, what the observer of
tokens counts:

| Theorem | Statement |
|---|---|
| `StandingIsOfTheCredentialTheorem` (`CredentialGate`) | standing and last test speak of the credential the channel has now |
| `OnlyAStreakInvalidatesTheorem` | an invalidation is asked for only behind an unbroken streak of 401s of one revision |
| `OnlyLaterEvidenceRestoresTheorem` | only a probe begun after the channel was taken out brings it back |
| `PendingIsQueuedTheorem` (`PermissionRecheck`) | a pause without a verdict is in the queue, one with a verdict is not |
| `OvertakenVerdictIsIgnoredTheorem` | a verdict on a claim that was taken over, or a pause that was replaced, changes nothing |
| `SuccessSpeaksOfTheBindingTheorem` | a success is of the binding as it is read after the probe |
| `PauseNeverGoesBackTheorem` | late feedback on older revisions replaces no newer pause |
| `UsableEvidenceIsFreshTheorem` (`ModelVerification`) | evidence that would be accepted now was probed at the present revisions and is in the ledger |
| `SucceededRunIsWholeTheorem` | every item of a succeeded run succeeded, also when skipping the rest failed |
| `EnabledWasVerifiedTheorem` | an enabled binding points to a model that a probe found usable |
| `SucceededIsOfItsRevisionTheorem` (`ModelDiscovery`) | a succeeded run was listed with the revision it froze |
| `WorkedOnIsRunningTheorem` | no sweep and no other worker takes a run from under a worker |
| `LatestNeverGoesBackTheorem` | the inventory shown never goes back to an older run and never vanishes |
| `CountedOnceTheorem` (`TpmObserver`) | however often a flush is repeated, no minute holds more provisional tokens than were observed in it |

The invariants behind them say what an actor knows that does not hold a lock. A
worker of the recheck that was overtaken has lost its claim for good
(`OvertakenHaveLost`): the token it carries is never given again. A probe of the
credential gate carries a revision the row has had, and no revision is used twice
(`ProbesKnowTheRow`, `RevisionsAreSpent`). A running run is one worker's, and the
worker's next call says what its run has come to: items are left, one has failed,
the run is stale or everything is probed (`WorkersOwnTheirRuns`); this is why a
batch whose rest could not be skipped is never called succeeded. A pair once
verified stays so, hence what a request has checked, or read from an enabled row,
still holds when it is written (`RequestsAreBacked`). The ids of discovery runs
are never given twice (`RunsAreDistinct`), so the newest success is one run, and
retention keeps it. What a batch, the queue and a bucket hold is compared by
running sums (`RunningSums`): some function on the positions of the queue grows
with each observation by its tokens, and bucket, batch in flight and growth over
the queue stay within what was observed (`AllWasObserved`). A batch takes a
stretch of the sums with it. The least and the greatest of a set of numbers
exist by the library's theorem on well-founded relations (`LeastNumber`).

### RequestAdmissionProofs

| Theorem | Statement |
|---|---|
| `InvariantHolds` | the inductive invariant below, `TypeOK` with it |
| `SlotHasItsTokenTheorem` | a member of the concurrency set is the request of an active token of the present epoch |
| `RatesHoldTheorem` | no window counts beyond its limit, nor more than the requests that were given a token |
| `RouteUserIsLeasePoolTheorem` | the concurrency set of a route's user implements `LeasePool` |

`IInv` is `TypeOK`, `SlotHasItsToken` and `RatesHold` with three parts about what
is out of Redis. `EpochsAreRead`: the marker is that of the present epoch or
gone, and sessions, tokens and late calls carry an epoch that was read, none
later than the present one. `IssuedOnce`: a request that was given a token and
has it no more can only ask for one with an epoch that is over, so a second
admission is refused, the windows count it once and the pool never takes a ticket
twice. `TriesAreLeft`: who is not done has a try of Finalize left. A call that is
answered, one whose answer is lost and one that Redis runs later have the same
effect on Redis, so the three scripts are proved once (`AcquireKeeps`,
`RenewKeeps`, `FinishKeeps`). The pool's capacity is the largest limit of any
revision; that one exists is a counting argument (`LargestExists`), without
induction. The hypotheses are `AdmissionAssumption` and finitely many requests.

### PricingProofs

| Theorem | Statement |
|---|---|
| `GuardedCostTheorem` | a request is settled at the cost rates its margin guard judged |
| `MarginTheorem` | it costs at most two units of rounding more than it earns |
| `HoldTheorem` | the hold covers the charge of every usage within the estimate |
| `BillIsOfTheRouteTheorem` | what the request carries at each phase stems from its routing |
| `OnePriceTheorem` | at any time at most one enabled row of a kind is in force |

`IInv` is `TypeOK` with `BillIsOfTheRoute`. The invariant is easy; the arithmetic
is the work: rounded quotients are within half a unit, scaling by a ratio and by
a long-context tier is monotone, the charge rounds once and the cost per
component. The lemmas on rates, ratios and rounding are stated for all naturals
and cited by name. `OnePriceTheorem` rests on `WindowsApart`: the enabled windows
of a kind do not overlap, which every creation, change and deletion keeps
(`EditKeepsApart`), so it holds at all times and not only now.

### ProviderLedgerProofs

| Theorem | Statement |
|---|---|
| `InvariantHolds` | the inductive invariant below |
| `ProviderLedgerIsWholeTheorem` | `ProviderLedgerIsWhole`: the entries are a chain that ends at the balance, a target adjustment reaches its target, no constraint of the tables stops a transaction, a probe's cost is on record once, a closed risk names its entry |

The locks are the argument (`LocksAreHeld`): who is past the advisory lock of its
key has it, so nothing with that key was committed since it looked; who has read
the balance has the row, so the balance is still what it read. With
`EntriesFollow` and `WritesOfItsOwn` (what an open transaction has written extends
the chain it read, under its own key) a commit appends to the chain and nothing
else; `SettledOnce`, `OneRiskEach` and `DueIsRecorded` relate probes, risks and
entries. The hypothesis is `OpsAssumption`.

### What stays with TLC

- Liveness: the prover has no rules for fairness and `ENABLED`.
- Of the grouped properties of `control`, what concerns liveness and the three
  disagreements; every safety property of its components is proved above.
- The other half of `TokensAreCounted` of `gateway`: that the drained buckets hold
  exactly the reported usage (`ExactUnlessOvertaken`) and the observer's type
  invariant. The shares of a correction are folds over minutes, and what a fold
  computes for every input needs induction over data.
- The three disagreements of section 6, which are counterexamples.

## 5. What the checks show

The ledger keeps its books under every interleaving of the instance and, by the
theorems, of any instance. In the request's life no interleaving of crashes, lost
answers and workers charges a customer twice, charges and writes off the same
request, or leaves a captured hold without its usage record; no sweep takes a
hold that has a job, and no attempt is inserted after a sweep, because job
insert, attempt insert and finalizers all lock the request row and recheck its
status. A job ends, by replay or by exhaustion.

In Redis, a channel never carries more attempts than its limit, and no late,
repeated or abandoned call gives a slot or a probe back twice or speaks for a
newer window. What Redis serves has been committed in PostgreSQL first, for
routing fences and for settings. Gateways that start at once agree on one epoch;
a gateway that shut itself after a fault reopens only by a pass that began later.
Admission slots, sticky bindings, pauses, credentials and inventories are decided
by the newest evidence of the current revision, however late older calls arrive.
The price of a request is that of its routing, the margin guard's judgement holds
at settlement, and a Provider's balance is explained by its entries.

Each property has a mutant in `PROJECT.json`: a definition changed the way a
plausible bug would change the code (a dropped status guard, a stale read, an
off-by-one in the retry count, a missing recheck), under which TLC violates it.

## 6. Where comments and code disagree

Three disagreements are checked by runs that expect a violation.

1. `stranded_cost`. `FinalizeStrandedReservation` records no exposure because,
   says its comment (`settlement.go:1323`), releases that end there all happened
   where the upstream had no billable success. The billing-exception release of
   `attempt_runner.go:549-557` is such a release too when it fails: the request is
   then failed, no job exists, and the sweeper returns the hold in silence
   although the upstream cost is real.
2. `orphan_window`. The orphan sweeper is said never to release a hold whose
   upstream may have succeeded (`orphan_reservation_sweeper_worker.go:39`). Its
   proof of death is an inactive permit, and the permit is finished as soon as
   the upstream returns, before the job is inserted. A request older than the
   threshold can be swept in that window under a live gateway. The customer is
   not charged, and an exposure is recorded.
3. `recovery_complement`. `worker/ledger_reservations.sql:73` calls the exclusion
   of holds with a job strictly complementary to the recovery worker. If the job
   insert commits and its answer is lost, the release then fails and the request
   is marked failed, the replay is refused, the job dies, and the dead-job
   finalizer skips requests that are not running: the hold belongs to nobody.

The others were met while modelling. Their statements are definitions of the
named modules, unless noted; to see the trace, give the definition to TLC as a
property of an instance with the constants of section 3 (for liveness, under
`LiveSpec`).

- `ProviderControl!FailsClosedUntilRepaired`: the answer to the publisher's commit
  is lost, `provider_publisher.go:235` aborts the fence, and Redis serves the old
  revision of a committed change until a pass repairs it;
  `runtime_control_recovery.go:76-77` says it stays fail-closed meanwhile.
- `ProviderControl!FencesAreReleased`: `provider_reconciler.go:91` closes a
  preparing operation without an abort in Redis; the fence of a publisher that
  died there stays until a restart (`runtime_control_recovery.go:75`:
  "continuously repairs").
- `RuntimeControl!AbortsOnlyUncommitted`: `publisher.go:189` aborts after a lost
  answer to the commit; `runtimecontrol.go:142` says only before it.
- `RuntimeControl!EveryOperationEnds`: an operation whose revision the row has
  passed makes every pass fail (`runtime_control_recovery.go:225`) and is never
  closed. `CurrentOperationsEnd`, checked by `progress`, is what does hold.
- `FaultLatch!GateReopens` with two gateways (`runtime_fault.go:295`): passes in
  step clear each other's token for ever; `observation.go:69-71` says they must not
  starve reconciliation. `progress` checks it for one gateway.
- `ProviderLedger!ClosesOnlyKnownRisks` (`providerledger.go:141`): the cutoff is
  compared with the start of the inserting transaction, so a risk committed later
  is closed by an adjustment that could not have seen it.
- `PermissionRecheck!EveryPauseEnds` when a binding is rebound or renamed
  (`MaxEdits` = 1): no revision advances, the record becomes stale, leaves the
  queue, and still refuses (`gate_and_acquire.lua:146-149`). `progress` checks it
  without such edits.
- `ModelVerification!ChangedOnCurrentEvidence` (`channelmodel.go:186`): evidence is
  checked and the binding updated in separate statements.
- `TpmObserver!ExactOnceDrained` (`observer.go:276`): a correction may overtake
  the observations it corrects; `weights.go:10-11` promises an exact total.
  `ExactUnlessOvertaken` is what holds.
- `TpmObserver!RouteInputOnce` (`attempt_permit.go:980`): a fail-over after a
  response counts the route's input twice; `tpm_observation.go:16-17` says once.
- `SettingsCache!MirrorsTheRow`, twice: a failed refresh of the mirror is only
  logged (`store.go:240`), and a reader that missed the mirror fills it with a row
  it read before a write (`store.go:102`); the mirror never expires.
  `MirrorsUnlessOverlapped` is what holds.
- `Pricing!AbsentCostIsZero` (`settlement.go:1549`): an absent component of an
  override is charged at the base component's rate; `channelprice.go:8` and
  `settlement.go:746` say it is booked at zero.

Gaps the models contain and no property forbids, since the code promises nothing:
a gateway that dies in mid-stream after the delivery audit landed leaves a hold
no worker scans for (`delivery_status = 'in_progress'`); a lost
`MarkRequestFailed`, on the caller's own context, leaves a request running for
ever after its hold was released; an inventory run whose worker dies stays
running; a cost risk without a currency is matched by no target adjustment.

## 7. Plan

1. An abstract escrow that `CustomerLedger` implements.
2. The exactness of the TPM observer: the shares of a correction as running sums
   too, and a ledger of tokens by minute that queue, batches and buckets implement.
3. The stream runner's delivery loop and the TPM observer's expiry and shutdown.

## 8. Not modelled

Whole components: adapters and SSE codecs (wire formats), protocol mapping, HTTP
rendering, catalog synchronisation, configuration, logging and metrics, the admin
login limiter and sessions (single atomic commands), API keys, generated query
code (its SQL is what the actions are translated from), and admin CRUD. SQL
isolation below statement level is taken as PostgreSQL documents READ COMMITTED
with row locks; Redis scripts are atomic.

Within the modelled ones: prices and usage in `RequestSettlement` (only whether
the charge is zero); corrupt values of sticky keys; the order among overdue
members of the recheck queue; a limit of 0 (unlimited) in `RequestAdmission`; the
isolated loss of one control in `FaultLatch`; epoch transitions other than the
bootstrap, which have no caller; the LRU eviction of the credential gate; the
local cache of DEBUG sessions; expiry, look-back, tracking limit, channel scope
and shutdown of the TPM observer; the scheduled enqueueing of inventory runs; in
`Pricing`, mismatched currencies, malformed numerics, the precedence of
multipliers per model and three of seven price components. One Provider and
currency stand for all in `ProviderLedger`, one channel in `Pricing`,
`CredentialGate`, `ModelVerification` and `ModelDiscovery`: their rows and locks
are per Provider or per channel.
