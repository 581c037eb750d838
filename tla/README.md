# helianthus-modbusreg: TLA+ models and proofs

This directory is the verification project of `helianthus-modbusreg`, a Go
library that turns Modbus traffic of solar inverters, batteries and chargers
into typed, qualified evidence. It models the parts of the library that keep
state under concurrency and failure and the larger functions that judge
evidence, checks both with TLC on small instances, and proves with TLAPS, for
every instance, the central facts about the components that keep state: the
runtime ledger, the Huawei providers, the Tesla acquisition and the eight
supplied-evidence ports.

Contents: 1 the system, 2 the modules, 3 what the runs show, 4 what is proved,
5 where code and documentation disagree, 6 what is not modelled, 7 the plan.

## 1. The system

The library has no process of its own. A host calls into it, possibly from
several goroutines; it calls back into what the host supplied (a committer, a
producer of claims, a session, an endpoint opener, an evidence supplier). Every
stateful component is a struct behind one mutex that is **released around those
calls**, so almost everything that is hard in this code is of one kind: what was
read before a callback is used after it.

### Inventory

Components with state, in the order of their weight:

| component (source) | state | operations | calls out to | what is hard |
|---|---|---|---|---|
| Runtime attempt ledger (`runtime_ledger.go`, `observation.go`) | next terminal sequence and its exhausted flag, revision and poll generation, the durable restart record, attempts by sample key, retained capacity, a one-token commit slot; per attempt: phase, claims, source drain, outcome under commit, waiters | `BeginRuntimeAttempt`, `Issue`, `Admit`, `Claim`, `Seal`, `Cancel`, `Publish`, restart | `PublicationCommitter` (`CommitPublication`, `CommitTerminalState`), the producer's `Claim` and `Drain` | goroutines that cancel, publish and retry one attempt; a committer that blocks, fails or answers late; a crash between durable commit and memory; `uint64` running out |
| Huawei read-only providers (`huawei_readonly_provider.go`, `huawei_smartlogger_…`, `huawei_sdongle_…`) | connection and generation, started/closed, committed cycle state: gateway, routed children, back-off counters, refusals, last readings | `Start`, `Stop`, `Reconnect`, `Close`, `Refresh` | the dialed session (one paced request at a time) | a cycle works on a copy without the lock and must commit nothing once fenced; identities must not outlive their connection; long back-off sequences |
| Tesla Gen3 read acquisition (`tesla_gen3_read_acquisition.go`) | endpoint, instance, epoch, activation plan, lifecycle state, single-flight slot, retained records | `Start`, `Restart`, `Acquire`, `PollOnce`, `Run`, `Retained`, `Close` | endpoint opener, production endpoint, activation witness | `Close` at any step, including while an endpoint is being opened; retries with recovery; late publication |
| Fronius port I25, SmartLogger I17, Growatt I23, EMMA I19, LUNA I15, SDongle I21, OutBack I27, SUN2000 I13 (`*_provider_port.go` with their `*_offline_provider.go`, `*_commit.go`, `*_retention.go`) | the active attempt or ticket, the retained record, the bound context or source, retirement | run or refresh, replace, retire, cancel, close, advance, snapshot | an evidence supplier (reader, lookup, card) called without the lock | a supplier that answers after a replacement, retirement, cancellation or newer attempt; a supplier that panics |

Components that judge what they are given. They keep no state across calls, but
they take evidence that was read over time, so what is hard is what happened
between the reads, and the arithmetic at the limits of a word:

| component (source) | what it decides | what is hard |
|---|---|---|
| SunSpec chain (`sunspec_chain.go`, `sunspec_phase_one_*`, `sunspec_fronius*.go`) | which word is read next; which models a device has | late, repeated and foreign views; the end of the word budget and of the address space; a chain that wants nothing and is not over |
| SunSpec layout and values (`sunspec_nested_layout.go`, `sunspec_value.go`, `sunspec_model*.go`, `sunspec_structural_*.go`) | which registers a fact was read from and what they say | an entry cut by two physical reads; counts inside the counted; sentinels, two's complement, scales |
| Profiles (`profile.go`, `codec.go`, `version.go`) | what a vendor overlay means, whether a catalog can be acquired | deltas applied one to the result of the other |
| Detection (`profile_detection.go`, `read_plan.go`) | which profile a device has | a context that ends while a read is out; evidence that its own durable form refuses |
| Observations, fixtures (`observation.go`, `serialization.go`, `fixture_conformance.go`) | whether responses are one coherent sample; what its durable form reads back as | skews with a borrow, absent and zero times, wires that contradict each other |
| Huawei catalogues (`huawei_sun2000_catalogue_selection.go`, `huawei_smartlogger_sdongle_emma_selection.go`) | which documented row a device may be read by | floors and lines gathered over several editions; versions with parts missing |
| Huawei observed cards (`huawei_*_observed.go`, `huawei_sun2000_capability.go`) | which gateway this is, which children it routes, which monitoring profile serves a unit | a device list that changes while it is read page by page; a page that answers an earlier request |
| LUNA optional state (`luna_optional_state.go`) | what an optional battery group is documented to be, folded over evaluations | results that are late, retired or of an identity that left and came back; a clock that runs backwards; policies that change while a history is kept |
| SUN2000 monitoring (`huawei_sun2000_monitoring.go`, the observer in `huawei_sun2000_capability.go`) | what the words of a cycle say, and which older values are kept when a group does not answer | a context that ends inside a plan; a reading of another unit or profile; two's complement and exact decimals |

Not modelled: the OutBack detached record, the SDongle route decision, SUN2000
evidence input, Growatt register and BMS protocol, Tesla record decoding and the
older Tesla sessions, the documentary card parsers, the completion record, tools
(section 6). `PROJECT.json` lists every component with its sources and status.

### How the components interact

* A host runs an acquisition (a Huawei provider, the Tesla acquisition, a port)
  and turns what it returned into observations through the ledger. No component
  calls another's methods under its own lock, and no two components share
  state; they meet in the host. This is why they are separate specifications
  and not one composition.
* Inside a component there is real composition: a Huawei provider is the shared
  core plus the cycle of its gateway path; a port is an adapter around a native
  owner, each with its own lock and its own notion of which attempt is current;
  the ledger is composed with the durable store of the host.

### What makes each component correct

* *Ledger*: the durable record only grows in the documented way over crashes
  and failures (`DurableRecord`); terminal sequences are never reused; nothing
  terminal is visible before it is durable; one commit driver per attempt, one
  publication at a time; no lost wakeups; nothing is published unless all
  claims succeeded and the producer is drained.
* *Huawei*: one connection; an identity is bound to the connection it was
  confirmed on; "current" means read in this cycle; a refused group is never
  sent again; documented back-offs are exact; a refresh ends.
* *Tesla*: an exchange happens only through the live endpoint of the live
  instance for the admitted operation; a recovered generation needs a new
  activation epoch; nothing leaks past `Close`; `Run` recovers.
* *Ports*: an attempt publishes at most once and never after a fence
  (`FencedPublication`); an exclusive supplier is called once at a time; every
  call returns.
* *SunSpec*: a chain asks for exactly the next word and ends; what it keeps is
  what a walk over the device finds (`SunSpecWalk`); each value is what the
  register definition says and is attributed to the registers it came from.
* *Profiles, detection, observations*: an effective profile does not depend on
  the order of the deltas and can be acquired; a detection is what an unbroken
  series of answers justifies and can be written down; a sample has one story
  and survives its durable form.
* *Huawei evidence*: a selection is justified by the whole catalogue, read in
  any order; an identification that matches describes one list the gateway held;
  a record of an optional group that was fenced once never applies again; a
  kept fact is what the last answer of that unit said, and is marked as kept.

## 2. The modules

### Ledger

| module | what it is |
|---|---|
| `LedgerRestart` | The restart record and everything that computes with it: validation, `CoversTerminalWatermark`, batch reservation with wrap at the integer width, and the terminal target (`terminalRestartStateLocked`, including the trim to `AuditTombstoneLimit`). Operators only, no recursion. |
| `RuntimeLedger` | The state machine: variables `ledger`, `attempt` (per attempt), `thread` (where each goroutine's call is), `store` (the host's committer) and `crashes`. |
| `DurableRecord` | The abstract specification: the list of publications and the watermark. |
| `LedgerProperties` | The properties, and the refinement mapping to `DurableRecord`. |
| `RestartHistory` | Feeds every bounded restart state, damaged or not, to the two predicates of `LedgerRestart` and compares them with reference definitions. |
| `MCLedger` | The instances: goroutines, attempts, and where a behaviour begins. |
| `RuntimeLedgerProofs` | The theorems about types, the commit slot and the driver of a commit. |
| `LedgerAttemptProofs` | The theorems about the life of an attempt and what is published. |
| `LedgerStoreProofs` | The theorems about what the store holds, and the refinement of `DurableRecord`. |
| `LedgerRecoveryProofs` | Lemmas about restart histories, and the theorems about the ledger's own audit record and what a process restarts from. |

One action of `RuntimeLedger` is one critical section of the ledger's mutex or
one call made without it. `thread[t].pc` names the place: `PublishCall`,
`PublishDrain`, `TakeSlot`, `Recheck`, `PublishSnapshot`, `StorePublication`,
`ApplyPublication` are the stretches of `Publish` between two releases of the
lock; `CancelPass` is one iteration of the loop in `Cancel`; `CommitSnapshot`,
`StoreTerminal`, `ApplyTerminal`, `Finalize` are `commitTerminalState` and
`finalizeTerminalAttempt`. A `sync.Cond.Wait` is a pc (`cancel_wait`,
`join_wait`, `claims_wait`) that only a `Broadcast` of the code (`BroadcastAnd`,
`Awake`, `Woken`) leaves; there is no spurious or implied wakeup. The commit slot,
a buffered channel of one token in the code, is `ledger.serial`.

The store is external: it accepts an expected state or one that covers the
target, and it may fail or conflict at every call and then has changed nothing:
that is the port's contract (`runtime_ledger.go:867-870`: publication errors
"guarantee no external effect", and a terminal error "guarantees the durable
restart state was not changed"). Every run and theorem about the ledger assumes
it; a committer that takes effect and then reports an error breaks it and is not
modelled. What is: an effect whose caller crashes before it learns of it (the
store step, then `Crash`), and an accepted commit that the recheck in
`ApplyTerminal` or `ApplyPublication` turns into a failure. `Crash` forgets
everything but the store and the restart goes through `newSampleLedger`'s
validation. Abstracted: the checks
of a request's facts (their failure is the outcome `AdmitInvalid`), the
observation's bytes, producer payloads, keys and digests.

### Huawei providers

`HuaweiProviderCore` holds the lifecycle, the paced exchange and the commit of a
cycle; `HuaweiChild` what a cycle does to one routed child (admission,
monitoring, back-off, refusal, withhold, staleness); `HuaweiProvider` the cycles
of the two paths and their composition. Three variables matter: `core` (connection,
generation, counters), `state` (what is committed) and `run` (the private copy
of the cycle in flight, with the step it is at). An exchange is three actions,
`Gate` (wait, context, deadline, fence), `Send` and `Reply`, because the lock is
not held across them. A reply is one of five things the control tells apart.
History fields, marked in the module, let the properties speak of when a child
was bound or last read. `HuaweiProofs` holds the theorems.

### Tesla acquisition

`TeslaGen3Acquisition`: one action per critical section or external call.
Callers have a `pc` through `startLocked`, `activate`, `acquireLocked`,
`exchange`, `publish`, `recover`; `Close` and `ContextEnds` are enabled at every
step. The endpoint is external: it consults its admission before it sends,
fences its generation on a failure after the send and refuses to send while
fenced or closed. Time appears as the verdict of a comparison with the clock.
`TeslaGen3Proofs` holds the theorems.

### Supplied-evidence ports

`SuppliedPort` declares the state shared by the eight port modules (`owner`,
`calls`, `trace`) and the idioms of a call in flight. Each `…Port` module is one
family: its adapter and the native owner the adapter wraps. An attempt is a
number and stands for the evidence it would publish, so "the record is attempt
2's" is the fact under study and parsing, matching and qualification are
outcomes chosen at the supplier's answer. `trace` is history: which attempts
have begun, which are over, whose context ended. `SuppliedPorts` puts the
families side by side (a behaviour is one of one port) and states once what all
of them promise, `Promise == Fenced!Spec` with `FencedPublication` as the
abstract specification; `Record` and `Usable` are the refinement mapping of each
family and translate what its snapshot shows. `SuppliedPortProofs` holds the
theorems.

What differs is kept: Fronius reserves a token and lets readers overlap;
SmartLogger has two locks and wraps the reader; Growatt has a linked
diagnostic with a deadline on a tick counter, and its busy flag is not released
by a panic; EMMA overlaps refreshes with a ticket in the port and a second one
in the native provider; LUNA reduces an optional state; OutBack fences a
replacement twice (generation and cancelled context), which the model keeps as
one field for the adapter's and the provider's generation, as they always move
together; SUN2000 and SDongle are the plain form.

### Evidence

Each of these has its own variable and next-state relation. `MCEvidence` puts
them side by side: a behaviour picks one machine, its `subject`, and only that
one moves, as the program's functions share nothing either.

| modules | variable | what it is |
|---|---|---|
| `SunSpecChain`, `SunSpecDiscovery` | `chain` | The discovery plan and its checks; `AdmitReplay` with every refusal, in the order of the code; the signature, header and payload steps; the snapshot, and what later readers (phase one, three-phase capability, Fronius flavor, qualification card) make of it. The device answers, repeats, delays or contradicts; a view keeps the request it was made for. |
| `SunSpecWalk` | | The abstract specification: a cursor that moves model by model from a base to the end marker. `SunSpecDiscovery` states the refinement (`WalkSpec`), `SunSpecDiscoveryProofs` proves it. |
| `SunSpecLayout` | `reading` | Every point type with its sentinels and scales, the definitions of the repeating models and their geometry, template validation, count resolution, the recursive walk with its spans, the projection of model 707. Widths are parameters: words of 6 bits here. Recursive operators follow the code's recursion. |
| `Profiles` | `draft` | Codecs, dependencies, coherence, overlays and their deltas, the catalog; an author adds a profile or a delta and asks again. |
| `Detection` | `detection` | Plan, serial reads, the judgement of the candidates in its gates, and the checks of the durable decision; the context may end at every read. |
| `Observations` | `sample` | Views, wire groups, both coherence modes, the observation, its record and durable envelope, fixture replay and its classification. |
| `InverterSelection`, `GatewaySelection`, `CatalogueSelection` | `choice` | Both generated catalogues: how editions are bound or refused, floors, lines, aliases, and the decision for one question. |
| `ObservedIdentity` | `identity` | The device-list parser and the three observed cards; their reads one by one while the gateway's list changes (`Change`) and a page may be the answer to an earlier request; then the choice of a monitoring profile for a unit. |
| `LunaReducer` | `luna`, `past` | `ReduceLunaOptionalState`, one action for each way it ends: a retired result, no association, a changed identity, a binding too large, an evaluation. `past` is history: the evaluations themselves. |
| `MonitoringReadings` | `observed`, `kept`, `cycles` | Both monitoring profiles with their groups and fields, the observer reading a plan group by group (`ReadGroup`) under a context that may end (`CancelContext`), the decoding of a cycle, `RetainHuaweiSUN2000Monitoring`, exact decimals. `cycles` is history. |
| `MCInputs` | | The inputs: small profiles and detectors; samples, templates, wires, evaluations and replies; catalogues and gateways. |

The properties of this part compare what the code computes with a definition
written another way: set comprehension over all orders, positions or histories
where the code loops and returns early. `GatewayJustified` orders versions
lexicographically, where the code compares part by part; `Overrides` says where
each entry of an effective profile comes from, where the code edits a slice;
`IdentityIsJustified` speaks of the lists the gateway held, which the code never
sees.

## 3. What the runs show

`tlc -config X.cfg M` for each. Every passing run is complete: TLC
exhausts the reachable states.

| run (cfg) | instance | properties | question |
|---|---|---|---|
| `ledger_lifecycle` (`MCLedgerLifecycle`) | 1 attempt of 2 claims under study, 3 goroutines, behind a publication inside `CommitPublication`; 148 k states | `TypeOK` `SlotHeld` `OneCommitDriver` `AttemptInv` `EffectFromDrainedSuccess` | Do the goroutines of one process keep slot, commit, waiters, claims and capacity straight? |
| `ledger_progress` (`MCLedgerProgress`) | the same with 1 claim; 53 k | `CallsReturn` `QueuedCancellationReturns` | Does every call return once no new ones are made, unless it is behind a committer that does not? |
| `ledger_store` (`MCLedgerStore`) | 2 attempts per process life, 2 goroutines, 2 poll generations, 1 crash, largest integer 5; 677 k (symmetric) | `StoreInv` `TerminalIsDurable` `SequenceNeverReused` `TargetsAccepted` `RecordSpec` | Is the durable record right over failures, conflicts, a crash at any step and the end of the integer width? |
| `huawei_lifecycle` (`MCHuaweiLifecycle`) | both paths, 2 refreshes, 3 generations, 2 attempts per read; 352 k | `OneConnection` `IdentityIsBound` `RefusedNeverSent` `RefreshReturns` | Is a cycle that is cut anywhere harmless, and does it end? |
| `huawei_cycles` (`MCHuaweiCycles`) | both paths, 5 cycles on one connection, every reply; 3.25 M | `EmittedReadingIsOwned` `CurrentIsFresh` `BackoffIsExact` | Is what a sequence of cycles reports right, and the back-off exact? |
| `tesla_acquisition` (`MCTeslaGen3`) | a caller and `Run`, 2 opens, 2 epochs, 2 attempts; 206 k | `EndpointInv` `AdmittedIsOwned` `LastGoodIsLive` `CloseReleases` `RunRestarts` | Do ownership, epochs, release and recovery survive `Close`, failures and ended contexts at every step? |
| `supplied_ports` (`MCSuppliedPorts`, module `SuppliedPorts`) | all eight ports, 2 callers, 3 attempts, 3 generations, 2 ticks; 387 k | `OneCallOut` `SupplierKeepsContext` `DiagnosticFollowsBase` `Promise` `CallsReturn` | Does every port implement the fenced publication? |
| `evidence` (`MCEvidence`) | the ten subjects below; 747 k | see below | Is each judgement what its evidence justifies? |
| `ledger_publish_race`, `ledger_retry`, `huawei_fence`, `emma_cancellation` | | one documented property each | Section 5. |

`AttemptInv`, `StoreInv` and `EndpointInv` are conjunctions of named parts, each
with its own comment: `NoStrandedWaiter`, `ClaimsDrainedFirst`,
`FinalizeNeverRefused` and `CapacityAccounted`; `StoreRestartable` and
`LedgerBehindStore`; `ReadyIsUsable`, `OneGenerationPerEpoch` and `NoLeak`.

The subjects of `evidence`:

| subject | instance | properties |
|---|---|---|
| `history` | restart states to sequence 4, ≤ 3 tombstones, 2 outcomes of each kind, whole or damaged | `RestartIsHistory`: `ValidateRestart` accepts exactly the states some history of terminal outcomes leaves; `CoversTerminalWatermark` exactly their successors |
| `chain` | 20 addresses, reads of ≤ 3 words, 9 plans, 8 headers, views of 2 requests | `ChainIsExact` (with the flavor a chain qualifies for), `WalkSpec` (refinement), `WalkEnds` (liveness) |
| `profile` | ≤ 3 profiles, ≤ 3 deltas, 12 addresses | `ProfileIsSound`: order of deltas is immaterial and what is admitted can be acquired |
| `detection` | 3 reads of 5 words, 5 profiles, the detectors of `MCInputs` | `ProfileIsSound`: a decision is what unbroken answers justify and can be written down |
| `sample` | 2 or 3 dependencies over 5 registers, a second of 4 ns, times to 10 | `SampleIsFaithful`: one story per wire, the durable form reads back, a refusal names a defect that is there |
| `layout` | words of 6 bits, ≤ 64 words, depth 3; each template with every wire of `MCInputs` and every cut | `ReadingIsExact` |
| `selection` | 2 inverter cards, 3 gateway families, editions in every order; 43 k states | `SelectionIsJustified` |
| `identity` | 3 lists for the SmartLogger and the S-Dongle, 2 for the EMMA, 2 changes of list, one late answer per identification; 56 k states | `IdentityIsJustified` |
| `luna` | 4 evaluations of 18 kinds, each at a time before, at or after the last; 111 k states | `LunaIsFenced`: a record applies exactly while no evaluation since left its partition, ages by the latest time of any, and a presence is reported only of an evaluation that presented it |
| `monitoring` | both profiles with 2 strings, one of them at 2 units, 3 cycles of which one is cancelled or decoded by the caller, words of 6 bits; 68 k states | `MonitoringIsLastAnswer`: a fact is the last answer from this profile and unit, renewed or marked as retained; its text is exact; a plan cut short is told |

`CHECK_DEADLOCK FALSE` everywhere: the components are libraries, a host may stop
calling, and every counter is bounded.

### Bounds and why they are enough

* *Goroutines.* Two suffice for a race between two calls; the ledger's waits
  need three (one drives, one joins, one arrives while both are between
  sections), so `ledger_lifecycle` has three.
* *Attempts.* Two concurrent attempts interact through the watermark, the slot
  and capacity. A member of `Attempts` begins once per process life (its key and
  its capacity are free again when it is finalised, the member is not) and is
  unborn again only after a crash, so `ledger_store` begins at most two attempts
  before the crash and two after it. `ledger_retry` uses three: the third moves
  the sequence between failure and retry. The theorems hold for any finite
  number of attempts.
* *Integer width.* `MaxUint64` is 4 to 6. The code only compares with it and
  adds batches, so a width a few batches wide reaches both the wrap to 0 and the
  batch that does not fit.
* *One crash.* A restart depends on nothing but the store, so what a second
  crash could add is a store already left by a crash; a width of 5 holds two
  batches of an attempt and its claim, so the sequences are used up before that
  makes a difference to the history's form. What the store promises over any
  number of crashes is proved, but for the form of the history.
* *Huawei.* Three generations: the identity of the first, its fence, and a
  reconnect after it. Five cycles see a first failure that skips nothing, a
  second whose one skipped cycle ends, and a third whose two begin; that the
  later steps and the cap of ten are right too is proved (`BackoffsAreExact`).
* *Tesla.* Two endpoints and two epochs: everything compares "this one" with
  "a successor".
* *Ports.* Two overlapping callers and three attempts: an old one, a newer one
  and one after a fence.
* *SunSpec.* A budget of 14 to 17 words and 20 addresses put the end of either
  inside a model, in its header and just behind it. Six-bit words are the
  narrowest in which a sentinel, the largest value and a negative scale of every
  point type differ; 64 of them hold three levels of repetition.
* *Profiles.* Three deltas are a change, its undoing and a third target; more
  only repeat a pair. Three profiles are a base, an overlay and its supersession.
* *Samples.* Two dependencies meet in one skew; the third makes a middle one.
  Four nanoseconds to the second give a borrow in every direction.
* *Catalogues.* Two editions suffice for every conflict the code looks for; a
  third shows that their order does not matter.
* *Identity.* Two changes of list: away and back again. The counter has two
  values, so that it comes round to the same value after two changes:
  `ListIsOneMoment` holds for fewer changes between the two reads than the
  counter has values (`drift < CounterModulus`), and fails without that clause.
  Object numbers wrap at 6 as they wrap at 256, and the limits on entries
  and pages are equal as in the code, where both are 248.
* *LUNA.* Three evaluations let an identity leave and come back; the fourth is a
  retired, failed or late one on top of it.
* *Monitoring.* Three cycles let a reading be kept twice, or be kept, renewed
  and kept. Two strings give each field of a string a neighbour on both sides;
  the groups and offsets are those of the code.

### Fairness

* *Ledger* (`Fairness` in `RuntimeLedger`): weak fairness on the steps of a call
  in flight and on the completion of a claim the producer was given: a
  goroutine that can run does run, and `Claim`'s contract bounds the producer.
  **None** for the return of `CommitPublication` (the documentation says it may
  block) and none for the end of a caller's context. The liveness properties
  assume `CallsStop`, that eventually no new call is made: without it, a
  joiner can be overtaken for ever by callers whose retries keep failing.
* *Huawei*: weak fairness on the cycle's steps and on the return of a session's
  close: a read has a timeout, a close is a close. None for the clock (`Tick`) or
  for the host's decision to refresh.
* *Tesla*: weak fairness on the steps of each call, on `Run`'s loop and on the
  end of `Close`; the opener, the endpoint and the witness are bounded by the
  configuration's timeouts.
* *Ports*: weak fairness on each call's steps and on the second half of
  SmartLogger's retirement; a supplier is synchronous and bounded by contract.
* *SunSpec*: weak fairness on the answer to the read a chain asks for
  (`Answered`), and on nothing else: `WalkEnds` says that a chain whose reads
  are answered, rightly or wrongly, ends.

### Mutants

`PROJECT.json` pairs every property of every passing run with a *mutant*: a
definition that models code replaced by a plausible bug (a dropped reset, an
early release, a comparison at the deadline). TLC finds the property violated
under the run's own configuration. The variants stand in the modules next to the
definition they change, marked "Faulty variant"; no specification uses them.

## 4. What is proved

Each theorem holds for every value of the constants that its module's
assumptions allow. In every case the property itself is not inductive; what had
to be found is the invariant that is. Each was given to TLC as an invariant of
the component's run before it was proved.

### The ledger: types, slot, driver (`RuntimeLedgerProofs`)

For every number of attempts, keys, goroutines and claims, every limit and every
integer width:

* `TypeCorrect`: `Spec => []TypeOK`. Not only shapes: the next sequence stays
  within the integer width through `reserveTerminalBatchLocked`, every target
  given to the store is a restart state with a contiguous cut history, every
  persisted outcome is a terminal one.
* `SlotIsHeld`: `Spec => []SlotHeld`. The commit slot is held exactly by the
  goroutine inside the publication section, over each of `Publish`'s exits.
* `CommitHasOneDriver`: `Spec => []OneCommitDriver`. A terminal commit in
  progress has exactly one driver, however many cancels and publications meet.

Assumptions: `RuntimeLedgerAssumption` (finite attempts and keys, generations
within the width, at least one claim and no more than the protocol's maximum,
positive limits) and `LedgerRestartAssumption` (the width and the claim maximum
are positive). TLC evaluates both on every ledger run.

The invariant is

    TypeInv == TypeOK /\ CallTyped /\ RetryTyped /\ Numbered

* `CallTyped`: a call in flight names an attempt, a call past its decision
  carries a terminal outcome, and the attempt of a call inside the terminal
  commit was begun and has an outcome. Without it the pcs alone allow a commit
  of "none", whose tombstone is not typed.
* `RetryTyped`: a failed commit waiting for a retry kept a terminal outcome;
  `Cancel`'s retry path reads it back.
* `Numbered`: the next sequence is 0 exactly when the width is exhausted;
  otherwise `next - 1` in `terminalRestartStateLocked` leaves the type.

`StepTyped` proves `TypeInv /\ [Next]_vars => TypeInv'` action by action, in
three layers (what an action does to attempts, to threads, to ledger and
store). On top of it, `SlotHeld` and `OneCommitDriver` are inductive relative to
`TypeInv`. Both proofs reduce every action to a *move* of one goroutine between
sets of pcs (`…Goes` lemmas) with the others only woken within the waiting pcs
(`OthersUnmoved`), and then show once (`SlotMove`, `CommitMove`) what a move must
do to the slot or to the driver's flag.

### The ledger: the life of an attempt (`LedgerAttemptProofs`)

* `AttemptsLiveRight`: `Spec => []AttemptInv`. A sleeping goroutine always has
  somebody left to wake it (`NoStrandedWaiter`); no attempt is sealed, published
  or reclaimed over a claim in flight (`ClaimsDrainedFirst`); what was made
  durable never meets a ledger that refuses to finalize it
  (`FinalizeNeverRefused`); keys and capacity are held exactly by the attempts
  that are not reclaimed (`CapacityAccounted`).
* `OnlyDrainedSuccessIsPublished`: `Spec => EffectFromDrainedSuccess`, an action
  property: no step publishes anything but the observation of an attempt whose
  producer was drained with success, whatever other goroutines did since.

Same assumptions. The invariant is

    LedgerInv == TypeInv /\ OneCommitDriver /\ LifeInv /\ RetainedInv

* `LifeInv` relates the four things the code keeps apart, an attempt's phase,
  its claims, the drain of its source and the place of each call: `AttemptsSound`
  says what a state of an attempt can be, `CallsFit` what a call at each place
  knows of its attempt, `OwnerAlone` that the call which took the attempt out of
  "open" or "sealed" has only cancels beside it until its first terminal commit,
  and `Driven` that a closing attempt has a call that will move it on, unless a
  commit is running or its failure is recorded for a later cancel to retry.
* `RetainedInv`: a key is held by exactly the live attempt that was begun with
  it, and the retained claims are the claims of the keys held. The count is a
  cardinality, so this is where finiteness of the keys is used.

### The ledger: the durable record (`LedgerStoreProofs`)

For every number of crashes too:

* `TerminalPhaseIsDurable`: `Spec => []TerminalIsDurable`. A terminal phase is
  visible only when the store holds that very outcome, and a watermark past the
  attempt's whole batch.
* `SequencesNeverReused`: `Spec => []SequenceNeverReused`. A sequence that
  reached the store is never given to a second attempt, of this process or of a
  later one, although a crash forgets every reservation of a live attempt.
* `LedgerImplementsRecord`: `Spec => RecordSpec`. `RuntimeLedger` implements
  `DurableRecord`, under the mapping of `LedgerProperties`. `StorePublication` is
  `Publish`, a `StoreTerminal` that moves the watermark is `Close`, and every
  other step stutters: failures, conflicts and crashes too.

Same assumptions, and the committer's contract of section 2. The invariant is
`LedgerInv /\ RecordInv`, where

    RecordInv == /\ AttemptsCommitted /\ CallsKnow /\ WatermarksOrdered
                 /\ SequencesOwned /\ DecisionsPlaced /\ EffectsDecided

* `AttemptsCommitted` and `CallsKnow` say what an attempt's phase and flags, and
  the place of each call, imply of the store. The outcome a goroutine is about to
  finalize, or to persist again after it was applied, is decided; the owner of a
  closing attempt knows that nothing is, up to the answer of
  `CommitPublication`. Without them `ApplyTerminal` could believe a decision
  nobody took, and a publication could follow a decision on its own attempt.
* `WatermarksOrdered`: every record, in the store, believed durable or asked for
  by a call in flight, ends within what the process has reserved, and a request
  never ends before what it expects. A store that accepts a target by comparing
  with the expected record, or because it already covers it, therefore never
  moves the watermark down (`JoinedEnds`), however old the request is.
* `SequencesOwned` and `DecisionsPlaced`: attempts begun have batches of their
  own; a decision of this process carries its attempt's sequence, one of an
  earlier process lies before every sequence issued since, because a restart
  begins past the stored watermark and that covers every decision's batch.
* `EffectsDecided` ties the list of publications to the decisions, the revision
  and the last generation, which is what makes each publication fresh.

TLC checked `RecordInv` on `MCLedgerStore` (677,302 states) and `MCLedgerRetry`
(1,741,977).

### The ledger: histories and restart (`LedgerRecoveryProofs`)

* `LedgerTargetsAccepted`: `Spec => []TargetsAccepted`. The history that a commit
  or a publication is about to ask for is one `terminalRestartStateLocked`
  accepts: no two records under one sequence, valid for the same tombstone limit.
* `StoreIsRestartable`: `Spec => []StoreInv`. Whenever the process dies, what the
  committer holds is a state `newSampleLedger` starts from: a valid history that
  agrees with the revision and the generation and leaves each publication its two
  sequences; and it covers all that the running ledger takes for durable.

Same assumptions: any tombstone limit, any number of claims, and a width that may
run out in the middle of a batch. The argument has two parts.

The first is about one history, without the ledger. `TerminalRestartSound`: from
a valid history, a watermark not before its end and the batch of one attempt
within that watermark and apart from the history, `TerminalRestart` computes a
history that is valid for the limit, covers the first one, and ends at the
watermark. It rests on `TrimmedShaped` (records given up from the oldest on leave
contiguous sequences, at most one headless run of claims, and whole attempts
after it) and `ExtendedShaped` (so does the batch of the next attempt), and on
`RunFromWatermark`: reservations of attempts that are still alive leave a gap
between the history and the batch, and then everything before the gap is given
up. `Before`, the order of histories by end and then by truncation, is what makes
two histories that follow each other different.

The second is the invariant `LedgerInv /\ RecordInv /\ RecoveryInv`, where

    RecoveryInv == ConcludedInv /\ HistoryInv
    HistoryInv  == BatchesApart /\ NothingEarly /\ RequestsFollow /\ RecordsSane

* `ConcludedInv`: an outcome about to be persisted, being committed or waiting
  for a retry fits its attempt: every claim has an outcome, a publication outcome
  has successful claims, and "published" is only retried once it was applied. The
  retry path of `Cancel` reads the outcome of a commit that failed, so the fact
  has to survive the failure, and every goroutine that comes between.
* `BatchesApart`: the batches of live attempts, of decisions and of publications
  never meet, over crashes too.
* `NothingEarly`: no history holds a record of an attempt that is not decided,
  nor the ledger's one of an attempt whose decision it has not applied. So a
  target never conflicts with the history it extends.
* `RequestsFollow`: what a call carries into the committer and back is what
  `TerminalRestart` makes of a history the ledger held; if the store still holds
  that history then so does the ledger, and once the store has decided, a ledger
  that still holds it finds the decision in the store. This is the part that two
  calls with overlapping requests, answers out of order and refused applications
  put to the test: without it an answer could be applied over a newer history.
* `RecordsSane`: the store's history and the ledger's are valid, the store covers
  the ledger, and the store counts the publications that it retains.

`PublicationsFit` is the counting behind the agreement of history and revision:
publications have sequences that differ by more than one, so `n` of them, each
with its successor, inject `1 .. 2 * n` into the sequences up to the watermark.
TLC checked the invariant on `MCLedgerStore` (677,302 states) and on an instance
of three goroutines and tombstone limit 3 (1,384,796).

### The Huawei providers (`HuaweiProofs`)

For any units, groups, gateway paths, cycles, generations and refreshes:

* `ConnectionsAreExclusive` (`OneConnection`), `IdentityStaysBound`
  (`IdentityIsBound`), `RefusalsAreFinal` (`RefusedNeverSent`), `ReadingsAreOwned`
  (`EmittedReadingIsOwned`), `CurrentReadingsAreFresh` (`CurrentIsFresh`) and
  `BackoffsAreExact` (`BackoffIsExact`), each `Spec => []` of the property in
  parentheses: all the invariants of the two runs.

Assumption: `CoreAssumption`, on units, groups and bounds. The invariant is

    HuaweiInv == /\ Typed /\ Connected /\ StoreKept /\ RunConnected /\ RefusalsKept
                 /\ BackoffsKept /\ EmittedReadingIsOwned /\ CurrentIsFresh
                 /\ BackoffReported

* `Connected`: which sessions are unbound, bound, closing or closed, and in whose
  hands each one is.
* `Typed` has the shapes, and that the cycle in flight is sound (`RunSound`): it
  works on a sound copy of the state, what it has gathered so far is right for
  the step it is at (opening, routing or serving a child), the units it has not
  come to are still unseen (`UnseenFrom`), and inside a plan every group before
  the current one was read in this cycle or is refused (`ReadTo`, `AtGroup`).
* `StoreKept`: what is committed is sound too (`StateSound`, and `ChildSound` for
  each child: an identity, its generation and its readings fit together), and an
  identity in it was confirmed on the connection that is bound.
* `RunConnected`: the cycle's session is of no later generation than its own
  fence, and every session before it has been closed.
* `RefusalsKept`: every refusal in the history is where the next read of its
  group looks, in the child or carried for it while the child is not known
  (`Remembered`): in the copy of the cycle in flight, and in the store whenever
  none is. It is what makes a refusal survive a cycle that is fenced after it
  was learnt.
* `BackoffSound`, in `ChildSound`: the first cycle a child is not skipped in is the
  one after its documented wait (`WaitsAsDocumented`: the code doubles a counter
  up to ten, the document lists five numbers), unless there is no wait or the
  gateway was identified after the failure, which lifts it. A child the cycle is
  reading is so no longer backing off (`Due`), and one it reports as backing off
  still is (`Reported`). An identification can only lift the wait of an earlier
  cycle's failure, since none of this cycle's comes before it: that is why
  `UnseenFrom` also says that a child not reached yet did not fail in this cycle.
* `BackoffsKept`: until the cycle reports a child, its failures are those committed
  (`BackoffFollows`, step by step), so the property may speak of the store while
  the read is on the wire. `BackoffReported` is its second half.

Every step of a cycle is shown to *continue* it (`Continues`, that is `RunSound`
and `Follows` of the next copy), and one lemma turns that into preservation of
the whole invariant; a step of the lifecycle touches only `Connected` or fences
the cycle, which then can commit nothing. TLC checked `HuaweiInv` on the three
Huawei instances (3.25 M, 352 k and 4,334 states).

### The Tesla acquisition (`TeslaGen3Proofs`)

For any callers, operations, attempts, endpoints and activations:

* `EndpointsAreHeld` (`EndpointInv`: `ReadyIsUsable`, `OneGenerationPerEpoch` and
  `NoLeak`).
* `OnlyTheOwnerIsAdmitted` (`AdmittedIsOwned`) and `LateValuesAreNotGood`
  (`LastGoodIsLive`), action properties: no step lets a request through but for
  the call in the slot on the endpoint that is owned, and no step makes a value
  last known good after its endpoint was closed, retired, recovered or fenced.

Assumption: `TeslaGen3Assumption` (`Run`'s caller is one of finitely many, the
operations are distinct, at most three attempts, and the marker of "no endpoint"
is none). The invariant is

    TeslaInv == Typed /\ OneGenerationPerEpoch /\ \E c \in Callers : InSlot(c)

The slot admits one call, so the whole state is what one call makes of it, with
`Close`, late consultations and ended contexts in between; `InSlot(c)` says what
that is. All other callers are idle; the call has in its hands what the lifecycle
owns unless it was closed (`OwnerFits`, `EpochFits`); every open endpoint is in
somebody's hands (`Owning`); a lifecycle called ready can be used except at the
named steps where the code is about to say otherwise (`Settled`, `Unsettled`); a
plan is bound only during an exchange (`PlanHeld`); and what was let through on
the owned endpoint is not past the generation of this epoch, and of it if it is
of this epoch (`Admissions`, by `Bounded` and `Present`), which makes
`OneGenerationPerEpoch` inductive. `RetiredIsDenied` shows that a late
consultation by a closed endpoint changes nothing. TLC checked `TeslaInv` on the
run's instance (206 k states) and on one with 3 opens, 3 epochs and 2 calls
(3.97 M).

### The supplied-evidence ports (`SuppliedPortProofs`)

For any callers, attempts, replacements and clock ticks:

* `PortsFencePublication`: `Spec => Promise`. Each of the eight ports implements
  `FencedPublication`: the step that publishes is `Publish` of an attempt that
  has begun and is not over, the step that reserves or begins a call is `Begin`,
  and every other step keeps the record, or drops it, and makes nothing usable.
* `OneCallIsOut` (`OneCallOut`), `SupplierIsOfThePort` (`SupplierKeepsContext`)
  and `DiagnosticIsOfTheBase` (`DiagnosticFollowsBase`).

Assumption: `SuppliedPortAssumption` (finitely many callers, at least one, and
bounds that are numbers). The invariant `PortInv` has one disjunct for each
family. Each contains `Common` (a call in flight has an attempt of its own that
has begun, and nothing is over that has not begun), for the exclusive ports also
`OneOut`, and then the fact the refinement turns on: **why an attempt that is
over will not publish any more**, at every place where its call may be. No port
keeps the set of attempts that are over; each stops them by what it compares:

* SUN2000: the port is retired, or its generation is past the one the call froze,
  or the call's context ended. SDongle and LUNA have no generation, so the first
  and the last; SDongle also needs that its retained decision is still the one
  the call froze. For OutBack the context ended or the provider has moved on
  (`Superseded`).
* Fronius: a call that is over and whose context is alive is no longer the
  active one.
* SmartLogger (`SmartloggerCall`): the reason changes from place to place, as the
  port's lock and the owner's are two. Before its native attempt begins, a call
  is stopped because `I17Retire` holds the port's lock or the owner is shut;
  after, because the owner's generation moved on. While no retirement is under
  way the owner's generation is the one the port was built for, which gives
  `SupplierKeepsContext`.
* EMMA (`EmmaCall`): the port's generation moved on, or it is retired, or, past
  the preflight only, a later refresh took the native ticket. Nothing is said of
  contexts, which `Promise` leaves out.
* Growatt (`GrowattCall`): the native owner's attempt is closed, or the port is
  retired, or the context ended; and a call on its way to settle a success finds
  that success in the native owner, still applicable. What is published lags
  behind the native owner only while such a call is out (`EnvelopeIsNative`),
  which is why the envelope of a failed cycle never replaces the record.

TLC checked `PortInv` on the run's instance (387 k states).

### SunSpec chain discovery (`SunSpecDiscoveryProofs`)

For every plan, address space, read limit and device, whose answers come in any
order, late, twice, at the wrong address or with the request of another chain:

* `AsksForTheNextWord`: `Spec => []AsksTheNextWord`, the first part of
  `ChainIsExact`. A chain that can still be walked wants a read. Once every
  candidate is answered it wants exactly one, of the word after those it has,
  within the address space and the read limit.
* `DiscoveryWalks`: `Spec => WalkSpec`. Discovery implements `SunSpecWalk`. A
  view that is refused, a candidate without a signature and a part of a payload
  are stutters; the last candidate is `Choose`, the last part of a payload
  `Extend`, the end marker `End`, and every error of `AdmitReplay` past its
  refusals is `Fail`.

Here `Spec` is that of `SunSpecDiscovery`, the machine the run `evidence` sets
beside the others. Assumptions: `SunSpecChainAssumption` (limits and marker
words are numbers, a read may take two words), and `SunSpecDiscoveryAssumption`
(candidate bases and the words a device answers are numbers; `None` is none of
the records it stands in for). The invariant is

    DiscoveryInv == chain # None => Sound(chain)

`Sound` adds to the type of a chain **what it is waiting for**: `Seeks`, while
there are no raw words, only signatures at candidates of the plan; then `Walks`,
one read at the cursor, which is either of the header of the next model
(`OnHeader`) or of the rest of the payload of the model being read
(`OnPayload`). The latter carries the bounds that were checked when the header
came, through all the reads of the payload, to the step that records the model:
`WalkSpec` needs them there, and the code does not check them again. That two
words are left behind the model is not among them; it is checked with the read
that follows.

`AdmitReplayMoves` proves that one call keeps `Sound` and is one of five moves
(`Stops`, `Stays`, `Chooses`, `Extends`, `Finishes`), by the purpose of the read
(`SignatureStep`, `HeaderStep`, `PayloadStep`). `MovesWalk` maps each of the five
to a step of `SunSpecWalk`.

### Only model-checked

* All liveness: fairness and `ENABLED` are outside the prover. Under it fall
  `CallsReturn`, `QueuedCancellationReturns`, `RefreshReturns`, `CloseReleases`,
  `RunRestarts` and `WalkEnds`.
* The evidence. `SunSpecLayout` is written with `RECURSIVE`
  operators, which no theorem may reach; most of the others compute by folds over
  sequences, whose value for every input would need induction over data. That
  goes for the other parts of `ChainIsExact` too (`SnapshotAgrees`,
  `QualifiedIsExact`), which parse and replay a whole chain.

## 5. Where code and documentation disagree

Each has a run that shows it, expected to be violated.

* `ledger_publish_race`: a publication that the store committed can still end
  `publish_failed`, when another attempt's terminal target, computed before it
  began, is applied between the commit and the recheck
  (`runtime_ledger.go:1918`; `docs/m2-01-api.md:186`).
* `ledger_retry`: a retried terminal commit recomputes its target; after two
  commits returned out of order and a third attempt began, no retry is ever
  accepted until a restart (`runtime_ledger.go:2181`; `docs/m2-01-api.md:138`
  "retries the same idempotent terminal target").
* `huawei_fence`: one more request may follow a Stop, Reconnect or Close, as the
  fence is checked without the lock held over the send
  (`huawei_readonly_provider.go:1160`, comment at 980).
* `emma_cancellation`: a refresh cancelled while a later one has the port's
  ticket but not the native one still commits (`emma_provider_port.go:108`,
  comment at 83).

Noticed while modelling, consistent with the models, and not stated as a
property:

* A `Cancel` that retries while another goroutine finalises can return
  "terminal persistence retry is unavailable" for an attempt durably cancelled;
  a goroutine that joined a failing retry can be superseded by a later,
  successful one and return success, where `docs/m2-01-api.md:136` gives all
  attached waiters the same failure. The tombstone insertion inside
  finalisation is unreachable: the applied target already holds it.
* Tesla `Retained` can report a record as current during `Restart` although the
  endpoint it came from is closed.
* Huawei: the counter of unstable listings is not reset by gateway failures or
  reconnects in between, where the documentation speaks of three such cycles in
  a row; a child whose groups are all refused is reported current though nothing
  was read; endpoint failures are not reset by a guard exception or change;
  `nextAt` survives Stop and Reconnect.
* Ports: a panic of a Growatt supplier leaves the port busy for good; one of a
  SmartLogger reader leaves its attempt active until retirement or close. In
  EMMA, an obsolete cancellation of a later refresh can also cancel the valid
  work of an earlier one.
* SunSpec: the phase-one capture refuses every view of a two-word signature
  read, which the chain itself admits.
* Detection: the score of a candidate is computed and recorded but never
  compared. `docs/m2-02-detection.md:64` speaks of "equal highest eligible
  scores"; in the code any two eligible candidates are ambiguous.
* Fixtures: a corpus record without dependencies that is expected to be rejected
  passes the constructor (`fixture_conformance.go:402`), and `Replay` then
  indexes its first dependency. A bounded sample that is refused for a reason
  other than its deadline is reported as `deadline_mismatch`
  (`fixture_conformance.go:434`; `docs/m2-03-fixture-conformance.md:62`).
* LUNA: an evaluation that is retired, invalid or late still moves the latest
  time (`luna_optional_state.go:84`), which `docs/luna-optional-state-reducer.md:73`
  calls "the latest accepted evaluation time". A retired result dated ahead
  makes the valid ones before that date fail.
* Catalogues: two inverter cards that name one edition are not refused; the
  later one is kept (`huawei_sun2000_catalogue_selection.go:371`).
* Identity: the EMMA's inventory has no change counter, so a list that changed
  between two of its reads can be accepted; only the models that the inverters
  answer themselves are compared with it. The SmartLogger's counter can come
  round between its two reads. A list of 248 entries sent one object a page
  needs 249 pages and is refused at the limit of 248.

## 6. What is not modelled, and why

* Bytes: JSON framing, digests, byte bounds of documents, the grammar of one text
  or list entry. Conversions appear with what they keep and lose; those with
  arithmetic (values, scales, skews, versions) are modelled.
* The content checks of requests and configurations of the stateful components,
  which are pure and run before any state changes.
* A committer that takes effect and then reports an error: its contract
  (`runtime_ledger.go:867-870`) rules it out, and nothing is shown about it.
* EMMA's contexts are left out of `Promise` (an ended context does not fence an
  attempt there), because `emma_cancellation` shows they are not honoured in
  every interleaving.
* `LunaPort` takes of `ReduceLunaOptionalState` the transitions that an admitted
  observation can take through the port; the whole function is `LunaReducer`,
  on its own. A binding's tokens are one value there: whether two bindings are
  equal is all the reducer asks.
* The tables: points of the SunSpec models, the rows of the generated Huawei
  catalogues, the OutBack AXS flavor. The models take small tables of the same
  form as constants.
* Fixture corpora and their report: `Replay` runs detection and observation,
  which are modelled, over recorded cases.
* Growatt's passive observers, the SDongle route decision, the OutBack detached
  record and SUN2000 evidence input: their verdicts are outcomes in the ports.
* The Tesla codecs and the older Tesla sessions, each of which is one exchange
  with its deadline. Of SUN2000 monitoring, the strings of a plan after the
  second, which the same definition repeats.
* The documentary parsers of Huawei and the offline generators under `tools/`,
  which do not run in a host.

## 7. The plan

Models:

1. **Growatt RTU observers**: pairing of requests and responses frame by frame,
   never across a lost frame.
2. **SDongle route decision** and **OutBack detached record** as definitions
   that replace the outcomes in their ports.

Proofs: the fence of the LUNA reducer (`LunaIsFenced`) as far as it needs no
induction.
