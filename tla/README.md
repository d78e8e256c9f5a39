# Verification of the Antigravity plugin

The plugin runs the native `agy` command line program as an agent harness of an
OpenClaw host. This directory holds TLA+ models of the parts of it that carry
state through concurrency, failure and time, the TLC configurations that check
them on small instances, and TLAPS proofs for every value of the constants.

`tlc -config X.cfg M` checks a run, `tlapm M_proofs.tla` the proofs of `M`.

## Inventory

| component | state it keeps | operations | talks to | what is hard |
|---|---|---|---|---|
| canonical session binding (`harness/session-bindings.ts`) | one envelope in the host's session row: epoch, revision, binding, claim, last settled attempt, pending reset | resolve, beginAttempt, bindFresh, endAttempt, assertResultCurrent, clear | the host's row (compare-and-set patch), attempts and resets of every plugin process | two-step commits, crashes between them, resets during attempts |
| attempt orchestration (`harness/run-attempt.ts`, `harness.ts`) | local: resolved binding, lease, evidence, outcome | prepare, claim, launch, bind, settle, deliver | everything below | deadline and abort between any two awaits; an outcome that is delivered after it was superseded |
| native agent carrier (`harness/native-agent-carrier.ts`) | a directory shared by processes: lock, lease files, carrier bundle | acquire, release, reclaim, clean up, assertCurrent | other plugin processes through the file system | dead owners, two reclaimers, removal of a bundle in use |
| model inventory (`inventory.ts`) and its host owner (`inventory-scope.ts`) | cached snapshots, flights in progress, waiters | get, snapshot, invalidate, retire, stop | discovery command, scopes | coalescing, late completion after retirement, the cache limit |
| native process runner (`cli/agy-process.ts`) | child, event queue, terminal outcome, evidence | start, pump, cancel, fail, settle | child process, event observer, stream accumulator | first failure wins, kill escalation, observer that never returns, queue limit |
| native stream protocol (`protocol/agy-stream.ts`) | the accumulated conversation, steps and result | accept a line, finish | process runner | order of events, final versus provisional |
| image staging (`harness/image-input.ts`) | staged files | stage, clean up | file system, native readers | partial staging, cleanup while a reader lives |
| result and evidence (`harness/result.ts`, `cli/attempt-evidence.ts`) | none (computed from the snapshot) | classify | host | replay safety |
| preflight and discovery commands (`cli/capability-preflight.ts`, `harness/model-catalog.ts`) | one bounded child each | run | child process | timeout against exit |
| transcript (`harness/transcript-result.ts`, `host/transcript.ts`) | none of its own | append the answer | host transcript | append after the session moved on |
| projection, policy, identity, registration, configuration | none | pure functions | | |

`PROJECT.json` lists each with its status, and every hazard with the line where
it bites and the property that would catch it.

`PROJECT.json` also names the part that each module models. How the modules use
each other:

```
SessionEnvelope, SessionAuthority <- SessionBindings
                                                 the session row, and what it promises
CarrierLock, SharedCarrier <- NativeAgentCarrier
                                                 the carrier on disk, and what it promises
Inventory       <- InventoryOwner                models for hooks and attempts
AgyStreamEvents <- AgyStream                     the accumulator alone
                <- AgyProcess                    one native run in detail
                <- NativeRun                     what it promises (implemented by AgyProcess)
                <- AttemptResult                 evidence and outcome
NativeRun, AttemptResult <- AttemptRun           one whole attempt
```

## Plan

Every module of the plan is written: session binding, carrier, stream, native
run, inventory with its owner, the promise of a native run with its
refinement, the attempt built on that promise, the authority that the session
binding implements and the shared carrier that the carrier manager implements. What is left is the composition of `AttemptRun` with the
session: today the first sees the row only as a lease that is released or not, the
second the attempt only as its awaits, and each chooses nondeterministically what
the other decides. `SessionAuthority` is short enough to compose with.

## Session binding

### Modules

- `SessionEnvelope`: what the row can hold, what `parseEnvelope` accepts, and for
  each mutation the condition under which its callback goes ahead and the
  envelope it returns. Operators only.
- `SessionBindings`: the protocol. Attempts (`runAntigravityAttempt`) and resets
  (`clear`) are processes that share the row.
- `SessionAuthority`: what the protocol promises, with every operation one step.
- `MCSessionBindings`: symmetry sets, for the four configurations.
- `SessionBindings_proofs`: lemmas, the inductive invariant, the theorems.

### State and actions

`row` is the host's session row: its lifecycle revision and the plugin's
envelope. `pc[a]` is the await an attempt is at, and the other attempt variables
are its local ones (`snap` = `existingBinding`, `lease`, `clean` =
`evidence.termination.cleanupComplete`, `ok` = the terminal kind), plus `live`
(the host still owns the attempt: neither aborted nor expired) and `native` (its
child process). `rpc` and `rbase` are the same for a reset. `claims`, `gone` and
`transcript` are history used by the properties.

Every `patchSessionEntry` is two actions. *Prepare* runs the update callback on
the row (`base` is the snapshot), *Commit* stores the answer if the row still
equals the snapshot and `assertCommitAllowed` holds. A callback the host runs
again on a newer row is a later Prepare. Everything between two awaits is one
action, except the last fence and the spawn: they run in one turn of one
process, but another process may commit between them.

- Attempt: `Resolve`, `ClaimPrepare`, `ClaimCommit`, `ClaimReturn` or `ClaimLost`
  (the one-second allowance ends, before or after the commit), `LaunchFence`,
  `Spawn` or `NotStarted`, `InitResumed` or `BindPrepare`/`BindCommit`/`BindReturn`,
  `ProcessSettles`, then `EndSkipped`, `EndRetains` or
  `EndPrepare`/`EndCommit`/`EndReturn` or `EndTimesOut`, and
  `Admit`, `AppendAnswer` or `AppendRejected`.
- Around it: `Revoke` (abort, deadline, owner), `Crash` (the plugin process dies,
  its child and its claim do not), `NativeExit`.
- Reset: `RetirePrepare`, `RetireCommit`, `DrainCompletes`, `ClearPrepare`,
  `ClearCommit`, or `ResetFails` at any point.
- External, modelled from how the code uses them: the snapshot check and the
  write of the host (`Unchanged`, `Store`), the drain (`Drained`),
  `HostRecreates` and `HostRevises`.

Abstractions. One session, so canonical identity and schema are left out. A
random UUID is named after the operation that draws it: an attempt is its own
token and the epoch it may start; a reset is the epoch it starts. A conversation
is named after the attempt whose process created it. Model and scope are one
`route`, always compared together. Malformed and legacy metadata are represented
by an envelope whose revision is not the row's. An init event of an unexpected
conversation is a process that settles without success. The drain is given the
weakest meaning that makes a reset safe: it answers when no native process of
the session runs and none is past its last fence.

### Runs

| run | instance | shows |
|---|---|---|
| `successors` | 3 attempts, 2 routes, no reset | `TypeOK`; `EnvelopeWellFormed`: no sequence of operations writes metadata the parser rejects; `ResumeMatchesRow`: a launch uses the binding the row holds now; `ResultIsLatest`: only the latest claim's settled answer goes out |
| `host` | 2 attempts, 1 reset, the host recreates and revises the row once each | `NativeExclusion`: never two native processes at once; `NoSharedConversation`; `EpochNeverReturns`; `BindingDroppedWhenQuiet` |
| `liveness` | 2 attempts, 1 reset, fair handlers | `KeepsAuthority`: the protocol implements `SessionAuthority`; `AttemptsSettle`, `ResetsSettle` |
| `transcript` | 2 attempts, 1 reset | violated: `AppendWhileCurrent` |

Bounds. Three attempts give a predecessor, its successor and a straggler whose
late commit meets both; one reset meets every step of two attempts; one
recreation and one revision put the host between any two steps. `successors` has
neither resets nor recreations, so that what these write parses as well rests on
`EnvelopesParse`. That a second
reset changes nothing is left to `AtMostOneNative`, proved for any number.
`MaxRecreations` and `MaxRevisions` are the only bounds in guards. Deadlock is
not checked: the system stops when every attempt and reset has ended.

Symmetry is used in the safety runs only. `liveness` has none.

Fairness. Weak fairness of each attempt's and each reset's own steps. Their
awaits are raced against a timer (claim allowance, process settlement,
`boundedCleanup`, the reset's budget), so a handler is not stuck in them, except
two of an attempt's (`Untimed`): the staging of the images, between the claim and
the launch (`run-attempt.ts:295`), and the append to the host transcript
(`harness.ts:171`). Neither has a timer and nothing is assumed of them, so
`AttemptsSettle` says that an attempt returns or waits in one of these two for ever.
Nothing is assumed of the native process, the host, the drain or the aborts either.

### What the violated run shows

The comment on `assertResultCurrent` asks that the host commit of an answer
invoke the fence atomically. `harness.ts` calls it just before an awaited append
to which it hands no fence, so a reset or the next claim can commit in between
and the retired generation's answer still reaches the transcript. The append
itself rejects only a rebound session id.

### Proofs

`SessionBindings_proofs` proves, for any sets of attempts, resets, routes and
revisions and any bounds, from the assumptions `ActorsDisjoint` (an attempt and a
reset draw different UUIDs) and `NoneIsNothing`:

- `TypeCorrect`: `Spec => []TypeOK`
- `EnvelopesParse`: `Spec => []EnvelopeWellFormed`
- `AtMostOneNative`: `Spec => []NativeExclusion`
- `GenerationsEnd`: `Spec => []EpochNeverReturns`
- `ConversationsAreExclusive`: `Spec => []NoSharedConversation`
- `BoundByClaimant`: `Spec => BindingWrittenByClaimant` (stated in the proofs)
- `DroppedWhenQuiet`: `Spec => BindingDroppedWhenQuiet`
- `ResumesWhatStands`: `Spec => ResumeMatchesRow`
- `LatestResultWins`: `Spec => ResultIsLatest`
- `AuthorityKept`: `Spec => KeepsAuthority`, the refinement

None is inductive alone. `IInv` adds to the first three: a claim in the row
carries the route of its attempt (`ClaimRoutes`, without which a settlement could
write a route that does not match the binding); a prepared claim or clear was
prepared on a snapshot that admits it (`Prepared`); a native process exists only
from its spawn on and a confirmed termination means it is gone (`NativePhases`);
every native process at work is covered by its own claim or by a pending
tombstone (`DrivingCovered`); and once a drain is done nothing runs under its
tombstone (`DrainHolds`). Exclusion then follows at the only step where a process
starts to drive: at its last fence it holds the row's one claim, so any other
process at work would have to hold the same one.

The other seven build on `IInv`:

- `Spent`: an epoch is drawn by one operation, once, so one that was used belongs
  to an operation that is past the draw and cannot be stored again. Every stored
  row is either a claim, which draws, or was derived from a snapshot equal to the
  row.
- `NoSharedConversation` cannot use `DrivingCovered`, which the host breaks by
  recreating the row. What survives is that a process on the conversation that
  the row names *now* is covered there (`ConversationCovered`), that names appear
  only when bound (`NamedWhenBound`) and that a standing claim has the binding it
  claimed (`ClaimStands`).
- `SnapshotStands`: as long as the generation stands in which an attempt resolved
  a binding, the row holds that binding. It needs `Spent`: a generation that
  came back with another binding would break it.
- `ResultIsLatest` adds that whoever the row names, by its claim or its settled
  attempt, claimed last (`ClaimsInOrder`), and that a lease is of a generation which
  was never pending while it stands (`LeaseStands`), in which the attempt resolved its
  binding (`SuccessorStands`) or bound its own (`BindingStands`).
- `AuthorityKept` needs all of them, together `Governed`, and one more, `Fenced`: a
  settlement about to commit was prepared on an envelope that parsed, a tombstone on
  one that was not pending already, and an answer is in the transcript only if its
  attempt is done, so it is delivered once. One lemma per step names the step of the
  authority that it is.

Liveness stays with TLC.

### The authority

`SessionAuthority` says in one page what the attempts, resets and processes of a
session may rely on, without snapshots, leases, timeouts and crashes. The session
has one generation and never one that ended; one attempt holds it; its process starts on
the conversation of the session, or on its own, when no other one works on it (nor
any other at all, unless the host threw the row away); its holder binds and releases
it; only the result that the session holds is admitted and it is delivered once; a
reset takes the session from its holder, and drops the conversation when nobody
works on it any more. `Authority` in `SessionBindings` maps the envelope's fields and
the processes to it.

| step of `SessionBindings` | step of `SessionAuthority` |
|---|---|
| `ClaimCommit` | `Claim` |
| `LaunchFence` | `Start`: the fence is where the conversation is decided, not the spawn after it |
| `NotStarted`, `NativeExit`, `Crash` before the spawn | `Exits` |
| `BindCommit`, `EndCommit` | `Bind`, `Release` |
| `Admit` | `Admit` |
| `AppendAnswer`, `AppendRejected`, `Crash` while it appends | `Deliver` |
| `RetireCommit`, `ClearCommit` | `Retire`, `Clear` |
| `HostRecreates`, `HostRevises` | the same |
| everything else | a stutter |

TLC checks the refinement on the instance without the host's own changes of the row
(`liveness`), because that with them takes too long for a regular run; the theorem
covers them.

## Native agent carrier

### Modules

- `CarrierLock`: `withCarrierLock` and `tryReclaimStaleLock`, the directory lock
  of all plugin processes. A module of its own, with its own variables, that the
  next one extends.
- `NativeAgentCarrier`: `acquire` and `release`, with the creation, the leases and
  the removal of the bundle inside the lock.
- `SharedCarrier`: what the two promise the attempts that share a carrier, with every
  lock section one step.
- `MCNativeAgentCarrier`: the symmetry set of its three configurations.
- `NativeAgentCarrier_proofs`: the invariants and the theorems.

### State and actions

`lockDir` and `lockOwner` are the lock directory and its `owner.json`, `lk[a]` is
where attempt `a` is in `withCarrierLock`. `agentDir`, `files`, `marker`,
`leaseDir` and `leases` are the agent directory, its exact files, its ownership
marker, its lease directory and lease files; `pc[a]` is where `a` is in `acquire`
or `release`; `record[a]` is the marker it keeps for the time it holds the
carrier. `dead` are the processes that died.

In the lock one action is one file system call and the code up to the next (`Unlock`
alone stands for two, the comparison of the owner file and its unlink), so the calls
of two processes interleave everywhere. `halfway` is an owner file that is open and
not written: it reads like none, and as its directory is not empty, nobody can
remove the lock of a process that died or failed there. Later calls then give up at
their deadline for as long as the directory is there.

Inside the lock several actions stand for a few calls each (`WriteFiles`,
`OpenLeases`, `RollBack`, `Inspect`, `AddLease`, `DropLease`, `Clean`, `EraseFiles`).
The lock keeps the others out meanwhile, and what a death or a failure among those
calls leaves behind is left by `RollBackFails`, `RemovalFails` or the choice of the
leases unlinked, followed by a `Crash`. With two processes inside (`carrier_race`)
that is coarser than the code: there are more interleavings than the run has.

A process dies between any two actions (`Crash`); everything it wrote stays.

Abstractions. One carrier. An attempt has a process of its own, because the
sections of attempts in one process are synchronous and never interleave. The
bundle's files are one Boolean, since nothing distinguishes which of them is
missing. The age of an ownerless lock is a choice (old enough or not), and
`Expire` the passing of the five seconds. The reuse of a dead owner's process id is
not modelled. What the disk refuses is a choice: the lock's directory or owner file
(`MkdirFails`, `OpenFails`, `WriteFails`, which leaves the file half-written), an
installation (`RollBack`), an unlink or a directory's removal in the rollback
(`RollBackFails`) or in the release (`RemovalFails`), a lease (`LeaseFails`, and any
lease that a pruning or a release meant to unlink). That it refuses to remove the
lock's owner file or its empty directory, or to sync a file that is written, is not
modelled.

### Runs

| run | instance | shows |
|---|---|---|
| `carrier_shared` | 2 processes, death anywhere, fair steps | `TypeOK`; `SectionExclusion`: one process at a time is inside; `HeldCarrierIntact`: no release or pruning takes a held carrier away; `OrderlyLeftoverUsable`: what stays behind can be used and reconciled unless somebody died inside the lock or a removal failed; `SectionsAreAtomic`: until then every section is one step of `SharedCarrier`; `CallsReturn`: acquire and release return on whatever lock a dead owner left |
| `carrier_race` | 3 processes, death anywhere | violated: `HeldCarrierIntact` |
| `carrier_leftover` | 2 processes, death anywhere | violated: `LeftoverUsable` |

Bounds. Every attempt acquires and releases once. Two give one death and its
survivor, a holder and one that arrives, or a maker of the lock and a reclaimer of
its directory before it has an owner file; a dead owner with two reclaimers takes
three, which is where exclusion fails, and only `carrier_race` has them. More processes of which none
dies inside the lock are left to the proofs. No bound is in a guard. Deadlock is not checked:
the system stops when every attempt has ended.

Fairness. `Step(a)` runs on while its process lives (weak). The five-second
deadline is looked at only in one place of the waiting loop, so `Expire` is given
strong fairness: a process that comes round again and again meets it.

### What the violated runs show

`carrier_race`: two waiters both read the owner file of the same dead process. The
faster one removes it, takes the lock and goes in. The slower one then unlinks
what is now the faster one's owner file, removes its directory and goes in as
well; a release in one erases the bundle the other is about to hold.
`tryReclaimStaleLock` does not look at the file again before it unlinks it.

`carrier_leftover`: a process that dies half way through creating or removing the
bundle, or cannot unlink one of its files there, leaves a directory that every later
`acquire` refuses and nothing removes, where a comment says a later owner can
reconcile it.

### The shared carrier

`SharedCarrier` says in one page what the manager promises the attempts that share a
carrier: a bundle appears whole, with its maker's lease; whoever joins adds a lease;
only a lease's owner, or a pruning after its owner's death, takes it away; and the
bundle disappears whole, when nobody uses it and nobody is recorded as its user. The
mapping hides the bundle while it is being made or removed (`Present`, `Owner`) and
counts as users the living attempts that acquired it and have not yet begun to release
it (`Users`).

| step of `NativeAgentCarrier` | step of `SharedCarrier` |
|---|---|
| `OpenLeases` | `Make` |
| `AddLease` | `Join` |
| `Inspect` of a bundle that is not ours | `Borrow` |
| `LeaseFails` | `Prune` |
| `Release`, `ReleaseUnowned` | `Ends` |
| `DropLease` | `Forget` (a stutter when the bundle is gone) |
| `Clean` of a bundle nobody is recorded for | `Dispose` |
| `Crash` | `Dies` |
| everything else | a stutter |

It holds as long as `Orderly` does: no process has died inside the lock
(`OrderlyDeaths`) and no removal has failed (`Unspoiled`). `SectionsAreAtomic` asks
for it step by step until then.

### Proofs

For any number of attempts:

- `LockExcludes`: `Spec => []SectionExclusion`
- `CarrierStaysIntact`: `Spec => []HeldCarrierIntact`
- `LeftoverStaysUsable`: `Spec => []OrderlyLeftoverUsable`
- `CarrierTypeCorrect`: `Spec => []TypeOK`
- `SectionsOneStep`: `Spec => SectionsAreAtomic`
- `CarrierIsShared`: `Spec /\ []Orderly => Shared!SharedSpec`, the refinement

The first two assume `~CrashInSection`: no process dies between taking the lock and
giving it up, without which `carrier_race` refutes them; a removal may fail. The
others hold without it; what they and the first two share is proved as long as the
deaths so far were orderly (`OrderlyDeaths`). The lock's invariant says that an owner
file which can be read belongs to the one living process in its section, that one
which cannot is still being written or has been given up, and that no reclaimer has
therefore decided to unlink one. The
bundle's invariant says what the bundle looks like at each place of the process inside
the lock, and that at every other moment it is absent, foreign or complete with the
leases of its holders. For the refinement this says that the process inside the lock
is the only one in the middle of a change, so that what the others see changes with
one of its calls alone; and that it decides to remove the bundle only when no living
attempt that acquired it is still to release it, for each of these has its lease there
(`Held`).

## Stream protocol

`AgyStreamEvents` holds the events that `parseAgyStreamLine` lets through and the
accumulator as operators: `Consume(acc, event)` and `Finalizes(acc)`. A line the
parser rejects is one event, `Malformed`. `AgyStream` feeds it every sequence of
events (`log` is what it was fed). Payload text and token usage are left out; a
conversation, a step index and a tool are model values.

| run | instance | shows |
|---|---|---|
| `stream` | up to five events, two conversations, steps and tools | `TypeOK`; `CompleteIffWellFormed`: the accumulator finalizes exactly the streams that a definition over the whole sequence, written without it, calls well-formed |

Five events are an acknowledgment, a step that is opened, changed and finished,
and a result, or the same with any one replaced, repeated or moved. The instance expects
a given conversation; that a fresh one completes the well-formed streams too rests on
`CompletesTheWellFormed`.

`AgyStream_proofs` proves `StreamTypes` (`Spec => []TypeOK`) and
`CompletesTheWellFormed` (`Spec => []CompleteIffWellFormed`) for streams of any
length, from the assumption that `None` is no identifier and no event. The
accumulator keeps one record per step where the definition compares every pair of
lines, so the invariant (`StreamInv`) says how the record of a step stands for all
the lines of that step: its state is that of the last one, its category that of
all, its tool the one that any of them names. A line that is refused ends no
well-formed stream. `AgyStreamEvents_proofs` holds the
lemmas on the accumulator's operators that both this and the proofs of the process
runner use.

## Native process runner

`AgyProcess` is `runBoundedProcess` with the consumer that `runAgyStreamProcess`
gives it; it extends `AgyStreamEvents`, so the lines it delivers are judged by
the same accumulator. An action is one event of the event loop, up to the next
await.

### State and actions

- The operating system: `alive`, `born`, `code`, and what was written
  to the pipes (`wrote`, `pipe`, `unended`, `warned`). A descendant is in the
  group with the pipes (`member`), in the group without them (`worker`), or out of
  the group with them (`stray`). `Native` is what the processes do, before and
  after the runner has settled.
- The child's events: `SpawnEvent`, `SpawnError`, `ExitEvent`, `ReadLine`,
  `ReadWarning`, `CloseEvent`, `StreamError`.
- Owner and clock: `Retire` (abort, deadline, owner), `OwnerCheck` (the two
  timers), `Tick`.
- The delivery pump and the observer it waits for: `PumpStep`, `ObserverActs`. The end
  of its loop (`PumpEnds`) and its `finally`, which starts it again for what was queued
  in between (`PumpSettles`), are two turns.
- `CleanupStep`: SIGTERM, SIGKILL and the count of the group. A signal that reaches a
  process is that process's `Exit`; that it is delivered is not assumed, as
  `signalGroup` swallows every error.
- `MainStep`: the awaits of the main flow from the cleanup of the group to the
  settlement, with its forced close, its drain limit and the final agreement.

Abstractions. A chunk is one line and the two limits count lines. Standard error
is one critical warning, which may be read and not seen: a chunk is cut to its last
4096 bytes before the warning is looked for. Only whether something has failed is kept. Time is the
slice of the six-second settlement allowance that has begun. A descendant that
leaves the group and closes the pipes is invisible to the runner, as
`docs/ARCHITECTURE.md:88` says, and is not modelled.

### Runs

| run | instance | shows |
|---|---|---|
| `process_run` | a descendant in the group without the pipes and one outside with them, three lines, queue of one, output limit of two | `TypeOK`; `ReturnIsWhole`: a run that returns consumed all that was ever written; `SeenIsPrefix`: a failed one has no gap; `CleanMeansGone`: the evidence is true; `QueueServed`: a queued line never waits for a pump that nobody starts; `ObserversInTurn`: nobody acts late |
| `process_settles` | a stray descendant, two lines, fair event loop | `KeepsPromise`: the run implements `NativeRun`, and once started it settles |

Bounds. A turn needs an acknowledgment and a result, so two lines are the
shortest run that returns and the third exceeds a limit; a `member` is a `worker`
and a `stray` in one, and is left to the proofs; with a queue of one the
process outruns the pump. `MaxLines` bounds the writing; `MaxQueue` and
`MaxOutput` are the code's own limits, made small. Deadlock is not checked: a run
that has settled stops.

Fairness. Weak fairness of the event loop's turns (spawn events, pump, cleanup,
main flow), of the clock, and of the owner, whose deadline is finite. Nothing is
assumed of the native processes, which may never exit, write or close, nor of the
observer but that its second passes.

### Proofs

`AgyProcess_proofs`, for any output, limits and kinds of descendant:

- `CleanIsClean`: `Spec => []CleanMeansGone`
- `QueueStaysServed`: `Spec => []QueueServed`
- `StartStaysTold`: `Spec => []StartIsTold`, a fact about the evidence that only the
  proofs use and state
- `PrefixSeen`: `Spec => []SeenIsPrefix`
- `ReturnStaysWhole`: `Spec => []ReturnIsWhole`
- `PromiseKept`: `Spec => Promise!RunSafety`, the refinement without its fairness
- `ObserversTakeTurns`: `Spec => ObserversInTurn`
- `TypesHold`: `Spec => []TypeOK`

They rest on the module's assumptions: a descendant is of one of the three kinds,
a line is an event, the limits are natural numbers, and `None` is none of the values it stands for the absence of. `GroupInv` says
that what the cleanup and the close event found out stays true: once the group
was counted out, or the pipes closed by themselves, nobody is left who could
start another process there. `ServedInv` says that
a line is queued only by a turn that starts the pump when it is idle, and that the pump
goes idle only on an empty queue or a failure. `OutputInv` says where every line is: unless
something has failed, what was written is what was consumed, then the unended
line, then the queue, then the pipe; a failure empties the queue and delivery
stops, so what was consumed stays a prefix. `ReturnInv` adds what the main flow
knows at each place, so that at the verdict the unended line, the queue and the
pipe are empty and no process is left. `PromiseInv` adds what the refinement needs:
only a process that was started writes or exits, and a line that the accumulator
refuses fails the run. `TurnInv` says that only the observer of the latest line may
act. The fairness of the promise is only model-checked.

### The promise

`NativeRun` is what the caller of `runAgyStreamProcess` may rely on, in an eighth of
the text: the run is refused, or started and then settled; lines are consumed one
after the other; a run that returns had a process, left none behind and consumed a
complete stream; the evidence says `started` exactly when a process was, and
`cleanupComplete` only when none is alive; the last process may end at any time,
after a settlement that could not confirm it too. `Promise` in `AgyProcess` maps to
it: all the places of the main flow between the spawn and the settlement are
`going`, and the evidence counts from the settlement on. A step of the event loop
that consumes a line is `TakeLine`, the last step of the main flow `RunSettles` (with
the unended last line, which it hands over in the same turn), nearly everything
else stutters.


## Attempt

### Modules

- `AttemptResult`: evidence, terminal, outcome and replay safety as operators, with
  the snapshots that an accumulator can show (`SnapshotsOf`).
- `AttemptRun`: one attempt from admission to the result its host gets, over
  `NativeRun` and `AttemptResult`.
- `MCAttemptRun`: the lines the native process may write.

### State and actions

`pc` is the await that `runAttempt` is at; `unwritten`, `dir`, `published`,
`handle` and `removal` are the staged images, their directory, whether the paths
were handed out, `cleanupImages` and `cleanupState`; `session` is the lease;
`evidence`, `snapshot` and `completed` are what the code calls so. `owner` is whether
the host still runs the attempt, `late` whether the one deadline of all cleanup has
passed, `reading` a reader of the files outside the process group, of which only the
host's `readersSettled` tells.

- `Prepare`, `StageBegins`, `StageImage`, `StageEnds`, `Launch`: admission, staging
  image by image, the last fence. Each may fail into the outer catch (`FailsEarly`).
- `NativeStep` is a step of the promised run, `Collect` its answer or its error.
- `CleanImages`, `Removed`, `NotRemoved`, `StopWaiting`: the owner's cleanup after
  the reader gate; the file system answers, or is not waited for any longer, and
  may answer later still.
- `EndLease`, `LeaseEnds`, `Settle`, `Flush`, `Deliver`: the session's settlement, the
  delivery checks and the host's own check. An answer that was successful becomes a
  failure at each of them (`Replaced`, `Undelivered`).
- `Retire`, `Expire`, `Read`: the surroundings.

Abstractions. The gates before the launch are one action that passes or fails, with
or without a claim. Media policy, base64, MIME types and signatures are one batch
that is valid or not. Text is absent, blank or words. Usage, explanations, tool
and item lists are left out. The transcript is part of `Deliver`, which may refuse
a completed answer. `Deliverable` is `assertDeliveryCurrent`; that a later claim or a
reset replaces a settled lease counts as the loss of its `owner`.

### Run

| run | instance | shows |
|---|---|---|
| `attempt` | up to two images, a stream of acknowledgment, tool, response, success and error | `TypeOK`; `ReplaySafeIsTrue`: what is called safe to replay never had a process; `NothingLeftUnsaid`: who claims a complete cleanup, or releases the session, leaves no process and no directory; `CompletedIsComplete`: a completed answer is a success whose files are gone and whose session was released; `FilesOutliveReaders`: no removal under a reader; `AttemptReturns` |

Bounds. `MaxImages` is two: one image is written when the next one fails. One step
index is enough, because of the steps only their kinds and their end are told; the
promise allows streams of any length over it, and the accumulator makes the states
finite. No bound is in a guard. Deadlock is checked (`Done` stutters).

Fairness. Everything the attempt computes or awaits under a timer is weakly fair,
and so are that timer, the settlement of a run (which `AgyProcess` implements), the
preparation (it has the invocation's deadline), and the writing and unwinding of
images and the transcript, which the code awaits without a deadline: an attempt
whose file system never answers a *write* does not return. The removal of the
files after the run and `endAttempt` need not answer.

### Proofs

`AttemptRun_proofs`, for any number of images and any lines:

- `AttemptTypeCorrect`: `Spec => []TypeOK`
- `ReplayIsSafe`: `Spec => []ReplaySafeIsTrue`
- `CleanMeansClean`: `Spec => []NothingLeftUnsaid`
- `CompletionIsComplete`: `Spec => []CompletedIsComplete`
- `FilesAreNotPulledAway`: `Spec => FilesOutliveReaders`

They rest on the promise alone, and `PromiseKept` says that it is kept. `Order` says
what has not happened yet at each place; `Evident` that the evidence doubts at least
what is in doubt (nothing after the run makes it surer than `RunInv` bears out);
`Files` that a removal begins only when nobody can come back to the files and that no
directory is left without a handle or a doubt; `Reported`, `Lease` and `Claimed`
carry evidence, session and success through the checks of the end.
`AttemptReturns` is only model-checked.

### A remark

`harness.ts:178` says of an answer that is refused at the end that native completion
already happened and must not be replayed. The same code is reached by an attempt
that failed before any process was started; its result then claims less replay
safety than it could. That errs on the safe side, and no property is about it.

## Model inventory

`Inventory` is `AgyInventoryService`, `InventoryOwner` the `AgyHostInventoryOwner`
through which the host's hooks ask, composed with it. An action is one turn of the
event loop.

### State and actions

`entries` are the authorities the service keeps and `older` their order of use (the
pairs of which the first was used longer ago); `snapshot` and `inflight` are the
cached models and the acquisition in flight of each; `stopped` is its flag. An
acquisition is named after the caller that started it: `phase` says which of its
promise callbacks comes next, `waiters` who shares it, `retired` and `outdated` why
it may no longer answer. `call`, `scope`, `live` and `answer` are the callers; `old`
and `void` are history for the properties.

- `GetRefused`, `GetRetiring`, `GetJoins`, `GetCached`, `GetStarts` are the outcomes of
  the synchronous part of `get`: refused, turned away by an acquisition that is being
  retired, joined to one in flight, answered from the cache, or starting one; the
  entry is touched, or the least recently used idle one evicted (`Touch`).
- `Start`, `Discard`, `Complete`, `Fail`, `Finish`: the callbacks of `#start`, with
  the `assertActive` that turns away callers which are not active any more.
  `Checks` is that same function called by the process runner, and `Return` the
  end of the discovery process, with models or without, even after its abort.
- `Abort`, `CallerTimer`, `AcquisitionTimer`, `SnapshotAges`, `Lapse` (a deadline
  or an owner changed and nobody has noticed), `Invalidate`, `InvalidateAll`, `Stop`.

The owner adds `generation` and `config` (the configuration last seen and how often
it changed), `observed` (the scopes it remembers, one per coordinate and configuration,
the oldest first) and `turn`: a hook
makes its scope (`MakeScope`, which turns a change of configuration into
`InvalidateAll` and a change of environment into `Invalidate` of the scope that was
replaced) and calls `get` in the same turn (`Models`). `OwnerStops` is its `stop`,
`InventoryStep` everything that happens without it, calls of attempts included.

Promise callbacks run before timers (`Quiet`), but a call, an abort or an
invalidation can come between two callbacks. Abstractions: an authority is a value
compared as a whole; configurations and environments are told apart only as equal or
not; a snapshot past its freshness counts as none; a reentrant call, which throws
before anything changes, and the kinds of the errors are left out. A caller calls
once. The owner's `invalidate` is left out: nothing calls it.

### Run

| run | instance | shows |
|---|---|---|
| `inventory` | 3 callers, each a hook of either environment and configuration at one coordinate or an attempt; capacity 2 | `OwnerTypeOK`; `NoOverlap`: one discovery per authority and no more than the capacity, though aborted ones still run (until their runner settles, which may be without its process gone); `AnswersAreCurrent`: nothing revoked, withdrawn or replaced is handed out, late completions included; `FreshIsFresh`; `NobodyStranded`; `OccupiedByRunning`: a retired acquisition frees its place; `OthersUnharmed`: one caller's abort harms no other; `WaitsForLatest`: no hook waits for models of a configuration, or of an environment of its coordinate, that was replaced |

Bounds. Three callers are one that starts an acquisition, one that joins it and one
that comes while it is ending or replaces it. Three configurations are two changes
(`MaxGenerations`, the one bound in a guard, is 3); with two
environments there are six scopes and the attempt's against a capacity of two,
which gives eviction, refusal and reuse. `MaxObserved` is the code's limit of 64,
made two: the third configuration makes the owner forget the scope of the first.
More coordinates than the owner remembers are a real exception, which
`LatestEnvironment` has as its hypothesis: the environment of a coordinate that fell
out of the list can change unnoticed. Deadlock is not checked: the system stops
when every call has returned and the service has stopped. That a call returns at
all rests on its own timer, which is always set; no liveness property is checked
here.

### Proofs

`Inventory_proofs`, for any callers, authorities and capacity:

- `TypeCorrect`: `Spec => []TypeOK`
- `DiscoveryNeverOverlaps`: `Spec => []NoOverlap`
- `PlacesAreFreed`: `Spec => []OccupiedByRunning`
- `NobodyIsStranded`: `Spec => []NobodyStranded`
- `FreshModels`: `Spec => []FreshIsFresh`
- `CurrentModels`: `Spec => AnswersAreCurrent`
- `LeavingHarmsNobody`: `Spec => OthersUnharmed`

`Core` says that the acquisitions under way are exactly those in flight, one per
authority (`Flights`), that who waits is with one of them and it is not retired
(`Waiting`), that who has not called left no trace (`Untouched`) and that what is
cached or was answered settled under its authority (`Answered`). `Places` adds the
entries: they are ordered by use, no more than the capacity, and what is in flight or
cached has one. `Revoked` says that what was revoked is not cached and that an
acquisition which was revoked under way is doomed to answer nobody.

`InventoryOwner_proofs`, for any configurations, environments, coordinates and limit:

- `OwnerUsesInventory`: `OwnerSpec => Spec`. The owner's synchronous pairs of calls
  are calls any caller could make, so each of the theorems above holds under it.
- `OwnerTypes`: `OwnerSpec => []OwnerTypeOK`
- `LatestConfiguration`: `OwnerSpec => []WaitsForConfiguration`, the half of
  `WaitsForLatest` that needs no hypothesis
- `LatestEnvironment`: `OwnerSpec => []WaitsForLatest`, if there are no more
  coordinates than `MaxObserved`

`Memory` says that a coordinate is remembered once and that the generations never
decrease along the memory. `WaitersKnown` says that every hook that waits does so for a
scope that is remembered, which is what makes the next hook of another environment
find and invalidate it. It is inductive because the oldest scope is forgotten only
from a full memory: were the oldest one of the present configuration, all would be, and
with the new one there would be more coordinates than the memory holds
(`LatestNotForgotten`).

## Only model-checked

Liveness (`AttemptsSettle`, `ResetsSettle`, `CallsReturn`, `AttemptReturns`, the
fairness of the promise) is out of the prover's reach. Every other property of a
passing run is proved.

## Not modelled

- Capability preflight and model discovery: one bounded child each, with the life
  cycle of the native process runner; the rest is output parsing.
- Invocation scope, transcript hooks: the first is an immutable record whose
  `assertActive` is the `owner` or `live` of the models; of the second only the
  append and its rejection are modelled, the rest belongs to the host.
- Context projection, model resolution, tool policy, preview, configuration and
  registration, host adapters: functions without state, or wiring.
- Texts, formatting, token usage, logs; the tools and tests of the repository.
