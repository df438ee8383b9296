# Zatiti: a TLA+ model of governed effects and the work that causes them

Zatiti is a controller for governed agents. Everything an agent does outside the
installation is an *effect*: it is staged, checked by policy and review, funded by
a reservation, admitted, claimed once, sent to a provider once, recorded, and, when
the answer is uncertain, reconciled by separately admitted reads. Effects come from
*work*: the attempts that execute a task's runs, and the turns in which a worker
answers its messages. Work begins with a *command* that a client submits under a key, or with
a *schedule* whose instant came.
This directory models that path from the command to the provider and back, checks it
with TLC on small instances and proves almost all of its safety properties with TLAPS
for instances of any size.

## 1. The system

All durable state is in one SQLite store with one writer. Each domain package is the
*owner* of its tables. An owner's handler runs inside one write transaction, together
with the calls it makes of other owners; a fault rolls all of it back. One controller
at a time holds the store, under a *generation* that grows with each lifetime, and
drives the owners from a loop and a pool of workers, with a write-ahead journal of its
own on disk.

| Part | State | Operations | What makes it correct | Module |
|---|---|---|---|---|
| `internal/accounting` | budgets, shared positions (spent, reserved, unknown, estimated, concurrency), reservations, ledger entries | activate budget changes, `_accounting.reserve`, `_accounting.settle` | positions equal the reservations behind them; no ceiling is passed; a position that carries a paid amount is not repinned to another currency; the ledger closes; every reservation can be settled | `Accounting`, `Reservation` |
| `internal/effects` | operations, attempts, one-use claims, append-only observations, obligations | prepare/propose, admit, claim, record, reconciliation prepare/record, `operation.reconcile`, restore merge | one dispatch per operation; conclusions rest on evidence and stand; uncertainty is always someone's obligation; funding agrees with the state | `Effects` |
| `internal/controller`, dispatch | busy set, backoff, worker slots, journal entries | tick (settle, reconcile, resume, admit), perform, record, deliver, start, stop | at most one provider call; the journal bounds what may have happened; every entry concludes unless its outputs are withheld | `Dispatch`, `OneShot` |
| `internal/controller`, journal | the file `dispatch.journal` | put, compact, load | what was reported durable is found again | `Journal` |
| `internal/controller`, turn work | routing indexes, open context entries | messages, claims, contexts, deliveries, replies, tool results, verification | an answer is given once and arrives; no model step is paid twice while the first is unresolved | `Turns`, `Execution` |
| `internal/execution`, `internal/tasks` | runs, attempts, leases, obligations, verification jobs; tasks; turns and proposals | enqueue, claim, heartbeat, checkpoint, report, cancel, tick, observe, fence, verify; start, revise, cancel, retry, accept; turn admit, claim, context, interpret, record | a run has one owner; a lapsed owner loses it unless ticks are refused; the step bound is shared; success is proven; a cancellation stops work | `Execution`, `Lease`, `Turns` |
| `internal/client`, `server`, `application`, `evidence` | calls and exchanges; requests; command rows | call, retry, replay, lookup; gates, begin, prepare, perform, finish, refuse | a mutation happens at most once per key, exactly when the retained disposition says so; a caller is told the truth; every call ends | `Submission` |
| `internal/messaging` | messages, mailboxes | ready, processed; send, history | a message starts or joins one turn | `Turns` (ready and processed only) |
| `internal/controller`, jobs and restore; `internal/storage`, `internal/installation` | journal entries of other kinds, generation, maintenance state | job phases, backup, store swap, merge | resumption is idempotent; a restore is paused and merged | planned |
| `internal/scheduling`, the controller's wake loop | schedules, responsibilities, wakes, occurrences, cycles | stage, activate, archive, pause, resume, list and admit wakes, `cycle.record` | an instant is decided once; the row and its wakes agree, an expression without a next instant included; a pause stands; a due wake is decided | `Scheduling` |
| `internal/reviews` | reviews and decisions | decide, delegate | a decision is for an exact digest | planned |
| `internal/policy`, `identity`, `configuration`, `connections` | grants, policies, definitions | checks | seen from here as answers that may change at any recheck | environment |
| `internal/skills`, `memory`, `artifacts`, `voice`; adapters, desktop, packaging, tools | documents, protocols, builds | parsing and I/O | out of scope | not modelled |

How they interact: effects calls accounting (reserve at admission, settle at record),
policy and reviews (recheck at admission and at claim); the controller calls effects
(pending, admit, claim, record, reconciliation prepare and record) and delivers each
recorded outcome to the owner that waits for it; configuration activates budgets and
decides which ancestors a scope charges. Execution stages a model step as an effect and
is handed its observation; tasks and execution move together in one transaction; a turn
takes its messages from messaging and sends its reply as a command of the worker. A
wake that is admitted creates and starts a task, or a responsibility's cycle.

Hard to test, and listed line by line under `hazards` in `PROJECT.json`: the gap
between a commit and the journal line that follows it, lost answers and their retries,
displaced workers, late and contradictory evidence, shared counters settled in any
order, scopes that move between reserve and settle, torn and unlinked journal files,
operations that nobody visits again, leases that lapse while a controller restarts,
cancellations recorded between two steps of another actor, verdicts and model outputs
that arrive after the work moved on, answers that are decided and not yet sent,
replays that meet their own original, a transaction of two halves of which the second
is refused, outputs that cannot be published, and schedules that are paused or changed
while their instants are being decided or whose instants end.

## 2. Modules

`Reservation` (no state) is what one settlement does to one reservation row:
`SettleApplies` and `SettleReplays` are the conditions of `handleSettle`,
`SettledState`, `SettleDeltas` and `ReleasedEntry` its four transitions in terms of the
row, the positions and the ledger. `Accounting` and `Effects` both use it.

`Accounting` keeps `budget`, `pos`, `resv` and `ledger`, the four tables, plus
`chain`, the ancestors configuration resolves a scope to. `Reserve` is
`handleReserve` with `chargeLevel` for every level of the chain and the root;
`Settle` is `handleSettle`; `BudgetCreate`, `BudgetUpdate` and `BudgetArchive` are the
changes `applyBudgetChange` applies; `Reconfigure` is the environment. `granted` and
`overrun` are history: the largest ceilings admissions met at a level and by how much
reports exceeded what was held. Only the spend and concurrency caps are in the
model: the other caps do not depend on positions. A cap that is absent is `NoCap`.

`Effects` has one action per handler and outcome: `Stage`, `Admit`, `AdmitRefuses`,
`Claim`, `RecordFresh`, `RecordSuccessor`, `RecordCorrection`, `RecordDispute`,
`ReconciliationPrepare`, `Reconcile`, `ReconciliationRecord`, `RestoreMerge`. Refusals
(budget, authority, stale versions, expired claims, changed connections) are steps that
are not taken; since an action may always fail to happen, each may be refused at any
time. A claim is the flag `consumed` of its attempt. The state `cancelled` exists in
the code and is never assigned, so it is left out. `LateUnknown` says whether a
caller may report *unknown* against evidence the attempt already carries. The handler
accepts it; a later record then treats that unknown as open and may replace a
conclusion. `MCEffects.cfg` excludes it (the owner alone does not keep
`ConclusionsStand` against such a caller); `Dispatch`, where the controller is the
caller, sets it to TRUE and shows that the conclusions stand all the same.

`Dispatch` extends `Effects` with the controller. `mem` and `disk` are the journal as
the process and as a successor see it, `run` the next step of an entry, `held` the busy
set, `pass` and `visit` the position of the loop in its tick, `orphan` the calls of
displaced workers. A call of the owner and the journal line that follows it are one
action with the outcomes: both happened; the call committed and the line failed, with
the line on disk or not; the answer was lost, with the call committed or not; the
owner refused. Before the owner is told, outputs are published; without a blob store,
or while the publication fails, the worker lets go of the entry as it is (`Withheld`), to
be visited again. `Takeover` is a crash or a displacement and the start of the next
lifetime.

`OneShot` is the abstract promise: per operation at most one `Send`, none after the
verdict *unsent*, and a verdict is final. `Dispatch` implements it under the mapping
`Verdict` (denied, expired or released is *unsent*).

`Journal` is the file: inodes with written and synced lengths, the directory entry as
the system and as a power loss see it, `put`, `compact`, process death, power loss and
load. An entry is the number of its phase. Ids are fresh (`contract.NewID`) and an entry
the journal holds as finished is never resumed, which is what `Puttable` says.

`Execution` is one task with its `run`s, `att`empts and verification jobs. One action is
one handler, both owners included: `admitAttempt` (`run.claim` and the controller's own
claim), `handleAttemptHeartbeat`, `handleAttemptCheckpoint`, `reportAttempt`,
`handleRunCancel`, `handleAttemptCancel`, `handleTick`, `handleObservation`,
`handleFence`, `handleVerificationClaim`, `handleVerificationRecord`, and `startTask`,
`reviseContract`, `requestCancellation`, `retryTask`, `manualAcceptance` of the task.
`ctl` is the controller: its start advances the generation first and fences later, and
workers' calls are served in between. A tick is one transaction of two halves, the
fences of what lapsed and the admission of one effect per attempt that is ready for it:
when an admission fails, of this task or of any other, the fences are rolled back too
(`refusedTick`), and the history variable `refused` says that the last tick ended so.
Time is the number of clock steps left of each lease and of the root deadline. `Lease` is
the abstract promise (a run has one holder; one that lost it never holds again), which
`Execution` implements with attempts for holders.

`Submission` is one submission key: `call` is the client (connection attempts,
exchanges, identical replays, lookup, final submission), `req` the requests at the
server, which outlive their connection, `cmd` the retained command. `Begin` is the
gates and `command.begin` with the handler of a plain mutation in one transaction;
`Perform`, `Finish` and `RefuseFinish` are the later phases of a local IO mutation;
`RecordRefusal` is the separate transaction that retains a refusal. A plain handler and
the finish of a local IO mutation retain *completed* or *accepted*, as their payload
says: export, backup and restore finish as *accepted* with a job, which is final, while
the *accepted* that `command.begin` left for local IO is pending. `Committed` tells the
two apart.

`Turns` is the decision stream of one hosted worker in a conversation. `turn` and `op`
are the owners' rows (an effect with the dispatch or proposal row that waits for it),
`tick` is where the controller's loop is, `info` its routing index with the version last
seen of each turn, `plan` the open context entries. A tick admits messages, resumes
staged contexts (`ContextCommit`), scans (`Scan`), handles the item it found (`Claim`,
`ContextPrepare`, `DeliverReply`) and dispatches. `Deliver` hands an observation to
the owner its admission named (`RouteOf`); `Drive` is what the same worker then does
with the proposals. An effect here is what `Effects` and `Dispatch` establish: sent at
most once, observed once, delivered until answered.

`Scheduling` keeps `src` (a schedule's or a responsibility's row with the definition it
has), `wakes`, `occ` and `cycles`, the tables of `internal/scheduling`, `drafts`, the
staged changes that have not been applied, and `listed`, what is left of the list of due
wakes the controller read. `Stage`, `Activate` and `Refuse` are the two ends of a
configuration change, `Pause` and `Resume` the immediate operations, `ListDue`,
`SkipWake`, `AdmitSchedule` and `AdmitResponsibility` the loop with `wakeAdmit`,
`PeerFault` a task that tasks or execution refuses, `Stop` a controller that ends in the
middle of its list, `RecordCycle` is `cycle.record`. A cron expression is the set of its
instants, which may have gaps and may end; `NextAfter` looks `Horizon` steps ahead and may
find none. An activation then arms nothing (staging only warns), an admission leaves the
schedule active without a wake, and a resume is refused. `Missed` is what
`instantsBetween` returns, at most `MaxInstants` instants within `MaxScan`. The clock
only moves forward; what a staged change carries is chosen when it is applied, since
nothing reads it before. `since` is history: when a wake set was last rebuilt.

`MCAccounting`, `MCEffects` and `MCDispatch` give the constants values for TLC;
`AccountingProofs`, `EffectsProofs`, `DispatchProofs`, `SubmissionProofs`,
`ExecutionProofs`, `SchedulingProofs`, `JournalProofs` and `TurnsProofs` extend the
modules they are named after and hold the theorems.

## 3. Runs

| Run | Shows | Distinct states |
|---|---|---|
| `accounting` | `TypeOK`, `SlotsBalance`, `PositionsBalance`, `ExposureWithinCeiling`, `SlotsWithinCeiling`, `CurrencyPinned`, `LedgerCloses`, `SettlementNeverStuck`, `TerminalFrozen` | 479,566 |
| `effects` | `ETypeOK`, `OneDispatch`, `ReleasedNeverClaimed`, `ConclusionsProven`, `ObligationsMatchState`, `ConcludedSettles`, `PaidUncertaintyRetains`, `ConclusionsStand` | 1,271,980 |
| `dispatch` | `ReadsOnce`, `PhaseBounds`, `ImplementsOneShot`, `EntriesConclude` | 361,798 |
| `journal` | `NothingForgotten` | 358,535 |
| `execution` | `SuccessIsProven`, `StepsShared`, `ReadyIsQueued`, `StaleAreFenced`, `IntentStopsWork`, `RunsAreLeased`, `LapsedIsFenced` | 956,832 |
| `submission` | `AppliedOnce`, `ToldIsTrue`, `DispositionStands`, `CallEnds` | 700,538 |
| `turns` | `AnswerIsFinal`, `NoSecondDispatch`, `AnswersArrive` | 259,024 |
| `scheduling` | `InstantsOnce`, `NextWakeTrue`, `PauseStands`, `DueIsDecided` | 458,593 |

`JTypeOK`, `XTypeOK`, `STypeOK` and `DTypeOK` are the types of the state of their
modules; they are proved and no run lists them.

Four runs are expected to be violated; each states a sentence of the repository that
the code does not keep:

- `dispatch_review` (`ReviewedIsTried`): `_effects.pending` "lists the operations the
  controller must act on: staged operations awaiting admission"
  (`effects/handlers.go:1905`). Its query omits `awaiting_review`, so an approved
  operation is never admitted by the controller.
- `journal_compact` (`PutIsDurable`): put "returns only after the line is synced"
  (`controller/journal.go:375`). After a compaction that fails between its rename and
  the reopening, lines go to an unlinked file.
- `execution_restart` (`RunningMeansLive`): returning the task to waiting "keeps
  "running" meaning a live attempt, so recovery can admit a fresh generation"
  (`execution/controller_ops.go:490`). The tick's fence does that; the fence of a
  restarted controller moves only the run, so the task stays running and every
  replacement attempt is refused.
- `scheduling_catchup` (`CatchUpRuns`): "the coalesce policy admits additionally the
  newest instant inside the catch-up window, and every other additional instant is recorded
  skipped" (`scheduling/wake.go:233`). `instantsBetween` returns the oldest thousand
  instants, so after a longer pause the newest ones are neither admitted nor skipped.

Met while modelling, each without a run of its own:

- "Position currency is pinned by the first reservation that creates the row; later
  currency mismatches fail closed" (`accounting/migrations.go:17`) does not hold for a
  position pinned to `XXX`: it lets a reservation of any currency through
  (`reserve_ops.go:268`) and is repinned only while it is empty (`store.go:96`), but
  `handleSettle` accepts usage in `XXX` that is not zero. After such a report the
  position adds up two currencies, as TLC shows on the instance of `accounting`;
  `CurrencyPinned` states what is left.
- A reconciliation read reserves under the operation's own id. For a zero-cost operation
  accounting replays the operation's reservation, and the first inconclusive read settles
  it. A paid operation conflicts instead, so its reads are refused and it keeps its
  reservation (`PaidUncertaintyRetains`).
- The effect an observation prepares for the next model step of an attempt has the
  attempt's id as its source id (`execution/controller_ops.go:429`), as the first had, and
  `effects.prepare` refuses a second proposal of the same source
  (`effects/handlers.go:401`). The observation is then rolled back. `Execution` lets
  the step through, so its runs with two steps go beyond what the composed program does.
- The gates run before the replay lookup, so a replay that is refused for a reason that
  arose later ends the call with that fault although the lost first exchange committed.
- The due list is the oldest hundred wakes, and a wake whose source is paused or over its
  limit stays on it: a hundred of those keep every later wake from being listed.
  `DueIsDecided` holds for lists that hold all due wakes.
- Nothing in the repository starts a turn for a responsibility's cycle, so `cycle.record`
  has no caller in the controller and a responsibility fires once each time it is armed.
- An update of a schedule drops the pending wake even when it is overdue; the instants up
  to the update then have no occurrence, not even a skipped one.
- A schedule whose expression has no instant within the horizon stays active without a
  wake, and only an update or a resume looks again (`NextWakeTrue` names the case).
- Were the clock to step back between two versions of a schedule, the second could decide
  an instant the first had decided: the occurrence key contains the version.

Bounds, all in the `.cfg` files:

- `accounting`: three operations, so that two can be live at the ceiling of two slots
  while a third is refused or settled; one scope that moves between two organizations,
  one of them with a ceiling of one slot and a currency of its own; requests of zero
  in no currency and of two units in either of two under budgets of two and three, so that
  exposure meets and just misses the ceiling; reports below, at and above the bound,
  unknown and advisory, also for a reservation in `XXX`; two changes per budget.
  Operations are symmetric.
- `effects`: one operation, because operations share nothing but the generation, free
  or paid; a dispatch and two reads, four observations of which one may be a dispute,
  and two generations: enough for a dispute after a correction after an inconclusive
  read. Its runs have no deadlock check, since an operation may end for good.
- `dispatch`: one operation with a dispatch and a read, one injected failure and three
  lifetimes, so that a failure can hit a recovery and a second takeover can follow it.
  Adapters report nothing charged, while what the controller reports by itself leaves
  the bound unknown; other reports are the business of `effects` and `accounting`.
  A correction by `_effects.record` does not occur here, only in `effects`: the
  controller records one observation per dispatch attempt.
- `journal`: two entries with one open phase before the finished one, two compactions and
  two faults, so that a torn line, a failed compaction and a power loss can meet. An
  instance with two open phases was checked as well (11,972,439 states).
- `execution`: two runs (the first and one a retry or a revision enqueues), two attempts
  (an owner and its replacement), two model steps, a lease of one clock step, a deadline
  of two, two generations, and both acceptance modes.
- `submission`: two callers with the same or different inputs, plain and local IO
  operations, two connection attempts, one replay, three exchanges that leave in all and
  one crash: an original, its replay and a stranger's request can meet at the server in
  any order, before and after the crash.
- `turns`: one turn with two model steps and a second message that joins it, three
  effects (two model steps and a tool, or three model steps), two lifetimes and two
  faults. Instances with three steps, four effects and three lifetimes, and with three
  faults, were checked for the safety properties with the same result.
- `scheduling`: one schedule and one responsibility, two expressions, one with an instant
  at each of four clock steps and one with a gap, which the horizon of two does not reach
  across, and both with an end; a catch-up window of one, enumerations of at most two
  instants and two steps, so that an outage can exceed them; three changes of any source
  in all (a create, a pause and a resume, update or archive around it), one staged
  change that may wait across them, one peer fault or stop. `scheduling_catchup` has one
  schedule that fires at each step, and enumerations that only the count limits.

In `execution`, `submission`, `turns` and `scheduling` nothing is left to do once the
bounds are used up, and a finished task, call or turn is an end: they do not check for
deadlock.

Fairness is assumed in five specifications. `DSpec`: weak fairness of the loop, which
ticks until it is stopped (`Run`), and of each worker, whose adapter call has a deadline and whose panic
and error become an observation (`perform`, `observe`). Nothing is assumed of callers,
reviewers, failures or takeovers; failures are bounded, so retries eventually get
through. Publication is the exception, since nothing bounds how often it fails:
`EntriesConclude` assumes of each entry that a delivery which is tried again and again
goes through at some point (strong fairness of `Delivered`, in the property); without it
the property is violated, by an entry whose outputs are withheld for ever. `XSpec`: weak
fairness of the controller's tick as long as the last one was not refused, of its restart
and of its fence, without which it does not start; none of workers, callers or
verifiers. Nothing bounds how often a tick is refused, so `LapsedIsFenced` says that a
lapsed attempt is fenced or a tick is refused.
`SSpec`: weak fairness of each caller, whose connection attempts, exchanges and lookup
have timeouts; none of the server or the network. `TSpec`: weak fairness of the loop's
turn work and of each worker that holds a delivery; none of providers, dispatch,
messages or restarts. `Spec` of `Scheduling`: weak fairness of reading the due list and of
delivering the next wake of it, which every tick does; peer faults and stops are bounded,
and none is assumed of operators or of the clock.

Each property of a passing run has a mutant in `PROJECT.json`: an operator next to the
definition it replaces (`ChargeableOffByOne`, `TakeoverResumes`, `OnwardUnlessSkipped`, ...)
that makes TLC find the property violated.

## 4. Proofs

TLAPS proves the theorems below for every value of the constants that satisfies the
module's named assumption. The assumptions are types, positive bounds, and

- `ConstantsAssumption` (`Accounting`): the set of operations is finite, every chain
  contains the installation and no root task, `XXX` is a currency code and the marker of
  an unwritten position is not;
- `JournalAssumption`: the set of ids is finite and the mark of a torn line is not an id;
- `SchedulingAssumption`: schedules and responsibilities are disjoint, there is an
  expression, and expressions are sets of naturals, otherwise arbitrary.

The theorems on evidence of `Effects` have a further hypothesis, `LateUnknown = FALSE`:
they are about callers that do not report *unknown* against evidence an attempt already
carries (section 2).

| Theorem | Property | Argument |
|---|---|---|
| `AccountingTypes` | `TypeOK` | inductive; counters stay natural because `applyPositionDeltas` checks them |
| `TerminalStays` | `TerminalFrozen` | neither reserve nor settle applies to a terminal row |
| `SlotsAreLiveReservations` | `SlotsBalance` | inductive with `TypeOK`: a reserve adds one row to the set of live reservations of each level it charges, a settlement removes one or, to *unknown*, none |
| `PositionsAreSums` | `PositionsBalance` | inductive with `TypeOK`: a step changes the share of one operation in each position it touches, and the counter by the difference (`ShareMoves`) |
| `SettlementsGoThrough` | `SettlementNeverStuck` | from `PositionsBalance` and `SlotsBalance`: what a row holds is a summand of its positions, so no delta makes a counter negative |
| `ExposureBounded`, `SlotsBounded` | `ExposureWithinCeiling`, `SlotsWithinCeiling` | inductive with `TypeOK`: `chargeLevel` bounds the sum it writes, a settlement adds at most its excess |
| `CurrenciesArePinned` | `CurrencyPinned` | `PinInv`, from `PositionsBalance`: a position that carries a share of a paid row is not empty, since its amounts are sums of shares, and `ensurePosition` repins only an empty one. Needs that a paid row always carries one while it is live (`RetainsInv`: an unknown row retains something) |
| `LedgerIsClosed` | `LedgerCloses` | `BooksInv`: what the ledger shows of a row that is absent, reserved or unknown |
| `EffectsTypes`, `AtMostOneDispatch`, `ReleasedIsUnsent` | `ETypeOK`, `OneDispatch`, `ReleasedNeverClaimed` | `IndInv`, below |
| `ConclusionsHaveEvidence`, `ObligationsAgree`, `ConclusionsSettle`, `PaidUncertaintyIsHeld` | `ConclusionsProven`, `ObligationsMatchState`, `ConcludedSettles`, `PaidUncertaintyRetains` | `EvInv`, below |
| `ConclusionsAreFinal` | `ConclusionsStand` | action property, from `EvInv` |
| `DispatchTypes`, `ReadsHappenOnce`, `PhasesAreBounds` | `DTypeOK`, `ReadsOnce`, `PhaseBounds` | `DInv`, below |
| `DispatchIsOneShot` | `ImplementsOneShot` | refinement of `OneShot`, from `DInv`: an adapter call is a `Send`, a step of the owner that concludes is a verdict, all other steps stutter |
| `SubmissionTypes`, `CommitsOnce`, `CallersAreToldTheTruth` | `STypeOK`, `AppliedOnce`, `ToldIsTrue` | `SInv`: what a request at a given stage knows of the command, that at most one request has accepted it and not finished (`OneBusy`), and how a call's count of exchanges bounds what it may have been told. `AppliedOnce` is about *completed* and every final *accepted* |
| `DispositionsStand` | `DispositionStands` | action property, from `SInv`: only the pending disposition of local IO is replaced, by whichever status its finish has |
| `ExecutionTypes`, `NoStaleAttempt`, `SuccessStaysProven`, `ReadyTasksAreQueued`, `StepBoundIsShared` | `XTypeOK`, `StaleAreFenced`, `SuccessIsProven`, `ReadyIsQueued`, `StepsShared` | `XInv`: the states of task, run and attempts allow each other, one live attempt per run (`OneLive`), and an effect in flight fits under the bound |
| `IntentHolds` | `IntentStopsWork` | action property, from `XInv`, one lemma per handler |
| `AttemptsAreLeases` | `RunsAreLeased` | refinement of `Lease`: the holder of a run is its live attempt, unique by `OneLive`; an attempt leaves the live states once |
| `NextWakeStaysTrue`, `InstantsDecidedOnce` | `NextWakeTrue`, `InstantsOnce` | `CInv`: what a row's definition, its `next`, its pending wake and its occurrences say of each other, and that no occurrence lies in the future of the version that decided it. An active schedule without a wake has a time at which `NextAfter` found nothing; an instant that passed without an occurrence lay beyond the enumeration of the one admission that passed it (`LostToCap`) |
| `PausesStand` | `PauseStands` | action property: a draft that would undo the pause carries a version the pause has passed |
| `JournalTypes`, `PhasesSurvive` | `JTypeOK`, `NothingForgotten` | `JInv`: every prefix of the named and of the durably linked file that may survive holds at least what was acknowledged, and finished ids are not used again |
| `RepliesAreFinal` | `AnswerIsFinal` | `TInv`: per turn, what its state says of its last step, of the versions the loop and the plan hold, and of the one worker that may still drive it |
| `StepsGoAlone` | `NoSecondDispatch` | action property, from `TInv`: a plan that is still current has seen every effect of its turn |

`IndInv` adds to the three properties what links an operation's state to its rows
(`OperationInv`: a staged operation has no attempts, without attempts there is no
reservation, a ready operation's reservation is reserved) and what links an attempt's
columns (`AttemptInv`: kind and state agree, a read's target is a dispatch attempt, a
consumed claim shows in the state, a recorded attempt has an observation). Without
the first, nothing excludes a second admission or a claim after a release; without the
last, a recorded attempt could be recorded again as unsent. `EvInv` adds what the
observations say: an attempt's known answer is not followed by an unknown one, and one
that has only unknown answers leaves its operation unknown (`Corrigible`), an operation
that was not recorded yet has none (`Unobserved`), which obligation an uncertain operation has (`Owed`),
what its reservation is (`Funded`), and `ConclusionsProven` itself (`Proven`).

`DInv` is about controllers and owner together. It contains `IndInv`, which the owner
keeps whatever its caller does, and adds for each entry of the journal what the owner
must hold if its last line is the one in memory or the one on disk (`LineInv`, for both
copies, since either may be what the next lifetime reads), which phase the next step of
a worker relies on (`StepInv`), and who may still call the adapter (`CallInv`): whoever
is about to, a displaced worker included, holds a consumed claim, is alone, and the
first. For each operation it adds that what the loop found staged still is when it comes
to it (`VisitInv`) and that one given up before its admission has no attempts
(`OwnerInv`). The last clause of `LineInv` makes late evidence harmless: where the owner
holds an *unknown* of the dispatch, every line a controller can read of it holds the same
*unknown*, so nobody has another answer left to report for that attempt. That is why
`DispatchIsOneShot` needs no hypothesis on `LateUnknown`. `DInv` was checked with TLC on
the run's instance and on one with more attempts and faults (2,513,392 states).

One lemma per handler shows that it preserves the invariant, in each of these proofs.
Each inductive invariant was checked with TLC on the run's instance, `TInv` on two larger
ones too, before it was proved.

Sums over operations, the last line of an entry in a file, and the bound on a count of
instants would be proved by induction; here they are proved from the least
counterexample, an element of a set of naturals, with `WFMin`.

The proof of `NothingForgotten` failed at first, and for a reason: `put` in an earlier
model could begin an id again after its finished line, which loses the property with two
or more open phases and which the code, whose ids are fresh, does not do. `Puttable` now
says so.

Only model-checked: the liveness properties `EntriesConclude`, `LapsedIsFenced`,
`CallEnds`, `AnswersArrive` and `DueIsDecided`, since fairness is out of the prover's
reach. The four expected violations are TLC's alone.

## 5. What is left out

- Money is a natural number. The code faults on int64 overflow, which is a refusal.
- Digests, canonical JSON, credentials and times. Expiry is a refusal that may happen
  at any time; observations are ordered by commit, while the code orders them by the
  recorded time.
- The page size of `_effects.pending`, backoff and the number of worker slots, which
  only postpone a visit.
- `operation.reconcile` prepares a read that the controller never claims; the model
  has the read and its obligation, not the job that reports it.
- The `Unacked` mark of a delivery, and which outputs are published: a delivery ends
  done or refused, is repeated, or is put off because its outputs are withheld. In
  `Turns` a repeated delivery finds its row taken;
  whether the controller then reports it done or refused changes no owner's state.
- A record repeated because its answer was lost, after a reconciliation read corrected
  the attempt, is filed by the owner as a dispute, although `controller/settle.go:164`
  calls the repetition a replay. The model has it (`RecordDispute`); conclusions and
  reservation are not harmed.
- A first journal line of a fresh entry that failed and yet reached the disk is replaced
  by the next entry of the same operation, where the code would keep both under
  different ids; the earlier one can only be an `admitting` line, which settles without
  an adapter call.
- Linked proposals and the connection validation that a record writes through.
- `Execution` has one task. Dependencies, required children, artifacts, budgets, pause
  gates and policy only refuse; delegation is not modelled. The limits of a tick and of
  concurrent attempts hold an admission back, which the model allows at any time. A lease that lapses with
  a model effect in flight is replaced without waiting for the effect, as in the code. A
  verification that a dead controller had claimed is never listed again, and the model
  has no step that resumes it.
- `Turns` has conversation turns only: no turn bound to a task's attempt or to a
  responsibility (`report_outputs`, `cycle_decision`), no `prepare_session`, no local
  operation besides the reply, no worker without a hosted model tool, no pause gate
  (a step that is not taken) and no two proposals with one id. Three things the
  model shows and no property excludes: a failed read of the pending effects counts none
  as outstanding (`outstandingTurnEffects`), so a resumed turn may dispatch a second
  model step; a tool's result is recorded only if a scan refreshed the index between
  the observation and the drive, and is otherwise refused as stale; a reply that came
  together with a tool call may be overtaken by the tool's result. A turn whose context
  entry was lost stays `context_pending`, which no scan lists, until a restart.
- `Scheduling` has no cron syntax, time zones or daylight saving (an expression is
  its instants, and the horizon and the scan are counted in clock steps), no limits on names and
  payloads, and not the task a wake creates, only whether its creation was refused.
  Budgets of a responsibility are a number of cycles.
- Jobs, restore, reviews and delegation are not modelled yet. Skills,
  memory, artifacts and voice are parsing and I/O around jobs; policy and identity
  reach the models as answers. They are most of the repository's lines, so the map
  covers a small share of them.

## 6. Plan

Done: `Reservation`, `Accounting`, `Effects`, `Dispatch`, `OneShot`, `Journal`,
`Execution`, `Lease`, `Submission`, `Turns`, `Scheduling` and the theorems above. In order of
importance, next are

1. `Restore`: backup, store swap, overlay merge, and the controller's restore phases
   over the crash points of the journal; then jobs.
2. `Reviews` with delegation: immutable decisions for exact digests, delegation that
   only narrows.
3. The task a wake creates, composed with `Execution`.
