# GrokPtah orchestration core: a TLA+ verification project

This directory models the part of GrokPtah that decides what happens to durable
work: the orchestration store and service of
`crates/codegen/grokptah-agent-bridge` and the components around it. Every
definition is a translation of Rust code; `PROJECT.json` (`map`) gives the lines.
Below, *O* stands for
`src/crates/codegen/grokptah-agent-bridge/src/orchestration` and *B* for its parent.

* [The system](#the-system)
* [Modules](#modules)
* [Runs](#runs)
* [Proofs](#proofs)
* [Where the code and its documents disagree](#where-the-code-and-its-documents-disagree)
* [What is not modelled](#what-is-not-modelled)
* [Plan](#plan)

## The system

GrokPtah is a fork of a coding agent (shell, pager, tools: the `xai-grok-*`
crates, left aside here) with its own host: the *agent bridge*. One process owns
a home directory through an instance lock. In it, an orchestration service
answers tool calls of coordinators, workers and operators, and an orchestration
store keeps everything durable as JSON files, each written atomically (temporary
file, sync, rename), under one mutex.

| component | state | operations | interacts with |
|---|---|---|---|
| Work ledger (*O*/store.rs, workload.rs, graph.rs, worker.rs) | WorkItems, WorkAttempts with leases | create, claim, renew, link run, progress, park, release, complete, fail, assign/offer/accept/decline/reassign, reprioritize, authorize, block/unblock, review, retry, approve, cancel | called by the service; swept by the supervisor |
| Supervisor (*O*/supervisor.rs) | a thread, its interval | `reconcile_workloads_at`, due routines | takes the store lock for a whole pass |
| Intents and receipts (*O*/store.rs, service.rs) | `work-intents/`, `work-lifecycle-intents/`, `work-decisions/`, `idempotency/v2/`, admission flag | persist, preflight, commit, clear, replay at open; claim, complete, fail, prune receipts | every ledger write goes through it; every mutating tool call is bracketed by it |
| Runs and agents (*O*/store.rs, service.rs, continuation.rs) | Run and Agent records, activation intents, finalizations | start, promote, update, finalize, interrupt | attempts link to Runs; receipts are kept for active Runs |
| Managed execution (*O*/managed.rs, *B*/managed_provider.rs) | managed intents, finalization journal | admit, claim, run, finalize, abandon | drives the ledger and Runs without an external worker |
| Routines (*O*/routine.rs) | routines, activations, dedupe records, fire intents | fire due, activate, back off, open circuit | creates WorkItems |
| Manager plans (*O*/manager.rs) | plans and their items | propose, approve, materialise | creates WorkItems with dependencies |
| Messages (*O*/message.rs) | messages, a sequence file | send, acknowledge, prune | addressed to agents and items |
| Verified change apply (*B*/verified_change.rs, run_promotion.rs) | apply and discard claims | verify, apply, discard | git worktrees; moves items |
| Host runtime and lock (*B*/host_runtime.rs, instance_lock.rs) | phase, task tracker, write seal, lock | begin write, quiesce, seal, join, release or quarantine | every durable write of every component asks it for a lease |
| Host authority (`xai-host-authority`) | attempts to send, leases, generations, audit log | begin, admit, settle, recover, reconcile a provider send | provider transport |
| Event bus (*B*/event_bus.rs) | ring, journal, sequence reservation, gap | publish, replay, subscribe | all components publish |
| Prompt queue (*B*/prompt_queue.rs) | queued, steering and in-delivery entries | add, steer, drain, defer, recover, take | sessions |
| Circuit breaker (`xai-circuit-breaker`) | atomics, sliding window | check, record, trip, probe | provider calls |
| Computer use (*B*/computer_use) | grants, sessions | request, decide, act | platform calls |

What is hard about it, and what makes each part correct:

* *Ledger.* Workers are outside processes that may stop, come back late or report
  twice; operators, ticks and workers interleave at will; time passes between any
  two calls. Correct means: one worker at a time may act on an item; a late
  report changes nothing; an attempt number is used once; success has the evidence its
  policy asks for; cancellation and closed attempts are final; a matching
  revision means nothing changed; holds stand, derived waits end; dead workers
  lose their attempts and deadlines take effect.
* *Intents and receipts.* A mutation is several file writes, and the process may
  die between any two, also while it recovers from the last time. Correct means:
  to every later reader the mutation and the answer recorded for its request
  happened together or not at all; the store can always be opened again;
  a retried request never runs twice while its record is kept, and is not
  answered "failed" for an effect that took place.
* *Runs.* Submitted Runs, desktop turns and cancellations meet in lanes, queue and Agents; activation and
  finalization are several files each. One Run at a time is active under an Agent; an outcome is final; a
  cancellation that answers "removed" prevented the turn; admissions and Agents are given back, over crashes too.
* *Managed execution.* The finalization journal applies an outcome once.
* *Routines.* Ticks, manual fires, lifecycle changes and crashes meet in one record. An occurrence makes at most one
  WorkItem; recovery never rolls work back; the slots that a missed-run policy owes are activated; the schedule moves on; limits hold.
* *Host runtime.* Shutdown is an async function that may be dropped at any await while tasks, servers, writer threads and
  handles go on. The lock is free only when no durable write can still happen and nothing taken was left
  unwritten; shutdown concludes whatever does not cooperate.
* *Host authority.* No send without a current capability; nothing ambiguous is
  sent again; recovery never calls a send failed that may have reached the wire; an
  operator's decision is final.
* *Prompt queue, messages, event bus, breaker.* No entry lost or delivered
  twice unannounced; sequence numbers grow; a gap is reported; one probe at a time.

`PROJECT.json` lists these hazards one by one, with the line where each bites and
the properties that watch over it.

## Modules

| module | what it is |
|---|---|
| `WorkLedger` | the ledger: items, attempts, leases, waits, holds, the reconciliation pass |
| `MCWorkLedger` | dependency graphs for TLC |
| `WorkLedgerProofs` | the inductive invariant of the ledger and thirteen theorems |
| `AtomicLedger` | abstract specification: a mutation and the answer of its request are one step |
| `WorkIntents` | the store as written: intents, files, receipts, crashes, replay, I/O errors |
| `MCWorkIntents` | symmetry for TLC |
| `WorkIntentsProofs` | the inductive invariant of the commit protocol, and `WorkIntents` implements `AtomicLedger` |
| `Routines` | a schedule that turns occurrences into WorkItems, file by file |
| `RunLifecycle` | Runs, their Agents, lanes, the queue, turns, cancellation, activation and finalization file by file |
| `HostRuntime` | who may write the home: admission, durable writes, writer threads, ordered shutdown, the lock |
| `HostAuthority` | who may make one physical send to a provider, and what the host may later say of it |
| `MCRoutines`, `MCRunLifecycle`, `MCHostRuntime`, `MCHostAuthority` | instances of the four for TLC |
| `WorkFaultsProofs` | what of `WorkIntents` survives a failing file system |
| `RoutinesProofs`, `RunLifecycleProofs`, `HostRuntimeProofs`, `HostAuthorityProofs` | the inductive invariants of the four, and their safety and action properties |

`WorkLedger` and `WorkIntents` meet at `commit_lifecycle_with_request_unlocked`: `WorkLedger` takes the
commit of an operation as one step and says what it does to the records;
`WorkIntents` takes the records as opaque contents and says how a commit gets to
disk. That the first may do so is what the refinement of `AtomicLedger` shows. `Routines` creates WorkItems and
sees of the ledger only whether they are as created, changed or terminal; `RunLifecycle` is what an attempt links to.
`HostRuntime` is under all of them: a file write of any other module is one `BeginDurableWrite` there.

### WorkLedger

*State.* `items[w]` is the WorkItem (state, block provenance and reason, assignment,
attempt count, approval), `attempts[w][n]` attempt number *n* (state, lease,
whether a Run is linked). `Absent` stands for a file that does not exist.
`sweep` is the part of a reconciliation pass that is still to be done,
`overdue` the items whose deadline is past, `observed[o][w]` the item as an
operator read it, dropped as soon as its revision is bumped.

*Actions.* One per public operation of the store: each runs under the store's
lock and, by the refinement above, commits atomically. The refresh of an item
that the code does at the beginning of a claim is part of the claim, and is committed even when
the claim is then refused (`RefuseClaim`). The reconciliation pass is the one operation
that commits many times: `StartSweep`, `ReconcileItem` for each item,
`AbandonSweep` where an error or the end of the process cuts it off. The lock is
held during a pass, so nothing else runs between two of its items.

*Abstractions.* Instants become timers: an attempt's lease is the number of ticks it has
left, and 0 is "not active at now"; timers of different attempts and items run
independently, because callers choose durations freely. The wall clock does not go
backwards. A revision is not a number but the fact that an observer's copy is
still current. Dependencies are constants, acyclic as creation order makes
them. Texts, results, priorities and parent links are left out. The initial
state may hold items left `Blocked` by a build that did not record a block
provenance (`Legacy`).

### WorkIntents and AtomicLedger

*State.* On disk: the files of each item, decisions, intents, receipts. A content is named
by the clock tick that made it, which stands for its digest. In the
process: whether the store is open, opening (`replay`), down or refused to open;
`job`, the commit in progress of whoever holds the lock, at one of the stages
check, records, item, receipt, clear; `lease[c]`, how far service call *c* is and
which request id it holds; `closed`, the admission flag. `log[r]` is auxiliary: the
commits made for request *r*.

*Actions.* Each write of a file is a step. `Claim` takes a request id and may prune the
oldest settled receipt; `EnterClaim` looks at the admission flag before the lock is
taken, as `claim_work_inner` does; `PersistIntent` and `PersistUnbound`
write the intent; `Preflight`, `WriteAttempt`, `WriteDecision`, `WriteItem`,
`CompleteReceipt`, `ClearIntent` are the commit; `CommitConflict` its refusal;
`Settle`, `FailClaim`, `DropLease`, `Abandon` end the service call. `Crash` ends the process anywhere;
`Reopen` starts `OrchStore::open`, which replays each intent with the same commit
steps, fails orphaned receipts and prunes (`OpenStep`). The `...Error` actions are
file system errors that the process survives, before or after the file changed.

*Specifications.* `Spec` has crashes and no I/O errors. `FairSpec` adds fairness.
`FaultySpec` adds all I/O errors, `LateFaultSpec` only those behind a durable intent.

*Abstractions.* A call that waits for another one's receipt, or replays it,
changes nothing and is not a step. All requests are of one principal and
session. The stored response is the commit it describes. The reconciliation that
`open` ends with is an unbound commit after `open`.

*What a commit changes.* An operation of the ledger writes the item and attempts with a new revision (`Successor` with
`bump`), or some attempts with the item left as it is: `renew_work_lease`, `link_work_run` and the expiry of an attempt whose
item is terminal (`Successor` without `bump`, `AttemptOnly`; store.rs:8795-8860, 3905-3920). A commit is therefore identified by
the tick of its intent, `id`, and not by the revision of the item. A write of an item that is already as the intent
wants it is skipped, as in the code (`StaleItem`). Revisions do not saturate. Operations that return Ok
without a commit, such as the completion of an attempt that has completed or the cancellation of a terminal item, are not steps.

*AtomicLedger* has a ledger, an outcome per request and the log. `Perform` gives an item a fresh content, which is an item of a
later revision, new attempts under the same item, or both (`Advance`), and completes the request in one step; `Maintain`
does so for no request, `Admit`, `Reject`, `Recall`, `Forget` change
outcomes only. A content is fresh when none of the files of the item has it. The refinement mapping (`AtomicMutations` in `WorkIntents`) takes
an item to its state after the intent that is on disk for it, if there is one, and
a receipt bound to that intent to its completion. So writing the intent is the
abstract step, and all that follows, crashes and replays included, is stuttering.

### Routines

*State.* `trigger` and `missed` are the schedule and the missed-run policy; `routine` what changes of the
record (lifecycle, next fire time, failures, circuit); `intents`, `works`, `history`, `dedupe` the files;
`job` what the holder of the store lock is at; `now` the clock.

*Actions.* `FireRoutine` is a manual fire; `FireDue`, `FireSlot` and `EndPass` are a pass of
`fire_due_routines_at`. Both go through `Activate`, which answers a known key from its receipt, decides (`Decide`:
paused, disabled, circuit, backoff, overlap or create) and writes the intent or counts a failure. `CommitStep` is
the rest, one file per step: Work item (refused when the lane is full), activation record, dedupe receipt, removal of the intent,
pruning. `SetLifecycle` pauses, disables, enables; `MoveWork` is the ledger; `Crash`, `Reopen`, `RecoverIntent`
and `Opened` are the restart.

*Abstractions.* Instants are small numbers and a trigger is its set of slots; a pass works with the time at which
it began. Payloads, texts and captured policies are left out.

### RunLifecycle

*State.* On disk `runs` (state, observations, the revision of the Agent the Run was submitted for), `agents` (active Run,
specification revision), `intent` (an activation intent), `final` (a finalization intent). In memory `queue`
(`pending_admissions`), `admitted`, `claimed` and the sequence numbers of the host's queue slots, `lanes` (turn and reservation).
`phase[r]` is how far the task of Run *r*, or the pump that holds it, is; `cand[r]` the final record it
wants to write; `cancel[r]` what `ptah_cancel` has done; `job` the multi-file write under the store's lock.

*Actions.* Submission: `Submit`, `Reserve`, `SaveQueued`, `Enqueue`. The pump: `Claim`, `Take`, `Load`, `CheckSpec`,
`Promote`, and on refusal `GiveBack`, `Reregister`, `Requeue`. Activation: `Activate` or `Promote` with
`InstallRun`, `InstallAgent`, `ClearIntent`. The turn: `CheckTurn`, `EnterTurn`, `Observe`, `EndTurn`, `Timeout`, and for the
desktop `BeginDesktop`, `EndDesktop`, `EndUnrecorded`. The end: `Finalize`, `Seal`, `InstallFinal`, `ClearFinal`,
`Checkpoint`, `Release`, `Close`. Cancellation: `MarkCancelled`, `RemovePending`, `ReleaseSlot`,
`ReleaseReservation`. Restart: `Crash`, `RecoverActivation`, `RecoverFinal`, `Interrupt`, `FreeAgent`, `Opened`.
`ReviseSpec` is an operator who revises an Agent.

*Abstractions.* A Run's content is its state and a count of observations, an Agent's its active Run and a
revision. `Watched` Runs are observed and `Unwanted` ones cancelled: bounds, not behaviour. The only I/O error is an
activation intent that cannot be removed.

### HostRuntime

*State.* The lifecycle (`phase`, the spawn `gate`, `running` tasks, attached and live servers, `stopping`, hooks,
the cancellation token), durable writes (`writing`, the counter `inFlight`, `sealed`), the two writer threads with
their channels, the `lock`, a `rival` who has taken it, and `call`: where the current shutdown is and its locals.

*Actions.* Admission (`EnterGate`, `Register`), tasks and servers that end by themselves, durable writes, publishing and
the threads, and shutdown from `BeginShutdown` through `DrainServers`, `StopServer`, `JoinTasks`,
`CloseWriter`, `AwaitWriter`, `SealWrites`, `AwaitSeal`, `Flush` to `Decide`. `AbandonShutdown` drops the
future at an await; `DropRuntime` is the destructor.

*Abstractions.* No time: a wait that is not over may give up at any moment. The effects of `begin_durable_write` and of the seal
are atomic, as the code makes them under one mutex.

### HostAuthority

*State.* `attempts` is the state file, `audit` what the log says of each attempt, `logOk` whether the log can be read and
appended to; `epoch`, `gen`, `opened` the control epoch, the generation and the epoch of the last opening; capabilities, leases,
permits and grants are what callers hold; `dispatched` the attempts whose bytes may have left. `op` is the
lifecycle operation between its two writes.

*Actions.* `SealCapability`, `MintLease`, `BeginSend` with `BeginIntent`, `AdmitWire` with `AdmitSending`, `Dispatch`, `SettleAudit` with
`SettleState`, `MintGrant`, `ApplyAudit` with `ApplyState`, `Rotate`, and `Crash`, `Open`, `RecoverAudit`, `RecoverState`; appends and
state writes may fail, and an append may tear the log (`LogTears`).

*Abstractions.* One principal; expiry and a moved observation only refuse. The log is reduced to what replay reads from it.

## Runs

| run | instance | states | shows |
|---|---|---|---|
| `ledger_single` | one gated item with a deadline, 2 attempts, leases of up to 2 ticks, an agent, a reviewer, an observer; new or legacy | 65,506 | seven safety and action properties in every order of workers, operators, ticks and time |
| `ledger_live` | two items, the second depends on the first, 1 attempt, a deadline, legacy records; `FairSpec` | 23,557 | no claim before the dependency is met, though a success may be withdrawn; lapsed attempts are closed, derived waits end, deadlines take effect |
| `intents_crash` | one item with two attempt files, 2 requests, 2 calls, room for 1 receipt, 4 clock ticks, 2 crashes; `FairSpec` | 116,103 | refinement of `AtomicLedger`, reopening, no receipt that calls an effect failed, and no request id stays pending |
| `intents_faults` | the same, room for 2 receipts, 1 crash, 2 I/O errors | 638,224 | recovery refuses rather than overwrites; decisions precede items; answers are commits |
| `routines_schedule` | a recurring or a one-shot routine with any missed-run policy, 4 instants, 3 activations, a manual request, 1 crash; `FairSpec` | 1,281,064 | one item per occurrence, listed slots are answered, progress of Work kept over recovery, an opening is refused only behind a full lane, the schedule moves on |
| `runs_lifecycle` | two submitted Runs in two lanes and a desktop turn under one Agent, one admission, a queue of one, 1 crash; `FairSpec` | 127,537 | one active Run, an Agent is released only from a Run that is over, and it is given back over a crash |
| `runs_queue` | two Runs of one lane, two admissions, a queue of one, a revision of the Agent, a cancellation, 1 crash, 1 failed removal; `FairSpec` | 192,399 | outcomes are final, nothing is lost, cancellations that answered "removed" kept the Run from starting, admissions return, only the failed removal can make the store refuse |
| `runtime_shutdown` | one task, server, hook and handle, channels of one entry, two calls of shutdown; `FairSpec` | 1,182,952 | one writer of the home, a released lock means quiet and complete, shutdown concludes |
| `authority_sends` | two attempts, requests and capabilities, three epochs or generations, one grant | 2,824,103 | evidence before the wire, no second send behind an unresolved one, honest failures, final decisions |
| `intents_reopen`, `routines_limit`, `runs_fifo` | smallest instance that shows it | until the counterexample | violations, see below |

*Bounds.* Ledger: two attempts are the least with a predecessor that may come back late, a successor
and an exhausted budget; a lease of two ticks separates a renewed lease from a
fresh one. Two items are the least with a dependency; longer chains add nothing, because
admission looks at direct dependencies only. Commit: two attempt files give a
commit that is interrupted between records; two requests with room for one
receipt force pruning; four ticks are two claims and two mutations, so that a
second mutation meets what is left of the first; two crashes allow one during recovery from
the other. Routines: with `CatchUpLimit` 2 and four instants a pass can miss more slots than it lists; three
activations exceed the history and the lane capacity of two; two failures open the circuit. Runs: two lanes under one Agent are the least that can
activate it twice; a queue of one fills; two admissions in one lane are the least that let the pump claim a Run whose predecessor
still holds the Agent (`runs_fifo` needs a third Run, to overtake). Runtime: one of each kind is enough for every pair of
kinds to interleave; the second call of shutdown meets what a dropped one left. Authority: two attempts for one request are the
least for a double send, two capabilities allow them; three changes of epoch or generation give a rotation after a recovery.
`Agents` is empty in `ledger_live`, where assignment does not matter. No run has a container item; the
theorems cover every set of containers. Deadlock checking is on for the ledger, which never deadlocks; elsewhere the
bounds, a refused open or a finished shutdown end a behaviour.

*Fairness.* Ledger: weak fairness of `StartSweep`, because the supervisor thread
starts a pass in every interval while the process lives (supervisor.rs:110-187),
and strong fairness of each `ReconcileItem`, because a pass starts over
after an error and no item fails forever. Nothing is assumed of workers, operators
or clients. Commit: weak fairness of the commit step and of the opening step, since a thread that
holds the lock runs on; strong fairness of the steps of a call in flight, since
the mutex is granted eventually. Routines: weak fairness of the holder of the lock, of the opening, and of the start of a pass, again
the supervisor's interval. Runs: weak fairness of the write under the lock, of the recovery, and of the task of each Run, which the
runtime polls and whose turn the duration limit ends; nobody has to submit, pump or cancel. Runtime: weak
fairness of the polled shutdown and of a thread that holds the spawn gate; nothing of tasks, servers, threads and writes.
Crashes and new calls are never forced.

*Mutants.* Each property of a passing run has an operator, defined next to the one it
mutates, that changes the code in the way of a plausible bug (a claim that ignores
a live lease, a replay that compares with the prior content only, an activation that does not look at the active Run, a wait that
counts as a join, a recovery that trusts the state file, ...) and makes TLC report exactly that property.

## Proofs

`tlapm` checks the seven proof modules to the last leaf (some 10,700 obligations). They hold
for every value of the constants that satisfies the `ASSUME`s: any number of items, agents, attempts, requests, calls, Runs,
lanes, servers and crashes, any dependency graph, schedule and policy. The `ASSUME`s say that bounds are numbers (and not zero
where the code has a constant that is not), that distinguished values (`NoRequest`, `None`, ...) are not members of the sets they
stand beside, that a one-shot has one slot, and that a runtime has finitely many tasks, servers, hooks and handles. Every safety
invariant and every action property of a passing run is a theorem, and so is the refinement. Each inductive invariant was
checked by TLC on the instances of the runs before it was proved.

**WorkLedgerProofs.** The properties are not inductive by themselves: a claim keeps
exclusion only if attempts beyond the count do not exist, success is earned only if
a gate's attempt is the newest, and so on. `IInv` is `TypeOK` and, for each item,
`Coherent`, which ties the item to its attempts. Theorem `Coherence` proves `Spec => []IInv` with
one step per action; since actions touch one item, the argument is per item, and
the others follow from a frame lemma. From it:

| theorem | property |
|---|---|
| `TypeCorrectness` | `TypeOK` |
| `LeasesAreExclusive` | `LeaseExclusion` |
| `AttemptHistoryIsComplete` | `AttemptsCounted` |
| `OutcomesStopExecution` | `NoExecutionBehindOutcome` |
| `SuccessesAreEarned` | `SuccessIsEarned` |
| `RevisionsFence` | `RevisionFence` (by an invariant of its own, as every write drops the copies) |
| `CancellationIsTerminal`, `SuccessStandsUntilReview`, `ClosedAttemptsKeepTheirOutcome` | the three parts of `OutcomesStand` |
| `OutcomesAreFinal` | `OutcomesStand` |
| `ClaimsWaitForDependencies` | `NoClaimBeforeDependencies` |
| `HoldsOnIdleWorkStand` | `HoldOnIdleWorkStands` |

**WorkIntentsProofs.** `IInv` of the commit protocol under `Spec` is: `TypeOK`;
`OneIntent` (at most one intent is on disk: the lock is held from its
writing to its removal, and after a crash the replay comes first);
`JobCoherent` (each file holds the content before or after the intent,
and which of them is known from the stage of the job); `LeasesCoherent` and
`ReceiptsCoherent` (a receipt bound to an intent is pending or complete with that very effect,
a pending one without intent has had no effect); `FailedMeansNoEffect`; and for the refinement `Dated` (no content on disk or in an intent is
from the future, so that the one a commit brings is fresh whether or not it changes the item: `IntentAdvances`). Theorem
`Recoverable` proves it invariant. From it: `TypeCorrectness`,
`CrashesAreRecoverable` (`ReopenRecovers`), `FailuresAreHonest`
(`FailedMeansNoEffect`), and `CommitsAreAtomic`: `Spec => AtomicMutations`, the
refinement, with `PersistIntent` mapped to `Perform`, `PersistUnbound` to `Maintain`,
`Claim` to `Admit`, the failing steps to `Reject` or stuttering, `Settle` to `Recall` or
stuttering, the end of an open to `Forget` and every other step to stuttering.

**WorkFaultsProofs.** With I/O errors (`FaultySpec`) the invariant above is false: intents of failed commits pile up, and a store
may refuse to open (`intents_reopen`). What is left is `FInv`: no content is from the future (`FilesDated`); every intent on
disk leads from older contents to newer ones, brings its own to the item or to an attempt (`Brings`), is in the log of its request and
names a decision its item had (`IntentsForward`); the commit in progress has, stage by stage, checked what it overwrites (`JobForward`); and a
call that is back from a commit knows an effect that is in place (`CallersForward`). It does not say which
intents are left, which is why it survives the errors. `FaultsAreContained` proves it. From it:

| theorem | property |
|---|---|
| `AnswersStayTrue` | `AnswersAreCommits` |
| `DecisionsComeFirst` | `DecisionsPrecedeItems` |
| `FilesMoveForward` | `NothingRollsBack` |

**HostRuntimeProofs.** `Decide` releases the lock because of what `shutdown` found out several awaits ago, so the invariant says
for each point of the call what a call without doubt knows there, and why nothing that runs beside it undoes
it (`CallKnows`). That rests on the counter of guards being the number of guards (`WritesCounted`), on channels that lose an
entry only with a mark of it (`ChannelsCoherent`), and on `ServersCounted`: a server that still serves is attached, is being stopped
by this call, or is counted as left over by a dropped one. `ReleasedForGood` keeps what was true at the release.

| theorem | property |
|---|---|
| `TypeCorrectness` | `TypeOK` (no counter goes below zero) |
| `OneWriterPerHome` | `SingleWriter` |
| `ReleaseIsQuiet` | `ReleaseMeansQuiet` |
| `ReleaseIsComplete` | `ReleaseMeansComplete` |

**HostAuthorityProofs.** Log and state file are written one after the other, so each is behind the other at times. The invariant says by
how much: `RecordSound`, `LogSound` and `PermitSound` tie a record, its evidence, its permit and the wire together, and `OpSound` says which
file is ahead while an operation is between its writes. The last fact needed is that a replay of the log over the records
never reopens an attempt (`OneUnresolvedAttempt` is part of the induction). `Invariant` proves it. From it:

| theorem | property |
|---|---|
| `TypeCorrectness` | `TypeOK` |
| `SendsHaveEvidence` | `WireHasEvidence` |
| `NoSecondSend` | `OneUnresolvedAttempt` |
| `FailedIsHonest` | `FailedWasNotSent` |
| `OutcomesAreAudited` | `OutcomeHasEvidence` |
| `DecisionsAreFinal` | `DecisionIsFinal` |

**RoutinesProofs.** The argument is about the fire intents that are left over. In a running store such an intent exists only
because the lane was full when its item was to be written (`LeftOversRefused`). Items are never removed, so the lane stays full
and a second intent for the same occurrence makes no item either (`OneMaker`); an item that its intent made is untouched as long as
the intent is there (`ItemsUntouched`), so a replay takes nothing back. `PassCovers` says that during a pass every slot it
owes is still to come or has its receipt; it needs lemmas about the earliest slots of a schedule, from the well-foundedness of the
natural numbers. `Inductive` proves the invariant. From it:

| theorem | property |
|---|---|
| `TypeCorrectness` | `TypeOK` |
| `OccurrencesAreUnique` | `OneWorkPerOccurrence` |
| `CommitsKeepProgress` | `ProgressIsKept` |
| `OnlyFullLanesRefuse` | `RefusalNeedsFullLane` |
| `SlotsAreAnswered` | `ListedSlotsAreAnswered` |

`SlotsAreAnswered` is about the slots that `due_occurrences` lists, the earliest `CatchUpLimit` + 1 of the missed ones. Slots after these are
passed unanswered: the documented property, `NoSlotIsLost`, is false of the code (`routines_limit`).

**RunLifecycleProofs.** A Run is in four places: its task, its record and the one of its Agent, lanes and queue, and its
cancellation. None of the properties is inductive without the others: an Agent has one active Run because an activation
looks at the Agent's record, which is trustworthy because a running task owns it (`RecordsFit`, `AgentsFit`), which a crash keeps only
because the files are as the intent found or as it left them (`IntentFits`, `ActivationFits`, `FinalizationFits`, `CandidatesFit`); a
released reservation keeps a Run from its turn because a turn is in its lane and a lane is busy only for a Run that got there (`LanesFit`),
and a Run taken from the queue does not return to it because queue and ledger have no repetition and agree with the phases
(`QueuesFit`, `CancelsFit`). After a failed removal the intent may be older than the files; the invariant then claims less of
it, and `CrashesAreRecovered` and `NothingIsLost` except it. `Inductive` proves the invariant. From it:

| theorem | property |
|---|---|
| `TypeCorrect` | `TypeOK` |
| `OneRunPerAgent` | `OneActiveRun` |
| `StoreOpensAgain` | `CrashesAreRecovered` |
| `CancellationHolds` | `CancelledBeforeStart` |
| `OutcomesStay` | `OutcomeIsFinal` |
| `AgentsWait` | `ReleasedWhenOver` |
| `RecordsGrow` | `NothingIsLost` |

*Only model-checked:* liveness, which is out of the prover's reach: `LapsedAttemptIsClosed`, `DerivedWaitIsLifted`,
`DeadlineTakesEffect`, `ClaimsSettle`, `ScheduleMovesOn`, `AgentIsFreed`, `CapacityReturns`, `ShutdownConcludes`. The runs that end in a
counterexample refute their property. The `TypeOK` of the proofs is no property of a run; the inductive invariants contain it.

## Where the code and its documents disagree

Three are runs that TLC ends with a counterexample, quoted in `PROJECT.json`.

* `intents_reopen`: a file write fails behind a durable intent. Only claims look
  at the admission flag, so another operation moves the same item, the intent on disk no
  longer matches, and `OrchStore::open` is refused from then on.
* `routines_limit`: `due_occurrences` lists the earliest nine missed slots and applies the policy to those (routine.rs:743); the schedule then
  moves past now. With more missed slots coalesce activates the ninth and not the latest, catch-up the second to the ninth and not
  the most recent eight, against routine.rs:101-106 and DURABLE_ROUTINES.md:82-90.
* `runs_fifo`: a Run put back after a refused promotion gets a new sequence number and is overtaken by a later Run of its
  session.

What else was met while modelling. The models follow the code in each case; where a property excepts it, the comment
at the property says so.

*Ledger and receipts.*
* A worker parks an item for input, an operator blocks it, the lease lapses: the tick that expires the attempt requeues the item
  (store.rs:3880). workload.rs:393 and DURABLE_WORKLOADS.md:30-32 say no tick lifts a manual hold. On an item
  without a running attempt holds do stand (`HoldOnIdleWorkStands`, proved).
* A worker whose completion awaits approval still has a live lease and may report, release, fail or
  park (store.rs:8864), which takes the item back from the operator (DURABLE_WORKLOADS.md:207-209).
* Block and unblock move a gated item to Queued; after its lease lapses a claim opens a second *active* attempt
  (store.rs:8656, DURABLE_WORKLOADS.md:49-50). Two attempts with a *live lease* are impossible (`LeaseExclusion`, proved).
* The deadline fails an item and leaves its attempt open; the live worker moves the item back out of Failed until the next tick
  (store.rs:3747).
* On an error behind a durable intent the service marks the receipt failed, while the intent commits the effect
  at the next open (service.rs:5342, DURABLE_WORKLOADS.md:80-81). With crashes alone the opposite is proved.
* When only the removal of an intent fails (store.rs:2312), admission stays open although the
  leftover intent has the same effect on later mutations.

*Routines.*
* A paused routine with the skip policy moves its next fire time on; DURABLE_ROUTINES.md:75 says it does not.
* Catch-up fires oldest first, the document says newest first.
* The intent is written before the capacity check of its WorkItem (store.rs:1709). In a full lane the activation fails and the intent stays, and the
  replay at the next `OrchStore::open` meets the same refusal: the store does not open until an item is removed. DURABLE_ROUTINES.md:77-78
  says that opening commits any leftover intent. `RefusalNeedsFullLane` (proved) says that this is the only way an opening is refused here.
* The end of a pass overwrites the backoff time (store.rs:2916, DURABLE_ROUTINES.md:108-110); a success does not reset the
  failure count; a failed one-shot is not retried; a manual fire of an expired one-shot creates Work.
* The replay of an intent whose removal had failed would overwrite Work that has progressed; the model has no failed removals here.

*Runs.*
* The pump fails a Run with a stale specification over a concurrent cancellation (service.rs:3872). `OutcomeIsFinal` excepts it and so does not watch over it.
* `cancel` passes no turn generation, so another turn of the lane may absorb it (host.rs:7599); a Run that is between
  `save_run` and `enqueue` is cancelled without being taken out of the queue it enters next (the pump then drops it).
* A desktop turn frees its lane after its last event and wakes nobody (host.rs:8334); a refused promotion returns without another
  pump; a timed-out turn keeps its lane busy until after the last pump. A queued Run then waits for the next event that pumps.
* A pump with an older snapshot can claim a re-registered Run before it is back in the queue, which leaves it queued without a slot; with a full queue the
  re-registration fails and a Queued Run is dropped with a log line.
* A receipt that cannot be completed overwrites the state of the Run (service.rs:9591).
* A desktop turn goes on without a Run when its activation is refused.
* After a failed removal of an activation intent the reopen may refuse, because the Run has changed, or roll back a revised Agent specification.
  `CrashesAreRecovered` and `NothingIsLost` except it.

*Host runtime.*
* The doc comment at host_runtime.rs:608-609 says writes are refused while quiescing; the code, and the comment inside it, permit them until the seal.
* The join error of a server that was stopped by a dropped shutdown call is lost with that call.

*Host authority.*
* A verdict whose state write fails stays in the log (reconciliation.rs:287). The running host goes on with the ambiguous record; the next open replays the
  verdict over whatever the record says by then. ISSUE_466_OPERATOR_RECONCILIATION.md:22-23 says such a failure "leaves the attempt ambiguous rather than
  silently changing its truth".
* A rotation of the epoch between mint and apply leaves a grant whose apply still appends to the log.
* A dropped or stale permit blocks its request until the next start; a torn append leaves the log damaged for good, and the host fails closed.

## What is not modelled

*Of the ledger:* items with `required_checks`, the fence around items claimed by
managed execution, the capacity of 4096 items per lane, parent containers beyond their being
unclaimable, progress and result texts, more than 16 linked Runs. *Of intents and receipts:*
a request id reused with another payload, receipts of older formats, several principals, the
receipts of apply and discard, the settlement of managed finalization, claims by the native
executor without a request. *Of routines:* the creation of a definition, payloads, real instants; the reserved external triggers change nothing.
*Of Runs:* write errors other than a failed removal, and so the retries of a failing finalization and the giving up after eight attempts (service.rs:10010-10054), receipts that fail in submit, continuations, archived sessions, the
refusal of new tasks at shutdown, what a checkpoint holds. *Of the runtime:* what tasks, hooks and the final flush write, real time.
*Of the authority:* several principals, the audit-only `Review`, the issuing of sessions, workspaces and resources, redaction.
*Of the system:* the components listed as
`not_modelled` in `PROJECT.json`; those that are I/O, wiring or upstream code stay out, the
others are the plan.

## Plan

1. Theorems about what is now in prose only: that the operations of `WorkLedger` are steps of the commit protocol (a refinement between
   the two modules), and abstract specifications of `Routines` and `RunLifecycle` in the manner of `AtomicLedger`.
2. `ManagedExecution`, composed of `WorkLedger` and `RunLifecycle`; its first hazard is store.rs:5498, where the lock is dropped between the
   read of an intent and its abandonment.
3. `PromptQueue` (prompt_queue.rs:356, steering across a crash), `Messages` (store.rs:5020, a sequence file written in place), `EventBus`
   (event_bus.rs:1023, the gap record), `CircuitBreaker` (breaker.rs:248, Open is published before its time): small modules, each with
   crash or thread interleaving.
4. Manager plans, verified change apply, computer use, as far as they are protocols.
