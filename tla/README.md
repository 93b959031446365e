# Velaris App OS: a TLA+ model of the case core

Velaris is a case-management platform. A FastAPI service (`src/services/case-service`)
keeps every case in PostgreSQL, Temporal workers run the durable parts (SLA timers, the
case interpreter), and background loops in every replica deliver webhooks, drain events to
Kafka and fire the timetable. This directory holds TLA+ models of the parts that decide
what happens to a case and to the promises made about it, the TLC configurations that
check them on small instances, and proofs for the TLA+ proof system.

Paths below are relative to `src/services/case-service/case_service/` unless they start
with `src/`.

    tlc   -workers 2 -config MC_CaseLifecycle_single.cfg MC_CaseLifecycle
    tlapm CaseLifecycleProofs.tla

## 1. Inventory

### Modelled

| Part | State | Operations | Hard because | Correct when |
|---|---|---|---|---|
| Case status, stages, steps, seal: `api/routers/cases.py`, `case_actions/`, `core/case_lifecycle.py`, `core/relationship_manager.py` | `case_instances` (status, stage, is_deleted), step completions, links between cases | create, create child, link, status actions, rules, stage move, step completion with auto-advance, delete, restore | five routes finish a step and each has its own condition for advancing; a status write has side effects on clocks and on the parent, and some writers skip them | an archived or deleted case is inert; a finished stage is left; a waiting parent is released |
| SLA clocks and escalation: `core/sla_tracker.py`, `core/sla_escalation.py`, `temporal/activities/sla_timer_activities.py`, `api/routers/sla.py` | one row per policy started for a case: on track, at risk, paused, breached | start, pause, resume, cancel, breach, escalation level | a timer set long ago fires on a case that has moved on | no clock lives on a case that has ended |
| SLA companion and timers: `temporal/workflows/case_lifecycle_workflow.py`, `sla_timer_workflow.py` | flags and known timers of the companion; one timer workflow for each SLA row | signals, settle, rescan, start and wake timers, check, fire, complete, continue as new, restart on reopening | signals leave before the request commits, and may be lost; every activity is a transaction of its own; a companion that winds down is still "running"; rows are selected by status and written by id, without a lock | every running clock has a timer, every deadline is noticed |
| Case event store: `core/event_store.py` | `case_events`, numbered per case | append in the transaction of the row it describes, project, verify | requests overlap under READ COMMITTED; a lost race rolls back the whole request | the stream has no gap and tells what the row says |
| Audit chain: `compliance/audit_chain.py`, `compliance/audit_anchor.py` | `case_audit_log_chain`, prune records, receipts | seal, purge, anchor, verify | sealers, purges and anchorings of several replicas, while audit rows are written, held, anonymized | no alteration escapes, no legitimate change is reported, a receipt stays valid |
| Retention and erasure: `compliance/retention.py`, `enterprise/gdpr.py` | none of their own | purge old audit rows, anonymize a user | meet rows that are sealed or held | the chain still verifies |
| Case variables and offline sync: `core/crdt.py`, `case_vars/service.py`, `src/studio/src/modules/portal/portalOffline.ts` | a queue and a counter on every device; rows with typed columns and a Lamport stamp | queue an edit, flush, merge, work off the answer, write online | requests overlap, are lost, or are answered after the next edit was made; the merge reads and writes rows without a lock; online writes have no stamp | all devices end with one value, the last edit of each is answered, a repetition changes nothing |
| Interpreter workflow: `temporal/workflows/case_interpreter_workflow.py`, `temporal/activities/interpreter_activities.py` | the workflow's program counter and the stage it means to enter | plan, check status, try to advance, enter stage, continue as new | every activity is a transaction of its own; operators act in between | a complete stage is left even when every signal is lost |
| Legal hold: `legal_hold/service.py` | active holds | place, release | checked by another route before a delete | a held case is not deleted |
| Customer portal: `api/routers/portal.py` | none of its own | complete the customer's step | a second implementation of step completion | same effect as the worker's route |
| Module results: `kyc/service.py`, and its like in payments, CRM, documents, dev connectors | none of its own | complete a step, advance | arrive from outside at any time | respect the seal |
| Webhook outbox: `integrations/outbox_relay.py`, `integrations/webhook_dispatcher.py` | `outbox` (attempts, next_attempt_at, claimed_at, delivered_at) | enqueue, claim, POST, persist | one loop per replica; HTTP without a lock; crashes between two transactions | no event is lost, none is marked delivered that nobody took, live claims are exclusive |
| Event bus: `integrations/event_bus.py` | the same rows with a cursor of their own (published_at, publish_claimed_at); the Kafka log | claim, send, mark published | failed sends, lost acknowledgements, crashes | what is marked is on the log; a case's events are in order |
| Scheduler: `scheduler/service.py`, `scheduler/runner.py`, `scheduler/cron.py`, `api/routers/scheduler.py` | `schedules`, `schedule_runs` | approve, edit, disable, delete, claim, fire, record | two replicas claim; a firing waits in a queue while its schedule changes; requests overlap; clocks are put back | an occurrence fires once, and only what was reviewed fires |

How they interact: a status change of a case runs in the request's transaction, writes the
case and its SLA rows, propagates to the parent, and enqueues outbox rows that commit with
it. The outbox is drained twice, by the webhook relay and by the event bus relay, which
share the table and not a cursor. The interpreter reads and writes the same case through
activities, and is woken by signals that may be lost. SLA timer activities write the clock,
and through escalation levels the status, of a case that others are changing. Scheduled
actions enter the system like any other request. Every request that changes a status or
enters a stage by the interpreter appends to the case's event stream in the same
transaction; most requests also write audit rows, which the anchoring loop and the
compliance API seal into the audit chain later. Variables of a case are rows of their own,
written by the façade that forms, portal and connectors use, and by the sync of edits that
customers made offline; nothing else in these models reads them.

### Not modelled

| Part | Why |
|---|---|
| Rollouts (`rollouts/`), HxMCP idempotency (`hxmcp/`) | next in the plan (section 6) |
| The chains of policy decisions and compliance proofs (`hxarbiter/chain.py`, `ledger/`) | the same scheme as the audit chain without purges; reading timestamp tokens is parsing |
| HxArbiter, HxGuard | decisions computed from policies; here a refusal is an action that is not taken |
| HxSentinel | scoring; its one effect on a case, the hold on auto-advance, is the choice `riskHold` |
| HxFusion and the BPMN engine (`src/engine`) | an interpreter of its own that the case lifecycle does not call |
| Payments, checkout, storefront | provider traffic; the effect on a case is `ModuleStep` |
| Hand-off, negotiation, intent, healing, AI services | recommendations over case data |
| Channels, mail, push, realtime, meetings, bots, field nodes, HxSync, migration tool, marketplace, deployment packages | I/O against external systems |
| Tenancy, identity, privacy; the other services; Studio; schema and deployment scripts | lookups, CRUD, user interface, configuration |

## 2. Modules

| Module | What it is |
|---|---|
| `OutboxRelay` | the webhook outbox and any number of relays |
| `OutboxRelayProofs` | its invariants and its refinement, proved |
| `EventBus` | the drain of the same rows to a partitioned log |
| `EventBusProofs` | its invariants and its refinement, proved |
| `DeliveryQueue` | at-least-once delivery, the abstract specification that both implement |
| `Scheduler` | the timetable, its requests and its loops |
| `SchedulerProofs` | type correctness, single claims, review gate |
| `CaseLifecycle` | a family of cases with clocks, interpreter, portal, modules and holds |
| `CaseLifecycleProofs` | type correctness and the seal |
| `CaseTransactions` | the statements of overlapping requests on a family of cases, and the event stream |
| `CaseTransactionsProofs` | its invariants, proved |
| `SlaCompanion` | companion and timer workflows of one case, and the requests around them |
| `SlaCompanionProofs` | how timers and clocks end, proved |
| `AuditChain` | sealing, purging, anchoring and verifying the audit log |
| `AuditChainProofs` | its invariants and the permanence of receipts, proved |
| `OfflineVariables` | variables of a case, edited offline and online |
| `OfflineVariablesProofs` | convergence, no edit lost, duplicates, proved |
| `MC_*` | values of the constants for TLC; one `.cfg` per run |

### OutboxRelay

One variable holds the table, one the local state of every relay, two are history
(`accepted`: which subscription answered below 400; `excused`: nobody to send to, or an
address the guard of outbound URLs refused, which the code counts as delivered).

| Action | Code |
|---|---|
| `DispatchEvent` | `dispatch_event`: the row commits with the business change |
| `Claim` | transaction 1 of `_deliver_batch`. `FOR UPDATE SKIP LOCKED` makes concurrent claims serial, so the query and the update are one step |
| `StartRow`, `Post` | `_deliver_one`: load the subscriptions, then one POST after another, no lock held |
| `Persist` | transaction 2: the outcome of every row, written over whatever the row holds by now; `claimed_at` stays. SQLAlchemy writes the columns that differ from what this transaction has loaded, which is all of the outcome but for a commit of another relay between its load and its flush |
| `CycleLost` | the process dies or the cycle raises |
| `ToggleSubscription`, `Tick` | administrators, and the time |

Timestamps are relative to the present (`claimAge`, `wait`) and stop at the largest value a
test compares them with, so time is unbounded and the state space is finite. The event-type
filter of a subscription is left out: all subscriptions match all events.

### DeliveryQueue

What an outbox promises, whoever drains it: events are queued (`Emit`), reach their receiver
any number of times (`Reach`), and are confirmed only when they have (`Confirm`, one write
for several rows). `Forgets` says whether a confirmation may be lost again. `OutboxRelay`
implements it with `Forgets = TRUE` (the stale write of section 4), `EventBus` with
`Forgets = FALSE`, and with the fairness of the queue, so that everything is confirmed in
the end. The refinement mapping is `Queue` in each module.

### EventBus

`Claim`, `SendOk`, `SendFailed`, `SendUnacked`, `MarkPublished`, `CycleLost` follow
`drain_once`. The broker appends what it accepts to the partition of the case. `topic_for` gives each family of events a topic of its own, so a "case" of the model is the events of one case on one topic; nothing is said of their order across topics. A send that
fails is skipped and the loop goes on, as in the code.

### Scheduler

`approve`, `edit` and `disable` are two steps each: `Load` (the row is read) and the write,
because the handler awaits the validation of the action in between. `Save` models the flush
of SQLAlchemy: only attributes that differ from the row that was loaded are written, the
others keep what is in the table now. A tick of a loop is `ClaimRead` and `ClaimUpdate`
(`claim_due`, with the conditional UPDATE), then one `FireSkipped`, or `FireRun` and
`FireRecord`, for each claimed row. A config stands for cron line, time zone, action and
its configuration together. `reviewed` is history: the config its approver saw; `crossed` is history too: the schedules
whose last writing request had loaded another version of the row than it found at its flush.
Requests overlap freely; `MaxRequests` bounds how many are made. A request may end without
a write (`Refuse`): refused, failed validation, nothing new to save. `NextAfter` is `next_after`: it
searches the naive wall clock and takes the first of two instants for an ambiguous time;
the clocks go back once, by `FoldLen` at `FoldAt`.

Left out: `run_now` (outside the timetable), the parking of a cron line that cannot be
parsed, and the limit of 20 rows for one claim.

### CaseLifecycle

`row[c]` is the case with its clocks, completions and link; `held` the legal holds;
`interp[c]` the interpreter. A stage is its position in the declared order, 0 before the
first. The clock of target `t` is "off" when no SLA row of it is active; `late` holds the
targets whose breached row has escalation levels left.

One action is one request or one activity, with everything its transaction writes:
`ChangeStatus` is gate, stage menu, validation, status, clocks and propagation to the
parent in one step. The operators mirror the layering of the code:

| Operator | Code |
|---|---|
| `ClocksAfter` | the clock part of `on_status_changed`, which resolves statuses without a tenant |
| `WithStatus` / `StatusOnly` | `apply_status_change` / a write of the column alone |
| `RowsAfter` | `propagate_status_change` |
| `Valid`, `Sealed`, `Offers` | `validate_transition`, `sealed_reason`, `action_offered` |
| `AfterEntry` | stage pointer, stage SLA, on_enter_status |
| `CanAdvance` | the test of `_auto_advance_if_complete` |
| `CompleteStep`, `PortalStep`, `ModuleStep`, `InterpreterAdvance` | the four routes that advance a case, each with its own guard |

Requests are serial here; `CaseTransactions` has the ones that overlap.
A refused request, as by the hold of HxSentinel on a stage move or by an action that is not
configured, is an action that is not taken. Escalation levels that a status change brings
forward are steps of their own (`LateLevel`). `Category` merges category and terminal flag of
a status. Also left out: durations and calendars, priorities and urgency, assignments, stages that
are not declared, `activate_step` (records automated steps, which gate nothing), ids,
authorization, and several SLA rows for one target, which `SlaCompanion` has.

### CaseTransactions

A request is the list of its statements (`Requests`), executed one at a time by the
transaction `tx[w]` of a worker. A statement reads what is committed or written by its own
transaction; an UPDATE waits for the row (`Update`), an INSERT for a rival with the same key
(`AppendEvent`, `PlaceHold`).

| Definition | Code |
|---|---|
| `ChangeStatus`, `OnEnter` | `apply_status_change` (row, event, parent, in this order), `apply_on_enter_status` |
| `EnterStage`, `MoveStage` | `on_stage_entered`, which records the event; `_stage_move_apply` and `_auto_advance_if_complete`, which do not |
| `ReadSeq`, `AppendEvent` | `next_seq`, and the flush of `append`; a refused number rolls back the whole transaction, `record` returns None, and the request goes on with what is left |
| `Propagate` | `propagate_status_change`: reads the sub-cases and the parent, and then writes the parent |
| `Begin` | the checks of a request: deleted, held |
| `Commit`, `Abort` | `get_session` |

`bypassed` is history: the columns whose last committed write had no event. Statements that
do not matter to these properties (audit rows, clocks, outbox rows) are left out: they are
inserts of rows of their own. `on_step_completed` and `SLABreached` have no caller in `src/`.

### SlaCompanion

One case with its SLA rows, requests, the loop of the companion and one timer for each row.
A request is a transaction in three steps, because the code takes three: it SELECTs the rows
that its status filter fits, it UPDATEs them by id and signals the workflows, and it commits.
Firings and other requests commit between the SELECT and the UPDATE, and the timers read what
is committed while an UPDATE is not. `Writes` and `Written` therefore say what the UPDATE
gives a row whatever the row has become. `overwritten` is history: the rows that were
written after they had ceased to fit the filter.

| Action | Code |
|---|---|
| `SelectWait`, `SelectResume`, `SelectEnd` | status actions: the clock part of `on_status_changed`. Before it they have written the case's row, so one of them at a time gets this far: they share the slot "case" |
| `StartStage`, `StartByHand` | `start_stage_slas`, which looks for an active row of the same policy and target, and the start endpoint, which does not |
| `SelectByHand` | the pause and resume endpoints: `_get_sla_or_404`, then the SELECT of `pause_sla` or `resume_sla`. They take no lock of the case, so each user in `Hands` has a slot |
| `Update` | `update_sla_instance`, which waits for the locks of other transactions, and `_signal_lifecycle`, whose signals may be lost |
| `Commit`, `Rollback` | `get_session` |
| `Reopen` | `_restart_lifecycle_if_needed`, and the signal |
| `WakeAll`, `Rescan`, `Finish`, `Await`, `ContinueAsNew` | one pass through the loop of `CaseLifecycleWorkflow.run`; continue-as-new keeps the known timers and drops the flags |
| `Check`, `Wake`, `FireRead`, `FireWrite` | `SLATimerWorkflow.run`; `fire_sla_event` reads the row and writes it at its commit |

`OnePerPolicy` is the `scalar_one_or_none` of the SELECTs, which raises on two rows. `plan`
says of each row its policy and its target, which endpoints are used on it, and whether a
run may write over it (`races`, a bound). `Hasty` says whether a case may be reopened while
its companion still winds down. Durations are gone: every wait that has a timeout may end at
any time, and `due` says that a deadline has passed.

Left out: at-risk and escalation levels (`CaseLifecycle`); what overlapping requests do to
the status of the case (`CaseTransactions`); a request that fails after it has signalled;
bulk actions, which signal after their commit; `cancel_case`, which has no sender. A case
leaves a terminal status by an action: a stage whose `on_enter_status` takes a closed case
out of one does not restart the companion, and is not modelled.

### AuditChain

A hash is collision free, so it is modelled as the sequence of everything it commits to.
`Seal`, `PruneSelect` and `PruneDelete`, `Stamp` are the statements of the three kinds of
transaction, each behind the advisory lock (`SealLock`), and `Commit` makes them visible.
`seal_new_entries` may be called with any `max_rows`. `BrokenLink`, `InvalidRecord`,
`MissingRow` and `ContentTampered` are the four breaks of `verify_chain`, `Recorded` and
`Covered` its judgement of prune records. `ChangeRow` and `RemoveRow` change audit rows by
hand; nobody touches the chain itself. An anchoring fixes the tip it has signed when it seals
(`asked`), before the authority answers, and its receipt names that position and that hash. `HoldsMove` says whether a legal hold may be released
between the two statements of a purge. The actor stands for all the fields a hash covers.

### OfflineVariables

`queue[d]` and `clock[d]` are the pending edits and the counter of a device, `row[k]` the
typed columns and the stamp of a variable, `flight[f]` one run of `flushEdits` with the
request it makes. Edits and online writes number their values in the order they are made.
Devices are numbers because their order breaks ties, as that of the origin strings does.

| Action | Code |
|---|---|
| `QueueEdit` | `queueEdit` with `tickLamport`: the pending edit of the variable is replaced |
| `Flush` | `flushEdits` up to the request; two flushes may overlap (page load, `online` event) |
| `ReadRows`, `Commit` | `sync_case_variables` under READ COMMITTED, without a lock: all rows are read, and the UPDATE at the commit names only the columns that differ from what was read (`Updated`) |
| `Drop`, `Adopt` | the answer is worked off, one delete in IndexedDB after another, and the counter is adopted |
| `Lose` | request refused, failed or rolled back, answer lost, page closed |
| `SetVariable` | `_set_in_namespace`: cap, then an upsert of all typed columns without the stamp |

`report`, `last`, `raced` and `mixed` are history. `Accepted` are the devices whose requests
the server takes: `flushEdits` sends no credentials of its own, and a refused request leaves
the queue as it is. Nothing in Studio calls `queueEdit` yet, so this is the protocol as the
module offers it. Null values, two of the four typed columns, namespaces, grants,
definitions and lineage are left out; of the cap, inserts that overlap. Value 4 of the
instance is over 64 KB.

## 3. What is checked

All runs are exhaustive within their bounds.

| Run | Distinct states | Shows |
|---|---|---|
| `outbox` | 586,578 | `FreshClaimExclusive`: two relays work on one row only when one of them has outlived the TTL. `DeliveredWasAccepted`: no stale write, crash or retry marks a row delivered that everybody refused. `EventuallySettled`: every queued row is delivered or given up, for good. `AtLeastOnce`: it implements `DeliveryQueue` |
| `bus` | 44,929 | `PublishedIsOnLog`, `DuplicatesBounded` (at most one copy per relay and fault). `AtLeastOnce`, `DrainedInTheEnd`: it implements `DeliveryQueue` without forgetting, and its liveness |
| `case_single` | 23,053 | `ArchivedClocksStopped`; `ArchivedSealed`: an archived case changes only by reopening it; `CompletionAdvances`: the step that completes a stage also leaves it |
| `case_interp` | 354,241 | `InterpreterAdvances`: a complete stage is left sooner or later, with operators, customer, modules, SLA calls, escalations and risk holds in between |
| `case_family` | 601,873 | `ParentReleased`: the parent stops waiting in the very step in which its last required sub-case ends, also by a status of the tenant's own |
| `requests` | 1,368,713 (symmetry) | `AppendNeverLoses`: whoever appends has locked the case's row first, so the rollback that would take a request with it never happens. `StreamContiguous`. `DivergenceIsBypass`: a row differs from its stream only where a write left the chokepoints out |
| `companion` | 871,993 | `NoTimerLost`: with every signal lost, continue-as-new at any time, ends and reopenings, overlapping requests and two rows of one policy, a running row of an open case gets its timer. `DoneMeansOver`, `DeadlineNoticed`: no timer ends before its clock and every deadline is noticed, but on rows that were written over (section 4) |
| `audit` | 1,414,200 (symmetry) | `ChainSound`: sealers, purges and anchorings do not disturb one another. `TamperingFound`, `BreaksExplained`: what was altered is reported, and what is reported was altered or anonymized. `ReceiptsProve`: the hash that was signed before the commit is that of the link the receipt names |
| `sched` | 215,005 | `ActiveIsReviewed`: active means approved as it stands, by neither author nor last editor, but where the last writer had loaded another version (section 4). `ClaimedOnce`. `TimetableMoves`: a due run is claimed or taken out of service, though a loop dies in mid-tick |
| `offline` | 1,252,465 | `Converges`: a stored stamp is at least that of every edit merged, and the winner's value or a later one is stored, in one column - except a variable a sync updated over a change it did not read. `LastEditKept`: the latest edit of a device is pending or answered - except in the race of section 4. `DuplicateWasApplied`. `QueueDrains`: all four outcomes are final for the device |

Two more runs check one property that the repository states and the code breaks; they
end in a counterexample on purpose (section 4).

Each module has one type invariant, checked in the run that fires most of its actions.

### Bounds and why they suffice

* `outbox`: two relays (interference is between a relay and one that took its claim over),
  two events with batches of one, so that rows are claimed in different cycles, one
  subscription that can be switched off, two attempts (the last and one before it), one
  crash. `ClaimTTL` 1 and `BackoffBase` 1 keep the order of the code: the back-off of an
  attempt that is not the last is within the TTL. `MaxCrashes` exists because a cycle that
  always crashes never counts an attempt and retries for ever.
* `bus`: two relays, two events of one case in a batch of two, two faults.
* `case_single`: three stages are enough for a first, an inner and a last one; entering the
  last closes the case and its menu is restricted; two of the three have an SLA. Six
  statuses are enabled, one of each category and both sides of the seal; a rule can archive.
* `case_interp`: two stages, the first with a step that worker, customer and module can
  complete; the last stage is never left, so its steps would change nothing. SLA endpoints
  are used by hand, and escalation levels put the case on hold, which the interpreter
  ignores. Risk holds come and go.
* `case_family`: a parent, a required sub-case and an optional one; the tenant's status
  `done` is terminal but unknown to the platform, and the stage sets it on entry.
* `sched`: one schedule, two users (the author and one other), two loops, one restart, two
  configs with different periods, four units of time with a missed window of 1, three requests: an
  approval, and an edit and a second approval that overlap.
* `requests`: a parent and two required sub-cases, so that siblings and the parent can be
  written by three requests at once, one of each worker; one stage. Three requests are
  enough for a writer, a rival and a third that commits between their reads. `siblings`
  makes four requests, of status changes only (the parent must first wait).
* `companion`: two cases. One has a single row that its requests, a user's pause and resume
  and the firing write over one another. The other has two rows of one policy, the second
  started by hand; `races` is off there, since its question is what two rows do to the
  SELECTs and to the companion. Signals, requests, deadlines, reopenings and continue-as-new
  are not bounded.
* `audit`: two audit rows of two cases and two users, two processes. Two rows give a link
  with a predecessor and a purge that takes one and leaves one; prune records, receipts,
  holds and tampering are not bounded.
* `offline`: two devices (a tie, and an order between them), two variables of which one has
  no row, so that edits are also rejected and an online write creates a row, two requests
  under way of one device or of both, one loss. Four values: a first one, two rivals of two
  types, and one that is too large; a device can edit a variable again while its last edit
  is in flight.

Deadlock is checked everywhere except in `OfflineVariables` (all values made and all queues
drained), `EventBus` (every row is published and every age
has reached its cap: nothing is left to do; `CaseTransactions` has `Quiet` for the end of
its requests) and `Scheduler` (`MaxTime` ends the clock and
every schedule may be deleted).

### Fairness and why the code justifies it

* `OutboxRelay`: weak fairness for the steps of a cycle and for time. Every POST has a
  timeout, the loop polls again after `_POLL_INTERVAL`, and a failed cycle is caught by the
  loop. No fairness for events, administrators, crashes, or any answer of a subscriber.
* `EventBus`: the same, and strong fairness for `SendOk`: a broker that is asked again and
  again is up at some time. Without it nothing need ever reach the log.
* `Scheduler`: weak fairness for each loop. A replica's process is restarted, and an action
  is bounded by a timeout. Time itself need not move.
* `SlaCompanion`: weak fairness for the commit of a request that has signalled, for the
  companion and for each timer: Temporal retries activities and keeps durable sleeps. No
  fairness for requests, signals, deadlines or continue-as-new.
* `OfflineVariables`: weak fairness for a flush of each device and for each request: the page
  flushes on every load and when it is online again, and a request that the network lets
  through ends. Losses are bounded by `MaxLosses`, refusals are not. No fairness for edits.
* `CaseLifecycle`: weak fairness for the activities, which Temporal retries without end and
  wakes by a poll timer; strong fairness for an advance without a risk hold, since holds are
  cleared by people again and again. No fairness for any request, so nothing is owed to
  signals.

## 4. Where code and words differ

Checked by a run of their own:

| Run, property | What happens |
|---|---|
| `siblings`, `ParentFreed` | the last two sub-cases end in overlapping requests; each reads the other as open, and the parent stays on `pending_subcase` (`core/relationship_manager.py:79`, against the comment at line 55). Without such overlaps in a family it is proved: `ParentIsFreed` |
| `companion_reopen`, `NoTimerLost` | a case is reopened while its companion winds down: the restart finds it running, `_terminal` is never reset, it completes, and the clocks of the open case have no timer (`api/routers/cases.py:3028`) |

Known divergences without a run. The property is in the module; TLC refutes it when it is
added to the named configuration with the change given:

| Property | Configuration | What happens |
|---|---|---|
| `DeliveredIsFinal` | `MC_OutboxRelay`, one event | a relay that outlived its claim writes `delivered_at = None` over another's delivery (`integrations/outbox_relay.py:163`). Where no relay outlives its claim it is proved: `TimelySettlement` |
| `RetriedAfterBackoff` | `MC_OutboxRelay`, `ClaimTTL = 2` | the second transaction leaves `claimed_at`, so a failed row waits for the 300 s TTL and not for its back-off of 30 to 240 s |
| `CaseOrderKept` | `MC_EventBus` | a failed send is skipped and the next event of the same case overtakes it (`integrations/event_bus.py:272`, against line 22). `OrderWithoutFailures` says what suffices |
| `HeldStaysVisible` | `MC_CaseTransactions` | a hold placed between the check and the commit of a delete does not stop it (`case_actions/dispatcher.py:850`). Where the two do not overlap it is proved: `HeldCasesStayVisible` |
| `VerifyConsistent` | `MC_CaseTransactions` | stage moves, releases of a parent and escalations write the row without an event, and `verify` reports a divergence. `StreamsTellRows` says for which columns it cannot |
| `CancelledStays` | `MC_SlaCompanion` | a firing that has read the row before the case ends writes breached over cancelled (`temporal/activities/sla_timer_activities.py:128`), and so does a pause by hand that selected the row while it ran (`core/sla_tracker.py:182`) |
| `BreachStays` | `MC_SlaCompanion` | the mirror race: a pause selects a running row, a firing commits breached, and the UPDATE by id writes paused over it, which a resume turns into on_track |
| `OverwrittenNoticed` | `MC_SlaCompanion` | what the mirror race leads to: the timer has read the committed breached and completed, the row is in `known`, and the deadline of the resumed clock passes unnoticed (`temporal/workflows/case_lifecycle_workflow.py:12` promises that no timer is lost) |
| `OneClockPerPolicy` | `MC_SlaCompanion` | the start endpoint starts a second clock of a policy (`api/routers/sla.py:166`); `pause_sla` and `resume_sla` then raise, and every status action that pauses or resumes the clocks of the case fails with them |
| `BreaksExplained` | `MC_AuditChain`, `HoldsMove = TRUE` | a hold released between the two statements of a purge: the second deletes a sealed row that the record does not name |
| `BreaksAreTampering` | `MC_AuditChain` | anonymizing a user rewrites `actor_id`, which the hash of a sealed row covers, and `verify_chain` reports the row as tampered with (`enterprise/gdpr.py:295`, against line 248) |
| `StatusCountsPending` | `MC_AuditChain` | `chain_status` subtracts links from rows; after a purge `unsealed_rows` is too small, even negative (`compliance/audit_chain.py:399`) |
| `ArchivedSealed` | `MC_CaseLifecycle_single`, `ModuleSteps = {"k2"}` | a module's result completes a step of an archived case (`kyc/service.py:52`) |
| `StepNeverMovesBack` | `MC_CaseLifecycle_single` | a step of an earlier stage completed again moves the case back (`api/routers/cases.py:1984`) |
| `GateHolds` | `MC_Scheduler` | an approval flushed over an edit that committed meanwhile puts the edit into service (`scheduler/service.py:107`). `ReviewGate` proves that no other way exists |
| `ClaimedOnce` | `MC_Scheduler`, one loop, `FoldAt = 6`, `FoldLen = 4`, `MaxTime = 8`, `MissedWindow = 2` | in the repeated hour of autumn the next run lies in the past and fires again (`scheduler/cron.py:167`) |
| `DeletedInert` | `MC_CaseLifecycle_family` | the end of a sub-case opens its deleted parent |
| `PausedOnlyWhileWaiting` | `MC_CaseLifecycle_family` | a parent that is released keeps its clocks paused, because only the column is written |
| `EndedClocksStopped` | `MC_CaseLifecycle_single` | a stage move on a closed case starts the SLA of the stage |
| `ArchivedSealed` | `MC_CaseLifecycle_single`, `EscalationStatus = "escalated"` | an escalation level of a breached SLA sets the status of an archived case (`core/sla_escalation.py:341`) |
| `CompletionAdvances` | `MC_CaseLifecycle_single`, `CustomerSteps = {"k2"}` | the customer completes the last step in status in_progress and the case stays where it is (`api/routers/portal.py:1844`). Without steps of the customer it is proved: `FinishedStageIsLeft` |
| `NeverRewinds` | `MC_CaseLifecycle_interp` | the interpreter enters the stage it had planned after an operator moved the case on |
| `RunsOnlyWhileActive` | `MC_Scheduler` | a claimed firing runs after its schedule was disabled or edited |
| `ClaimedIsRecorded` | `MC_Scheduler`, two schedules, one loop, no restart, `MaxTime` 3 | a schedule deleted while its action runs ends the tick; the firings behind it are neither run nor recorded |
| `ServerHasSpoken` | `MC_OfflineVariables` | an edit queued while an older one of the variable is in flight is deleted by the answer of the older one, and never sent (`portalOffline.ts:202`, against line 201) |
| `AlwaysConverges` | `MC_OfflineVariables` | two overlapping syncs both win against the row they read, and the later commit stores the lower stamp (`core/crdt.py:181`, against line 17). Where no change falls between read and commit both are proved: `UndisturbedSyncsConverge` |
| `OneColumn` | `MC_OfflineVariables` | the same overlap with values of two types: the second UPDATE does not clear the column it read as empty (`core/crdt.py:258`, against line 254) |
| `FacadeWriteStays` | `MC_OfflineVariables` | an online write keeps the stamp of the row, so an offline edit made before it replaces it (`case_vars/service.py:394`) |
| `QueueDrains` | `MC_OfflineVariables`, `Accepted = {1}` | a refused request (400, 401, 403) keeps its edits queued for ever (`portalOffline.ts:190`, against line 170) |

Met while reading and outside the models: `portal-sw.js` opens the same IndexedDB at version
1 that the page opens at version 2, so the service worker cannot flush once the page has
upgraded it; a stage whose `on_enter_status` takes a closed case out of its terminal status
does not restart the companion (`case_actions/stages.py:191`); `created_at` of an outbox row
is taken before the commit, so an older event can become visible after a younger one was
sent (`integrations/event_bus.py:240`).

## 5. What is proved

tlapm checks every obligation; the constants are arbitrary under the named assumptions
(`EventsAssumption`, `TimingAssumption`, `BackoffAssumption`, `SchedulerAssumption`,
`LifecycleAssumption`, `BusAssumption`, `RelaysFinite`, `TransactionsAssumption`,
`ChainAssumption`, `CompanionAssumption`, `OfflineAssumption`), which TLC
evaluates in every run.

Some promises of the code do not hold as they are meant (section 4). Where the models show what
breaks one, a theorem says that nothing else does. The absence of that one situation is its
hypothesis: a state predicate that holds throughout the behaviour (`Timely`, `Apart`,
`HoldsApart`, `Undisturbed`, `ArchivedBetweenRounds`, `InCreationOrder`), a
restriction of the steps (`NothingFails`), or a condition on the constants. Other
theorems need none, because the model records the situation as history and the property
exempts only what it has spoilt: `overwritten`, `crossed`, `raced`, `mixed`. TLC agreed first,
with a hypothesis as a constraint on a small instance; without it, it finds the violation of
section 4.

### OutboxRelayProofs

`TypeCorrect`. `RelayInvariant`: `Spec => []IInv` with

    IInv == TypeOK /\ ClaimsDated /\ OutcomesBacked /\ FreshClaimExclusive /\ DeliveredWasAccepted

for any number of relays, rows, subscriptions and crashes and any TTL. `FreshClaimExclusive`
alone is not inductive: the step that could break it is a claim, and what stops it is that a
relay is never younger than the claim of the rows it holds (`ClaimsDated`). So a row that is
claimable, with a claim older than the TTL, is held by nobody but relays older than the TTL.
`DeliveredWasAccepted` needs `OutcomesBacked`: whatever a relay will write as delivered is
already backed by an answer, and answers are never taken back, so even the stale write of an
old cycle is sound. `ExclusiveClaims` and `DeliveredSound` are the two consequences.
`RelayRefinesQueue`: `Spec => AtLeastOnce`. A step maps to `Emit`, to `Reach` (a POST that
is answered), to `Confirm` (the second transaction) or to a stutter; that `Confirm` is
allowed is `OutcomesBacked` again.
`TimelySettlement`: as long as every cycle ends within the TTL (`Timely`), a row that is
delivered or given up stays so and no recorded attempt is forgotten. The invariant it needs is
`ClaimsCurrent`, that what a relay read when it claimed a row is still in the row: claims within
the TTL are exclusive, so nobody else writes it. Crashes may happen at any step.

### EventBusProofs

`TypeCorrect`. `BusInvariant`: `Spec => []IInv` for any finite set of relays. `PublishedSound` and
`RepetitionsBounded` follow. The bound on repetitions is not inductive, because it does not
say why a row is sent at most so often. `CopiesAccounted` does: before a row is marked,
every copy is owed to a relay that has yet to mark it or to a fault; afterwards nobody
claims it, and only relays that still have it in their batch can add a copy. The lemmas on
cardinalities count the relays that hold a row before and after each step.
`BusRefinesQueue`: `Spec => AtLeastOnce`, with `Forgets = FALSE`.
`OrderWithoutFailures`: the events of a case reach the log in order when there is one relay, its
rows become visible in the order of their `created_at`, and no send, acknowledgement or cycle is
lost. The log then only grows at its end with younger events (`YoungerComeLater`), because the
batch is sent from its oldest event on and holds every older row that waits (`WaitingIsDue`).

### CaseTransactionsProofs

`TransactionsInvariant`: `Spec => []IInv` for any family of cases, workers and requests.
`AppendsSucceed` (`AppendNeverLoses`) says of the code that the rollback in `append` never
strikes. It holds because a transaction that appends to a case has written, and so locked,
its row (`Sound`, about the statements it has still to do) and row locks exclude one another
(`Exclusive`): between its `next_seq` and its flush nobody else can append to the case
(`Numbered`), and what it can see is a gapless stream (`Gapless`). `StreamsWhole` is
`StreamContiguous`, `TypeCorrect` the types.

`DivergenceExplained` (`DivergenceIsBypass`) rests on a second invariant, `Agreement`, kept
together with the first. `Committed`: of every status and stage, the last event of the stream
says what is in the row, or the column is in `bypassed`. `InOrder` says the same of the rows
and events a transaction can see (`Faithful`), but for one event that may be `Due`: a write at
a chokepoint and its event are neighbours in the list of statements (`Paired`), and the due
event carries the value that was written (`DueIsTrue`). An append makes its event the last
of the stream because the number is the next one (first invariant); a commit carries its
agreement into the committed rows, and leaves those of the others alone because its events
are on rows it has locked (`OthersSayNothing`). `ProjectedIsTold`: `project` returns what the
stream tells. TLC checked `Agreement` on the instance of the run `requests` before the proof.

Three theorems bound what overlapping requests can spoil, on invariants of their own, which the
lemma `EveryStep` reduces to one lemma for each kind of step.

* `ParentIsFreed`: without escalations, and where no two open transactions have written to
  cases of one family (`Apart`), no parent waits for sub-cases that have all ended. `Families` says of a
  request that ends a sub-case what it has still to do (release the parent, in a state in which
  it has seen the siblings as they are), so that at the commit either a required sibling is open
  or the parent is released with it.
* `HeldCasesStayVisible`: where a delete and the placing of a hold do not overlap on a case
  (`HoldsApart`), a held case never becomes hidden: `HeldNotHidden`, no transaction has a delete
  of a held case behind or before it.
* `StreamsTellRows`: where stages are entered by the interpreter alone and no escalation level
  sets a status, `verify` finds every stage, and every status of a case without sub-cases, as
  its stream tells it: no other statement writes around the event store (`RarelyAround`, over
  the list of statements of every request), and the rest is `DivergenceExplained`.

### AuditChainProofs

`ChainInvariant`: `Spec => []IInv` for any processes, rows, cases, users and holds. A chain
is `Good` if every link is chained off the one before it, is a row or a valid record of a
purge of earlier links, and no row is sealed twice. That is not inductive: a commit appends
what the transaction has computed some steps before. `ChainInv` adds that the links of a
transaction `Continues` the chain as it is now, which stays so because from its read to its
commit the transaction holds the lock and nobody else can append. `GoodGrows` is the lemma on
appending such links, `RowsContinue` and `RecordContinues` the two kinds of batch. Hashes
commit to purge records and these to sets of hashes, so no set of all hashes exists in the
model; `IsSeq` says that a value is a sequence over its own elements.
`ChainStaysSound` and `TamperingIsFound` follow; for the last one
chaining must be injective in the row that is sealed (`AppendInjective`).
`ReceiptsStayTrue` (`ReceiptsProve`) needs `ReceiptInv`: while an anchoring holds the lock, the tip
it has signed is the tip of the chain followed by its own links, so the commit that stores the
receipt also makes it true, and the chain only grows afterwards.
`NoFalseAlarm` (`BreaksExplained`) assumes `~HoldsMove` and needs a second invariant,
`Accounted`: every sealed row is there as sealed, anonymized, tampered with or named by a
record, and a purge has listed every sealed row it will delete. Section 4 shows that a hold
released during a purge breaks it.

### SlaCompanionProofs

`CompanionInvariant`: `Spec => []IInv` for any rows, policies, users and overlapping requests.
The invariant adds to the types and `DoneMeansOver` that a timer exists only for a row that
was committed (`TimersBacked`), so a timer that finds no row cannot exist, and that a start
inserts a row that nobody else knows of (`StartsFresh`), so no commit of a start revives a
clock that is over. `TimersEndWithClocks` is `DoneMeansOver`. `OverStaysOver` says of every
step that a clock which is over stays over unless a request writes over it by id: the lemma
`OverNeverFits` is that no SELECT finds such a clock, so whoever writes it must have selected
it before. Neither theorem has a hypothesis.

`RowLocksWouldDo` is about a repair and not about the code as it is: if the rows that a
request or a firing has read stay as they were read until it ends (`ReadsHold`, which
`SELECT ... FOR UPDATE` would provide), nothing is ever written over, timers end with their
clocks without exception, and a cancelled clock stays cancelled.

### OfflineVariablesProofs

`OfflineInvariant`: `Spec => []IInv` with `IInv == TypeOK /\ DeviceInv /\ ServerInv`, for any
devices, variables, values, losses and requests under way.

* The device's half. Every edit that a device, a request or a report still holds is dated by
  its device's counter (`KnownDated`), so a new edit has a stamp of its own and a stamp
  identifies an edit (`StampsUnique`). A latest edit that differs from the one in flight was
  queued during that flight (`LaterRaced`); without it an answer might delete a latest edit
  that nobody has answered, so `LastEditKept` is not inductive by itself. `NoEditLost`.
* The server's half. The stamp of a row, and of a row a sync has read, is that of an edit
  applied before (`RowsWhole`, `ReadsBehind`), and what a sync has read is not above the row.
  So an edit that loses against what was read loses against the row too, the winner of a
  merge is above every edit merged before (`StampOrder`: stamps are ordered transitively),
  and an edit with the stamp of the row is the edit that was applied (`BackedBy`).
  `RowsConverge`, `DuplicatesApplied`. All of it is said of variables outside `mixed`.
  `UndisturbedSyncsConverge`: where no change of a variable falls between the read and the
  commit of a sync that updates it (`Undisturbed`), `mixed` stays empty, so the merge converges
  and every row is in one column without exception. Losses, repetitions, and overlapping
  requests that do not touch the same variable remain.

### SchedulerProofs

* `TypeCorrect`.
* `ClaimsExclusive`: if the clocks are not put back (`FoldLen = 0`), no occurrence is claimed
  twice, for any number of loops, restarts, and with requests that overlap. The invariant:
  what was claimed is past and lies before the next run (`ClaimsPast`), and what a loop has
  read as due is past and before the run it computed to follow (`SeenPast`). The proof uses
  that `next_after` lies after its argument, which is what the fold takes away.
* `ReviewGate` (`ActiveIsReviewed`), for any number of overlapping requests: an active schedule
  was approved as it stands by neither author nor last editor, or the request that wrote it
  last had loaded another version (`crossed`). A flush writes what differs from what was
  loaded, so over the same version it writes exactly what the handler made of the row
  (`FlushOfCurrent`); the loops move `next_run_at` only (`SameReview`).

### CaseLifecycleProofs

* `TypeCorrect`, for every family of cases, case type, status set and mode of use.
* `ArchivedStops` (`ArchivedClocksStopped`) and `SealHolds` (`ArchivedSealed`), the latter where
  no escalation level sets a status. Both assume `Guarded`: no SLA call by hand, no module
  results, a tenant's own "archived" is terminal too, and no escalation level archives. These
  are write routes that do not ask for the seal; section 4 shows one of them breaking it. The
  interpreter does not ask either: for interpreted cases the theorems assume that no case is
  archived between its look at the status and the advance or entry that follows
  (`ArchivedBetweenRounds`); `UninterpretedSeal` has no such condition. The seal is not inductive by
  itself: a clock left running would breach in a sealed case, and a breached row with levels
  left would set its status. `SealInv` therefore adds that clocks of an archived case are off
  and that, without escalation statuses, `late` is empty. The lemma `WriteEffect` says what one
  transaction can do to any row (its own new row, or a waiting parent opened), and
  `GoodWrite` that such a write is quiet; there is then one step for each action.
* `ParentIsReleased` (`ParentReleased`), where neither `open` nor the escalation status is
  terminal: the step in which the last required sub-case ends also takes its parent out of
  `pending_subcase`. `StepChanges` sorts the steps into those that leave the rows alone, bear a
  row, or change one and propagate, and `Unborn` says that an id that is not a case yet is
  nobody's sub-case.
* `FinishedStageIsLeft` (`CompletionAdvances`), where no step is the customer's: `RecordCompletes`
  and `NextEntry` say when recording one step makes a stage finished, and `AdvanceStep` that the
  same transaction then enters the next one.

### Only model-checked

Liveness (`EventuallySettled`, `DrainedInTheEnd`, `TimetableMoves`, `InterpreterAdvances`,
`NoTimerLost`, `DeadlineNoticed`, `QueueDrains`): fairness and ENABLED are beyond the prover. So is
induction over data, so what a recursive definition computes for every input could not be
proved; none of the modules has one. Every invariant and every action property that a passing
run checks is the subject of a theorem.

## 6. Plan

Done: outbox, bus and their abstract queue, scheduler, case lifecycle, overlapping requests
with the event store, companion and timers, audit chain, offline edits of variables. Left, in order of importance:

1. Step completions in `CaseTransactions`: the last two steps of a stage in overlapping
   requests (`api/routers/cases.py:1752`).
2. `CaseLifecycle` as an abstract specification of `CaseTransactions` with one worker.
3. Case variables: promotion of blob keys, overlapping inserts at the cap, namespaces and
   grants; the queue of offline submissions and its deduplication on `client_ref`.
4. Rollouts, and the idempotency of HxMCP calls.
