# Verification of the message-delivery core

TLA+ models of the parts of this repository that carry a customer's message
from the inbox to WhatsApp and back, checked with TLC and, where it matters
most, proved with TLAPS. Paths below are relative to the repository root.

## The system

A browser talks to the API (`apps/api`, TypeScript). The API keeps one
PostgreSQL schema per workspace. Commands to WhatsApp leave through a durable
outbox and a JetStream stream; a Go worker (`services/whatsapp`) owns each
saved WhatsApp session, executes the commands and publishes events that the API
applies. A Go orchestrator (`services/orchestrator`) starts, watches, upgrades
and stops the workers.

| Component | State | Operations | Hard because |
|---|---|---|---|
| Command outbox (`command-outbox.service.ts`) | `nats_outbox` rows: status, attempts, `next_attempt_at` | enqueue, claim, renew, publish, record outcome, give up | several replicas, leases that expire mid-turn, publications that time out and arrive later |
| Workspace readiness (`outbox-dispatch.service.ts`, migration 084) | `outbox_dispatch_ready` marker per workspace, recovery cursor | trigger, claim, finish (three statements), release, paged recovery | writers between the three statements, expired claims, suspended workspaces |
| Worker send path (`subscriber.go`, `pgstore.go`, `client.go`) | `processed_commands` ledger | look up, prepare, write intent, transmit, save, report, acknowledge | a crash anywhere, redelivery, second copies, calls that fail after taking effect |
| Send scheduler (`send_scheduler.go`) | queues per contact, round robin list, slots, media slots, `activeIDs` | fetch, admit, prepare, send, retry, finish, shut down | five kinds of goroutine and six channels |
| Message status (`message-handlers.ts`, `message-cleanup.service.ts`) | `messages.status` and its flags | receipts, confirmation, failure, uncertainty, timeout | events out of order, late and duplicated |
| History barrier (`history-apply-barrier.service.ts`) | the worker's event outbox rows | apply, acknowledge, drain | markers overtake the history they close |
| Worker event outbox (`publisher.go`) | `worker_event_outbox` | save, publish, retry, flush | crash between publish and delete |
| Group command ledger (`subscriber.go`) | `processed_commands` | apply once, report | same as sends, with mutations that must not be repeated |
| Event consumer (`lib/nats/lifecycle.ts`, `message-handler.ts`) | JetStream consumer | deliver, retry, dead-letter | redelivery around non-transactional handlers |
| Scheduled messages and broadcasts (`scheduled-message.service.ts`, `bulk-job.service.ts`) | `scheduled_messages` rows with leases, `bulk_jobs`, a media object per job, per-connection budgets | schedule, claim, send, retry, skip, fail, sweep, finalize, reschedule, cancel | every API replica polls; a lease lapses while its holder works; a job is closed by whoever settles its last row, in several statements, while a request cancels it in three |
| Orchestrator ownership (`services/orchestrator/internal/manager`) | `orchestrator_nodes` leases, `worker_registry` rows, each node's `m.workers` | register, renew, self-fence, take over, claim a launch, activate, fail, restart, stop | answers lost or late, nodes that stall or die at any step, and two clients of one session must never live at once |
| Orchestrator upgrades, health, desired state | desired state, releases | stop, unlink, upgrade, health checks | several handlers per connection |
| Refresh tokens, cases, contact merge, SLA calendar, channel spine | tables | see PROJECT.json | rotation races, merges, calendar edges |

What makes the core correct: a conversation's commands reach WhatsApp in the
order they were accepted; no command is sent twice, although every step may be
repeated; what is confirmed was sent and what is reported as failed was not; a
message that reached a later status does not fall back; a broadcast sends to each
recipient at most once and announces at most one result; a session has one live client; no
command, wakeup or slot is lost; and everything accepted is eventually settled.

## Modules

| Module | Models | Composition |
|---|---|---|
| `ConversationLog` | what the outbox promises a conversation: commands take their places as they commit, and are stored or given up in that order | abstract specification |
| `CommandOutbox` | the outbox and its dispatchers, with the broker's storing or losing of publications | implements `ConversationLog` |
| `OutboxDispatch` | the readiness markers; outbox rows are reduced to "active until" | abstracts `CommandOutbox` |
| `SendContract` | what the send path promises: at most once, honest confirmations, honest failures | abstract specification |
| `WorkerSend` | `handleSendCommand`, the ledger and the write-ahead intent, with redelivery and overlapping processes | implements `SendContract` |
| `SendScheduler` | `processMessages`; the handler is reduced to "settles or not" | abstracts `WorkerSend` |
| `MessageStatus` | everything that writes the status of one outgoing message | outbox and worker reduced to what `CommandOutbox` and `WorkerSend` show of them |
| `HistoryBarrier` | the worker's event outbox, the API's gate and its drain | |
| `SessionOwner` | what the orchestrators promise a session: a client starts only where none is alive | abstract specification |
| `NodeLease` | node leases, self-fencing, takeover, and the launch claims of the registry, over one clock | implements `SessionOwner` |
| `Broadcast` | scheduled messages and broadcasts: polling replicas, leases, the fenced send, finalization, cancellation, media | what it sends enters `CommandOutbox` |
| `...Proofs` | the theorems about the module they extend | |
| `MC...` | constants and symmetry for TLC | |

How the parts meet: a request enqueues a command (`CommandOutbox`), the trigger
marks the workspace (`OutboxDispatch`), a dispatcher publishes to the command
stream, the worker's scheduler picks the command (`SendScheduler`) and its
handler sends it (`WorkerSend`). The outcome is saved as an event
(`HistoryBarrier` is the outbox it goes through) and applied to the message row
(`MessageStatus`), which receipts, history replays and the cleanup cycle write
too. Scheduled messages and broadcasts enter the same outbox, in the transaction
that settles their row (`Broadcast`). That no two processes work on a command
together, which `OwnerKeepsContract` assumes of `WorkerSend`, follows from the one
live client that `NodeLease` shows of the orchestrators. The modules meet at tables and streams: each one that needs its neighbour
takes it as the least it is shown to do there.

### State and actions against the code

`PROJECT.json` maps every definition to its lines. The main points:

- **CommandOutbox.** `row` is `nats_outbox`; `next_attempt_at` is the retry time,
  the lease and the fencing token, as in the code. An enqueueing transaction has
  three steps (advisory lock, INSERT, COMMIT or ROLLBACK), because the lock is
  what makes `created_at` agree with the commit order. `batch` is what a turn
  has claimed and not worked through: each claim is renewed, published and
  recorded. A publication is on the `wire` until the broker stores or loses it,
  also after the dispatcher has given up waiting. `Abandon` is a crash or a
  database error anywhere in a turn.
- **OutboxDispatch.** `marker` is the row of `outbox_dispatch_ready`, `WriteMarks`
  the trigger. The end of a turn is the three statements of the code
  (`ReadGeneration`, `MeasureWork`, `SettleWorkspaceDispatch`), and anyone may
  step between them. Recovery is one action per page, since it is one
  transaction.
- **WorkerSend.** One action per call that can fail or be the last one before a
  crash. A failing database call has two outcomes, with and without its effect.
  `copies` counts what WhatsApp was handed; it is the quantity the ledger exists
  for.
- **SendScheduler.** One action per case of the main loop's `select` and per step
  of the fetcher, preparation and sender goroutines. `RoundRobin` is the trailing
  scan that picks the next head, part of every action that ends in it. Typing
  commands have no id (`NoId`): the duplicate check passes them over, so each of
  their deliveries is queued.
- **MessageStatus.** One row with its temporary or final `id`, `status`,
  `metadata.error` and whether it has other metadata. A receipt is two statements
  with a ledger lookup in between, the expiry a snapshot and a write; all other
  handlers are one UPDATE. `echo` is the second row that a history replay inserts
  while the own row is still under its temporary id; the unique key then refuses
  statements, which is a guard here and an exception and a redelivery in the code.
- **HistoryBarrier.** `row` is `worker_event_outbox`, `earlier` what `event_order`
  says. A handler is three awaits: the gate, the application, the deletion.
- **NodeLease.** A lease statement has three moments: it is sent, it takes effect in
  the database, its answer is acted on; `query` says which, and a node may die or
  give up between any two. `deadline` is the node's own idea of its authority. A
  launch is claimed, started and activated in separate steps, with the
  compare-and-swap on `launch_id` that ignores `node_id`, as in the upsert. `Tick`
  is where timers are obeyed: `Reply` bounds the delay of an answer, `Fence` the
  time from losing authority to the end of the last child.
- **Broadcast.** `leaf` is `scheduled_messages`, `job` is `bulk_jobs`,
  `task` what a replica's cycle or a request has read and not yet written.
  `next_attempt_at` is kept as "has passed" and the budgets as "lets the connection
  send". Settling a row, the job's progress, its closing, each of the three queries
  of the media cleanup, the deletion and the result notice are separate steps, as are
  the three statements of a cancellation. The orphan sweep is one UPDATE, and two
  steps: its subquery reads the statement's snapshot, and once the rows are locked
  only their status is checked again. An error of the cleanup is swallowed
  (`CleanupFails`); any other error of a finalization ends it (`FinalizeFails`) and
  counts, like a crash, as an actor that stopped half-way.

### Abstractions

- Payloads, names, formatting, logging, broadcasts and counters are left out.
- Time is a counter (`CommandOutbox`, `OutboxDispatch`), or the fact that a
  timeout may pass (`MessageStatus`).
- `MessageStatus` takes its command's rows in outbox and ledger as kept: pruning
  is not modelled. A replay carries sent, delivered or read, since what it
  holds went through WhatsApp's server.
- `HistoryBarrier` saves a row in one step. A marker is saved after the goroutines
  of its import have returned (`handler/history_sync.go`), so its own history is
  committed by then. A flush that overlaps the first publication of an event is
  folded into one publisher per event: both write the same values.
  The duplicate window of the broker is not timed: a second copy is a redelivery.
  An event of an ended session is "applied" when the handler returns.
- `NodeLease` has one process per node id: `RegisterNodeLease` asks for an expired
  lease only, so that a replacement does not start while the old process is still
  fencing is the operators' part ("stop-first per node", `docs/deployment.md`), and a
  guard here. `Reply` also bounds the answer to a registration, which `manager.go:243`
  awaits without a timeout, and `Fence` the locks that `Stop` waits for
  (`manager.go:444-457`), which its 30 seconds do not; both are assumptions on the
  environment, and `node_lease_defaults` shows what becomes of slower ones. Rows are
  desired running. An explicit stop or unlink ends a child and removes
  its row, which is what `HandleWorkerFailure` does when it gives up; upgrades are
  left out. Recovery reads the registry when its registration is answered. The
  restart budget is a choice. A spawn that a fence finds under way is covered by
  `Fence`.
- `Broadcast` has one connection. A contact moved to another one counts as unlinked;
  what such a row comes to depends on the job's target and on other channels, and is a
  choice. Access to a contact and the eligibility of automatic replies are decided
  elsewhere, and a choice too. Idempotency keys, audience selection, counters for the
  purge and the media of plain rows (`cleanupScheduledMediaObject`) are left out; the
  channel-neutral send is its outcome.
- `MessageStatus` follows one message: the second row of another message, which makes
  the company's cleanup turn fail, is outside it, and so are events of an ended session
  (`message-handler.ts:110-119`).

## Runs

| Run | Question | Bounds |
|---|---|---|
| `command_outbox` | refinement of `ConversationLog`, fencing, no confirmed message taken back, failed only with the budget used up; everything committed is settled | 2 commands of one conversation, 2 dispatchers, 2 attempts, 2 faults; 528,784 states |
| `outbox_dispatch` | no lost wakeup, claims ended by their owner, all work done | 2 workspaces, 2 rows in the one behind the first page, 2 dispatchers, a retry, a suspension, a fault; 387,461 states |
| `worker_send` | at most once, honest confirmations, stable outcomes, every command answered | 2 overlapping workers, a reaction and a media send, 2 faults, 3 deliveries; 940,313 states |
| `send_scheduler` | slots, media buffers, `activeIDs`, no head forgotten, order per contact; a contact that never settles starves nobody | media and a text that never settles to one contact, media to another, a typing command; 3 slots, 1 media slot, 3 deliveries, 1 lost heartbeat, failed send or restart; 86,896 states |
| `message_status` | no regress, honest "sent", honest "send_failed", uncertain stays open; the ledger's outcome is shown, early receipts count, plain messages time out | 2 faults, 1 replay, with and without own metadata; 733,343 states |
| `history_barrier` | history before its marker, no saved event left to nobody, everything saved is applied | 1 history, 1 marker, 1 live contact event, a consumer and a drain, 1 fault; 88,334 states |
| `node_lease` | one live client per connection, the one the registry names; node affinity; refinement of `SessionOwner` | 2 nodes (symmetric), 1 connection, 2 launches, lease 2, margin 3, reply 1, fence 1, clock to 7; 2,190,306 states |
| `broadcast` | nothing sent twice, completed only when drained, at most one result notice and somebody to send it, live claims exclusive, a drained job always has someone to close it; every row settles and every job closes | 1 plain row and a job of 2 recipients, 2 replicas, 1 request, 2 attempts, 1 fault, 1 change by users; 1,713,915 states |
| `message_status_timeout` | violation, see below | no faults |
| `history_barrier_once` | violation, see below | no faults |
| `node_lease_defaults` | violation, see below | the default proportions: lease 4, margin 4, reply 3, fence 2 (one unit is 15 s) |
| `broadcast_media` | violation, see below | 2 jobs of one recipient each that share an upload |

Why the bounds are enough: every hazard in `PROJECT.json` is an interplay of two
actors over one row, command or marker, so two of each reach it; each mutant in
`PROJECT.json`, a plausible slip in the code, is found under the bounds of the run
that is to exclude it. Faults are bounded because they are what makes the state
space infinite; one or two of them at any place are what the code's comments
speak of. Most safety properties are also proved without the bounds. A second
history event, progress events and several consumers of `HistoryBarrier` are
covered by its proofs only, as are further nodes, connections, replicas and jobs.
In `send_scheduler` lost heartbeats, failed sends and restarts share one budget of one,
because liveness is checked together with safety; the proofs have no such budget.
`EventuallySettled` has the hypothesis `WindowLeft`, which the run's instance meets with
a stuck head and another command of its contact: with `QueueLimit = 2` and without the
hypothesis TLC shows the starvation, since commands behind a stuck head keep their
slots. `docs/operations/message-delivery.md` says so: "Fairness is bounded by the
eight-command admission window".
The clock of `node_lease` lets a lease expire, its margin pass and the new owner's
lease expire again.

`CHECK_DEADLOCK FALSE` is set where the system may come to rest: all commands are
settled and no clock or fault is left.

### What the violations show

- `PendingTimesOut`: `config/cleanup.config.ts` describes the timeout as "Minutes
  before marking a pending message as failed". The expiry asks for `metadata IS
  NULL`, and an outgoing file or album has metadata from the start: while no
  worker takes its command, it stays pending for good. `PlainTimesOut`, in
  `message_status`, shows that messages without metadata do time out.
- `MarkerAppliedOnce`: a comment in `history-apply-barrier.service.ts` says that
  "the loser of the delete race returns false and skips the duplicate". The gate
  only reads, and the row goes after the application, so a consumer and a drain
  can both pass it and apply the marker twice, without any fault. The effect is a
  repeated `history:loaded`.
- `OneClient` under the default durations. `manager.go` says of the margin: "It must
  comfortably exceed the fencing detection interval plus the worker stop budget, so
  the previous owner's clients are provably gone (default 60s)". A node counts its
  deadline from the *answer* to a renewal (`node_fencing.go`), the database from the
  statement's effect; the renewal may wait for its answer up to its own deadline,
  three quarters of a lease. The fence then has 30 s, and writes to the database
  before it signals the children. With a lease and a margin of 60 s a peer may start
  a client while the old one is alive, when an answer is late and the fence slow.
  In TLC's shortest trace the late answer is the registration's, after which the same
  file counts in the same way.
  `node_lease` and its proofs show what is enough: `Margin > Reply + Fence`.
- `MediaKept`: the comment of `cleanupBulkJobMediaObject` says that "The object is kept
  whenever anything may still need it". Its three queries and the deletion are separate
  statements. A job that takes up the same upload after the third query loses its media
  at once; and a row that is still to be sent when the first query looks for messages,
  and sent when the second looks for pending rows, is seen by neither. The second needs
  one job only: a row that goes back to "scheduled" between a cancellation's UPDATE and
  its count is neither canceled nor counted, and is claimed and sent during the cleanup.

### Where else the code and its comments differ

The runs check what the code does here; the differences are:

- `deriveBulkJobOutcome` says that "completed" means that every recipient was handed to
  the send pipeline (`bulk-job.service.ts:694-698`, and the test at
  `bulk-job.service.test.ts:161`). A recipient that a user has canceled on its own counts
  neither as failed nor as skipped, and the job still reports "completed";
  `ClosedMeansDrained` therefore says "sent or canceled". TLC refutes "all sent" with one
  `DELETE /scheduled/:id`.
- `finalizeBulkJobIfComplete` says that one caller "emits the single job-level
  notification". The notice follows the media cleanup and the audit entry; a process that
  stops in between leaves a completed job without one for good. `OneVerdict` says at most
  one, and one unless somebody stopped half-way.
- `sweepOrphanedBulkLeaves` says that "a concurrently claimed leaf is untouched". Its
  outer filter admits "processing", so a row claimed between the statement's snapshot and
  its lock is skipped under its claimer, whose own outcome is then refused by the fence.
  Nothing is sent twice; `LiveClaimIsExclusive` names the exception.

## Fairness

All fairness is weak unless stated, and on steps that the code itself keeps taking:

- Poll loops (dispatchers, recovery, drain, cleanup, event flusher) schedule their
  next turn from a `finally` or a ticker; a turn that has started ends, since
  every await in it has a timeout. A claim on behalf of a batch is fair for the
  loop as a whole, never for a particular row.
- Time passes (`Tick`, `TimeoutPasses`) and AckWait runs out for a command nobody
  holds or keeps alive.
- The scheduler's `select` picks at random among ready cases, so each ready case
  is eventually taken. Strong fairness is used for `Fetch` (the broker hands out
  messages in stream order, so one that is deliverable again and again is fetched)
  and `TakeMediaSlot` (waiters on a Go channel are served in order).
- In `HistoryBarrier`, `Receive` is strongly fair: the broker delivers a ready event
  when a consumer is free, again and again.
- In `MessageStatus` a worker need not run at all; it only reports what it has
  recorded. Receipts, replays and the broker's storing are not fair. A handler that
  the unique key refuses is not enabled, so fairness promises nothing for it.
- In `Broadcast` a replica keeps polling (`Poll`), a request ends (`Answer`) and time
  passes: due times come, quotas are renewed, the connection returns. With finitely
  many faults its promises are of the form "from some point on, always". `JobCloses`
  excepts a process that stopped between a recipient's outcome and the job's: the
  code closes a job only from the settling of one of its rows, so such a job stays
  running (TLC shows it without the exception).
- `NodeLease` has no liveness property: its timers are part of `Tick`, and nothing
  promises that a node stays up.
- Faults are never fair.

## Proofs

TLAPS checks every theorem for every value of the constants, from the named
assumptions of the modules (finite bounds are naturals, leases positive, disjoint
sets of names); TLC evaluates these on every run.

- **CommandOutbox** (`TypeCorrect`, `ConversationOrder`, `OutboxKeepsOrder`,
  `ClaimsAreFenced`, `AttemptsSpentOneByOne`, `FailureIsFinal`, `ConfirmationIsFinal`,
  `FinalRowsNeverChange`). `RecipientOrder` speaks of the stream, but what keeps it
  is earlier: `EnqueueInv` says that among the commands of one recipient only the
  newest may be uncommitted, so no row appears in front of a committed one;
  `OrderInv` that whatever is claimed, on the wire or stored has only final rows in
  front of it; `ClaimInv` that a claim that is not current has expired or belongs to
  a final row, so a new lease deadline differs from all old ones. `OutboxKeepsOrder`
  is the refinement: a row has its place (`created_at`) from its commit on, and each
  step appends, stores, gives up or stutters. It needs `FreshInv` besides: a row
  that is inserted and not committed is still pending. `CountInv` ties the
  attempt count that a current claim carries to the one in the row, so that the
  increment which a dispatcher writes is an increment of the row; `MessageInv` that a
  failed message belongs to a row that failed with its budget used up.
- **OutboxDispatch** (`TypeCorrect`, `WakeupsAreNeverLost`, `ClaimsAreEndedByOwner`).
  `NoLostWakeup` is
  inductive together with `MeasureInv`: while the generation is the one a dispatcher
  has read, what it measured bounds every active row from below. A writer in
  between increments the generation, and settling then keeps the marker due. Only
  the recovery scan of a suspended workspace removes a mark, so `MarkedInv` says that
  before the first suspension every workspace with work is marked.
- **SendScheduler** (`TypeCorrect`, `SlotsAlwaysAccounted`, `MediaAlwaysBounded`,
  `HeadsNeverForgotten`, `CommandsActiveOnce`, `ContactsInOrder`, `HeadAlwaysRetained`).
  `Consistent` says that the queues, the round robin list and `activeIDs` describe the
  same commands, none with an id twice; `HeadsOnly` that what is ready, being prepared, held in
  memory or sent is the head of its queue; so each turn of the loop changes one queue at
  one end and every account by one (`Accounts`). `NoHeadForgotten` adds that every
  queue's head has been started: the main loop starts a head when it becomes one, and
  each of the paths that end a preparation or a send passes it on (`HeadsStarted`), while
  the trailing scan leaves the sender idle only if nothing that may be sent is ready
  (`SenderBusy`). `OrderKept` carries the order of a
  contact: the broker delivers first deliveries in stream order, so whatever was
  published before a command is started or queued in front of it when it is admitted.
  It assumes that copies of one command have one recipient (`CopyAssumption`), since
  they are published from the same outbox row.
- **WorkerSend** (`TypeCorrect`, `SendsAtMostOnce`, `ConfirmationsAreHonest`,
  `OutcomesAreStable`, `NoSilentAcknowledgement`, `OwnerKeepsContract`). `FenceInv`: the ledger row never
  disappears, only the process that inserted it goes on to the transport, and
  nothing was sent while it was missing. `SentInv` ties a recorded or carried "sent" to
  the one copy, `RowInv` says that what is reported, or about to be, has a row in the
  ledger. `AckInv` follows a handler to its last call: whoever is about to acknowledge
  has reported. `OwnerKeepsContract` has the hypothesis `[]Exclusive`: processes may
  overlap and follow one another, but no two handle one command at the same time. Then
  `OwnerInv` adds that a failure is recorded only before the transport, which gives the
  refinement: each step is a step of `SendContract` or a stutter, and no command is
  both confirmed and reported as failed. Without the hypothesis the conclusion is
  false: a process may record a failure while another one's send is under way.
- **MessageStatus** (`TypeCorrect`, `ShownWasSent`, `FailuresAreHonest`,
  `UncertainStaysOpen`, `TicksNeverRegress`, `AckedReceiptsCount`). `EvidenceInv` traces every event that is
  on its way to what the worker recorded or WhatsApp was given; `FinalIdInv` says
  that a row under its final id is shown as sent or is uncertain, so the writers
  that fail a pending message by its temporary id cannot touch it. A receipt implies a
  transmitted message, hence a row in the ledger, hence a candidate for its second
  statement; so one that matches nothing found a row that is as far (`AckedStep`).
- **HistoryBarrier** (`TypeCorrect`, `HistoryComesFirst`, `NothingLeavesEarly`,
  `NoEventIsLost`). A
  history row stays until its event was applied, and what a marker waits for is
  fixed when it is saved (`SavedInv`); hence a gate that finds no earlier row
  has seen that history applied (`GateInv`), and nothing earlier can appear later.
  `DeliveryInv` reads the broker's view: an event that is out for delivery is with a
  consumer, and one that was acknowledged has been applied or is a marker whose row the
  drain will find; with `NothingLeavesEarly` this leaves no state in which a saved
  event is with nobody (`NothingLost`).
- **NodeLease** (`TypeCorrect`, `OneClientAlways`, `ClientIsRegisteredAlways`,
  `AffinityAlwaysKept`, `Refinement`), under `MarginCovers == Margin > Reply + Fence`
  but for the types. `LeaseInv` bounds a node's deadline, and the end of its fence, by
  its lease in the database plus `Reply` and `Fence`; so a lease that has been expired
  for the margin belongs to a node without children (`NotYetFailed`). `RowInv` and
  `EntryInv` say that a node in the course of a launch holds a lease that has not been
  expired so long, that a claimed, started or running launch is the registry's, and
  that a claim which still could succeed belongs to the node the row names. Each step
  then starts a client only where no other is alive, which is a step of
  `SessionOwner`, ends some, or stutters.
- **Broadcast** (`TypeCorrect`, `SentIsRecordedAlways`, `ClosedMeansDrainedAlways`,
  `OneVerdictAlways`, `SettledIsFinalAlways`,
  `NoJobForgottenAlways`, `LiveClaimIsExclusiveAlways`). The invariants speak of rows and jobs, but
  what endangers them is what a task has read and still acts on. `Named` ties a task
  to the row and job it works on; `Sealing` says that one which found a job
  drained is right for good, since no row of a created job becomes pending again;
  `Locking` that a cancellation holds its rows between its statements, and `Unique`
  that one request at a time does. `NoJobForgotten` is about handing over: an actor lets
  go of a job only when it found the job closed, canceled or not drained (`HandsOn`),
  whoever settles the last row takes the job on (`LastTakesOn`), and a job is created
  with a row to be sent (`CreatedIsPending`). `OneVerdictAlways` follows the notice from
  the guarded UPDATE to its sending: at most one actor carries it and nobody once it was
  sent, and no step but a stop half-way drops it. `LiveClaimIsExclusiveAlways` needs of
  every step that it is the claimer's, the clock's or a sweep's over a row it had found.

Every invariant and action property of the passing runs is stated by a theorem. Only
model-checked: the liveness properties (out of the prover's reach, as is ENABLED) and,
in the refinements, nothing, since no abstract specification here states fairness. Only
proved, since a run's property implies them, they are what its proof rests on, or their
cost in a run is out of proportion: the type invariants, `RecipientOrder` (which
`KeepsOrder` implies), `AttemptsCounted` and `FinalIsFinal` of `CommandOutbox`,
`AckedIsAnswered` and the contract of `WorkerSend` (the run has overlapping processes,
for which it does not hold), `AckedReceiptCounts` of `MessageStatus`, `RowOutlivesWork`
of `HistoryBarrier`, `SettledIsFinal` of `Broadcast`, and `OneClient` under the margin
(it follows from `ClientIsRegistered`). Each was checked with TLC on the instance of
its run before it was proved.

## What is not modelled, and the plan

The reasons for every component are in `PROJECT.json`. The repository has some
177,000 lines of implementation; the greater part is user interface, HTTP routes,
schema, formatting and third-party protocol code without concurrent state of its own,
which a model would only transcribe. The project stays with the paths where two actors
meet over one row, so the share of all lines that it maps is small and will remain so.

Hazards that no property covers:

- a ledger row pruned after a day while the outbox may still publish its command;
- the order of a contact across a shutdown;
- the sequence number of an event drawn before its commit;
- a launch claim that takes effect and whose answer is lost: the node goes back to the
  old launch id, every later claim expects it and is refused, and the connection stays
  down until its row is removed (safe, and promised nowhere otherwise);
- a recipient that settles between a cancellation's count and its commit: nobody closes
  the job, and `completed_at` and the media stay as they are (TLC finds the
  interleaving; nothing is sent because of it);
- a process that stops between a recipient's outcome and the job's, or between the job's
  UPDATE and its notice: the job stays running, or completed without a notice;
- the row that a history replay inserts under the final id, after which the temporary
  row never settles (the liveness properties of `MessageStatus` except it).

Next, in this order:

1. `SendPipeline`, composing outbox, worker and ledger pruning over one clock: a
   command is not published again after its ledger row is gone.
2. The group command ledger, then the delivery and search outboxes, as further
   instances of the ledger and readiness patterns.
3. Rolling upgrades and explicit stop and unlink in `NodeLease`; several connections
   with moved contacts in `Broadcast`.
4. Conversation cases, refresh-token rotation, the channel spine.
5. The SLA calendar as operators against a reference definition.
