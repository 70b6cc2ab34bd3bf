# Two-Way Integration Service: a TLA+ verification

The repository keeps a catalog of customers in step with Stripe. An API changes
customers in its database and writes an event beside each change (the
transactional outbox); a poller publishes the events to Kafka; a worker applies
them to Stripe. In the other direction Stripe's webhooks change the database,
and a reconciliation job compares both sides. This directory holds a model of
that code in TLA+, the runs that check it with TLC, and proofs checked by TLAPS.

Paths below are relative to the repository's root.

## 1. Inventory

| component | code | state it keeps | operations | what makes it correct |
|---|---|---|---|---|
| Customer API | `app/routes/customer_routes.py`, `app/services/customer_service.py`, `app/repos/customer_repo.py` | `customers` rows; one session per request | create (or reactivate), update, soft delete, each with an event | an acknowledged change is announced; the events tell the final state; emails and stripe ids stay unique |
| Outbox relay | `app/services/outbox_processor.py`, `app/repos/outbox_repo.py`, `app/core/messaging.py`, `app/routes/admin_routes.py` | `outbox_events` rows; `running`; the batch in a thread's hands | insert, poll, publish, mark, count a retry; dead-letter, cleanup | no event lost; only exhausted events dead-lettered; order per customer; bounded duplicates; every event leaves in the end |
| Worker | `worker.py`, `app/core/retry.py` | a Kafka consumer, one session for everything, the attempt counter | consume, dispatch, retry with backoff, dead-letter | every message applied or dead-lettered; replay harmless |
| Stripe outward | `app/integrations/stripe_service.py:22-105` | `stripe_customer_id` of the row; Stripe's customers | create and link, modify, delete | at most one Stripe customer per local one |
| Stripe inward | `app/routes/webhook_routes.py`, `stripe_service.py:107-327`, `customer_service.py:98-173` | the same rows | upsert (update, link or create), delete | idempotent, tolerant of reordering, no event of its own |
| Conflicts | `app/services/conflict_service.py`, `app/repos/conflict_repo.py` | `data_conflicts` rows | record, merge, rename, reject, flag | one pending record per conflict; resolved once |
| Reconciliation | `app/services/reconciliation_service.py`, `app/repos/reconciliation_repo.py`, `app/routes/reconciliation_routes.py` | reports, mismatches | run, compare, auto-resolve, resolve by hand | additive only; every report ends completed or failed; counts agree with records |
| Scheduler | `app/services/reconciliation_scheduler.py`, the lifespan of `main.py`, start and stop in `app/routes/reconciliation_routes.py` | `is_running`, `task` | start, stop, loop, manual run | one loop and one run a day in each replica; every stop returns |
| Infrastructure | registry, universal service, base repositories, config, logger, response, alembic, debug routes | none that changes after start | | |

How they meet: the API and the relay share `outbox_events`; the relay and the
worker share the Kafka topic; the worker, the API, the webhooks and the
reconciliation share `customers`; the worker, the webhooks and the
reconciliation share Stripe. There are no locks: all that protects shared rows
is the database's commit and the two unique indexes.

What runs at the same time: API requests, each in a thread of its own; one
poller thread per worker process, and a worker and a scheduler per replica
(README.md:832 of the repository asks for three); background tasks and the cleanup in API
processes. Webhooks and reconciliation runs are coroutines that never suspend
once they have their input, so within one process they do not interleave with
each other, but they do with everything above and with other replicas. The
scheduler's loop is a coroutine of the same event loop that suspends only in its
two sleeps, and stopping it suspends only where it awaits the cancelled task.

The hard behaviours are listed, each at its line, under `hazards` in
`PROJECT.json`: read-then-act over several commits, two commits where the
comments say one, at-least-once delivery without identities, a session that
stays broken after an error, retries that let later events overtake, and limits
that failing rows can fill.

## 2. Plan

Done, in this order:

1. `Outbox` with `EventRelay`: the relay carries every outward change, so it
   comes first. Checked, proved, and shown to implement the abstract relay.
2. `CustomerTable`: the rows and statements shared by all writers of customers.
3. `CustomerService`: the API requests over them.
4. `Dispatcher`: worker, retry and Stripe outward over a topic that redelivers.
5. `Webhook`: inward sync and conflicts over `CustomerTable`, with deliveries
   duplicated and reordered, beside API requests and the worker.
6. `Reconciliation`: reports, mismatches and automatic repairs over both sides.

7. `Reconciliation`, completed with the manual resolution of mismatches.
8. `Scheduler`: start, stop and the daily loop over a wall clock.
9. `EventConsumer`, the abstract consumer, and `Dispatcher` shown to implement it.
10. Proofs about `Outbox`, `CustomerTable` (the lemmas all writers share),
    `CustomerService`, `Dispatcher` and `Scheduler`: all their invariants, and the
    two refinements.
11. Proofs about `Webhook` and `Reconciliation`: all their properties.

To come:

12. `SyncSystem`: service, relay and dispatcher composed through `EventRelay` and
    `EventConsumer`, in place of the requests `Dispatcher` takes as one step.

## 3. Modules

**`Outbox`** models `outbox_events`, the poller threads, the admin's dead-letter
tasks and the cleanup. An event is the number of its row.

| in the model | in the code |
|---|---|
| `status` | the row: absent, flushed but uncommitted, rolled back, committed with `is_processed` false (`pending`) or true, deleted |
| `retry`, `entity` | `retry_count`, `entity_id` |
| `topic`, `dlq`, `lost` | what Kafka holds, and what the producer lost after `send_event` returned True |
| `running`, `pc`, `batch`, `cur`, `seen` | one `OutboxProcessor`: its flag, where it is in `_process_batch`, the list it iterates, the row in hand, the count it read |
| `task`, `failed`, `dead`, `session` | one background task in `process_failed_events`, and whether its session still works |
| `fails`, `late` | history: failures so far; rows committed after a newer row of their customer |

A step is one database call that ends in a commit, or one call to the producer.
`increment_retry_count` is two steps, since other sessions can write between its
SELECT and its UPDATE. The error handlers are part of the model: an error in
`_process_batch` runs into a second error in its handler and ends the batch
(`DatabaseError`), one in `process_failed_events` leaves the session broken for
the rest of the loop (`MarkDeadFails`). `retry` and `fails` stop counting at
`MaxRetries`, with which they are only ever compared. `Poison` are events
`send_event` always refuses. Rows are taken to be ordered by `created_at` as
they are numbered, which the clocks of several API hosts need not respect.

**`EventRelay`** is what `Outbox` promises, without table, threads or broker:
accepted events are delivered, dropped by the broker's client, or exhausted and
dead-lettered, and only then retired; nothing is taken back. `Outbox` maps its
state to it (`Relay`) and `RefinesRelay` is checked and proved.

**`CustomerTable`** gives the `customers` rows, the unique indexes, and `Flush`,
the ORM's write of just the attributes a session changed.

**`CustomerService`** runs create, update and delete requests over the table, a
statement or commit at a time: find or load, write and commit in the
repository, read back, add the event, commit again in the service, reply. `Fail`
is an exception or a dying process at any point: it undoes the uncommitted event
and never the committed row. `events` lists the outbox rows by `created_at`,
each flushed, committed or undone by a rollback.
`cut` and `overlap` are history: requests that failed after the row's commit,
and whether two requests were ever open at once.

**`Dispatcher`** is the worker between the topic and Stripe. Requests change the
table and append to `log` in one step, since `CustomerService` and `Outbox` look
inside them; `Republish` is the relay's at-least-once delivery. A create request
may name a Stripe id (`Named`), which the code stores unseen: one of an account's
customers the worker did not make (`Foreign`; an id that nobody has is modelled as
a customer deleted long ago, since Stripe rejects both), or one the worker has just
been given and is about to link (`Taken`), which counts as a fault.

| in the model | in the code |
|---|---|
| `log`, `position`, `offset` | the topic, how far the consumer has handed out records, and what its group has committed |
| `pc`, `attempt` | where `process_message` is (calling Stripe, linking the row, after a failed attempt, giving up), and the counter of `retry_with_backoff` |
| `stripe`, `fresh` | Stripe's customers by id, and the one `create_customer` has created and not yet linked |
| `session` | the worker's only database session: after an error nothing rolls it back until the consumer is replaced |
| `outcome`, `hasty`, `faults` | history: what became of each record ("interrupted" if the worker exited with it in hand), whether a request did not wait for the events before it, and the faults so far |

A step is one call to Stripe, one commit, or one step of the consumer. A call may
succeed, be refused, or succeed and lose its answer. The integration turns every
exception into `None` or `False`, so each failure is retried alike and the
distinctions of `is_retryable_stripe_error` never matter. kafka-python commits
the offsets of what it has handed out when it is asked for more records
(`AutoCommit`) and when it is closed. A worker killed outright commits nothing
(`Crash`); one that an interrupt or `SystemExit` ends goes through the `finally`
of `worker.py:173` and closes its consumer, which commits the record in hand,
dealt with or not (`Interrupt`). One worker and one partition are modelled: others share no record
with it. Delays are left out.

**`EventConsumer`** is what the worker promises the topic, without Stripe, table
or retries: records are dealt with in the topic's order, at least once each, and
committed only when they and all before them have been, but for those a worker
`Abandon`s by exiting with them in hand. `Dispatcher` maps its log, the records
with an outcome, the interrupted ones, and its offset to it (`Consumer`), and
`RefinesConsumer` is checked and proved.

**`Webhook`** is the handlers of Stripe's customer events over the table, each a
replica's or a worker thread's, and the conflict service they call.

| in the model | in the code |
|---|---|
| `table`, `pending` | the customers, and how many pending records `data_conflicts` holds for each email |
| `sent` | the events Stripe has sent; each may be delivered any number of times, in any order, by several handlers at once |
| `announced`, `creating` | `customer_created` events the worker has still to see, and its creates still to be linked: Stripe's own event may arrive before the link |
| `job` | one handler: where it is, the event, the row it found as first read (`seen`) and as its session loaded it (`loaded`), the email to write |
| `done`, `orderly`, `stable` | history: deliveries so far, whether all came in order, one at a time, and met no conflict, and the event handled last with nothing written since |

A step is one statement or one commit; a handler can fail or die between any two,
and the route answers 200 all the same, so Stripe does not send the event again
because of it. The upsert looks for the row by Stripe id, then by email, then
inserts; an insert or update that violates a unique index goes to the conflict
service, which records it and flags, rejects or merges (`Strategies`: the
configuration is one of them, and the model lets every conflict choose). The two
reads that look for an existing conflict are one step, since nothing but the
conflict service writes what they read. API requests and the worker's link write
in one step each; `CustomerService` and `Dispatcher` look inside them. A create
request may name a Stripe id, its customer's or not, and ends the orderly history
if it does. The reconciliation is not among the other writers here: what it
writes, a link or a row a Stripe customer lacked, would end an orderly history
just so and count against every handler at work.

**`Reconciliation`** is `run_reconciliation` with its options, and
`resolve_mismatch`, an admin's request for one of the mismatches a run recorded.

| in the model | in the code |
|---|---|
| `table`, `stripe` | the two sides; a run starts from any contents the unique indexes allow |
| `report`, `mismatches` | `reconciliation_reports` and `data_mismatches`, of which `resolved` says whether `resolved_at` is set |
| `job.local`, `job.remote` | the two lists a run reads at its start and compares from then on; the local one holds all active rows, or as many as its limit, whichever those are (`ListLimits`: 10000 in the code) |
| `job.rows`, `job.ids` | what is left of its two loops |
| `job.mine`, `job.cur`, `job.row` | the list `mismatches` of the run, its last element, the row loaded or created; of a request, the mismatch it resolves |
| `job` of an admin | a request: what it is to do (`FirstStep`), `Open`, the customer it retrieves from Stripe, the row it creates or links, and `MarkResolved` or `MarkFailed` |
| `job.loaded` | the row as the session loaded it: of what is written later, only the columns that differ from it |
| `job.broken` | the session after a commit that failed: it needs a rollback that nothing gives it |
| `job.disturbed` | history: somebody else wrote since the run started |

A step is one read or one commit, except that `CompareFields` is one for both
fields, of which the code commits each difference on its own: what it records is
in nobody else's hands, and a run cut between the two is not completed.
`create_customer` is called without its session
and its result awaited, so `CreateInStripe` always ends in the handler that
reopens the mismatch. `Break` and `FailReport` show that an error in a commit
leaves the report at "running", since the commit of the except branch fails on the
same session. A request retrieves the Stripe customer and creates or links a row
with the steps a run uses; what it cannot do it marks failed, and a mismatch it
has already resolved may be resolved again. `Elsewhere` stands for every other
writer: one field of a row, or of a Stripe customer, becomes anything the indexes
allow.

**`Scheduler`** is the daily loop of one replica of the API, the lifespan of
`main.py` and the start and stop requests that reach it, over a wall clock of
ticks. Every replica has a scheduler of its own (`main.py:10`), and they share
nothing the loop reads or writes: of three replicas (README.md:832), each
reconciles every day. What their runs do to each other is not the scheduler's
matter; to a run of `Reconciliation` the others are writers from elsewhere.

| in the model | in the code |
|---|---|
| `now`, `runTime`, `Hour`, `MonthLength` | `datetime.now()`, the configured hour and minute, `asyncio.sleep(3600)`, the days of a month |
| `up` | whether the API process lives; `Boot` is the lifespan's start, `Shutdown` its end, `Crash` a kill |
| `isRunning`, `task` | the fields of `ReconciliationScheduler` |
| `tasks` | every loop ever created: new, asleep until its target, in the sleep after an error, in a reconciliation, or done; and whether it has been cancelled |
| `request` | the task a stop request, or the shutdown, is awaiting |
| `since`, `begun`, `completed` | history: when the flag last went up, and the days whose run began and how often it ended |

A step goes from one suspension to the next: `Head` is all the loop does between
waking and sleeping again, the exception that `replace(day=day + 1)` raises on a
month's last day included. A reconciliation holds the event loop (`Free` is
false) for `MinRun` to `MaxRun` ticks. A sleep ends up to `Early` ticks before
its target by the wall clock, and is served up to `Lag` ticks after it, since a
manual run or a webhook may hold the loop. `Tick` lets time pass only when nothing
is overdue.

## 4. Runs

| run | shows | bounds |
|---|---|---|
| `outbox_safety` | nothing is lost, dead-lettered early, overtaken without a failure, or duplicated without limit; refinement of `EventRelay` | 2 threads, 1 task, 2 events, batch 2, 2 retries, 1 halt; about 1.2 million states |
| `outbox_live` | every event Kafka can take leaves the table | 1 thread, 1 task, 2 events of which one is never taken, lossy producer, 2 halts |
| `outbox_overtaken` | a violation: a failed event is overtaken by a newer one of its customer | 1 thread, 2 events |
| `outbox_blocked` | a violation: a batch full of failing events blocks the rest | batch 1, 1 poison event |
| `service` | acknowledged changes are announced and told correctly | 3 requests, 2 rows, 2 names, 2 emails, 1 stripe id, 1 failure; about 554 thousand states |
| `service_split` | a violation: row and event are not one transaction | 1 request |
| `dispatcher` | no record blocks the worker, and none is skipped but by an exit with it in hand; links are real, copies bounded, and Stripe mirrors the table when nothing fails; refinement of `EventConsumer` | 2 rows, 3 records, 1 name, 2 emails, 2 attempts, 2 faults, 1 foreign customer, 2 ids that requests name; about 536 thousand states |
| `dispatcher_replay` | a violation: replaying a create makes a second customer | 1 row, 2 records, 1 fault |
| `webhook` | orderly deliveries mirror Stripe; repeated ones change nothing; links are kept, and so are emails Stripe did not change; an email has no more pending conflicts than handlers could have raced | 2 handlers, 2 rows, 2 Stripe customers, 2 events, 1 request; about 1.6 million states, symmetry over handlers, Stripe ids and emails |
| `webhook_repeat` | a violation: a nameless event delivered twice blanks the name | 1 handler, 1 row, 1 event, 1 request |
| `reconciliation` | an undisturbed run forgets no difference but of rows its full list left out; run and request have done what they call resolved, and both add without replacing | 1 run, 1 request, 2 rows, 2 Stripe customers, 1 name (or none), lists of at most 1 or 2 rows, 1 write from elsewhere; about 2.4 million states, symmetry over Stripe ids and emails |
| `scheduler` | of one replica: one loop, every day reconciled once, every stop returns | 3 days over the end of a month, days of 5 ticks, every run time, 3 loops, 1 stop request beside the shutdown; about 189 thousand states |

Why the bounds are enough to be of use: every race of the relay is between two
threads (or a thread and the task) over one row, and a second row gives the
order something to get wrong (`PublicationOrder` proves it for batches that leave
rows behind);
two retries let a lost increment differ from a late one; one halt cuts any
sequence at any point, the restart after it is free. Three requests let an
update, a delete and a reactivation of one row meet, with a second row to
collide with on an email. Three records let the dispatcher see a row created,
deleted and brought back, or created, updated and updated again; two faults let a
broken session meet a redelivery, or an exit with a record in hand meet another;
and Stripe ids never run out. The names of its requests are one, since a second
makes the run five times as long: `MirroredWhenQuiet`, which is about them, is
proved for any number. The ids its requests name are the first the worker is
given, before and after that, and a customer's of somebody else. Two handlers of
two events meet on one row, or on one email in two rows. A run of
reconciliation needs two rows and two Stripe customers for a link to be taken,
inactive rows included; its other runs write nothing `Elsewhere` does not.
`MaxWrites` bounds the writes from elsewhere and the requests opened beside a run;
a request opened after the run is free. `OptionSets` gives a run four of the eight
combinations: "auto_sync_to_stripe", whose call always fails, comes and goes with
"auto_resolve", apart from "auto_sync_to_local". Three days of the scheduler hold a month's last day, the first of the next
and a day after it; three loops let a start meet a stop that still awaits its
task, and a restarted process. The
symmetric runs check safety only, so the symmetry is sound. The proofs cover
other values for the properties they state.

Safety of the two directions is stated with care for what the code does not
give. `PublishedInOrder` excuses an event that failed once, was lost by the
producer, or was committed after a newer one; `OrderedByKey`, without the first
excuse, is what the comments say, and fails. `FinalStateAnnounced` says that some
event tells the final state of each row, also when requests overlap;
`LastEventTells` says it of the last event, and only when they did not. Both
excuse rows a request changed and then failed to announce, which is the subject
of `service_split`. In `Dispatcher` an update or delete whose payload was written
before the create event was applied carries no stripe id and ends in the dead
letter queue, so `QuietMirror` is claimed only of requests that waited; and
creating is not idempotent (`dispatcher_replay`), so `BoundedCopies` says how many
customers the faults of a run can leave behind. `NothingSkipped` excuses one
record for each orderly exit of the worker, and no more. `LinkIsReal` claims that a link
leads to a customer made for that row, or to one a create request of that row
named: the code asks nobody whose that is. `OrderlyMirror` claims that a row
equals its Stripe customer only for events delivered in order, one at a time, and
that met no conflict, with no request naming a Stripe id: webhooks carry a whole customer and no version, so an older
one delivered last wins. `Reconciliation` works from lists, so its properties are
about runs nobody disturbs, except that no run ever deactivates a row, and that a
link leaves the rest of a row alone. A second
Stripe customer with the email of a row is no difference to the code, and a row
linked in a run is not compared in it: `NothingUnreported` says so. It also
excuses the active rows that are missing from a list as long as its limit: the
code takes 10000 rows, in no stated order (`app/services/reconciliation_service.py:103`), and
reports the run "completed" all the same. `OncePerReplica` says only that no
replica reconciles a day twice.
`ManualIsDone` is about requests that create or link, since "ignore" and the rest
do no work, and about those nobody disturbed. `EmailKept` excuses a handler after
whose look others wrote: `app/integrations/stripe_service.py:191` hands the email it saw back to
the update, and writes it over a newer one. `EveryDayRuns` claims a day's run only
of a scheduler that was up before the target and had time to begin, and not of the
first of a month when the run time comes before the hourly retries that cross
midnight have caught up: that day is lost to `replace(day=day + 1)`.

Fairness (`Outbox!LiveSpec`): a thread that runs keeps taking steps, since its
loop catches every exception and sleeps for a fixed time; a started task runs to
its end; and Kafka does not refuse a sendable event for ever
(`SF_vars(PublishOk)`). Starting a task is an admin's choice and gets no
fairness, and neither does restarting a dead worker: docker-compose.yaml:65 runs
it in the background with nothing to supervise it. So `NoEventStuck` promises
progress only when, from some time on, some thread is running. `Dispatcher!LiveSpec`
likewise gives fairness to a living worker's steps, because its calls to Stripe and
Kafka time out and every exception has a handler, and none to its restart; whether an
attempt succeeds is never assumed. `Scheduler!LiveSpec` says that a task that is
ready takes its turn, that a stop whose task has ended is answered, and that a
reconciliation holding the event loop gets on, as asyncio's ready queue and the
database's and Stripe's timeouts give; nobody has to start or stop anything. Its
constants assume that a sleep ends early by less than a reconciliation or the
error sleep takes (`Early < MinRun`, `Early < Hour`; of a sleep computed from the
wall clock this is what clock corrections may add up to), and that a day is longer
than a run and the wait for it. A host in a time zone that changes its clock by an
hour is outside these assumptions.

## 5. Proofs

`OutboxProofs` proves, for every number of threads, tasks, events, customers,
retries and halts (assuming only `OutboxAssumption`):

- `TypeCorrect`: `Spec => []TypeOK`. `TypeOK` ties the program counters to the
  row in hand, which the later proofs lean on.
- `NothingLost`: `Spec => [](NoEventLost /\ OnlyCommitted)`. `NoEventLost` alone
  is not inductive: a mark must know that its row was sent. `MarkedAfterSend`
  adds that a thread or task about to mark holds an event already in Kafka or
  lost by the producer, and `OnlyCommitted` that whatever threads hold once
  committed; `DeliveryInv` is the conjunction.
- `DeadLetterSound`: `Spec => [](RetryNeverAhead /\ DeadLetterOnlyExhausted)`.
  The read and the write of `retry_count` are separate, so the invariant counts
  the threads between them: the stored count plus the increments under way never
  exceed the failures, and neither does any count already read
  (`RetryNeverAhead`, stated alone by `RetrySound`). The finite cardinalities need `Procs` finite, hence
  `IsFiniteSet(Procs)` in the assumption. `TakenOnlyExhausted` carries the fact
  through the snapshot a task works from.
- `Refinement`: `Spec => RefinesRelay`, from the two invariants above.

`OutboxTopicProofs` is about the records in the topic. It proves `PublicationOrder`: `Spec => []PublishedInOrder`, for
any batch size. Its invariant `OrderInv` adds to the order in the topic that no
batch skips: the older events of a row's customer that neither failed, nor came
late, nor were lost are in the batch with it or in the topic already. That is what
the oldest-first `LIMIT` of the poll gives, and what the loop over the batch keeps.

It also proves `DuplicationBounded`: `Spec => []BoundedDuplication`.
The number of records of an event is bounded in two ways, both needed: with the
threads that still hold it in their batch, by the threads plus the halts; and
while the row is unprocessed, by the threads about to mark it plus the halts. The
second bound is what makes the first hold again when a thread reads a new batch.

`CustomerTableProofs` has the lemmas about the table every writer uses: while an
email is free a row number is (`NextRowFree`), and inserts, updates and flushes
keep the unique indexes and the numbering.

`CustomerServiceProofs` proves all four invariants of the `service` run, for any
number of requests: `TypeCorrect`, `Acknowledged`, `FinalState` and `LastEvent`.
The invariant says of each request what it has in hand at each statement and
which events are its own (`InHand`, `EventsOf`); `RowsTold` that every row is told
by a committed event or by a request on its way to one (`Telling`), which is
preserved because whoever changes a row reads it back, or deletes it; and, while
no two requests were open at once, `Alone`, that the row loaded is the row
written, and `LastTold`, that the last event of a row tells it unless the one
open request has still to add its own.

`DispatcherProofs` proves, for any numbers of rows, records, attempts and faults,
all its invariants and the refinement.

- `TypeCorrect`, `CommittedIsHandled` (`NothingSkipped`), `LinksAreReal`
  (`LinkIsReal`) and `ConsumerRefinement` (`RefinesConsumer`). The invariant `IInv`
  adds that every record is about a row that exists, that interrupted records are
  committed ones and counted by the faults (`InterruptsOK`), that the customer about to be
  linked was created for the row of the record in hand and is nobody's yet
  (`LinkInHand`), and that a running worker has dealt with every record before the
  one in hand (`InOrder`).
- `MirroredWhenQuiet` (`QuietMirror`). While nothing has failed and each request
  waited, at most one record is still to be applied, the newest, and only its row
  may differ from Stripe. `QuietInv` says how, by where the worker is: the event is
  one that makes the row's customers equal the row (`Ahead`), or the customer is
  created and still to be linked (`Unlinked`). It needs that Stripe has no customer of a
  row that does not exist (`NoStranger`).
- `CopiesBounded` (`BoundedCopies`). Creates are counted from restart to restart of
  the consumer, since only a restart delivers an event again. `CountInv` bounds the
  copies of a row by what each of its create events may have made before the last
  restart, the number delivered since, and what the one in hand has made. Since a
  restart, one copy an event as long as nothing failed (`Calm`), and up to
  `MaxAttempts` after that (`Rough`), in which case a fault pays for them; `Early`
  is the trade that makes it hold again after a restart.

`SchedulerProofs` proves all invariants of the scheduler, for any run time and any
lengths that `SchedulerAssumption` allows: `TypeCorrect`, `OnlyOneLoop` (`OneLoop`),
`ReplicaRunsOnceADay` (`OncePerReplica`) and `RunsEveryDay` (`EveryDayRuns`). One loop is
inductive once it is known that a loop in a reconciliation is never cancelled
(`RunUndisturbed`: nothing else runs meanwhile). One run a day needs that a day's
run is over only after its target (`CompletedLate`, from `Early < MinRun`), and
that the live loop's day has not been completed (`Ahead`). A run every day needs
that the live loop is on its way to the next day that has to run (`DayInv`), also
through the hourly retries of a month's last day; for them `SchedulerAssumption` says
that the sleep after an error, and the wait for it, are shorter than a day.

`WebhookProofs` proves, for any numbers of handlers, deliveries and requests, that
the types and the unique indexes hold (`TypeCorrect`), that an email has no more
pending conflicts than handlers that can have raced (`ConflictsBounded` of
`BoundedPending`: those about to record one are counted with the recorded), and what
a step of a handler may not do: `LinksKept` (`LinkKept`), `EmailsKept` (`EmailKept`)
and `NamedRepeats` (`NamedRepeatsNothing`). The invariants under the last three say
what a handler that nobody has disturbed still knows of the table when it writes:
that the row it found is as it was read, and as its session loaded it; and, of the
event handled last, that it would find the row it wrote, with nothing to change.

The module's longest proof is `MirroredInOrder` (`OrderlyMirror`). The property says
nothing until every delivery is over, so its invariant, `OrderInv`, says what holds
in between, while all has come in order. At most one handler is at work (`Alone`),
and `InTurn` follows it through every path:

- `Knows`, what it knows of the table: an update's row is active and linked to the
  customer; a row about to be linked has the customer's email and may be given away
  (`Free`: no one else has been heard of under its Stripe id, or that one is gone).
- `RowsTold`: a row's Stripe id is one that Stripe has given (a request that names
  another ends the orderly history), and an inactive row's customer was deleted by an
  event delivered already.
- `Waiting`: a row whose customer the worker has created keeps the email of the
  event that will link it, and no row has that Stripe id meanwhile (`Awaits`).
- the table shows the newest delivered event of every customer (`Shows`), the one in
  hand excepted, and a reactivated row with its old Stripe id excepted while it is
  about to get a new one.

It rests on what Stripe promises, that a customer's first event is its creation and
that none follows its deletion (`Final`).

`ReconciliationProofs` proves, for any numbers of runs, requests, rows and Stripe
customers, all properties of the `reconciliation` run: `TypeCorrect`,
`OnlyAdds` (`Additive`), `AutoResolvedDone` (`AutoResolvedIsDone`), `ManualResolved`
(`ManualIsDone`) and `AllReported` (`NothingUnreported`). The invariant has three
parts. `TypeInv` says what a run or request holds at each statement. `KnowsInv`
says what it still knows of the table while nobody else writes: the row about to
be written is as it was read, the rows on its list are as listed until it comes to
them, and what it has noted as done is there. `CoversInv` says what it has seen to:
every row that is off the list equals its Stripe customer or is named by a
mismatch, or is being dealt with, or was cut off by the limit when it was listed,
and every Stripe customer is known or named likewise.

Left to TLC: liveness (fairness is beyond the prover used), which is `NoEventStuck`,
`EveryEventHandled` and `StopReturns`. Every safety property of a passing run is a
theorem.

## 6. Not modelled

Of the conflicts, `auto_rename` is not modelled (it inserts a row with the very
Stripe id that has just collided), nor is manual resolution, whose
routes are not mounted (main.py:25); of the scheduler, `run_manual_reconciliation`,
which no route calls, is only a part of `Lag`; of the webhooks, signature checks and event
types that change nothing. Left out for good: read-only endpoints and searches, the
generic repository registry and `universal_service.py` (unused by any route),
logging, response envelopes, configuration and migrations. Of the modelled parts:
the contents of payloads beyond the row they describe, Kafka partitions (one
customer's events always share one), the email sent with a name to Stripe, a
worker whose integration is disabled, topic records no producer here writes, clocks and poll intervals, and the ages
given to the cleanup (any set of processed rows may be old enough).
