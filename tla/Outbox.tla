------------------------------- MODULE Outbox -------------------------------
(***************************************************************************)
(* The outbox relay: the outbox_events table (app/repos/outbox_repo.py),   *)
(* the polling threads that publish its rows to Kafka                      *)
(* (app/services/outbox_processor.py, started by worker.py), and the admin *)
(* tasks that dead-letter exhausted rows and delete processed ones         *)
(* (app/routes/admin_routes.py).                                           *)
(*                                                                         *)
(* An event is the number of its row.  Rows are numbered and stamped with  *)
(* created_at by the same INSERT, so ORDER BY created_at is the order of   *)
(* the numbers.  Every database call that ends in a commit is one step;    *)
(* every call to the Kafka producer is one step.                           *)
(***************************************************************************)
EXTENDS Naturals, FiniteSets, Sequences

CONSTANTS
    Procs,          \* outbox processor threads, one per worker process
    Tasks,          \* background tasks of POST /outbox/process-failed
    Entities,       \* customers the events are about (the partition keys)
    NoEntity,       \* the entity of a row that does not exist yet
    MaxEvents,      \* bound: rows ever inserted
    BatchSize,      \* OutboxProcessor.batch_size
    MaxRetries,     \* settings.MAX_RETRY_ATTEMPTS
    Poison,         \* events the producer refuses whatever happens
    Lossy,          \* may the producer lose a record it has accepted?
    MaxHalts        \* bound: processes killed or stopped, and database errors

ASSUME OutboxAssumption ==
    /\ MaxEvents \in Nat
    /\ BatchSize \in Nat \ {0}
    /\ MaxRetries \in Nat \ {0}
    /\ MaxHalts \in Nat
    /\ Lossy \in BOOLEAN
    /\ NoEntity \notin Entities
    /\ IsFiniteSet(Procs)

Events == 1..MaxEvents
NoEvent == 0

VARIABLES
    status,     \* [Events -> RowStatus]: the row, as committed or not
    entity,     \* [Events -> Entities \cup {NoEntity}]: entity_id
    retry,      \* [Events -> 0..MaxRetries]: retry_count, saturated
    topic,      \* the customer topic: the records in the order Kafka holds them
    dlq,        \* the events with a record in the dead letter topic
    lost,       \* history: events one record of which the producer lost
    fails,      \* history: publish attempts that reported failure, saturated
    late,       \* history: rows committed after a newer row of their entity
    running,    \* [Procs -> BOOLEAN]: OutboxProcessor.running
    pc,         \* [Procs -> ...]: the next statement of _process_batch
    batch,      \* [Procs -> SUBSET Events]: rows of the batch still to do
    cur,        \* [Procs -> Events \cup {NoEvent}]: the row in hand
    seen,       \* [Procs -> 0..MaxRetries]: retry_count as SELECTed
    task,       \* [Tasks -> ...]: the next statement of process_failed_events
    failed,     \* [Tasks -> SUBSET Events]: rows of the snapshot still to do
    dead,       \* [Tasks -> Events \cup {NoEvent}]: the row in hand
    session,    \* [Tasks -> {"ok", "broken"}]: can the session still commit?
    halts       \* bounds MaxHalts

rowVars  == <<status, entity, retry>>
kafkaVars == <<topic, dlq, lost>>
historyVars == <<fails, late>>
procVars == <<running, pc, batch, cur, seen>>
taskVars == <<task, failed, dead, session>>
vars == <<rowVars, kafkaVars, historyVars, procVars, taskVars, halts>>

RowStatus == {"none", "flushed", "rolledback", "pending", "processed", "deleted"}

-----------------------------------------------------------------------------
(* What a transaction sees of the table.                                   *)

\* Rows a SELECT returns: committed and not deleted.
Visible == {e \in Events : status[e] \in {"pending", "processed"}}

\* is_processed == False
Unprocessed == {e \in Events : status[e] = "pending"}

\* The first n rows of Unprocessed, ordered by created_at.
GetUnprocessedEvents(n) ==
    {e \in Unprocessed : Cardinality({f \in Unprocessed : f < e}) < n}

\* Mutant of GetFailedEvents: off by one.
AlmostFailedEvents == {e \in Unprocessed : retry[e] + 1 >= MaxRetries}

\* Unprocessed rows whose retry_count has reached the maximum.
GetFailedEvents == {e \in Unprocessed : retry[e] >= MaxRetries}

\* Committed at some time, whatever became of the row.
Committed == {e \in Events : status[e] \in {"pending", "processed", "deleted"}}

\* A counter only ever compared with MaxRetries loses nothing by stopping there.
Increment(n) == IF n < MaxRetries THEN n + 1 ELSE MaxRetries

\* The records a Kafka topic holds.
Published == {topic[i] : i \in 1..Len(topic)}

-----------------------------------------------------------------------------
Init ==
    /\ status = [e \in Events |-> "none"]
    /\ entity = [e \in Events |-> NoEntity]
    /\ retry = [e \in Events |-> 0]
    /\ topic = <<>>
    /\ dlq = {}
    /\ lost = {}
    /\ fails = [e \in Events |-> 0]
    /\ late = {}
    /\ running = [p \in Procs |-> FALSE]
    /\ pc = [p \in Procs |-> "idle"]
    /\ batch = [p \in Procs |-> {}]
    /\ cur = [p \in Procs |-> NoEvent]
    /\ seen = [p \in Procs |-> 0]
    /\ task = [t \in Tasks |-> "idle"]
    /\ failed = [t \in Tasks |-> {}]
    /\ dead = [t \in Tasks |-> NoEvent]
    /\ session = [t \in Tasks |-> "ok"]
    /\ halts = 0

-----------------------------------------------------------------------------
(* The requests that write events (add_event_to_outbox and the commit of   *)
(* its caller).  Several requests run at once, each in its own session.    *)

\* INSERT and flush: the row gets its number and created_at, uncommitted.
CreateEvent(e, c) ==
    /\ status[e] = "none"
    /\ \A f \in Events : f < e => status[f] # "none"
    /\ status' = [status EXCEPT ![e] = "flushed"]
    /\ entity' = [entity EXCEPT ![e] = c]
    /\ UNCHANGED <<retry, kafkaVars, historyVars, procVars, taskVars, halts>>

\* The caller's commit makes the row visible, possibly after newer rows.
CommitEvent(e) ==
    /\ status[e] = "flushed"
    /\ status' = [status EXCEPT ![e] = "pending"]
    /\ late' = IF \E f \in Committed : f > e /\ entity[f] = entity[e]
               THEN late \cup {e} ELSE late
    /\ UNCHANGED <<entity, retry, kafkaVars, fails, procVars, taskVars, halts>>

\* The caller fails or its process dies: the row is never seen.
RollbackEvent(e) ==
    /\ status[e] = "flushed"
    /\ status' = [status EXCEPT ![e] = "rolledback"]
    /\ UNCHANGED <<entity, retry, kafkaVars, historyVars, procVars, taskVars, halts>>

-----------------------------------------------------------------------------
(* One processor thread.                                                   *)

\* start() by a new worker process, or by one that had stopped the loop.
Start(p) ==
    /\ ~running[p] /\ pc[p] = "idle"
    /\ running' = [running EXCEPT ![p] = TRUE]
    /\ UNCHANGED <<rowVars, kafkaVars, historyVars, pc, batch, cur, seen, taskVars, halts>>

\* stop(): the loop ends after the batch it is in.
Stop(p) ==
    /\ halts < MaxHalts
    /\ running[p]
    /\ running' = [running EXCEPT ![p] = FALSE]
    /\ halts' = halts + 1
    /\ UNCHANGED <<rowVars, kafkaVars, historyVars, pc, batch, cur, seen, taskVars>>

\* Mutant of LeaveBatch: the row in hand is not forgotten.
LeaveBatchHolding(p) ==
    /\ pc' = [pc EXCEPT ![p] = "idle"]
    /\ batch' = [batch EXCEPT ![p] = {}]
    /\ UNCHANGED <<cur, seen>>

\* The batch is over: its rows, and where it was, are forgotten.
LeaveBatch(p) ==
    /\ pc' = [pc EXCEPT ![p] = "idle"]
    /\ batch' = [batch EXCEPT ![p] = {}]
    /\ cur' = [cur EXCEPT ![p] = NoEvent]
    /\ seen' = [seen EXCEPT ![p] = 0]

\* Back to the head of the for loop, which ends when the batch is used up.
NextEvent(p) ==
    /\ pc' = [pc EXCEPT ![p] = IF batch[p] = {} THEN "idle" ELSE "next"]
    /\ cur' = [cur EXCEPT ![p] = NoEvent]
    /\ seen' = [seen EXCEPT ![p] = 0]

\* The worker process dies, or the join of stop() times out.
Kill(p) ==
    /\ halts < MaxHalts
    /\ pc[p] # "idle"
    /\ running' = [running EXCEPT ![p] = FALSE]
    /\ LeaveBatch(p)
    /\ halts' = halts + 1
    /\ UNCHANGED <<rowVars, kafkaVars, historyVars, taskVars>>

\* A poll that finds nothing sleeps until the next one.
PollEmpty(p) ==
    /\ running[p] /\ pc[p] = "idle"
    /\ Unprocessed = {}
    /\ UNCHANGED vars

ReadBatch(p) ==
    /\ running[p] /\ pc[p] = "idle"
    /\ Unprocessed # {}
    /\ batch' = [batch EXCEPT ![p] = GetUnprocessedEvents(BatchSize)]
    /\ pc' = [pc EXCEPT ![p] = "next"]
    /\ UNCHANGED <<rowVars, kafkaVars, historyVars, running, cur, seen, taskVars, halts>>

\* Mutant of TakeOldest: the loop takes the rows in no particular order.
TakeAny(p, e) ==
    /\ pc[p] = "next"
    /\ e \in batch[p]
    /\ batch' = [batch EXCEPT ![p] = @ \ {e}]
    /\ cur' = [cur EXCEPT ![p] = e]

\* The for loop takes the rows in the order of the query.
TakeOldest(p, e) ==
    /\ pc[p] = "next"
    /\ e \in batch[p]
    /\ \A f \in batch[p] : e <= f
    /\ batch' = [batch EXCEPT ![p] = @ \ {e}]
    /\ cur' = [cur EXCEPT ![p] = e]

\* send_event returns True and the record is in the topic.
PublishOk(p, e) ==
    /\ TakeOldest(p, e)
    /\ e \notin Poison
    /\ topic' = Append(topic, e)
    /\ pc' = [pc EXCEPT ![p] = "sent"]
    /\ UNCHANGED <<rowVars, dlq, lost, historyVars, running, seen, taskVars, halts>>

\* send_event returns True but the record never reaches the topic: send()
\* only queues it, flush() only waits, and nobody asks the future.
PublishLost(p, e) ==
    /\ Lossy
    /\ TakeOldest(p, e)
    /\ e \notin Poison
    /\ lost' = lost \cup {e}
    /\ pc' = [pc EXCEPT ![p] = "sent"]
    /\ UNCHANGED <<rowVars, topic, dlq, historyVars, running, seen, taskVars, halts>>

\* Mutant of PublishRefused: the result of _publish_event is not looked at.
PublishUnchecked(p, e) ==
    /\ TakeOldest(p, e)
    /\ fails' = [fails EXCEPT ![e] = Increment(@)]
    /\ pc' = [pc EXCEPT ![p] = "sent"]
    /\ UNCHANGED <<rowVars, kafkaVars, late, running, seen, taskVars, halts>>

\* send() raises; send_event returns False.
PublishRefused(p, e) ==
    /\ TakeOldest(p, e)
    /\ fails' = [fails EXCEPT ![e] = Increment(@)]
    /\ pc' = [pc EXCEPT ![p] = "failed"]
    /\ UNCHANGED <<rowVars, kafkaVars, late, running, seen, taskVars, halts>>

\* Mutant of MarkAsProcessed: the commit is forgotten.
MarkUncommitted(e) == UNCHANGED status

\* is_processed = True, if the row is still there.
MarkAsProcessed(e) ==
    status' = [status EXCEPT ![e] = IF e \in Visible THEN "processed" ELSE @]

MarkPublished(p) ==
    /\ pc[p] = "sent"
    /\ MarkAsProcessed(cur[p])
    /\ NextEvent(p)
    /\ UNCHANGED <<entity, retry, kafkaVars, historyVars, running, batch, taskVars, halts>>

\* increment_retry_count reads the row in one statement ...
ReadRetryCount(p) ==
    /\ pc[p] = "failed"
    /\ IF cur[p] \in Visible
       THEN /\ seen' = [seen EXCEPT ![p] = retry[cur[p]]]
            /\ pc' = [pc EXCEPT ![p] = "counting"]
            /\ UNCHANGED cur
       ELSE NextEvent(p)
    /\ UNCHANGED <<rowVars, kafkaVars, historyVars, running, batch, taskVars, halts>>

\* Mutant of WriteRetryCount: a failed event ends the batch.
WriteRetryCountAndStop(p) ==
    /\ pc[p] = "counting"
    /\ IF cur[p] \in Visible
       THEN retry' = [retry EXCEPT ![cur[p]] = Increment(seen[p])]
       ELSE UNCHANGED retry
    /\ LeaveBatch(p)
    /\ UNCHANGED <<status, entity, kafkaVars, historyVars, running, taskVars, halts>>

\* Mutant of WriteRetryCount: _publish_event and its caller both count.
WriteRetryCountTwice(p) ==
    /\ pc[p] = "counting"
    /\ IF cur[p] \in Visible
       THEN /\ retry' = [retry EXCEPT ![cur[p]] = Increment(Increment(seen[p]))]
            /\ NextEvent(p)
            /\ UNCHANGED batch
       ELSE LeaveBatch(p) /\ UNCHANGED retry
    /\ UNCHANGED <<status, entity, kafkaVars, historyVars, running, taskVars, halts>>

\* ... and writes the value it read plus one in another.  An UPDATE that finds
\* the row deleted raises, and the second increment of the handler raises too.
WriteRetryCount(p) ==
    /\ pc[p] = "counting"
    /\ IF cur[p] \in Visible
       THEN /\ retry' = [retry EXCEPT ![cur[p]] = Increment(seen[p])]
            /\ NextEvent(p)
            /\ UNCHANGED batch
       ELSE LeaveBatch(p) /\ UNCHANGED retry
    /\ UNCHANGED <<status, entity, kafkaVars, historyVars, running, taskVars, halts>>

\* A database call raises, because of the database or because the row to mark
\* was deleted between its SELECT and its UPDATE: so does the call in its
\* handler, and the batch ends.
DatabaseError(p) ==
    /\ pc[p] \in {"sent", "failed", "counting"}
    /\ \/ halts < MaxHalts /\ halts' = halts + 1
       \/ pc[p] = "sent" /\ status[cur[p]] = "deleted" /\ UNCHANGED halts
    /\ LeaveBatch(p)
    /\ UNCHANGED <<rowVars, kafkaVars, historyVars, running, taskVars>>

-----------------------------------------------------------------------------
(* One background task of the API process: process_failed_events.          *)

StartTask(t) ==
    /\ task[t] = "idle"
    /\ GetFailedEvents # {}
    /\ failed' = [failed EXCEPT ![t] = GetFailedEvents]
    /\ task' = [task EXCEPT ![t] = "next"]
    /\ UNCHANGED <<rowVars, kafkaVars, historyVars, procVars, dead, session, halts>>

\* get_failed_events states no order: any row of the snapshot may be next.
TakeFailed(t, e) ==
    /\ task[t] = "next"
    /\ e \in failed[t]
    /\ failed' = [failed EXCEPT ![t] = @ \ {e}]

DeadLetterOk(t, e) ==
    /\ TakeFailed(t, e)
    /\ dlq' = dlq \cup {e}
    /\ dead' = [dead EXCEPT ![t] = e]
    /\ task' = [task EXCEPT ![t] = "sent"]
    /\ UNCHANGED <<rowVars, topic, lost, historyVars, procVars, session, halts>>

DeadLetterLost(t, e) ==
    /\ Lossy
    /\ TakeFailed(t, e)
    /\ lost' = lost \cup {e}
    /\ dead' = [dead EXCEPT ![t] = e]
    /\ task' = [task EXCEPT ![t] = "sent"]
    /\ UNCHANGED <<rowVars, topic, dlq, historyVars, procVars, session, halts>>

\* Back to the head of the loop with a session in state s; a session lasts as
\* long as its task.
NextFailed(t, s) ==
    /\ task' = [task EXCEPT ![t] = IF failed'[t] = {} THEN "idle" ELSE "next"]
    /\ session' = [session EXCEPT ![t] = IF failed'[t] = {} THEN "ok" ELSE s]
    /\ dead' = [dead EXCEPT ![t] = NoEvent]

\* send_event returns False: the row is left for a later task.
DeadLetterRefused(t, e) ==
    /\ TakeFailed(t, e)
    /\ NextFailed(t, session[t])
    /\ UNCHANGED <<rowVars, kafkaVars, historyVars, procVars, halts>>

MarkDead(t) ==
    /\ task[t] = "sent"
    /\ session[t] = "ok"
    /\ MarkAsProcessed(dead[t])
    /\ UNCHANGED failed
    /\ NextFailed(t, "ok")
    /\ UNCHANGED <<entity, retry, kafkaVars, historyVars, procVars, halts>>

\* The mark raises, as in DatabaseError.  The handler logs and the loop goes on with a session that
\* nobody rolls back, so every later mark of this task raises too.
MarkDeadFails(t) ==
    /\ task[t] = "sent"
    /\ \/ session[t] = "ok" /\ halts < MaxHalts /\ halts' = halts + 1
       \/ session[t] = "ok" /\ status[dead[t]] = "deleted" /\ UNCHANGED halts
       \/ session[t] = "broken" /\ UNCHANGED halts
    /\ UNCHANGED failed
    /\ NextFailed(t, "broken")
    /\ UNCHANGED <<rowVars, kafkaVars, historyVars, procVars>>

\* The API process dies under the task.
KillTask(t) ==
    /\ halts < MaxHalts
    /\ task[t] # "idle"
    /\ task' = [task EXCEPT ![t] = "idle"]
    /\ failed' = [failed EXCEPT ![t] = {}]
    /\ dead' = [dead EXCEPT ![t] = NoEvent]
    /\ session' = [session EXCEPT ![t] = "ok"]
    /\ halts' = halts + 1
    /\ UNCHANGED <<rowVars, kafkaVars, historyVars, procVars>>

\* Mutant of Cleanup: by age alone.
CleanupByAge(old) ==
    /\ old # {}
    /\ old \subseteq Visible
    /\ status' = [e \in Events |-> IF e \in old THEN "deleted" ELSE status[e]]
    /\ UNCHANGED <<entity, retry, kafkaVars, historyVars, procVars, taskVars, halts>>

\* delete_old_processed_events: days_old comes with the request, so any set of
\* processed rows may be the old ones.
Cleanup(old) ==
    /\ old # {}
    /\ \A e \in old : status[e] = "processed"
    /\ status' = [e \in Events |-> IF e \in old THEN "deleted" ELSE status[e]]
    /\ UNCHANGED <<entity, retry, kafkaVars, historyVars, procVars, taskVars, halts>>

-----------------------------------------------------------------------------
Request ==
    \E e \in Events :
        \/ \E c \in Entities : CreateEvent(e, c)
        \/ CommitEvent(e)
        \/ RollbackEvent(e)

Publish(p) ==
    \E e \in Events : PublishOk(p, e) \/ PublishLost(p, e) \/ PublishRefused(p, e)

\* The steps the thread takes by itself once it runs.
ProcStep(p) ==
    \/ PollEmpty(p) \/ ReadBatch(p) \/ Publish(p)
    \/ MarkPublished(p) \/ ReadRetryCount(p) \/ WriteRetryCount(p)

ProcFault(p) == Kill(p) \/ DatabaseError(p)

\* The steps a background task takes by itself once a request has started it.
TaskStep(t) ==
    \/ MarkDead(t) \/ MarkDeadFails(t)
    \/ \E e \in Events : \/ DeadLetterOk(t, e)
                         \/ DeadLetterLost(t, e)
                         \/ DeadLetterRefused(t, e)

Next ==
    \/ Request
    \/ \E p \in Procs : Start(p) \/ Stop(p) \/ ProcStep(p) \/ ProcFault(p)
    \/ \E t \in Tasks : StartTask(t) \/ TaskStep(t) \/ KillTask(t)
    \/ \E old \in SUBSET Events : Cleanup(old)

Spec == Init /\ [][Next]_vars

\* A live thread keeps running (the loop catches everything and sleeps between
\* polls), a started task runs to its end, and Kafka does not refuse a sendable
\* event for ever.  Nothing obliges anyone to start a task.
Fairness ==
    /\ \A p \in Procs :
           /\ WF_vars(ProcStep(p))
           /\ \A e \in Events : SF_vars(PublishOk(p, e))
    /\ \A t \in Tasks : WF_vars(TaskStep(t))

LiveSpec == Spec /\ Fairness

-----------------------------------------------------------------------------
\* Every variable has its type, and a thread or task holds a row exactly while
\* it is between publishing it and recording the outcome.
TypeOK ==
    /\ status \in [Events -> RowStatus]
    /\ entity \in [Events -> Entities \cup {NoEntity}]
    /\ retry \in [Events -> 0..MaxRetries]
    /\ topic \in Seq(Events)
    /\ dlq \subseteq Events
    /\ lost \subseteq Events
    /\ fails \in [Events -> 0..MaxRetries]
    /\ late \subseteq Events
    /\ running \in [Procs -> BOOLEAN]
    /\ pc \in [Procs -> {"idle", "next", "sent", "failed", "counting"}]
    /\ batch \in [Procs -> SUBSET Events]
    /\ cur \in [Procs -> Events \cup {NoEvent}]
    /\ seen \in [Procs -> 0..MaxRetries]
    /\ task \in [Tasks -> {"idle", "next", "sent"}]
    /\ failed \in [Tasks -> SUBSET Events]
    /\ dead \in [Tasks -> Events \cup {NoEvent}]
    /\ session \in [Tasks -> {"ok", "broken"}]
    /\ halts \in 0..MaxHalts
    /\ \A p \in Procs :
           /\ pc[p] = "idle" => batch[p] = {}
           /\ cur[p] = NoEvent <=> pc[p] \in {"idle", "next"}
    /\ \A t \in Tasks :
           /\ task[t] = "idle" => failed[t] = {} /\ session[t] = "ok"
           /\ dead[t] = NoEvent <=> task[t] # "sent"

-----------------------------------------------------------------------------
(* What the relay promises.                                                *)

\* No event is lost between the table and Kafka: a committed event whose row
\* is processed or deleted has a record in the customer topic or in the dead
\* letter topic, or the producer itself lost a record it had accepted.  The
\* order publish-then-mark of _process_batch and process_failed_events, and
\* the filter of the cleanup, carry this through every kill and error.
NoEventLost ==
    \A e \in Committed \ Unprocessed : e \in Published \cup dlq \cup lost

\* Only an event that failed to publish MaxRetries times is dead-lettered.
\* retry_count is read and written in two statements by threads that share
\* rows, so it may lag behind the failures, and it must never run ahead.
DeadLetterOnlyExhausted == \A e \in dlq : fails[e] >= MaxRetries

\* What makes NoEventLost inductive: a row waiting for its mark has its record.
MarkedAfterSend ==
    /\ \A p \in Procs : pc[p] = "sent" => cur[p] \in Published \cup lost
    /\ \A t \in Tasks : task[t] = "sent" => dead[t] \in dlq \cup lost

\* Threads, tasks and Kafka only ever hold events whose transaction committed.
OnlyCommitted ==
    /\ Published \cup dlq \cup lost \subseteq Committed
    /\ \A p \in Procs : batch[p] \cup ({cur[p]} \ {NoEvent}) \subseteq Committed
    /\ \A t \in Tasks : failed[t] \cup ({dead[t]} \ {NoEvent}) \subseteq Committed

\* The threads that saw e fail and have not yet written its retry_count.
Counting(e) == {p \in Procs : pc[p] \in {"failed", "counting"} /\ cur[p] = e}

\* retry_count never overstates: with the increments still to be written it
\* stays within the failures seen, and so does each increment about to be
\* written from a count read before others wrote theirs.
RetryNeverAhead ==
    /\ \A e \in Events :
           fails[e] < MaxRetries => retry[e] + Cardinality(Counting(e)) <= fails[e]
    /\ \A p \in Procs :
           (pc[p] = "counting" /\ fails[cur[p]] < MaxRetries)
               => seen[p] + Cardinality(Counting(cur[p])) <= fails[cur[p]]

\* What makes DeadLetterOnlyExhausted inductive, beside RetryNeverAhead: the
\* rows a task took are exhausted, and those it sent are.
TakenOnlyExhausted ==
    \A t \in Tasks : \A e \in failed[t] : fails[e] >= MaxRetries

\* The first record of an event, if any, comes before every record of f.
FirstBefore(e, f) ==
    \E i \in 1..Len(topic) :
        topic[i] = e /\ \A j \in 1..Len(topic) : topic[j] = f => i < j

\* Two events of one customer are first published in the order they were
\* written, unless the older one failed once, was lost by the producer, or was
\* committed after the newer one: ORDER BY created_at, the one-by-one loop and
\* the mark at its end keep the order across threads, kills and restarts.
PublishedInOrder ==
    \A e, f \in Published :
        (e < f /\ entity[e] = entity[f] /\ fails[e] = 0 /\ e \notin late \cup lost)
            => FirstBefore(e, f)

Copies(e) == Cardinality({i \in 1..Len(topic) : topic[i] = e})

\* At-least-once is not without limit: one record per thread that had read the
\* row before it was marked, and one more per kill or database error.
BoundedDuplication ==
    \A e \in Events : Copies(e) <= Cardinality(Procs) + halts

\* While some thread runs, no committed event that Kafka can take stays in the
\* table, as long as the events Kafka refuses do not fill a batch.
NoEventStuck ==
    <>[](\E p \in Procs : running[p])
        => \A e \in Events \ Poison :
               status[e] = "pending" ~> status[e] \in {"processed", "deleted"}

\* Events of one customer, written and committed in order, are first published
\* in that order: outbox_processor.py:117 uses entity_id as partition key "for
\* ordering", and messaging.py:32 says the key "ensures" it.
OrderedByKey ==
    \A e, f \in Published :
        (e < f /\ entity[e] = entity[f] /\ e \notin late) => FirstBefore(e, f)

\* A permanently failing event does not hold up the others: README.md:476 says
\* of the dead letter queue that it "prevents blocking of other events".
FailuresDoNotBlock == NoEventStuck

\* The outbox is an event relay: rows are accepted by their commit, retired by
\* is_processed, and each step of a thread, a task, a request or the cleanup is
\* a step the relay allows, or none.
Relay == INSTANCE EventRelay WITH
    accepted <- Committed,
    delivered <- Published,
    exhausted <- {e \in Events : fails[e] = MaxRetries},
    deadletter <- dlq,
    dropped <- lost,
    retired <- Committed \ Unprocessed

\* Nothing is delivered that did not commit, retired that was not delivered,
\* dead-lettered that was not exhausted, and nothing of this is undone.
RefinesRelay == Relay!RelaySpec
=============================================================================
