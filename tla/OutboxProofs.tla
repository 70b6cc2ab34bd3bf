---------------------------- MODULE OutboxProofs ----------------------------
(***************************************************************************)
(* Theorems about Outbox for any number of threads, tasks, customers and   *)
(* events, any batch size, any retry limit and any number of halts.        *)
(***************************************************************************)
EXTENDS Outbox, FiniteSetTheorems, TLAPS

-----------------------------------------------------------------------------
(* Typing.                                                                 *)

\* Increment, the saturating retry_count + 1, stays within its bounds.
LEMMA IncrementType ==
    ASSUME NEW n \in 0..MaxRetries
    PROVE  Increment(n) \in 0..MaxRetries
BY OutboxAssumption DEF Increment

\* The states in which nothing has happened have the right types.
LEMMA TypeInit == Init => TypeOK
BY OutboxAssumption DEF Init, TypeOK, RowStatus, NoEvent, Events

\* The requests keep the types.
LEMMA TypeRequest == TypeOK /\ Request => TypeOK'
<1> SUFFICES ASSUME TypeOK, NEW e \in Events,
                    \/ \E c \in Entities : CreateEvent(e, c)
                    \/ CommitEvent(e)
                    \/ RollbackEvent(e)
             PROVE  TypeOK'
    BY DEF Request
<1> USE DEF TypeOK, RowStatus, vars, rowVars, kafkaVars, historyVars, procVars, taskVars
<1>1. ASSUME NEW c \in Entities, CreateEvent(e, c) PROVE TypeOK'
    BY <1>1 DEF CreateEvent
<1>2. CASE CommitEvent(e)
    BY <1>2 DEF CommitEvent
<1>3. CASE RollbackEvent(e)
    BY <1>3 DEF RollbackEvent
<1> QED BY <1>1, <1>2, <1>3

\* What TypeOK says of the threads' own variables.
ProcsOK ==
    /\ pc \in [Procs -> {"idle", "next", "sent", "failed", "counting"}]
    /\ batch \in [Procs -> SUBSET Events]
    /\ cur \in [Procs -> Events \cup {NoEvent}]
    /\ seen \in [Procs -> 0..MaxRetries]
    /\ \A p \in Procs :
           /\ pc[p] = "idle" => batch[p] = {}
           /\ cur[p] = NoEvent <=> pc[p] \in {"idle", "next"}

\* Going back to the head of the loop lets go of the row in hand.
LEMMA NextEventType ==
    ASSUME ProcsOK, NEW p \in Procs, NextEvent(p), UNCHANGED batch
    PROVE  ProcsOK'
<1>1. CASE batch[p] = {}
    <2>1. pc' = [pc EXCEPT ![p] = "idle"]
        BY <1>1 DEF NextEvent
    <2> QED BY <1>1, <2>1, OutboxAssumption DEF ProcsOK, NextEvent
<1>2. CASE batch[p] # {}
    <2>1. pc' = [pc EXCEPT ![p] = "next"]
        BY <1>2 DEF NextEvent
    <2> QED BY <1>2, <2>1, OutboxAssumption DEF ProcsOK, NextEvent
<1> QED BY <1>1, <1>2

\* So does leaving the batch.
LEMMA LeaveBatchType ==
    ASSUME ProcsOK, NEW p \in Procs, LeaveBatch(p)
    PROVE  ProcsOK'
BY OutboxAssumption DEF ProcsOK, LeaveBatch

\* The steps of a thread, and its faults, keep the types.
LEMMA TypeProc ==
    ASSUME TypeOK, NEW p \in Procs, Start(p) \/ Stop(p) \/ ProcStep(p) \/ ProcFault(p)
    PROVE  TypeOK'
<1> USE DEF TypeOK, RowStatus, vars, rowVars, kafkaVars, historyVars, procVars, taskVars
<1>1. CASE Start(p)
    BY <1>1 DEF Start
<1>2. CASE Stop(p)
    BY <1>2, OutboxAssumption DEF Stop
<1>3. CASE PollEmpty(p)
    BY <1>3 DEF PollEmpty
<1>4. CASE ReadBatch(p)
    BY <1>4 DEF ReadBatch, GetUnprocessedEvents, Unprocessed
<1>5. CASE Publish(p)
    <2>0. PICK e \in Events : PublishOk(p, e) \/ PublishLost(p, e) \/ PublishRefused(p, e)
        BY <1>5 DEF Publish
    <2> e # NoEvent
        BY DEF Events, NoEvent
    <2>1. CASE PublishOk(p, e)
        BY <2>1 DEF PublishOk, TakeOldest
    <2>2. CASE PublishLost(p, e)
        BY <2>2 DEF PublishLost, TakeOldest
    <2>3. CASE PublishRefused(p, e)
        BY <2>3, IncrementType DEF PublishRefused, TakeOldest
    <2> QED BY <2>0, <2>1, <2>2, <2>3
<1>6. CASE MarkPublished(p)
    <2>1. ProcsOK'
        BY <1>6, NextEventType DEF MarkPublished, ProcsOK
    <2> QED BY <1>6, <2>1 DEF MarkPublished, MarkAsProcessed, ProcsOK
<1>7. CASE ReadRetryCount(p)
    <2>1. CASE cur[p] \in Visible
        <3>1. /\ seen' = [seen EXCEPT ![p] = retry[cur[p]]]
              /\ pc' = [pc EXCEPT ![p] = "counting"]
              /\ UNCHANGED <<rowVars, kafkaVars, historyVars, running, batch, cur,
                             taskVars, halts>>
            BY <1>7, <2>1 DEF ReadRetryCount
        <3>2. cur[p] \in Events /\ cur[p] # NoEvent /\ pc[p] = "failed"
            BY <1>7, <2>1 DEF ReadRetryCount, Visible, Events, NoEvent
        <3> QED BY <3>1, <3>2
    <2>2. CASE cur[p] \notin Visible
        <3>1. ProcsOK'
            BY <1>7, <2>2, NextEventType DEF ReadRetryCount, ProcsOK
        <3> QED BY <1>7, <3>1 DEF ReadRetryCount, ProcsOK
    <2> QED BY <2>1, <2>2
<1>8. CASE WriteRetryCount(p)
    <2>1. CASE cur[p] \in Visible
        <3>1. ProcsOK'
            BY <1>8, <2>1, NextEventType DEF WriteRetryCount, ProcsOK
        <3>2. retry' \in [Events -> 0..MaxRetries]
            <4>1. retry' = [retry EXCEPT ![cur[p]] = Increment(seen[p])]
                BY <1>8, <2>1 DEF WriteRetryCount
            <4>2. Increment(seen[p]) \in 0..MaxRetries
                BY IncrementType
            <4> QED BY <4>1, <4>2
        <3> QED BY <1>8, <3>1, <3>2 DEF WriteRetryCount, ProcsOK
    <2>2. CASE cur[p] \notin Visible
        <3>1. ProcsOK'
            BY <1>8, <2>2, LeaveBatchType DEF WriteRetryCount, ProcsOK
        <3> QED BY <1>8, <2>2, <3>1 DEF WriteRetryCount, ProcsOK
    <2> QED BY <2>1, <2>2
<1>9. CASE ProcFault(p)
    <2>1. ProcsOK'
        BY <1>9, LeaveBatchType DEF ProcFault, Kill, DatabaseError, ProcsOK
    <2>2. halts' \in 0..MaxHalts /\ running' \in [Procs -> BOOLEAN]
        <3>1. (halts < MaxHalts /\ halts' = halts + 1) \/ halts' = halts
            BY <1>9 DEF ProcFault, Kill, DatabaseError
        <3>2. running' = running \/ running' = [running EXCEPT ![p] = FALSE]
            BY <1>9 DEF ProcFault, Kill, DatabaseError
        <3>3. halts' \in 0..MaxHalts
            BY <3>1, OutboxAssumption
        <3>4. running' \in [Procs -> BOOLEAN]
            BY <3>2, Zenon
        <3> QED BY <3>3, <3>4
    <2> QED BY <1>9, <2>1, <2>2 DEF ProcFault, Kill, DatabaseError, ProcsOK
<1> QED BY <1>1, <1>2, <1>3, <1>4, <1>5, <1>6, <1>7, <1>8, <1>9 DEF ProcStep

\* The steps of a task keep the types.
LEMMA TypeTask ==
    ASSUME TypeOK, NEW t \in Tasks, StartTask(t) \/ TaskStep(t) \/ KillTask(t)
    PROVE  TypeOK'
<1> USE DEF TypeOK, RowStatus, vars, rowVars, kafkaVars, historyVars, procVars, taskVars
<1>1. CASE StartTask(t)
    BY <1>1 DEF StartTask, GetFailedEvents, Unprocessed
<1>2. CASE MarkDead(t)
    BY <1>2 DEF MarkDead, MarkAsProcessed, NextFailed
<1>3. CASE MarkDeadFails(t)
    <2>1. /\ UNCHANGED <<status, entity, retry, topic, dlq, lost, fails, late, running, pc, batch,
                         cur, seen, failed>>
          /\ NextFailed(t, "broken")
        BY <1>3 DEF MarkDeadFails
    <2>2. halts' \in 0..MaxHalts
        BY <1>3, OutboxAssumption DEF MarkDeadFails
    <2> QED BY <2>1, <2>2 DEF NextFailed
<1>4. CASE KillTask(t)
    BY <1>4, OutboxAssumption DEF KillTask
<1>5. ASSUME NEW e \in Events,
             DeadLetterOk(t, e) \/ DeadLetterLost(t, e) \/ DeadLetterRefused(t, e)
      PROVE  TypeOK'
    <2> e # NoEvent
        BY DEF Events, NoEvent
    <2>1. CASE DeadLetterOk(t, e)
        BY <2>1 DEF DeadLetterOk, TakeFailed
    <2>2. CASE DeadLetterLost(t, e)
        BY <2>2 DEF DeadLetterLost, TakeFailed
    <2>3. CASE DeadLetterRefused(t, e)
        BY <2>3 DEF DeadLetterRefused, TakeFailed, NextFailed
    <2> QED BY <1>5, <2>1, <2>2, <2>3
<1> QED BY <1>1, <1>2, <1>3, <1>4, <1>5 DEF TaskStep

\* Every step keeps the types.
LEMMA TypeNext == TypeOK /\ [Next]_vars => TypeOK'
<1> SUFFICES ASSUME TypeOK, [Next]_vars PROVE TypeOK'
    OBVIOUS
<1>1. ASSUME NEW old \in SUBSET Events, Cleanup(old) PROVE TypeOK'
    BY <1>1
    DEF Cleanup, TypeOK, RowStatus, kafkaVars, historyVars, procVars, taskVars
<1>2. CASE UNCHANGED vars
    BY <1>2 DEF TypeOK, vars, rowVars, kafkaVars, historyVars, procVars, taskVars
<1> QED BY <1>1, <1>2, TypeRequest, TypeProc, TypeTask DEF Next

\* Types are invariant: in particular a thread or task holds a row exactly
\* between publishing it and recording the outcome.
THEOREM TypeCorrect == Spec => []TypeOK
BY TypeInit, TypeNext, PTL DEF Spec

-----------------------------------------------------------------------------
(* What each step does to the sets the relay speaks of.                    *)

\* Rows that did not change leave every set of rows as it was.
LEMMA SameRows ==
    ASSUME UNCHANGED status
    PROVE  UNCHANGED <<Committed, Unprocessed, Visible>>
BY DEF Committed, Unprocessed, Visible

\* A topic that did not change holds the same records.
LEMMA SameTopic ==
    ASSUME UNCHANGED topic
    PROVE  UNCHANGED Published
BY DEF Published

\* One more record at the end of the topic is one more published event.
LEMMA AppendPublished ==
    ASSUME TypeOK, NEW e \in Events, topic' = Append(topic, e)
    PROVE  Published' = Published \cup {e}
<1> DEFINE n == Len(topic)
<1>1. topic \in Seq(Events) /\ n \in Nat
    BY DEF TypeOK
<1>2. /\ Len(topic') = n + 1
      /\ \A i \in 1..n : topic'[i] = topic[i]
      /\ topic'[n + 1] = e
    BY <1>1
<1>3. ASSUME NEW f \in Published' PROVE f \in Published \cup {e}
    <2>1. PICK i \in 1..(n + 1) : f = topic'[i]
        BY <1>2 DEF Published
    <2>2. i \in 1..n \/ i = n + 1
        BY <1>1, <2>1
    <2> QED BY <1>2, <2>1, <2>2 DEF Published
<1>4. ASSUME NEW f \in Published \cup {e} PROVE f \in Published'
    <2>1. CASE f = e
        <3>1. n + 1 \in 1..(n + 1)
            BY <1>1
        <3> QED BY <1>2, <2>1, <3>1 DEF Published
    <2>2. CASE f \in Published
        <3>1. PICK i \in 1..n : f = topic[i]
            BY <2>2 DEF Published
        <3>2. i \in 1..(n + 1)
            BY <1>1
        <3> QED BY <1>2, <3>1, <3>2 DEF Published
    <2> QED BY <2>1, <2>2
<1> QED BY <1>3, <1>4

\* An uncommitted row is in none of the sets; neither is one rolled back.
LEMMA CreateRows ==
    ASSUME TypeOK, NEW e \in Events, NEW c \in Entities, CreateEvent(e, c)
    PROVE  UNCHANGED <<Committed, Unprocessed>>
BY DEF TypeOK, CreateEvent, Committed, Unprocessed

LEMMA RollbackRows ==
    ASSUME TypeOK, NEW e \in Events, RollbackEvent(e)
    PROVE  UNCHANGED <<Committed, Unprocessed>>
BY DEF TypeOK, RollbackEvent, Committed, Unprocessed

\* A commit adds the row.
LEMMA CommitRows ==
    ASSUME TypeOK, NEW e \in Events, CommitEvent(e)
    PROVE  /\ Committed' = Committed \cup {e}
           /\ Unprocessed' = Unprocessed \cup {e}
BY DEF TypeOK, CommitEvent, Committed, Unprocessed

\* A mark takes one row away from the unprocessed ones.
LEMMA MarkRows ==
    ASSUME TypeOK, NEW e \in Events, MarkAsProcessed(e)
    PROVE  /\ Committed' = Committed
           /\ Unprocessed' = Unprocessed \ {e}
<1>1. CASE e \in Visible
    BY <1>1 DEF TypeOK, MarkAsProcessed, Committed, Unprocessed, Visible
<1>2. CASE e \notin Visible
    BY <1>2 DEF TypeOK, MarkAsProcessed, Committed, Unprocessed, Visible
<1> QED BY <1>1, <1>2

\* The cleanup takes only processed rows, which stay committed history.
LEMMA CleanupRows ==
    ASSUME TypeOK, NEW old \in SUBSET Events, Cleanup(old)
    PROVE  UNCHANGED <<Committed, Unprocessed>>
BY DEF TypeOK, Cleanup, Committed, Unprocessed

\* The rows a query returns are committed and unprocessed.
LEMMA QueryRows ==
    /\ Unprocessed \subseteq Committed
    /\ \A n \in Nat : GetUnprocessedEvents(n) \subseteq Unprocessed
    /\ GetFailedEvents \subseteq Unprocessed
BY DEF Unprocessed, Committed, GetUnprocessedEvents, GetFailedEvents

-----------------------------------------------------------------------------
(* No event is lost.                                                       *)

DeliveryInv == NoEventLost /\ MarkedAfterSend /\ OnlyCommitted

LEMMA DeliveryInit == Init => DeliveryInv
<1> SUFFICES ASSUME Init PROVE DeliveryInv
    OBVIOUS
<1>1. Committed = {} /\ Published = {}
    BY DEF Init, Committed, Published
<1> QED BY <1>1 DEF Init, DeliveryInv, NoEventLost, MarkedAfterSend, OnlyCommitted

\* The requests: a row that becomes visible is unprocessed.
LEMMA DeliveryRequest == TypeOK /\ DeliveryInv /\ Request => DeliveryInv'
<1> SUFFICES ASSUME TypeOK, DeliveryInv, NEW e \in Events,
                    \/ \E c \in Entities : CreateEvent(e, c)
                    \/ CommitEvent(e)
                    \/ RollbackEvent(e)
             PROVE  DeliveryInv'
    BY DEF Request
<1>1. /\ Committed \subseteq Committed'
      /\ Committed' \ Unprocessed' \subseteq Committed \ Unprocessed
    BY CreateRows, CommitRows, RollbackRows
<1>2. UNCHANGED <<topic, dlq, lost, pc, cur, batch, task, failed, dead>>
    BY DEF CreateEvent, CommitEvent, RollbackEvent, kafkaVars, procVars, taskVars
<1> QED BY <1>1, <1>2, SameTopic
        DEF DeliveryInv, NoEventLost, MarkedAfterSend, OnlyCommitted

\* The threads: a row is marked only after its record was sent.
LEMMA DeliveryProc ==
    ASSUME TypeOK, DeliveryInv, NEW p \in Procs,
           Start(p) \/ Stop(p) \/ ProcStep(p) \/ ProcFault(p)
    PROVE  DeliveryInv'
<1> USE DEF DeliveryInv, NoEventLost, MarkedAfterSend, OnlyCommitted
<1> USE DEF rowVars, kafkaVars, historyVars, procVars, taskVars
<1>1. CASE Start(p) \/ Stop(p) \/ PollEmpty(p)
    <2>1. UNCHANGED <<status, topic, dlq, lost, pc, cur, batch, task, failed, dead>>
        BY <1>1 DEF Start, Stop, PollEmpty, vars
    <2> QED BY <2>1, SameRows, SameTopic
<1>2. CASE ReadBatch(p)
    <2>1. UNCHANGED <<status, topic, dlq, lost, cur, task, failed, dead>>
        BY <1>2 DEF ReadBatch
    <2>2. GetUnprocessedEvents(BatchSize) \subseteq Committed
        BY QueryRows, OutboxAssumption
    <2> QED BY <1>2, <2>1, <2>2, SameRows, SameTopic DEF ReadBatch, TypeOK
<1>3. CASE Publish(p)
    <2>0. PICK e \in Events : PublishOk(p, e) \/ PublishLost(p, e) \/ PublishRefused(p, e)
        BY <1>3 DEF Publish
    <2>1. /\ e \in Committed
          /\ batch' = [batch EXCEPT ![p] = @ \ {e}]
          /\ cur' = [cur EXCEPT ![p] = e]
          /\ UNCHANGED <<status, dlq, task, failed, dead>>
        BY <2>0 DEF PublishOk, PublishLost, PublishRefused, TakeOldest
    <2>2. CASE PublishOk(p, e)
        <3>1. Published' = Published \cup {e}
            BY <2>2, AppendPublished DEF PublishOk
        <3> QED BY <2>1, <2>2, <3>1, SameRows DEF PublishOk, TypeOK
    <2>3. CASE PublishLost(p, e)
        BY <2>1, <2>3, SameRows, SameTopic DEF PublishLost, TypeOK
    <2>4. CASE PublishRefused(p, e)
        BY <2>1, <2>4, SameRows, SameTopic DEF PublishRefused, TypeOK
    <2> QED BY <2>0, <2>2, <2>3, <2>4
<1>4. CASE MarkPublished(p)
    <2>1. /\ cur[p] \in Events
          /\ cur[p] \in Published \cup lost
          /\ MarkAsProcessed(cur[p])
        BY <1>4 DEF MarkPublished, TypeOK
    <2>2. UNCHANGED <<topic, dlq, lost, batch, task, failed, dead>>
        BY <1>4 DEF MarkPublished
    <2>3. Committed' = Committed /\ Unprocessed' = Unprocessed \ {cur[p]}
        BY <2>1, MarkRows
    <2> QED BY <1>4, <2>1, <2>2, <2>3, SameTopic DEF MarkPublished, NextEvent, TypeOK
<1>5. CASE ReadRetryCount(p) \/ WriteRetryCount(p) \/ ProcFault(p)
    <2>1. UNCHANGED <<status, topic, dlq, lost, task, failed, dead>>
        BY <1>5 DEF ReadRetryCount, WriteRetryCount, ProcFault, Kill, DatabaseError
    <2>2. \A q \in Procs :
              /\ pc'[q] = "sent" => pc[q] = "sent" /\ cur'[q] = cur[q]
              /\ batch'[q] \subseteq batch[q]
              /\ cur'[q] \in {cur[q], NoEvent}
        BY <1>5 DEF ReadRetryCount, WriteRetryCount, ProcFault, Kill, DatabaseError,
                    NextEvent, LeaveBatch, TypeOK
    <2> QED BY <2>1, <2>2, SameRows, SameTopic
<1> QED BY <1>1, <1>2, <1>3, <1>4, <1>5 DEF ProcStep

\* The tasks: likewise for the dead letter topic.
LEMMA DeliveryTask ==
    ASSUME TypeOK, DeliveryInv, NEW t \in Tasks,
           StartTask(t) \/ TaskStep(t) \/ KillTask(t)
    PROVE  DeliveryInv'
<1> USE DEF DeliveryInv, NoEventLost, MarkedAfterSend, OnlyCommitted
<1> USE DEF rowVars, kafkaVars, historyVars, procVars, taskVars
<1>1. CASE StartTask(t)
    <2>1. UNCHANGED <<status, topic, dlq, lost, pc, cur, batch, dead>>
        BY <1>1 DEF StartTask
    <2> QED BY <1>1, <2>1, QueryRows, SameRows, SameTopic DEF StartTask, TypeOK
<1>2. CASE MarkDead(t)
    <2>1. /\ dead[t] \in Events
          /\ dead[t] \in dlq \cup lost
          /\ MarkAsProcessed(dead[t])
        BY <1>2 DEF MarkDead, TypeOK
    <2>2. UNCHANGED <<topic, dlq, lost, pc, cur, batch, failed>>
        BY <1>2 DEF MarkDead
    <2>3. Committed' = Committed /\ Unprocessed' = Unprocessed \ {dead[t]}
        BY <2>1, MarkRows
    <2> QED BY <1>2, <2>1, <2>2, <2>3, SameTopic DEF MarkDead, NextFailed, TypeOK
<1>3. CASE MarkDeadFails(t) \/ KillTask(t)
    <2>1. UNCHANGED <<status, topic, dlq, lost, pc, cur, batch>>
        BY <1>3 DEF MarkDeadFails, KillTask
    <2>2. \A u \in Tasks :
              /\ task'[u] = "sent" => task[u] = "sent" /\ dead'[u] = dead[u]
              /\ failed'[u] \subseteq failed[u]
              /\ dead'[u] \in {dead[u], NoEvent}
        <3>1. CASE MarkDeadFails(t)
            BY <3>1 DEF MarkDeadFails, NextFailed, TypeOK
        <3>2. CASE KillTask(t)
            BY <3>2 DEF KillTask, TypeOK
        <3> QED BY <1>3, <3>1, <3>2
    <2> QED BY <2>1, <2>2, SameRows, SameTopic
<1>4. ASSUME NEW e \in Events,
             DeadLetterOk(t, e) \/ DeadLetterLost(t, e) \/ DeadLetterRefused(t, e)
      PROVE  DeliveryInv'
    <2>1. /\ e \in Committed
          /\ failed' = [failed EXCEPT ![t] = @ \ {e}]
          /\ UNCHANGED <<status, topic, pc, cur, batch>>
        BY <1>4 DEF DeadLetterOk, DeadLetterLost, DeadLetterRefused, TakeFailed
    <2>2. CASE DeadLetterOk(t, e)
        BY <2>1, <2>2, SameRows, SameTopic DEF DeadLetterOk, TypeOK
    <2>3. CASE DeadLetterLost(t, e)
        BY <2>1, <2>3, SameRows, SameTopic DEF DeadLetterLost, TypeOK
    <2>4. CASE DeadLetterRefused(t, e)
        BY <2>1, <2>4, SameRows, SameTopic DEF DeadLetterRefused, NextFailed, TypeOK
    <2> QED BY <1>4, <2>2, <2>3, <2>4
<1> QED BY <1>1, <1>2, <1>3, <1>4 DEF TaskStep

LEMMA DeliveryNext == TypeOK /\ DeliveryInv /\ [Next]_vars => DeliveryInv'
<1> SUFFICES ASSUME TypeOK, DeliveryInv, [Next]_vars PROVE DeliveryInv'
    OBVIOUS
<1> USE DEF DeliveryInv, NoEventLost, MarkedAfterSend, OnlyCommitted
<1>1. ASSUME NEW old \in SUBSET Events, Cleanup(old) PROVE DeliveryInv'
    <2>1. UNCHANGED <<topic, dlq, lost, pc, cur, batch, task, failed, dead>>
        BY <1>1 DEF Cleanup, kafkaVars, procVars, taskVars
    <2> QED BY <1>1, <2>1, CleanupRows, SameTopic
<1>2. CASE UNCHANGED vars
    <2>1. UNCHANGED <<status, topic, dlq, lost, pc, cur, batch, task, failed, dead>>
        BY <1>2 DEF vars, rowVars, kafkaVars, procVars, taskVars
    <2> QED BY <2>1, SameRows, SameTopic
<1> QED BY <1>1, <1>2, DeliveryRequest, DeliveryProc, DeliveryTask DEF Next

\* Whatever is killed, fails or races, an event whose row is processed or
\* deleted has a record in Kafka, or the producer lost one it had accepted;
\* and Kafka and the threads hold only events whose transaction committed.
THEOREM NothingLost == Spec => [](NoEventLost /\ OnlyCommitted)
<1>1. Spec => []DeliveryInv
    BY TypeCorrect, DeliveryInit, DeliveryNext, PTL DEF Spec
<1>2. DeliveryInv => NoEventLost /\ OnlyCommitted
    BY DEF DeliveryInv
<1> QED BY <1>1, <1>2, PTL

-----------------------------------------------------------------------------
(* Only exhausted events are dead-lettered.                                *)

DeadLetterInv == RetryNeverAhead /\ TakenOnlyExhausted /\ DeadLetterOnlyExhausted

\* The threads counting a failure of e are finitely many.
LEMMA CountingFinite ==
    \A e : IsFiniteSet(Counting(e)) /\ Cardinality(Counting(e)) \in Nat
BY OutboxAssumption, FS_Subset, FS_CardinalityType DEF Counting

\* Counting in the next state.
CountingNext(e) == {p \in Procs : pc'[p] \in {"failed", "counting"} /\ cur'[p] = e}

\* RetryNeverAhead in the next state, spelled out.
LEMMA RetryNext ==
    RetryNeverAhead' <=>
        /\ \A e \in Events :
               fails'[e] < MaxRetries
                   => retry'[e] + Cardinality(CountingNext(e)) <= fails'[e]
        /\ \A p \in Procs :
               (pc'[p] = "counting" /\ fails'[cur'[p]] < MaxRetries)
                   => seen'[p] + Cardinality(CountingNext(cur'[p])) <= fails'[cur'[p]]
BY DEF RetryNeverAhead, Counting, CountingNext

\* When no thread starts to count a failure of e, no more threads count it.
LEMMA FewerCounting ==
    ASSUME NEW e, CountingNext(e) \subseteq Counting(e)
    PROVE  /\ Cardinality(CountingNext(e)) \in Nat
           /\ Cardinality(CountingNext(e)) <= Cardinality(Counting(e))
BY CountingFinite, FS_Subset, FS_CardinalityType

\* A step that touches neither counters nor tasks, and in which no thread
\* starts counting, keeps RetryNeverAhead.
LEMMA RetryQuiet ==
    ASSUME TypeOK, RetryNeverAhead,
           UNCHANGED <<retry, fails>>,
           \A q \in Procs :
               /\ pc'[q] \in {"failed", "counting"}
                      => pc[q] \in {"failed", "counting"} /\ cur'[q] = cur[q]
               /\ pc'[q] = "counting" => pc[q] = "counting" /\ seen'[q] = seen[q]
    PROVE  RetryNeverAhead'
<1>1. \A e : CountingNext(e) \subseteq Counting(e)
    BY DEF Counting, CountingNext
<1>2. \A e : /\ Cardinality(CountingNext(e)) \in Nat
             /\ Cardinality(CountingNext(e)) <= Cardinality(Counting(e))
             /\ Cardinality(Counting(e)) \in Nat
    BY <1>1, FewerCounting, CountingFinite
<1>3. ASSUME NEW e \in Events, fails[e] < MaxRetries
      PROVE  retry[e] + Cardinality(CountingNext(e)) <= fails[e]
    <2>1. retry[e] + Cardinality(Counting(e)) <= fails[e]
        BY <1>3 DEF RetryNeverAhead
    <2>2. retry[e] \in Nat /\ fails[e] \in Nat
        BY OutboxAssumption DEF TypeOK
    <2> QED BY <1>2, <2>1, <2>2
<1>4. ASSUME NEW q \in Procs, pc'[q] = "counting", fails[cur'[q]] < MaxRetries
      PROVE  seen'[q] + Cardinality(CountingNext(cur'[q])) <= fails[cur'[q]]
    <2>1. /\ pc[q] = "counting" /\ cur'[q] = cur[q] /\ seen'[q] = seen[q]
          /\ cur[q] \in Events
        BY <1>4 DEF TypeOK
    <2>2. seen[q] + Cardinality(Counting(cur[q])) <= fails[cur[q]]
        BY <1>4, <2>1 DEF RetryNeverAhead
    <2>3. seen[q] \in Nat /\ fails[cur[q]] \in Nat
        BY <2>1, OutboxAssumption DEF TypeOK
    <2> QED BY <1>2, <2>1, <2>2, <2>3
<1> QED BY <1>3, <1>4, RetryNext

\* A failure adds one to both sides: to fails and to the threads counting it.
LEMMA RetryRefused ==
    ASSUME TypeOK, RetryNeverAhead, NEW p \in Procs, NEW e \in Events,
           PublishRefused(p, e)
    PROVE  RetryNeverAhead'
<1>1. /\ pc[p] = "next" /\ pc' = [pc EXCEPT ![p] = "failed"]
      /\ cur' = [cur EXCEPT ![p] = e]
      /\ fails' = [fails EXCEPT ![e] = Increment(fails[e])]
      /\ UNCHANGED <<retry, seen>>
    BY DEF PublishRefused, TakeOldest, rowVars
<1>2. p \notin Counting(e) /\ CountingNext(e) = Counting(e) \cup {p}
    BY <1>1 DEF Counting, CountingNext, TypeOK
<1>3. Cardinality(CountingNext(e)) = Cardinality(Counting(e)) + 1
    BY <1>2, CountingFinite, FS_AddElement
<1>4. \A f : f # e => CountingNext(f) = Counting(f)
    BY <1>1 DEF Counting, CountingNext, TypeOK
<1>5. fails'[e] < MaxRetries => fails[e] < MaxRetries /\ fails'[e] = fails[e] + 1
    BY <1>1, OutboxAssumption DEF Increment, TypeOK
<1>6. \A f \in Events : f # e => fails'[f] = fails[f]
    BY <1>1 DEF TypeOK
<1>7. ASSUME NEW f \in Events, fails'[f] < MaxRetries
      PROVE  retry'[f] + Cardinality(CountingNext(f)) <= fails'[f]
    <2>1. retry[f] \in Nat /\ fails[f] \in Nat /\ Cardinality(Counting(f)) \in Nat
        BY CountingFinite, OutboxAssumption DEF TypeOK
    <2>2. CASE f = e
        BY <1>1, <1>3, <1>5, <1>7, <2>1, <2>2 DEF RetryNeverAhead
    <2>3. CASE f # e
        BY <1>1, <1>4, <1>6, <1>7, <2>1, <2>3 DEF RetryNeverAhead
    <2> QED BY <2>2, <2>3
<1>8. ASSUME NEW q \in Procs, pc'[q] = "counting", fails'[cur'[q]] < MaxRetries
      PROVE  seen'[q] + Cardinality(CountingNext(cur'[q])) <= fails'[cur'[q]]
    <2>1. /\ q # p /\ pc[q] = "counting" /\ cur'[q] = cur[q] /\ seen'[q] = seen[q]
          /\ cur[q] \in Events
        BY <1>1, <1>8 DEF TypeOK
    <2>2. /\ seen[q] \in Nat /\ fails[cur[q]] \in Nat
          /\ Cardinality(Counting(cur[q])) \in Nat
        BY <2>1, CountingFinite, OutboxAssumption DEF TypeOK
    <2>3. CASE cur[q] = e
        BY <1>3, <1>5, <1>8, <2>1, <2>2, <2>3 DEF RetryNeverAhead
    <2>4. CASE cur[q] # e
        BY <1>4, <1>6, <1>8, <2>1, <2>2, <2>4 DEF RetryNeverAhead
    <2> QED BY <2>3, <2>4
<1> QED BY <1>7, <1>8, RetryNext

\* The count read is one the failures already cover.
LEMMA RetryRead ==
    ASSUME TypeOK, RetryNeverAhead, NEW p \in Procs, ReadRetryCount(p)
    PROVE  RetryNeverAhead'
<1>0. UNCHANGED <<retry, fails>>
    BY DEF ReadRetryCount, rowVars, historyVars
<1>1. CASE cur[p] \notin Visible
    BY <1>0, <1>1, RetryQuiet DEF ReadRetryCount, NextEvent, TypeOK
<1>2. CASE cur[p] \in Visible
    <2>1. /\ pc[p] = "failed" /\ pc' = [pc EXCEPT ![p] = "counting"]
          /\ seen' = [seen EXCEPT ![p] = retry[cur[p]]]
          /\ UNCHANGED cur
          /\ cur[p] \in Events
        BY <1>2 DEF ReadRetryCount, Visible
    <2>2. \A e : CountingNext(e) = Counting(e)
        BY <2>1 DEF Counting, CountingNext, TypeOK
    <2>3. ASSUME NEW q \in Procs, pc'[q] = "counting", fails[cur[q]] < MaxRetries
          PROVE  seen'[q] + Cardinality(Counting(cur[q])) <= fails[cur[q]]
        <3>1. CASE q = p
            <4>1. seen'[p] = retry[cur[p]]
                BY <2>1 DEF TypeOK
            <4> QED BY <2>1, <2>3, <3>1, <4>1 DEF RetryNeverAhead
        <3>2. CASE q # p
            <4>1. pc[q] = "counting" /\ seen'[q] = seen[q]
                BY <2>1, <2>3, <3>2 DEF TypeOK
            <4> QED BY <2>3, <4>1 DEF RetryNeverAhead
        <3> QED BY <3>1, <3>2
    <2> QED BY <1>0, <2>1, <2>2, <2>3, RetryNext DEF RetryNeverAhead
<1> QED BY <1>1, <1>2

\* The count written is the one read plus one, and one thread counts less.
LEMMA RetryWrite ==
    ASSUME TypeOK, RetryNeverAhead, NEW p \in Procs, WriteRetryCount(p)
    PROVE  RetryNeverAhead'
<1>0. UNCHANGED fails
    BY DEF WriteRetryCount, historyVars
<1>1. CASE cur[p] \notin Visible
    <2>1. UNCHANGED retry /\ LeaveBatch(p)
        BY <1>1 DEF WriteRetryCount
    <2> QED BY <1>0, <2>1, RetryQuiet DEF LeaveBatch, TypeOK
<1>2. CASE cur[p] \in Visible
    <2> DEFINE e == cur[p]
    <2>1. /\ pc[p] = "counting" /\ e \in Events
          /\ retry' = [retry EXCEPT ![e] = Increment(seen[p])]
          /\ NextEvent(p)
        BY <1>2 DEF WriteRetryCount, Visible
    <2>2. /\ pc'[p] \in {"idle", "next"}
          /\ \A q \in Procs \ {p} :
                 pc'[q] = pc[q] /\ cur'[q] = cur[q] /\ seen'[q] = seen[q]
        BY <2>1 DEF NextEvent, TypeOK
    <2>3. CountingNext(e) = Counting(e) \ {p} /\ p \in Counting(e)
        BY <2>1, <2>2 DEF Counting, CountingNext
    <2>4. /\ Cardinality(Counting(e)) \in Nat /\ Cardinality(CountingNext(e)) \in Nat
          /\ Cardinality(Counting(e)) = Cardinality(CountingNext(e)) + 1
        <3>1. IsFiniteSet(Counting(e))
            BY CountingFinite
        <3>2. Cardinality(Counting(e) \ {p}) = Cardinality(Counting(e)) - 1
            BY <2>3, <3>1, FS_RemoveElement
        <3>3. /\ Cardinality(Counting(e)) \in Nat
              /\ Cardinality(Counting(e) \ {p}) \in Nat
            BY <3>1, FS_RemoveElement, FS_CardinalityType
        <3> HIDE DEF e
        <3> QED BY <2>3, <3>2, <3>3
    <2>5. \A f : f # e => CountingNext(f) = Counting(f)
        BY <2>1, <2>2 DEF Counting, CountingNext
    <2>6. \A f \in Events : f # e => retry'[f] = retry[f]
        BY <2>1 DEF TypeOK
    <2>7. ASSUME NEW f \in Events, fails[f] < MaxRetries
          PROVE  retry'[f] + Cardinality(CountingNext(f)) <= fails[f]
        <3>1. CASE f = e
            <4>1. /\ seen[p] \in Nat /\ fails[e] \in Nat
                  /\ seen[p] + Cardinality(Counting(e)) <= fails[e]
                BY <2>1, <2>7, <3>1, OutboxAssumption DEF RetryNeverAhead, TypeOK
            <4>2. retry'[e] = Increment(seen[p]) /\ Increment(seen[p]) <= seen[p] + 1
                <5>1. retry'[e] = Increment(seen[p])
                    BY <2>1 DEF TypeOK
                <5>2. seen[p] \in 0..MaxRetries
                    BY DEF TypeOK
                <5>3. Increment(seen[p]) <= seen[p] + 1
                    BY <5>2, OutboxAssumption DEF Increment
                <5> QED BY <5>1, <5>3
            <4>3. retry'[e] \in Nat
                BY <4>1, <4>2, OutboxAssumption DEF Increment
            <4> HIDE DEF e
            <4> QED BY <2>4, <3>1, <4>1, <4>2, <4>3
        <3>2. CASE f # e
            BY <2>5, <2>6, <2>7, <3>2 DEF RetryNeverAhead
        <3> QED BY <3>1, <3>2
    <2>8. ASSUME NEW q \in Procs, pc'[q] = "counting", fails[cur'[q]] < MaxRetries
          PROVE  seen'[q] + Cardinality(CountingNext(cur'[q])) <= fails[cur'[q]]
        <3>1. /\ q # p /\ pc[q] = "counting" /\ cur'[q] = cur[q] /\ seen'[q] = seen[q]
              /\ cur[q] \in Events
            <4>1. q # p
                BY <2>2, <2>8
            <4>2. pc[q] = "counting" /\ cur'[q] = cur[q] /\ seen'[q] = seen[q]
                BY <2>2, <2>8, <4>1
            <4>3. cur[q] \in Events
                BY <4>2 DEF TypeOK
            <4> QED BY <4>1, <4>2, <4>3
        <3>2. seen[q] + Cardinality(Counting(cur[q])) <= fails[cur[q]]
            BY <2>8, <3>1 DEF RetryNeverAhead
        <3>3. CASE cur[q] = e
            <4>1. seen[q] \in Nat /\ fails[e] \in Nat
                BY <3>1, <3>3, OutboxAssumption DEF TypeOK
            <4> HIDE DEF e
            <4> QED BY <2>4, <3>1, <3>2, <3>3, <4>1
        <3>4. CASE cur[q] # e
            BY <2>5, <3>1, <3>2, <3>4
        <3> QED BY <3>3, <3>4
    <2> QED BY <1>0, <2>7, <2>8, RetryNext
<1> QED BY <1>1, <1>2

-----------------------------------------------------------------------------
(* Putting the counters and the tasks together.                            *)

\* Before anything fails there is nothing to count.
LEMMA DeadLetterInit == Init => DeadLetterInv
<1> SUFFICES ASSUME Init PROVE DeadLetterInv
    OBVIOUS
<1>1. \A e : Cardinality(Counting(e)) = 0
    <2>1. \A e : Counting(e) = {}
        BY DEF Init, Counting
    <2> QED BY <2>1, FS_EmptySet
<1> QED BY <1>1 DEF Init, DeadLetterInv, RetryNeverAhead, TakenOnlyExhausted,
                    DeadLetterOnlyExhausted

\* fails never decreases: what is exhausted stays so.
LEMMA FailsGrow ==
    ASSUME TypeOK, NEW n \in 0..MaxRetries
    PROVE  Increment(n) >= n
BY OutboxAssumption DEF Increment

\* The steps of the threads keep RetryNeverAhead.
LEMMA RetryProc ==
    ASSUME TypeOK, RetryNeverAhead, NEW p \in Procs,
           Start(p) \/ Stop(p) \/ ProcStep(p) \/ ProcFault(p)
    PROVE  RetryNeverAhead'
<1> USE DEF vars, rowVars, historyVars, procVars
<1>1. CASE Start(p) \/ Stop(p) \/ PollEmpty(p)
    <2>1. UNCHANGED <<retry, fails, pc, cur, seen>>
        BY <1>1 DEF Start, Stop, PollEmpty
    <2> QED BY <2>1, RetryQuiet
<1>2. CASE ReadBatch(p)
    BY <1>2, RetryQuiet DEF ReadBatch, TypeOK
<1>3. ASSUME NEW e \in Events, PublishOk(p, e) \/ PublishLost(p, e)
      PROVE  RetryNeverAhead'
    <2>1. /\ UNCHANGED <<retry, fails, seen>>
          /\ pc[p] = "next" /\ pc' = [pc EXCEPT ![p] = "sent"]
          /\ cur' = [cur EXCEPT ![p] = e]
        BY <1>3 DEF PublishOk, PublishLost, TakeOldest
    <2> QED BY <2>1, RetryQuiet DEF TypeOK
<1>4. CASE MarkPublished(p)
    BY <1>4, RetryQuiet DEF MarkPublished, NextEvent, TypeOK
<1>5. CASE ProcFault(p)
    <2>1. UNCHANGED <<retry, fails>> /\ LeaveBatch(p)
        BY <1>5 DEF ProcFault, Kill, DatabaseError
    <2> QED BY <2>1, RetryQuiet DEF LeaveBatch, TypeOK
<1> QED BY <1>1, <1>2, <1>3, <1>4, <1>5, RetryRefused, RetryRead, RetryWrite
        DEF ProcStep, Publish

\* A step of a request or of a task leaves the counters and the threads alone.
LEMMA OthersQuiet ==
    ASSUME \/ Request
           \/ \E t \in Tasks : StartTask(t) \/ TaskStep(t) \/ KillTask(t)
           \/ \E old \in SUBSET Events : Cleanup(old)
           \/ UNCHANGED vars
    PROVE  UNCHANGED <<retry, fails, pc, cur, seen>>
BY DEF Request, CreateEvent, CommitEvent, RollbackEvent, StartTask, TaskStep, KillTask,
       MarkDead, MarkDeadFails, DeadLetterOk, DeadLetterLost, DeadLetterRefused, Cleanup,
       vars, rowVars, historyVars, procVars

\* The steps of the threads do not touch the tasks, and fails only grows.
LEMMA ProcsSpareTasks ==
    ASSUME TypeOK, NEW p \in Procs, Start(p) \/ Stop(p) \/ ProcStep(p) \/ ProcFault(p)
    PROVE  UNCHANGED <<failed, dlq>> /\ \A e \in Events : fails'[e] >= fails[e]
<1>1. UNCHANGED <<failed, dlq>>
    BY DEF Start, Stop, ProcStep, ProcFault, PollEmpty, ReadBatch, Publish, PublishOk,
           PublishLost, PublishRefused, MarkPublished, ReadRetryCount, WriteRetryCount,
           Kill, DatabaseError, vars, kafkaVars, taskVars
<1>2. CASE UNCHANGED fails
    BY <1>1, <1>2, OutboxAssumption DEF TypeOK
<1>3. ASSUME NEW e \in Events, PublishRefused(p, e)
      PROVE  \A f \in Events : fails'[f] >= fails[f]
    <2>1. fails' = [fails EXCEPT ![e] = Increment(fails[e])]
        BY <1>3 DEF PublishRefused
    <2>2. fails[e] \in 0..MaxRetries
        BY DEF TypeOK
    <2>3. Increment(fails[e]) >= fails[e]
        BY <2>2, FailsGrow
    <2> QED BY <2>1, <2>3, OutboxAssumption DEF TypeOK
<1>4. UNCHANGED fails \/ \E e \in Events : PublishRefused(p, e)
    BY DEF Start, Stop, ProcStep, ProcFault, PollEmpty, ReadBatch, Publish, PublishOk,
           PublishLost, MarkPublished, ReadRetryCount, WriteRetryCount,
           Kill, DatabaseError, vars, historyVars
<1> QED BY <1>1, <1>2, <1>3, <1>4

\* An unprocessed row whose count has reached the maximum has failed that often.
LEMMA FailedExhausted ==
    ASSUME TypeOK, RetryNeverAhead
    PROVE  \A e \in GetFailedEvents : fails[e] >= MaxRetries
<1> SUFFICES ASSUME NEW e \in Events, retry[e] >= MaxRetries, fails[e] < MaxRetries
             PROVE  FALSE
    BY OutboxAssumption DEF GetFailedEvents, Unprocessed, TypeOK
<1>1. retry[e] + Cardinality(Counting(e)) <= fails[e]
    BY DEF RetryNeverAhead
<1>2. retry[e] \in Nat /\ fails[e] \in Nat /\ Cardinality(Counting(e)) \in Nat
    BY CountingFinite, OutboxAssumption DEF TypeOK
<1> QED BY <1>1, <1>2, OutboxAssumption

\* The tasks take only exhausted rows, and dead-letter only what they took.
LEMMA DeadLetterTask ==
    ASSUME TypeOK, DeadLetterInv, NEW t \in Tasks,
           StartTask(t) \/ TaskStep(t) \/ KillTask(t)
    PROVE  TakenOnlyExhausted' /\ DeadLetterOnlyExhausted'
<1> USE DEF DeadLetterInv, TakenOnlyExhausted, DeadLetterOnlyExhausted
<1> USE DEF kafkaVars, historyVars
<1>0. UNCHANGED fails
    BY OthersQuiet
<1>1. CASE StartTask(t)
    <2>1. \A e \in GetFailedEvents : fails[e] >= MaxRetries
        BY FailedExhausted
    <2>2. UNCHANGED dlq /\ failed' = [failed EXCEPT ![t] = GetFailedEvents]
        BY <1>1 DEF StartTask
    <2>3. \A u \in Tasks : failed'[u] = failed[u] \/ failed'[u] = GetFailedEvents
        BY <2>2 DEF TypeOK
    <2> QED BY <1>0, <2>1, <2>2, <2>3
<1>2. CASE MarkDead(t) \/ MarkDeadFails(t)
    BY <1>0, <1>2 DEF MarkDead, MarkDeadFails
<1>3. CASE KillTask(t)
    BY <1>0, <1>3 DEF KillTask, TypeOK
<1>4. ASSUME NEW e \in Events,
             DeadLetterOk(t, e) \/ DeadLetterLost(t, e) \/ DeadLetterRefused(t, e)
      PROVE  TakenOnlyExhausted' /\ DeadLetterOnlyExhausted'
    <2>1. /\ e \in failed[t] /\ dlq' \in {dlq, dlq \cup {e}}
          /\ failed' = [failed EXCEPT ![t] = @ \ {e}]
        BY <1>4 DEF DeadLetterOk, DeadLetterLost, DeadLetterRefused, TakeFailed
    <2> QED BY <1>0, <2>1 DEF TypeOK
<1> QED BY <1>1, <1>2, <1>3, <1>4 DEF TaskStep

LEMMA DeadLetterNext == TypeOK /\ DeadLetterInv /\ [Next]_vars => DeadLetterInv'
<1> SUFFICES ASSUME TypeOK, DeadLetterInv, [Next]_vars PROVE DeadLetterInv'
    OBVIOUS
<1>1. ASSUME NEW p \in Procs, Start(p) \/ Stop(p) \/ ProcStep(p) \/ ProcFault(p)
      PROVE  DeadLetterInv'
    <2>1. RetryNeverAhead'
        BY <1>1, RetryProc DEF DeadLetterInv
    <2>2. UNCHANGED <<failed, dlq>> /\ \A e \in Events : fails'[e] >= fails[e]
        BY <1>1, ProcsSpareTasks
    <2>3. \A e \in Events : fails[e] >= MaxRetries => fails'[e] >= MaxRetries
        <3>1. TypeOK'
            BY TypeNext
        <3> QED BY <2>2, <3>1, OutboxAssumption DEF TypeOK
    <2> QED BY <2>1, <2>2, <2>3
            DEF DeadLetterInv, TakenOnlyExhausted, DeadLetterOnlyExhausted, TypeOK
<1>2. ASSUME NEW t \in Tasks, StartTask(t) \/ TaskStep(t) \/ KillTask(t)
      PROVE  DeadLetterInv'
    <2>1. UNCHANGED <<retry, fails, pc, cur, seen>>
        BY <1>2, OthersQuiet
    <2> QED BY <1>2, <2>1, RetryQuiet, DeadLetterTask DEF DeadLetterInv
<1>3. ASSUME Request \/ (\E old \in SUBSET Events : Cleanup(old)) \/ UNCHANGED vars
      PROVE  DeadLetterInv'
    <2>1. UNCHANGED <<retry, fails, pc, cur, seen>>
        BY <1>3, OthersQuiet
    <2>2. UNCHANGED <<failed, dlq>>
        BY <1>3 DEF Request, CreateEvent, CommitEvent, RollbackEvent, Cleanup,
                    vars, kafkaVars, taskVars
    <2> QED BY <2>1, <2>2, RetryQuiet
            DEF DeadLetterInv, TakenOnlyExhausted, DeadLetterOnlyExhausted
<1> QED BY <1>1, <1>2, <1>3 DEF Next

\* An event reaches the dead letter topic only after it failed to publish
\* MaxRetries times, although threads read and write retry_count in separate
\* statements and share rows: the count may lag behind, never run ahead.
THEOREM DeadLetterSound == Spec => [](RetryNeverAhead /\ DeadLetterOnlyExhausted)
<1>1. Spec => []DeadLetterInv
    BY TypeCorrect, DeadLetterInit, DeadLetterNext, PTL DEF Spec
<1>2. DeadLetterInv => RetryNeverAhead /\ DeadLetterOnlyExhausted
    BY DEF DeadLetterInv
<1> QED BY <1>1, <1>2, PTL

\* retry_count is never ahead of the failures, and neither is the copy that a
\* thread of EventRetryService holds between its SELECT and its UPDATE.
THEOREM RetrySound == Spec => []RetryNeverAhead
<1>1. RetryNeverAhead /\ DeadLetterOnlyExhausted => RetryNeverAhead
    OBVIOUS
<1> QED BY <1>1, DeadLetterSound, PTL

-----------------------------------------------------------------------------
(* The outbox implements the abstract relay.                               *)

Exhausted == {e \in Events : fails[e] = MaxRetries}

\* A step that leaves the relay's sets alone is a stuttering step of it.
LEMMA RelayStutter ==
    ASSUME UNCHANGED <<Committed, Unprocessed, Published, dlq, lost, fails>>
    PROVE  UNCHANGED Relay!relayVars
BY DEF Relay!relayVars

\* The initial states map to the relay's initial state.
LEMMA RelayInit == Init => Relay!RelayInit
<1> SUFFICES ASSUME Init PROVE Relay!RelayInit
    OBVIOUS
<1>1. Committed = {} /\ Published = {}
    BY DEF Init, Committed, Published
<1>2. \A e \in Events : fails[e] # MaxRetries
    BY OutboxAssumption DEF Init
<1> QED BY <1>1, <1>2 DEF Init, Relay!RelayInit

\* A commit is an acceptance; the other steps of a request change nothing.
LEMMA RelayRequest ==
    ASSUME TypeOK, Request
    PROVE  Relay!RelayNext \/ UNCHANGED Relay!relayVars
<1> USE DEF rowVars, kafkaVars, historyVars
<1>1. PICK e \in Events : \/ \E c \in Entities : CreateEvent(e, c)
                          \/ CommitEvent(e)
                          \/ RollbackEvent(e)
    BY DEF Request
<1>2. CASE (\E c \in Entities : CreateEvent(e, c)) \/ RollbackEvent(e)
    <2>1. UNCHANGED <<topic, dlq, lost, fails>>
        BY <1>2 DEF CreateEvent, RollbackEvent
    <2>2. UNCHANGED <<Committed, Unprocessed>>
        BY <1>2, CreateRows, RollbackRows
    <2> QED BY <2>1, <2>2, SameTopic, RelayStutter
<1>3. CASE CommitEvent(e)
    <2>1. UNCHANGED <<topic, dlq, lost, fails>>
        BY <1>3 DEF CommitEvent
    <2>2. Committed' = Committed \cup {e} /\ Unprocessed' = Unprocessed \cup {e}
        BY <1>3, CommitRows
    <2>3. e \notin Committed
        BY <1>3 DEF CommitEvent, Committed
    <2>4. Relay!Accept(e)
        BY <2>1, <2>2, <2>3, SameTopic DEF Relay!Accept
    <2> QED BY <2>4 DEF Relay!RelayNext
<1> QED BY <1>1, <1>2, <1>3

\* A thread delivers, drops, exhausts or retires one event at a time.
LEMMA RelayProc ==
    ASSUME TypeOK, DeliveryInv, NEW p \in Procs,
           Start(p) \/ Stop(p) \/ ProcStep(p) \/ ProcFault(p)
    PROVE  Relay!RelayNext \/ UNCHANGED Relay!relayVars
<1> USE DEF vars, rowVars, kafkaVars, historyVars
<1>1. CASE \/ Start(p) \/ Stop(p) \/ PollEmpty(p) \/ ReadBatch(p)
           \/ ReadRetryCount(p) \/ WriteRetryCount(p) \/ ProcFault(p)
    <2>1. UNCHANGED <<status, topic, dlq, lost, fails>>
        BY <1>1 DEF Start, Stop, PollEmpty, ReadBatch, ReadRetryCount, WriteRetryCount,
                    ProcFault, Kill, DatabaseError
    <2> QED BY <2>1, SameRows, SameTopic, RelayStutter
<1>2. ASSUME NEW e \in Events,
             PublishOk(p, e) \/ PublishLost(p, e) \/ PublishRefused(p, e)
      PROVE  Relay!RelayNext \/ UNCHANGED Relay!relayVars
    <2>1. e \in Committed /\ UNCHANGED <<status, dlq>>
        BY <1>2 DEF PublishOk, PublishLost, PublishRefused, TakeOldest,
                    DeliveryInv, OnlyCommitted
    <2>2. CASE PublishOk(p, e)
        <3>1. Published' = Published \cup {e} /\ UNCHANGED <<lost, fails>>
            BY <2>2, AppendPublished DEF PublishOk
        <3>2. Relay!Deliver(e)
            BY <2>1, <3>1, SameRows DEF Relay!Deliver
        <3> QED BY <3>2 DEF Relay!RelayNext
    <2>3. CASE PublishLost(p, e)
        <3>1. lost' = lost \cup {e} /\ UNCHANGED <<topic, fails>>
            BY <2>3 DEF PublishLost
        <3>2. Relay!Drop(e)
            BY <2>1, <3>1, SameRows, SameTopic DEF Relay!Drop
        <3> QED BY <3>2 DEF Relay!RelayNext
    <2>4. CASE PublishRefused(p, e)
        <3>1. /\ UNCHANGED <<topic, lost>>
              /\ fails' = [fails EXCEPT ![e] = Increment(fails[e])]
            BY <2>4 DEF PublishRefused
        <3>2. fails[e] \in 0..MaxRetries /\ fails'[e] = Increment(fails[e])
            BY <3>1 DEF TypeOK
        <3>3. \A f \in Events : f # e => fails'[f] = fails[f]
            BY <3>1 DEF TypeOK
        <3>4. fails[e] = MaxRetries => fails'[e] = MaxRetries
            BY <3>2, OutboxAssumption DEF Increment
        <3>5. CASE fails'[e] = MaxRetries
            <4>1. Exhausted' = Exhausted \cup {e}
                BY <3>3, <3>5 DEF Exhausted
            <4>2. Relay!Exhaust(e)
                BY <2>1, <3>1, <4>1, SameRows, SameTopic DEF Relay!Exhaust, Exhausted
            <4> QED BY <4>2 DEF Relay!RelayNext
        <3>6. CASE fails'[e] # MaxRetries
            <4>1. Exhausted' = Exhausted
                BY <3>3, <3>4, <3>6 DEF Exhausted
            <4> QED BY <2>1, <3>1, <4>1, SameRows, SameTopic
                    DEF Relay!relayVars, Exhausted
        <3> QED BY <3>5, <3>6
    <2> QED BY <1>2, <2>2, <2>3, <2>4
<1>3. CASE MarkPublished(p)
    <2> DEFINE e == cur[p]
    <2>1. /\ e \in Events
          /\ e \in Committed
          /\ e \in Published \cup lost
          /\ MarkAsProcessed(e)
        BY <1>3 DEF MarkPublished, TypeOK, DeliveryInv, MarkedAfterSend, OnlyCommitted
    <2>2. UNCHANGED <<topic, dlq, lost, fails>>
        BY <1>3 DEF MarkPublished
    <2>3. Committed' = Committed /\ Unprocessed' = Unprocessed \ {e}
        BY <2>1, MarkRows
    <2>4. Relay!Retire(e)
        BY <2>1, <2>2, <2>3, SameTopic DEF Relay!Retire
    <2> QED BY <2>1, <2>4 DEF Relay!RelayNext
<1> QED BY <1>1, <1>2, <1>3 DEF ProcStep, Publish

\* A task dead-letters, drops or retires one event at a time.
LEMMA RelayTask ==
    ASSUME TypeOK, DeliveryInv, DeadLetterInv, NEW t \in Tasks,
           StartTask(t) \/ TaskStep(t) \/ KillTask(t)
    PROVE  Relay!RelayNext \/ UNCHANGED Relay!relayVars
<1> USE DEF rowVars, kafkaVars, historyVars
<1>1. CASE StartTask(t) \/ MarkDeadFails(t) \/ KillTask(t)
    <2>1. UNCHANGED <<status, topic, dlq, lost, fails>>
        BY <1>1 DEF StartTask, MarkDeadFails, KillTask
    <2> QED BY <2>1, SameRows, SameTopic, RelayStutter
<1>2. CASE MarkDead(t)
    <2> DEFINE e == dead[t]
    <2>1. /\ e \in Events
          /\ e \in Committed
          /\ e \in dlq \cup lost
          /\ MarkAsProcessed(e)
        BY <1>2 DEF MarkDead, TypeOK, DeliveryInv, MarkedAfterSend, OnlyCommitted
    <2>2. UNCHANGED <<topic, dlq, lost, fails>>
        BY <1>2 DEF MarkDead
    <2>3. Committed' = Committed /\ Unprocessed' = Unprocessed \ {e}
        BY <2>1, MarkRows
    <2>4. Relay!Retire(e)
        BY <2>1, <2>2, <2>3, SameTopic DEF Relay!Retire
    <2> QED BY <2>1, <2>4 DEF Relay!RelayNext
<1>3. ASSUME NEW e \in Events,
             DeadLetterOk(t, e) \/ DeadLetterLost(t, e) \/ DeadLetterRefused(t, e)
      PROVE  Relay!RelayNext \/ UNCHANGED Relay!relayVars
    <2>1. e \in failed[t] /\ UNCHANGED <<status, topic, fails>>
        BY <1>3 DEF DeadLetterOk, DeadLetterLost, DeadLetterRefused, TakeFailed
    <2>2. e \in Committed /\ fails[e] = MaxRetries
        BY <2>1, OutboxAssumption
        DEF DeliveryInv, OnlyCommitted, DeadLetterInv, TakenOnlyExhausted, TypeOK
    <2>3. CASE DeadLetterOk(t, e)
        <3>1. dlq' = dlq \cup {e} /\ UNCHANGED lost
            BY <2>3 DEF DeadLetterOk
        <3>2. Relay!DeadLetter(e)
            BY <2>1, <2>2, <3>1, SameRows, SameTopic DEF Relay!DeadLetter
        <3> QED BY <3>2 DEF Relay!RelayNext
    <2>4. CASE DeadLetterLost(t, e)
        <3>1. lost' = lost \cup {e} /\ UNCHANGED dlq
            BY <2>4 DEF DeadLetterLost
        <3>2. Relay!Drop(e)
            BY <2>1, <2>2, <3>1, SameRows, SameTopic DEF Relay!Drop
        <3> QED BY <3>2 DEF Relay!RelayNext
    <2>5. CASE DeadLetterRefused(t, e)
        <3>1. UNCHANGED <<dlq, lost>>
            BY <2>5 DEF DeadLetterRefused
        <3> QED BY <2>1, <3>1, SameRows, SameTopic, RelayStutter
    <2> QED BY <1>3, <2>3, <2>4, <2>5
<1> QED BY <1>1, <1>2, <1>3 DEF TaskStep

\* Every step of the outbox is a step of the relay or none.
LEMMA RelayStep ==
    TypeOK /\ DeliveryInv /\ DeadLetterInv /\ [Next]_vars
        => [Relay!RelayNext]_(Relay!relayVars)
<1> SUFFICES ASSUME TypeOK, DeliveryInv, DeadLetterInv, [Next]_vars
             PROVE  Relay!RelayNext \/ UNCHANGED Relay!relayVars
    OBVIOUS
<1>1. ASSUME NEW old \in SUBSET Events, Cleanup(old)
      PROVE  UNCHANGED Relay!relayVars
    <2>1. UNCHANGED <<topic, dlq, lost, fails>>
        BY <1>1 DEF Cleanup, kafkaVars, historyVars
    <2> QED BY <1>1, <2>1, CleanupRows, SameTopic, RelayStutter
<1>2. CASE UNCHANGED vars
    <2>1. UNCHANGED <<status, topic, dlq, lost, fails>>
        BY <1>2 DEF vars, rowVars, kafkaVars, historyVars
    <2> QED BY <2>1, SameRows, SameTopic, RelayStutter
<1> QED BY <1>1, <1>2, RelayRequest, RelayProc, RelayTask DEF Next

\* The outbox implements the abstract event relay: committed events are
\* accepted, is_processed retires them, and retiring needs a delivery, a dead
\* letter or a loss inside the producer, in every interleaving and after every
\* kill or error.
THEOREM Refinement == Spec => RefinesRelay
<1>1. Spec => []DeliveryInv
    BY TypeCorrect, DeliveryInit, DeliveryNext, PTL DEF Spec
<1>2. Spec => []DeadLetterInv
    BY TypeCorrect, DeadLetterInit, DeadLetterNext, PTL DEF Spec
<1> QED BY <1>1, <1>2, TypeCorrect, RelayInit, RelayStep, PTL
        DEF Spec, RefinesRelay, Relay!RelaySpec
=============================================================================
