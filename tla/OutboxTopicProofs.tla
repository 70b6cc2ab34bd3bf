-------------------------- MODULE OutboxTopicProofs --------------------------
(***************************************************************************)
(* What the topic holds, for any number of threads, tasks, customers and   *)
(* events.                                                                 *)
(*                                                                         *)
(* Order: two events of one customer are first published in the order they *)
(* were written, unless the older one failed, was lost by the producer or  *)
(* was committed late.                                                     *)
(* Copies: an event has at most one record per thread and one more per     *)
(* kill, stop or database error.                                           *)
(***************************************************************************)
EXTENDS OutboxProofs

-----------------------------------------------------------------------------
(* The order of publication.                                               *)

\* What an older event must be for the order to be promised.
Good(e) == fails[e] = 0 /\ e \notin late \cup lost

\* f may only be ahead of nobody: e is a good older event of its customer.
Owes(e, f) ==
    e < f /\ entity[e] = entity[f] /\ e \in Committed /\ Good(e)

\* PublishedInOrder, for older events that are merely committed.
TopicInOrder ==
    \A e, f \in Events :
        Owes(e, f) /\ f \in Published => e \in Published /\ FirstBefore(e, f)

\* A batch never skips: the good older events of a row's customer are in the
\* batch too, or in the topic already.
BatchInOrder ==
    \A p \in Procs : \A e, f \in Events :
        Owes(e, f) /\ f \in batch[p] => e \in batch[p] \cup Published

OrderInv == TopicInOrder /\ BatchInOrder

\* The invariants of OutboxProofs on which the order rests.
Context == TypeOK /\ DeliveryInv /\ DeadLetterInv

LEMMA OrderInit == Init => OrderInv
BY DEF Init, OrderInv, TopicInOrder, BatchInOrder, Owes, Committed

-----------------------------------------------------------------------------
(* Steps that leave the topic alone and start no batch.                    *)

\* Nothing new is owed and no row leaves a batch that goes on.
LEMMA OrderQuiet ==
    ASSUME Context, OrderInv,
           UNCHANGED topic,
           \A p \in Procs : batch'[p] \in {batch[p], {}},
           \A e \in Events : \A f \in Committed : Owes(e, f)' => Owes(e, f)
    PROVE  OrderInv'
<1>1. Published' = Published /\ \A e, f : FirstBefore(e, f)' <=> FirstBefore(e, f)
    BY SameTopic DEF FirstBefore
<1>2. Published \subseteq Committed /\ \A p \in Procs : batch'[p] \subseteq Committed
    BY DEF Context, DeliveryInv, OnlyCommitted
<1>3. TopicInOrder'
    BY <1>1, <1>2 DEF OrderInv, TopicInOrder
<1>4. BatchInOrder'
    BY <1>1, <1>2 DEF OrderInv, BatchInOrder
<1> QED BY <1>3, <1>4 DEF OrderInv

\* Failures, losses and late commits are never forgotten.
LEMMA GoodBefore ==
    ASSUME TypeOK, [Next]_vars, NEW e \in Events, Good(e)'
    PROVE  Good(e)
<1> USE DEF Good, vars, rowVars, kafkaVars, historyVars
<1>1. ASSUME NEW p \in Procs, Start(p) \/ Stop(p) \/ ProcStep(p) \/ ProcFault(p)
      PROVE  Good(e)
    <2>1. fails'[e] >= fails[e]
        BY <1>1, ProcsSpareTasks
    <2>2. fails[e] \in Nat
        BY OutboxAssumption DEF TypeOK
    <2>3. UNCHANGED late /\ lost \subseteq lost'
        BY <1>1 DEF Start, Stop, ProcStep, ProcFault, PollEmpty, ReadBatch, Publish,
               PublishOk, PublishLost, PublishRefused, MarkPublished, ReadRetryCount,
               WriteRetryCount, Kill, DatabaseError
    <2> QED BY <2>1, <2>2, <2>3
<1>2. ASSUME NEW t \in Tasks, StartTask(t) \/ TaskStep(t) \/ KillTask(t)
      PROVE  Good(e)
    BY <1>2 DEF StartTask, TaskStep, KillTask, MarkDead, MarkDeadFails, DeadLetterOk,
                DeadLetterLost, DeadLetterRefused
<1>3. CASE Request
    BY <1>3 DEF Request, CreateEvent, CommitEvent, RollbackEvent
<1>4. CASE \E old \in SUBSET Events : Cleanup(old)
    BY <1>4 DEF Cleanup
<1>5. CASE UNCHANGED vars
    BY <1>5
<1> QED BY <1>1, <1>2, <1>3, <1>4, <1>5 DEF Next

\* A step that commits nothing and renames nobody owes nothing new.
LEMMA NothingOwed ==
    ASSUME TypeOK, [Next]_vars, UNCHANGED Committed,
           \A e \in Committed : entity'[e] = entity[e]
    PROVE  \A e \in Events : \A f \in Committed : Owes(e, f)' => Owes(e, f)
<1> SUFFICES ASSUME NEW e \in Events, NEW f \in Committed, Owes(e, f)'
             PROVE  Owes(e, f)
    OBVIOUS
<1>1. e \in Committed /\ Good(e)' /\ e < f /\ entity'[e] = entity'[f]
    BY DEF Owes
<1> QED BY <1>1, GoodBefore DEF Owes

-----------------------------------------------------------------------------
(* The requests.                                                           *)

LEMMA OrderRequest ==
    ASSUME Context, OrderInv, Request
    PROVE  OrderInv'
<1>0. /\ TypeOK /\ [Next]_vars
      /\ UNCHANGED <<topic, batch>>
    BY DEF Context, Next, Request, CreateEvent, CommitEvent, RollbackEvent, kafkaVars,
           procVars
<1>1. PICK e \in Events : \/ \E c \in Entities : CreateEvent(e, c)
                          \/ CommitEvent(e)
                          \/ RollbackEvent(e)
    BY DEF Request
<1>2. CASE (\E c \in Entities : CreateEvent(e, c)) \/ RollbackEvent(e)
    <2>1. UNCHANGED Committed
        BY <1>0, <1>2, CreateRows, RollbackRows
    <2>2. \A f \in Committed : entity'[f] = entity[f]
        BY <1>0, <1>2 DEF CreateEvent, RollbackEvent, Committed, TypeOK
    <2> QED BY <1>0, <2>1, <2>2, NothingOwed, OrderQuiet
<1>3. CASE CommitEvent(e)
    <2>1. /\ Committed' = Committed \cup {e} /\ UNCHANGED entity
          /\ (\E f \in Committed : f > e /\ entity[f] = entity[e]) => e \in late'
        BY <1>0, <1>3, CommitRows DEF CommitEvent
    <2>2. ASSUME NEW x \in Events, NEW f \in Committed, Owes(x, f)'
          PROVE  Owes(x, f)
        <3>1. /\ x < f /\ entity[x] = entity[f] /\ x \in Committed \cup {e}
              /\ Good(x)' /\ x \notin late'
            BY <2>1, <2>2 DEF Owes, Good
        <3>2. x # e
            <4>1. f \in Events
                BY DEF Committed
            <4> QED BY <2>1, <3>1, <4>1 DEF Events
        <3> QED BY <1>0, <3>1, <3>2, GoodBefore DEF Owes
    <2> QED BY <1>0, <2>2, OrderQuiet
<1> QED BY <1>1, <1>2, <1>3

-----------------------------------------------------------------------------
(* A new batch.                                                            *)

\* The oldest n rows: with a row come all the older unprocessed ones.
LEMMA OldestFirst ==
    ASSUME NEW n \in Nat, NEW f \in GetUnprocessedEvents(n),
           NEW e \in Unprocessed, e < f
    PROVE  e \in GetUnprocessedEvents(n)
<1> DEFINE below(x) == {g \in Unprocessed : g < x}
<1>1. Unprocessed \subseteq Events /\ IsFiniteSet(Events)
    BY OutboxAssumption, FS_Interval DEF Unprocessed, Events
<1>2. f \in Nat /\ e \in Nat /\ \A g \in Unprocessed : g \in Nat
    BY <1>1 DEF GetUnprocessedEvents, Events
<1>3. below(e) \subseteq below(f)
    <2>1. \A g \in Unprocessed : g < e => g < f
        BY <1>2
    <2> QED BY <2>1
<1>4. IsFiniteSet(below(f))
    BY <1>1, FS_Subset
<1>5. /\ Cardinality(below(e)) <= Cardinality(below(f))
      /\ Cardinality(below(e)) \in Nat /\ Cardinality(below(f)) \in Nat
    BY <1>3, <1>4, FS_Subset, FS_CardinalityType
<1>6. Cardinality(below(f)) < n
    BY DEF GetUnprocessedEvents
<1>7. Cardinality(below(e)) < n
    <2> HIDE DEF below
    <2> QED BY <1>5, <1>6
<1> QED BY <1>7 DEF GetUnprocessedEvents

\* A good event that is no longer unprocessed has been published.
LEMMA GoodPublished ==
    ASSUME Context, NEW e \in Committed, Good(e), e \notin Unprocessed
    PROVE  e \in Published
<1>1. e \in Published \cup dlq
    BY DEF Context, DeliveryInv, NoEventLost, Good
<1>2. e \in dlq => fails[e] >= MaxRetries
    BY DEF Context, DeadLetterInv, DeadLetterOnlyExhausted
<1> QED BY <1>1, <1>2, OutboxAssumption DEF Good

LEMMA OrderRead ==
    ASSUME Context, OrderInv, NEW p \in Procs, ReadBatch(p)
    PROVE  OrderInv'
<1> DEFINE new == GetUnprocessedEvents(BatchSize)
<1>1. UNCHANGED <<topic, status, entity, fails, late, lost>>
    BY DEF ReadBatch, rowVars, kafkaVars, historyVars
<1>2. /\ batch'[p] = new
      /\ \A q \in Procs : q # p => batch'[q] = batch[q]
    BY DEF ReadBatch, Context, TypeOK
<1>3. /\ Published' = Published
      /\ \A e, f : Owes(e, f)' <=> Owes(e, f)
      /\ \A e, f : FirstBefore(e, f)' <=> FirstBefore(e, f)
    BY <1>1, SameRows, SameTopic DEF Owes, Good, FirstBefore
<1>4. TopicInOrder'
    BY <1>3 DEF OrderInv, TopicInOrder
<1>5. ASSUME NEW e \in Events, NEW f \in Events, Owes(e, f), f \in new
      PROVE  e \in new \cup Published
    <2>1. e < f /\ e \in Committed /\ Good(e)
        BY <1>5 DEF Owes
    <2>2. CASE e \in Unprocessed
        BY <1>5, <2>1, <2>2, OldestFirst, OutboxAssumption
    <2>3. CASE e \notin Unprocessed
        BY <2>1, <2>3, GoodPublished
    <2> QED BY <2>2, <2>3
<1>6. BatchInOrder'
    <2> SUFFICES ASSUME NEW q \in Procs, NEW e \in Events, NEW f \in Events,
                        Owes(e, f), f \in batch'[q]
                 PROVE  e \in batch'[q] \cup Published
        BY <1>3 DEF BatchInOrder
    <2>1. CASE q = p
        BY <1>2, <1>5, <2>1
    <2>2. CASE q # p
        BY <1>2, <2>2 DEF OrderInv, BatchInOrder
    <2> QED BY <2>1, <2>2
<1> QED BY <1>4, <1>6 DEF OrderInv

-----------------------------------------------------------------------------
(* A publication.                                                          *)

\* A record at the end of the topic comes before nothing.
LEMMA AppendOrder ==
    ASSUME TypeOK, NEW g \in Events, topic' = Append(topic, g)
    PROVE  /\ \A e, f : FirstBefore(e, f) => FirstBefore(e, f)'
           /\ \A e \in Published : g \notin Published => FirstBefore(e, g)'
<1> DEFINE n == Len(topic)
<1>1. /\ n \in Nat /\ Len(topic') = n + 1
      /\ \A i \in 1..n : topic'[i] = topic[i]
      /\ topic'[n + 1] = g
    BY DEF TypeOK
<1>2. \A i \in 1..(n + 1) : i \in 1..n \/ i = n + 1
    BY <1>1
<1>3. ASSUME NEW e, NEW f, FirstBefore(e, f) PROVE FirstBefore(e, f)'
    <2>1. PICK i \in 1..n : topic[i] = e /\ \A j \in 1..n : topic[j] = f => i < j
        BY <1>3 DEF FirstBefore
    <2>2. i \in 1..(n + 1) /\ topic'[i] = e /\ i < n + 1
        BY <1>1, <2>1
    <2>3. \A j \in 1..(n + 1) : topic'[j] = f => i < j
        BY <1>1, <1>2, <2>1, <2>2
    <2> QED BY <1>1, <2>2, <2>3 DEF FirstBefore
<1>4. ASSUME NEW e \in Published, g \notin Published PROVE FirstBefore(e, g)'
    <2>1. PICK i \in 1..n : topic[i] = e
        BY DEF Published
    <2>2. i \in 1..(n + 1) /\ topic'[i] = e /\ i < n + 1
        BY <1>1, <2>1
    <2>3. \A j \in 1..(n + 1) : topic'[j] = g => j = n + 1
        BY <1>1, <1>2, <1>4 DEF Published
    <2> QED BY <1>1, <2>2, <2>3 DEF FirstBefore
<1> QED BY <1>3, <1>4

LEMMA OrderPublish ==
    ASSUME Context, OrderInv, NEW p \in Procs, Publish(p)
    PROVE  OrderInv'
<1>0. /\ TypeOK /\ [Next]_vars
    BY DEF Context, Next, ProcStep
<1>1. PICK g \in Events : PublishOk(p, g) \/ PublishLost(p, g) \/ PublishRefused(p, g)
    BY DEF Publish
<1>2. /\ g \in batch[p] /\ \A f \in batch[p] : g <= f
      /\ batch'[p] = batch[p] \ {g}
      /\ \A q \in Procs : q # p => batch'[q] = batch[q]
      /\ UNCHANGED <<status, entity>>
    BY <1>0, <1>1 DEF PublishOk, PublishLost, PublishRefused, TakeOldest, rowVars, TypeOK
<1>3. \A e, f \in Events : Owes(e, f)' => Owes(e, f)
    BY <1>0, <1>2, SameRows, GoodBefore DEF Owes
<1>4. g \in Published' \/ ~Good(g)'
    <2>1. CASE PublishOk(p, g)
        BY <1>0, <2>1, AppendPublished DEF PublishOk
    <2>2. CASE PublishLost(p, g)
        BY <2>2 DEF PublishLost, Good
    <2>3. CASE PublishRefused(p, g)
        <3>1. fails'[g] = Increment(fails[g]) /\ fails[g] \in 0..MaxRetries
            BY <1>0, <2>3 DEF PublishRefused, TypeOK
        <3> QED BY <3>1, OutboxAssumption DEF Increment, Good
    <2> QED BY <1>1, <2>1, <2>2, <2>3
<1>5. Published \subseteq Published'
    BY <1>0, <1>1, AppendPublished, SameTopic DEF PublishOk, PublishLost, PublishRefused, kafkaVars
<1>6. BatchInOrder'
    <2> SUFFICES ASSUME NEW q \in Procs, NEW e \in Events, NEW f \in Events,
                        Owes(e, f)', f \in batch'[q]
                 PROVE  e \in batch'[q] \cup Published'
        BY DEF BatchInOrder
    <2>1. f \in batch[q] /\ Owes(e, f) /\ Good(e)'
        BY <1>2, <1>3 DEF Owes
    <2>2. e \in batch[q] \cup Published
        BY <2>1 DEF OrderInv, BatchInOrder
    <2> QED BY <1>2, <1>4, <1>5, <2>1, <2>2
<1>7. TopicInOrder'
    <2>1. CASE PublishOk(p, g)
        <3>1. topic' = Append(topic, g) /\ Published' = Published \cup {g}
            BY <1>0, <2>1, AppendPublished DEF PublishOk
        <3> SUFFICES ASSUME NEW e \in Events, NEW f \in Events,
                            Owes(e, f)', f \in Published'
                     PROVE  e \in Published' /\ FirstBefore(e, f)'
            BY DEF TopicInOrder
        <3>2. Owes(e, f)
            BY <1>3
        <3>3. CASE f \in Published
            BY <1>0, <1>5, <3>1, <3>2, <3>3, AppendOrder DEF OrderInv, TopicInOrder
        <3>4. CASE f \notin Published
            <4>1. f = g
                BY <3>1, <3>4
            <4>2. e \notin batch[p]
                BY <1>2, <3>2, <4>1 DEF Owes, Events
            <4>3. e \in Published
                BY <1>2, <3>2, <4>1, <4>2 DEF OrderInv, BatchInOrder
            <4> QED BY <1>0, <1>5, <3>1, <3>4, <4>1, <4>3, AppendOrder
        <3> QED BY <3>3, <3>4
    <2>2. CASE PublishLost(p, g) \/ PublishRefused(p, g)
        <3>1. UNCHANGED topic
            BY <2>2 DEF PublishLost, PublishRefused, kafkaVars
        <3>2. Published' = Published /\ \A e, f : FirstBefore(e, f)' <=> FirstBefore(e, f)
            BY <3>1, SameTopic DEF FirstBefore
        <3> QED BY <1>3, <3>2 DEF OrderInv, TopicInOrder
    <2> QED BY <1>1, <2>1, <2>2
<1> QED BY <1>6, <1>7 DEF OrderInv

-----------------------------------------------------------------------------
(* Every step.                                                             *)

LEMMA OrderNext == Context /\ OrderInv /\ [Next]_vars => OrderInv'
<1> SUFFICES ASSUME Context, OrderInv, [Next]_vars PROVE OrderInv'
    OBVIOUS
<1> TypeOK
    BY DEF Context
<1> USE DEF vars, rowVars, kafkaVars, procVars
<1>1. ASSUME UNCHANGED <<topic, entity, Committed>>,
             \A q \in Procs : batch'[q] \in {batch[q], {}}
      PROVE  OrderInv'
    BY <1>1, NothingOwed, OrderQuiet
<1>2. ASSUME NEW p \in Procs, Start(p) \/ Stop(p) \/ ProcStep(p) \/ ProcFault(p)
      PROVE  OrderInv'
    <2>1. CASE ReadBatch(p) \/ Publish(p)
        BY <2>1, OrderRead, OrderPublish
    <2>2. CASE MarkPublished(p)
        <3>1. cur[p] \in Events /\ MarkAsProcessed(cur[p])
            BY <2>2 DEF MarkPublished, TypeOK
        <3> QED BY <1>1, <2>2, <3>1, MarkRows DEF MarkPublished
    <2>3. CASE \/ Start(p) \/ Stop(p) \/ PollEmpty(p)
               \/ ReadRetryCount(p) \/ WriteRetryCount(p) \/ ProcFault(p)
        <3>1. UNCHANGED <<status, topic, entity>>
            BY <2>3 DEF Start, Stop, PollEmpty, ReadRetryCount, WriteRetryCount,
                        ProcFault, Kill, DatabaseError
        <3>2. \A q \in Procs : batch'[q] \in {batch[q], {}}
            BY <2>3 DEF Start, Stop, PollEmpty, ReadRetryCount, WriteRetryCount,
                        ProcFault, Kill, DatabaseError, LeaveBatch, TypeOK
        <3> QED BY <1>1, <3>1, <3>2, SameRows
    <2> QED BY <1>2, <2>1, <2>2, <2>3 DEF ProcStep
<1>3. ASSUME NEW t \in Tasks, StartTask(t) \/ TaskStep(t) \/ KillTask(t)
      PROVE  OrderInv'
    <2>1. UNCHANGED <<topic, entity, batch>>
        BY <1>3 DEF StartTask, TaskStep, KillTask, MarkDead, MarkDeadFails, DeadLetterOk,
                    DeadLetterLost, DeadLetterRefused
    <2>2. UNCHANGED Committed
        <3>1. CASE MarkDead(t)
            BY <3>1, MarkRows DEF MarkDead, TypeOK
        <3>2. CASE ~MarkDead(t)
            <4>1. UNCHANGED status
                BY <1>3, <3>2 DEF StartTask, TaskStep, KillTask, MarkDeadFails,
                                  DeadLetterOk, DeadLetterLost, DeadLetterRefused
            <4> QED BY <4>1, SameRows
        <3> QED BY <3>1, <3>2
    <2> QED BY <1>1, <2>1, <2>2
<1>4. ASSUME NEW old \in SUBSET Events, Cleanup(old) PROVE OrderInv'
    BY <1>1, <1>4, CleanupRows DEF Cleanup
<1>5. CASE UNCHANGED vars
    BY <1>1, <1>5, SameRows
<1> QED BY <1>2, <1>3, <1>4, <1>5, OrderRequest DEF Next

\* Two events of one customer are first published in the order they were
\* written, with any number of threads reading overlapping batches, killed and
\* restarted at any point, unless the older one failed once, was lost by the
\* producer or was committed after the newer one.
THEOREM PublicationOrder == Spec => []PublishedInOrder
<1>1. Spec => []Context
    <2>1. Spec => []DeliveryInv
        BY TypeCorrect, DeliveryInit, DeliveryNext, PTL DEF Spec
    <2>2. Spec => []DeadLetterInv
        BY TypeCorrect, DeadLetterInit, DeadLetterNext, PTL DEF Spec
    <2> QED BY <2>1, <2>2, TypeCorrect, PTL DEF Context
<1>2. Spec => []OrderInv
    BY <1>1, OrderInit, OrderNext, PTL DEF Spec
<1>3. Context /\ OrderInv => PublishedInOrder
    BY DEF Context, DeliveryInv, OnlyCommitted, OrderInv, TopicInOrder,
           PublishedInOrder, Owes, Good, Committed
<1> QED BY <1>1, <1>2, <1>3, PTL

-----------------------------------------------------------------------------
(* How often at-least-once delivery repeats itself.                        *)

\* The records of e.
Positions(e) == {i \in 1..Len(topic) : topic[i] = e}

\* The threads that will still publish e from the batch they have read.
Holding(e) == {p \in Procs : e \in batch[p]}

\* The threads that have published e and not yet marked it.
Sent(e) == {p \in Procs : pc[p] = "sent" /\ cur[p] = e}

\* Every thread that holds an event may add one record of it.
Fits(pos, hold, h) == Cardinality(pos) + Cardinality(hold) <= Cardinality(Procs) + h

\* Each record has its thread about to mark it, or a halt that kept one from
\* marking it.
Covered(pos, sent, h) == Cardinality(pos) <= Cardinality(sent) + h

\* The bound of one event.
Bounded(e) ==
    /\ Fits(Positions(e), Holding(e), halts)
    /\ e \in Unprocessed => Covered(Positions(e), Sent(e), halts)

\* The row in hand has left the batch.
HandNotInBatch == \A p \in Procs : cur[p] \notin batch[p]

CopiesInv == HandNotInBatch /\ \A e \in Events : Bounded(e)

-----------------------------------------------------------------------------
(* The bounds, as facts about sets.                                        *)

\* Fewer holders, more halts, and no mark missed: the bounds stand.
LEMMA FewerHolders ==
    ASSUME NEW pos, IsFiniteSet(pos),
           NEW hold \in SUBSET Procs, NEW hold2 \in SUBSET hold,
           NEW sent \in SUBSET Procs, NEW sent2 \in SUBSET Procs,
           NEW h \in Nat, NEW h2 \in Nat, h <= h2
    PROVE  /\ Fits(pos, hold, h) => Fits(pos, hold2, h2)
           /\ Covered(pos, sent, h) /\ sent \subseteq sent2 => Covered(pos, sent2, h2)
<1>1. IsFiniteSet(hold) /\ IsFiniteSet(sent) /\ IsFiniteSet(sent2) /\ IsFiniteSet(Procs)
    BY OutboxAssumption, FS_Subset
<1>2. /\ Cardinality(pos) \in Nat /\ Cardinality(hold) \in Nat /\ Cardinality(hold2) \in Nat
      /\ Cardinality(sent) \in Nat /\ Cardinality(sent2) \in Nat /\ Cardinality(Procs) \in Nat
      /\ Cardinality(hold2) <= Cardinality(hold)
    BY <1>1, FS_Subset, FS_CardinalityType
<1>3. sent \subseteq sent2 => Cardinality(sent) <= Cardinality(sent2)
    BY <1>1, FS_Subset
<1> QED BY <1>2, <1>3 DEF Fits, Covered

\* A thread that halts forgets one mark.
LEMMA OneHalt ==
    ASSUME NEW pos, IsFiniteSet(pos),
           NEW sent \in SUBSET Procs, NEW sent2 \in SUBSET Procs, NEW h \in Nat, NEW p,
           Covered(pos, sent, h),
           sent \ {p} \subseteq sent2
    PROVE  Covered(pos, sent2, h + 1)
<1>1. IsFiniteSet(sent) /\ IsFiniteSet(sent2) /\ IsFiniteSet(sent \ {p})
    BY OutboxAssumption, FS_Subset
<1>2. /\ Cardinality(pos) \in Nat /\ Cardinality(sent) \in Nat /\ Cardinality(sent2) \in Nat
      /\ Cardinality(sent \ {p}) \in Nat
      /\ Cardinality(sent \ {p}) <= Cardinality(sent2)
    BY <1>1, FS_Subset, FS_CardinalityType
<1>3. Cardinality(sent) <= Cardinality(sent \ {p}) + 1
    <2>1. Cardinality(sent \ {p}) = IF p \in sent THEN Cardinality(sent) - 1
                                     ELSE Cardinality(sent)
        BY <1>1, FS_RemoveElement
    <2> QED BY <1>2, <2>1
<1> QED BY <1>2, <1>3 DEF Covered

\* A record more: its thread holds the event no longer and is to mark it.
LEMMA OneRecord ==
    ASSUME NEW pos, IsFiniteSet(pos), NEW pos2, IsFiniteSet(pos2),
           Cardinality(pos2) <= Cardinality(pos) + 1,
           NEW hold \in SUBSET Procs, NEW sent \in SUBSET Procs,
           NEW h \in Nat, NEW p \in hold, p \notin sent
    PROVE  /\ Fits(pos, hold, h) => Fits(pos2, hold \ {p}, h)
           /\ Covered(pos, sent, h) => Covered(pos2, sent \cup {p}, h)
<1>1. IsFiniteSet(hold) /\ IsFiniteSet(sent) /\ IsFiniteSet(Procs)
    BY OutboxAssumption, FS_Subset
<1>2. /\ Cardinality(pos) \in Nat /\ Cardinality(pos2) \in Nat
      /\ Cardinality(hold) \in Nat /\ Cardinality(sent) \in Nat /\ Cardinality(Procs) \in Nat
    BY <1>1, FS_CardinalityType
<1>3. /\ Cardinality(hold \ {p}) = Cardinality(hold) - 1
      /\ Cardinality(sent \cup {p}) = Cardinality(sent) + 1
    BY <1>1, FS_RemoveElement, FS_AddElement
<1> QED BY <1>2, <1>3 DEF Fits, Covered

\* A new holder of an unprocessed event: the threads that are to mark it are
\* other ones.
LEMMA OneHolder ==
    ASSUME NEW pos, IsFiniteSet(pos),
           NEW hold \in SUBSET Procs, NEW sent \in SUBSET Procs,
           NEW h \in Nat, NEW p \in Procs, p \notin sent, hold \cap sent = {},
           Covered(pos, sent, h)
    PROVE  Fits(pos, hold \cup {p}, h)
<1> DEFINE hold2 == hold \cup {p}
<1>1. /\ IsFiniteSet(hold2) /\ IsFiniteSet(sent) /\ IsFiniteSet(Procs)
      /\ hold2 \cap sent = {} /\ hold2 \cup sent \subseteq Procs
    BY OutboxAssumption, FS_Subset
<1> HIDE DEF hold2
<1>2. /\ Cardinality(pos) \in Nat /\ Cardinality(hold2) \in Nat
      /\ Cardinality(sent) \in Nat /\ Cardinality(Procs) \in Nat
    BY <1>1, FS_CardinalityType
<1>3. Cardinality(hold2) + Cardinality(sent) <= Cardinality(Procs)
    <2>1. Cardinality(hold2 \cup sent)
              = Cardinality(hold2) + Cardinality(sent) - Cardinality(hold2 \cap sent)
        BY <1>1, FS_Union
    <2>2. Cardinality(hold2 \cap sent) = 0
        BY <1>1, FS_EmptySet
    <2> QED BY <1>1, <1>2, <2>1, <2>2, FS_Subset
<1>4. Fits(pos, hold2, h)
    BY <1>2, <1>3 DEF Fits, Covered
<1> QED BY <1>4 DEF hold2

-----------------------------------------------------------------------------
(* The steps.                                                              *)

\* The sets of the bound in the next state.
PositionsNext(e) == {i \in 1..Len(topic') : topic'[i] = e}
HoldingNext(e) == {p \in Procs : e \in batch'[p]}
SentNext(e) == {p \in Procs : pc'[p] = "sent" /\ cur'[p] = e}
BoundedNext(e) ==
    /\ Fits(PositionsNext(e), HoldingNext(e), halts')
    /\ e \in Unprocessed' => Covered(PositionsNext(e), SentNext(e), halts')

\* CopiesInv in the next state, spelled out.
LEMMA CopiesPrime ==
    CopiesInv' <=>
        /\ \A p \in Procs : cur'[p] \notin batch'[p]
        /\ \A e \in Events : BoundedNext(e)
BY DEF CopiesInv, HandNotInBatch, Bounded, Fits, Covered, Positions, Holding, Sent,
       BoundedNext, PositionsNext, HoldingNext, SentNext

\* A topic is finite.
LEMMA PositionsFinite ==
    ASSUME TypeOK
    PROVE  \A e : IsFiniteSet(Positions(e)) /\ Cardinality(Positions(e)) \in Nat
<1> SUFFICES ASSUME NEW e
             PROVE  IsFiniteSet(Positions(e)) /\ Cardinality(Positions(e)) \in Nat
    OBVIOUS
<1>1. Len(topic) \in Nat
    BY DEF TypeOK
<1>2. IsFiniteSet(1..Len(topic))
    BY <1>1, FS_Interval
<1>3. Positions(e) \subseteq 1..Len(topic)
    BY DEF Positions
<1> QED BY <1>2, <1>3, FS_Subset, FS_CardinalityType

\* A step that publishes nothing, fills no batch, commits nothing, and lets no
\* thread leave a published event unmarked.
LEMMA CopiesQuiet ==
    ASSUME TypeOK, TypeOK', CopiesInv,
           UNCHANGED topic, halts <= halts', Unprocessed' \subseteq Unprocessed,
           \A p \in Procs :
               /\ batch'[p] \in {batch[p], {}}
               /\ cur'[p] \in {cur[p], NoEvent}
               /\ pc[p] = "sent" /\ cur[p] \in Unprocessed'
                      => pc'[p] = "sent" /\ cur'[p] = cur[p]
    PROVE  CopiesInv'
<1>1. \A p \in Procs : cur'[p] \notin batch'[p]
    <2>1. NoEvent \notin Events /\ \A p \in Procs : batch'[p] \subseteq Events
        BY DEF TypeOK, Events, NoEvent
    <2> QED BY <2>1 DEF CopiesInv, HandNotInBatch
<1>2. ASSUME NEW e \in Events PROVE BoundedNext(e)
    <2>1. /\ PositionsNext(e) = Positions(e) /\ IsFiniteSet(Positions(e))
          /\ HoldingNext(e) \subseteq Holding(e) /\ Holding(e) \subseteq Procs
          /\ Sent(e) \subseteq Procs /\ SentNext(e) \subseteq Procs
          /\ e \in Unprocessed' => e \in Unprocessed /\ Sent(e) \subseteq SentNext(e)
        BY PositionsFinite DEF Positions, PositionsNext, Holding, HoldingNext, Sent, SentNext
    <2>2. halts \in Nat /\ halts' \in Nat
        BY OutboxAssumption DEF TypeOK
    <2>3. Bounded(e)
        BY DEF CopiesInv
    <2> QED BY <2>1, <2>2, <2>3, FewerHolders DEF Bounded, BoundedNext
<1> QED BY <1>1, <1>2, CopiesPrime

\* A thread that halts leaves its batch, and perhaps an event unmarked.
LEMMA CopiesHalt ==
    ASSUME TypeOK, CopiesInv, NEW p \in Procs, LeaveBatch(p),
           UNCHANGED <<topic, status>>, halts' = halts + 1
    PROVE  CopiesInv'
<1>1. /\ cur'[p] = NoEvent /\ batch'[p] = {}
      /\ \A q \in Procs : q # p =>
             pc'[q] = pc[q] /\ cur'[q] = cur[q] /\ batch'[q] = batch[q]
    BY DEF LeaveBatch, TypeOK
<1>2. \A q \in Procs : cur'[q] \notin batch'[q]
    BY <1>1 DEF CopiesInv, HandNotInBatch
<1>3. ASSUME NEW e \in Events PROVE BoundedNext(e)
    <2>1. /\ PositionsNext(e) = Positions(e) /\ IsFiniteSet(Positions(e))
          /\ HoldingNext(e) \subseteq Holding(e) /\ Holding(e) \subseteq Procs
          /\ Sent(e) \subseteq Procs /\ SentNext(e) \subseteq Procs
          /\ Sent(e) \ {p} \subseteq SentNext(e)
        BY <1>1, PositionsFinite
        DEF Positions, PositionsNext, Holding, HoldingNext, Sent, SentNext
    <2>2. halts \in Nat /\ Unprocessed' = Unprocessed
        BY SameRows, OutboxAssumption DEF TypeOK
    <2>3. Bounded(e)
        BY DEF CopiesInv
    <2>4. Fits(Positions(e), HoldingNext(e), halts + 1)
        <3>1. halts + 1 \in Nat /\ halts <= halts + 1
            BY <2>2
        <3>2. Fits(Positions(e), Holding(e), halts)
            BY <2>3 DEF Bounded
        <3> QED BY <2>1, <2>2, <3>1, <3>2, FewerHolders
    <2>5. e \in Unprocessed => Covered(Positions(e), SentNext(e), halts + 1)
        BY <2>1, <2>2, <2>3, OneHalt DEF Bounded
    <2> QED BY <2>1, <2>2, <2>4, <2>5 DEF BoundedNext
<1> QED BY <1>2, <1>3, CopiesPrime

\* A batch takes only unprocessed events.
LEMMA CopiesRead ==
    ASSUME TypeOK, CopiesInv, NEW p \in Procs, ReadBatch(p)
    PROVE  CopiesInv'
<1>1. /\ pc[p] = "idle" /\ cur[p] = NoEvent /\ batch[p] = {}
      /\ batch'[p] \subseteq Unprocessed
      /\ pc'[p] # "sent" /\ UNCHANGED <<cur, topic, status, halts>>
      /\ \A q \in Procs : q # p => pc'[q] = pc[q] /\ batch'[q] = batch[q]
    BY QueryRows, OutboxAssumption DEF ReadBatch, TypeOK, rowVars, kafkaVars
<1>2. \A q \in Procs : cur'[q] \notin batch'[q]
    BY <1>1 DEF CopiesInv, HandNotInBatch, Unprocessed, Events, NoEvent
<1>3. halts' = halts /\ halts \in Nat /\ Unprocessed' = Unprocessed
    BY <1>1, SameRows, OutboxAssumption DEF TypeOK
<1>4. ASSUME NEW e \in Events PROVE BoundedNext(e)
    <2>1. /\ PositionsNext(e) = Positions(e) /\ IsFiniteSet(Positions(e))
          /\ SentNext(e) = Sent(e) /\ Sent(e) \subseteq Procs /\ p \notin Sent(e)
          /\ Holding(e) \subseteq Procs
          /\ Holding(e) \cap Sent(e) = {}
        BY <1>1, PositionsFinite
        DEF Positions, PositionsNext, Holding, Sent, SentNext, CopiesInv, HandNotInBatch
    <2>2. Bounded(e)
        BY DEF CopiesInv
    <2>3. CASE e \in batch'[p]
        <3>1. HoldingNext(e) = Holding(e) \cup {p} /\ e \in Unprocessed
            BY <1>1, <2>3 DEF Holding, HoldingNext
        <3>2. Fits(Positions(e), HoldingNext(e), halts)
            BY <1>3, <2>1, <2>2, <3>1, OneHolder DEF Bounded
        <3> QED BY <1>3, <2>1, <2>2, <3>2 DEF Bounded, BoundedNext
    <2>4. CASE e \notin batch'[p]
        <3>1. HoldingNext(e) = Holding(e)
            BY <1>1, <2>4 DEF Holding, HoldingNext
        <3> QED BY <1>3, <2>1, <2>2, <3>1 DEF Bounded, BoundedNext
    <2> QED BY <2>3, <2>4
<1> QED BY <1>2, <1>4, CopiesPrime

\* One record more, at the end of the topic.
LEMMA AppendPositions ==
    ASSUME TypeOK, NEW g \in Events, topic' = Append(topic, g)
    PROVE  /\ \A e : e # g => PositionsNext(e) = Positions(e)
           /\ IsFiniteSet(PositionsNext(g))
           /\ Cardinality(PositionsNext(g)) <= Cardinality(Positions(g)) + 1
<1> DEFINE n == Len(topic)
<1>1. /\ n \in Nat /\ Len(topic') = n + 1
      /\ \A i \in 1..n : topic'[i] = topic[i]
      /\ topic'[n + 1] = g
    BY DEF TypeOK
<1>2. 1..(n + 1) = (1..n) \cup {n + 1} /\ n + 1 \notin 1..n
    BY <1>1
<1>3. \A e : e # g => PositionsNext(e) = Positions(e)
    BY <1>1, <1>2 DEF Positions, PositionsNext
<1>4. PositionsNext(g) = Positions(g) \cup {n + 1}
    BY <1>1, <1>2 DEF Positions, PositionsNext
<1>5. IsFiniteSet(Positions(g)) /\ Cardinality(Positions(g)) \in Nat
    BY PositionsFinite
<1>6. /\ IsFiniteSet(Positions(g) \cup {n + 1})
      /\ Cardinality(Positions(g) \cup {n + 1}) <= Cardinality(Positions(g)) + 1
    <2>1. n + 1 \notin Positions(g)
        BY <1>2 DEF Positions
    <2>2. /\ IsFiniteSet(Positions(g) \cup {n + 1})
          /\ Cardinality(Positions(g) \cup {n + 1}) = Cardinality(Positions(g)) + 1
        BY <1>5, <2>1, FS_AddElement
    <2> QED BY <1>5, <2>2
<1> QED BY <1>3, <1>4, <1>6

\* A thread that publishes, loses or fails to publish an event holds it no
\* longer.
LEMMA CopiesPublish ==
    ASSUME TypeOK, CopiesInv, NEW p \in Procs, Publish(p)
    PROVE  CopiesInv'
<1>0. PICK g \in Events : PublishOk(p, g) \/ PublishLost(p, g) \/ PublishRefused(p, g)
    BY DEF Publish
<1>1. /\ g \in batch[p] /\ pc[p] = "next" /\ cur[p] = NoEvent
      /\ cur'[p] = g /\ batch'[p] = batch[p] \ {g}
      /\ \A q \in Procs : q # p =>
             pc'[q] = pc[q] /\ cur'[q] = cur[q] /\ batch'[q] = batch[q]
      /\ UNCHANGED <<status, halts>>
    BY <1>0 DEF PublishOk, PublishLost, PublishRefused, TakeOldest, TypeOK, rowVars
<1>2. \A q \in Procs : cur'[q] \notin batch'[q]
    BY <1>1 DEF CopiesInv, HandNotInBatch
<1>3. /\ Unprocessed' = Unprocessed /\ halts \in Nat
      /\ \A e : /\ Holding(e) \subseteq Procs /\ Sent(e) \subseteq Procs
                /\ p \notin Sent(e) /\ IsFiniteSet(Positions(e))
    BY <1>1, SameRows, PositionsFinite, OutboxAssumption DEF Holding, Sent, TypeOK
<1>4. p \in Holding(g) /\ HoldingNext(g) = Holding(g) \ {p}
    BY <1>1 DEF Holding, HoldingNext
<1>5. ASSUME NEW e \in Events PROVE BoundedNext(e)
    <2>1. Bounded(e)
        BY DEF CopiesInv
    <2>2. CASE e # g
        <3>1. HoldingNext(e) = Holding(e) /\ SentNext(e) = Sent(e)
            BY <1>1, <2>2 DEF Holding, HoldingNext, Sent, SentNext, Events, NoEvent
        <3>2. PositionsNext(e) = Positions(e)
            <4>1. CASE PublishOk(p, g)
                BY <2>2, <4>1, AppendPositions DEF PublishOk
            <4>2. CASE PublishLost(p, g) \/ PublishRefused(p, g)
                BY <4>2 DEF PublishLost, PublishRefused, kafkaVars, Positions, PositionsNext
            <4> QED BY <1>0, <4>1, <4>2
        <3> QED BY <1>1, <1>3, <2>1, <3>1, <3>2 DEF Bounded, BoundedNext
    <2>3. CASE e = g /\ PublishRefused(p, g)
        <3>1. pc'[p] # "sent" /\ PositionsNext(g) = Positions(g)
            BY <2>3 DEF PublishRefused, kafkaVars, Positions, PositionsNext, TypeOK
        <3>2. SentNext(g) = Sent(g)
            BY <1>1, <3>1 DEF Sent, SentNext
        <3>3. Fits(Positions(g), HoldingNext(g), halts)
            BY <1>3, <1>4, <2>1, <2>3, FewerHolders DEF Bounded
        <3> QED BY <1>1, <1>3, <2>1, <2>3, <3>1, <3>2, <3>3 DEF Bounded, BoundedNext
    <2>4. CASE e = g /\ ~PublishRefused(p, g)
        <3>1. pc'[p] = "sent"
            BY <1>0, <2>4 DEF PublishOk, PublishLost, TypeOK
        <3>2. SentNext(g) = Sent(g) \cup {p}
            BY <1>1, <3>1 DEF Sent, SentNext
        <3>3. /\ IsFiniteSet(PositionsNext(g))
              /\ Cardinality(PositionsNext(g)) <= Cardinality(Positions(g)) + 1
            <4>1. CASE PublishOk(p, g)
                BY <4>1, AppendPositions DEF PublishOk
            <4>2. CASE PublishLost(p, g)
                <5>1. PositionsNext(g) = Positions(g)
                    BY <4>2 DEF PublishLost, Positions, PositionsNext
                <5> QED BY <5>1, PositionsFinite
            <4> QED BY <1>0, <2>4, <4>1, <4>2
        <3>4. /\ Fits(PositionsNext(g), HoldingNext(g), halts)
              /\ g \in Unprocessed => Covered(PositionsNext(g), SentNext(g), halts)
            BY <1>3, <1>4, <2>1, <2>4, <3>2, <3>3, OneRecord DEF Bounded
        <3> QED BY <1>1, <1>3, <2>4, <3>4 DEF BoundedNext
    <2> QED BY <2>2, <2>3, <2>4
<1> QED BY <1>2, <1>5, CopiesPrime

\* A commit makes an event unprocessed that has no record yet.
LEMMA CopiesCommit ==
    ASSUME TypeOK, DeliveryInv, CopiesInv, NEW g \in Events, CommitEvent(g)
    PROVE  CopiesInv'
<1>1. UNCHANGED <<topic, pc, cur, batch, halts>>
    BY DEF CommitEvent, kafkaVars, procVars
<1>2. \A p \in Procs : cur'[p] \notin batch'[p]
    BY <1>1 DEF CopiesInv, HandNotInBatch
<1>3. ASSUME NEW e \in Events PROVE BoundedNext(e)
    <2>1. /\ PositionsNext(e) = Positions(e) /\ HoldingNext(e) = Holding(e)
          /\ SentNext(e) = Sent(e) /\ halts' = halts
        BY <1>1 DEF Positions, PositionsNext, Holding, HoldingNext, Sent, SentNext
    <2>2. Bounded(e)
        BY DEF CopiesInv
    <2>3. CASE e # g
        <3>1. e \in Unprocessed' => e \in Unprocessed
            BY <2>3, CommitRows
        <3> QED BY <2>1, <2>2, <3>1 DEF Bounded, BoundedNext
    <2>4. CASE e = g
        <3>1. g \notin Published
            BY DEF DeliveryInv, OnlyCommitted, Committed, CommitEvent
        <3>2. Positions(e) = {}
            BY <2>4, <3>1 DEF Positions, Published
        <3>3. Cardinality(Positions(e)) = 0
            BY <3>2, FS_EmptySet
        <3>4. Cardinality(Sent(e)) \in Nat /\ halts \in Nat
            <4>1. IsFiniteSet(Sent(e))
                BY OutboxAssumption, FS_Subset DEF Sent
            <4> QED BY <4>1, FS_CardinalityType, OutboxAssumption DEF TypeOK
        <3> QED BY <2>1, <2>2, <3>3, <3>4 DEF Bounded, BoundedNext, Covered
    <2> QED BY <2>3, <2>4
<1> QED BY <1>2, <1>3, CopiesPrime

-----------------------------------------------------------------------------
(* Every step.                                                             *)

LEMMA CopiesInit == Init => CopiesInv
<1> SUFFICES ASSUME Init PROVE CopiesInv
    OBVIOUS
<1>1. HandNotInBatch /\ halts = 0
    BY DEF Init, HandNotInBatch
<1>2. ASSUME NEW e \in Events
      PROVE  Positions(e) = {} /\ Holding(e) = {} /\ Sent(e) = {}
    BY DEF Init, Positions, Holding, Sent
<1>3. Cardinality(Procs) \in Nat /\ Cardinality({}) = 0
    BY OutboxAssumption, FS_CardinalityType, FS_EmptySet
<1>4. ASSUME NEW e \in Events PROVE Bounded(e)
    BY <1>1, <1>2, <1>3 DEF Bounded, Fits, Covered
<1> QED BY <1>1, <1>4 DEF CopiesInv

\* The other steps of a thread.
LEMMA CopiesProc ==
    ASSUME TypeOK, TypeOK', CopiesInv, NEW p \in Procs,
           Start(p) \/ Stop(p) \/ ProcStep(p) \/ ProcFault(p)
    PROVE  CopiesInv'
<1> USE DEF vars, rowVars, kafkaVars, procVars
<1>0. halts \in Nat
    BY OutboxAssumption DEF TypeOK
<1>1. CASE Start(p) \/ Stop(p) \/ PollEmpty(p)
    <2>1. UNCHANGED <<topic, status, pc, cur, batch>> /\ halts <= halts'
        BY <1>0, <1>1 DEF Start, Stop, PollEmpty
    <2> QED BY <2>1, SameRows, CopiesQuiet
<1>2. CASE MarkPublished(p)
    <2>1. /\ pc[p] = "sent" /\ cur[p] \in Events /\ MarkAsProcessed(cur[p])
          /\ UNCHANGED <<topic, halts, batch>>
        <3>1. /\ pc[p] = "sent" /\ MarkAsProcessed(cur[p])
              /\ UNCHANGED <<topic, halts, batch>>
            BY <1>2 DEF MarkPublished
        <3>2. cur[p] \in Events \cup {NoEvent} /\ (cur[p] = NoEvent => pc[p] # "sent")
            BY DEF TypeOK
        <3> QED BY <3>1, <3>2, Zenon
    <2>2. /\ cur'[p] = NoEvent
          /\ \A q \in Procs : q # p => pc'[q] = pc[q] /\ cur'[q] = cur[q]
        <3>1. NextEvent(p)
            BY <1>2 DEF MarkPublished
        <3> QED BY <3>1 DEF NextEvent, TypeOK
    <2>3. Unprocessed' = Unprocessed \ {cur[p]}
        BY <2>1, MarkRows
    <2>4. \A q \in Procs :
              /\ cur'[q] \in {cur[q], NoEvent}
              /\ pc[q] = "sent" /\ cur[q] \in Unprocessed'
                     => pc'[q] = "sent" /\ cur'[q] = cur[q]
        BY <2>2, <2>3
    <2> QED BY <1>0, <2>1, <2>3, <2>4, CopiesQuiet
<1>3. CASE ReadRetryCount(p) \/ WriteRetryCount(p)
    <2>1. UNCHANGED <<topic, status, halts>> /\ pc[p] # "sent"
        BY <1>3 DEF ReadRetryCount, WriteRetryCount, TypeOK
    <2>2. \A q \in Procs :
              /\ batch'[q] \in {batch[q], {}}
              /\ cur'[q] \in {cur[q], NoEvent}
              /\ q # p => pc'[q] = pc[q] /\ cur'[q] = cur[q]
        <3>1. NextEvent(p) \/ LeaveBatch(p) \/ UNCHANGED cur
            BY <1>3 DEF ReadRetryCount, WriteRetryCount
        <3>2. \A q \in Procs : cur'[q] \in {cur[q], NoEvent} /\ (q # p => cur'[q] = cur[q])
            BY <3>1 DEF NextEvent, LeaveBatch, TypeOK
        <3>3. \A q \in Procs : q # p => pc'[q] = pc[q]
            BY <1>3 DEF ReadRetryCount, WriteRetryCount, NextEvent, LeaveBatch, TypeOK
        <3>4. \A q \in Procs : batch'[q] \in {batch[q], {}}
            BY <1>3 DEF ReadRetryCount, WriteRetryCount, LeaveBatch, TypeOK
        <3> QED BY <3>2, <3>3, <3>4
    <2> QED BY <1>0, <2>1, <2>2, SameRows, CopiesQuiet
<1>4. CASE ProcFault(p)
    <2>1. UNCHANGED <<topic, status>> /\ LeaveBatch(p)
        BY <1>4 DEF ProcFault, Kill, DatabaseError
    <2>2. CASE halts' = halts + 1
        BY <2>1, <2>2, CopiesHalt
    <2>3. CASE halts' # halts + 1
        <3>1. UNCHANGED halts /\ pc[p] = "sent" /\ status[cur[p]] = "deleted"
            BY <1>4, <2>3 DEF ProcFault, Kill, DatabaseError
        <3>2. Unprocessed' = Unprocessed /\ cur[p] \notin Unprocessed
            BY <2>1, <3>1, SameRows DEF Unprocessed
        <3>3. \A q \in Procs :
                  /\ batch'[q] \in {batch[q], {}}
                  /\ cur'[q] \in {cur[q], NoEvent}
                  /\ q # p => pc'[q] = pc[q] /\ cur'[q] = cur[q]
            BY <2>1 DEF LeaveBatch, TypeOK
        <3> QED BY <1>0, <2>1, <3>1, <3>2, <3>3, CopiesQuiet
    <2> QED BY <2>2, <2>3
<1> QED BY <1>1, <1>2, <1>3, <1>4, CopiesRead, CopiesPublish DEF ProcStep

LEMMA CopiesNext ==
    TypeOK /\ TypeOK' /\ DeliveryInv /\ CopiesInv /\ [Next]_vars => CopiesInv'
<1> SUFFICES ASSUME TypeOK, TypeOK', DeliveryInv, CopiesInv, [Next]_vars PROVE CopiesInv'
    OBVIOUS
<1> USE DEF vars, rowVars, kafkaVars, procVars
<1>0. halts \in Nat
    BY OutboxAssumption DEF TypeOK
<1>1. ASSUME UNCHANGED <<topic, pc, cur, batch>>, halts <= halts',
             Unprocessed' \subseteq Unprocessed
      PROVE  CopiesInv'
    BY <1>1, CopiesQuiet
<1>2. ASSUME NEW e \in Events, NEW c \in Entities, CreateEvent(e, c) PROVE CopiesInv'
    <2>1. UNCHANGED <<topic, pc, cur, batch, halts>>
        BY <1>2 DEF CreateEvent
    <2> QED BY <1>0, <1>1, <1>2, <2>1, CreateRows
<1>3. ASSUME NEW e \in Events, RollbackEvent(e) PROVE CopiesInv'
    <2>1. UNCHANGED <<topic, pc, cur, batch, halts>>
        BY <1>3 DEF RollbackEvent
    <2> QED BY <1>0, <1>1, <1>3, <2>1, RollbackRows
<1>4. ASSUME NEW t \in Tasks, StartTask(t) \/ TaskStep(t) \/ KillTask(t)
      PROVE  CopiesInv'
    <2>1. UNCHANGED <<topic, pc, cur, batch>> /\ halts <= halts'
        BY <1>0, <1>4 DEF StartTask, TaskStep, KillTask, MarkDead, MarkDeadFails,
                          DeadLetterOk, DeadLetterLost, DeadLetterRefused
    <2>2. Unprocessed' \subseteq Unprocessed
        <3>1. CASE MarkDead(t)
            BY <3>1, MarkRows DEF MarkDead, TypeOK
        <3>2. CASE ~MarkDead(t)
            <4>1. UNCHANGED status
                BY <1>4, <3>2 DEF StartTask, TaskStep, KillTask, MarkDeadFails,
                                  DeadLetterOk, DeadLetterLost, DeadLetterRefused
            <4> QED BY <4>1, SameRows
        <3> QED BY <3>1, <3>2
    <2> QED BY <1>1, <2>1, <2>2
<1>5. ASSUME NEW old \in SUBSET Events, Cleanup(old) PROVE CopiesInv'
    BY <1>0, <1>1, <1>5, CleanupRows DEF Cleanup
<1>6. CASE UNCHANGED vars
    BY <1>0, <1>1, <1>6, SameRows
<1> QED BY <1>2, <1>3, <1>4, <1>5, <1>6, CopiesCommit, CopiesProc DEF Next, Request

\* At-least-once is not without limit: however the threads share the table and
\* wherever they are killed, an event has at most one record per thread, and
\* one more per kill, stop or database error.
THEOREM DuplicationBounded == Spec => []BoundedDuplication
<1>1. Spec => []DeliveryInv
    BY TypeCorrect, DeliveryInit, DeliveryNext, PTL DEF Spec
<1>2. Spec => []CopiesInv
    BY <1>1, TypeCorrect, CopiesInit, CopiesNext, PTL DEF Spec
<1>3. TypeOK /\ CopiesInv => BoundedDuplication
    <2> SUFFICES ASSUME TypeOK, CopiesInv, NEW e \in Events
                 PROVE  Copies(e) <= Cardinality(Procs) + halts
        BY DEF BoundedDuplication
    <2>1. Copies(e) = Cardinality(Positions(e))
        BY DEF Copies, Positions
    <2>2. Cardinality(Positions(e)) + Cardinality(Holding(e)) <= Cardinality(Procs) + halts
        BY DEF CopiesInv, Bounded, Fits
    <2>3. IsFiniteSet(Holding(e)) /\ IsFiniteSet(Procs)
        BY OutboxAssumption, FS_Subset DEF Holding
    <2>4. /\ Cardinality(Holding(e)) \in Nat /\ Cardinality(Positions(e)) \in Nat
          /\ Cardinality(Procs) \in Nat /\ halts \in Nat
        BY <2>3, PositionsFinite, FS_CardinalityType, OutboxAssumption DEF TypeOK
    <2> QED BY <2>1, <2>2, <2>4
<1> QED BY <1>2, <1>3, TypeCorrect, PTL
=============================================================================
