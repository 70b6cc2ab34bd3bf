--------------------------- MODULE DispatcherProofs ---------------------------
(***************************************************************************)
(* Theorems about Dispatcher for any number of records, attempts and       *)
(* faults, and any sets of names, emails and Stripe ids.                   *)
(***************************************************************************)
EXTENDS Dispatcher, CustomerTableProofs, SequenceTheorems

Busy == {"calling", "linking", "failed", "giving up"}

\* The type invariant in parts, one for the variables that change together.
TopicOK == log \in Seq(Message) /\ Len(log) <= MaxMessages

CursorOK ==
    /\ offset \in Nat /\ position \in Nat
    /\ offset <= position /\ position <= Len(log)

WorkerOK ==
    /\ pc \in Busy \cup {"stopped", "idle"}
    /\ attempt \in 0..MaxAttempts
    /\ pc \in {"calling", "linking", "failed"} => attempt < MaxAttempts
    /\ fresh \in StripeIds \cup {NoStripe}
    /\ fresh # NoStripe <=> pc = "linking"
    /\ session \in {"ok", "broken"}

WorldOK ==
    /\ stripe \in [StripeIds -> StripeCustomer \cup {NoCustomer}]
    /\ outcome \in [Messages -> {"none", "interrupted", "applied", "dead-lettered", "dropped"}]
    /\ hasty \in BOOLEAN
    /\ faults \in 0..MaxFaults

\* Events are about rows that exist; a customer about to be linked was made for the
\* row.
RowsExist == \A k \in 1..Len(log) : log[k].id \in Present(table)

LinkInHand == pc = "linking" => stripe[fresh] # NoCustomer /\ stripe[fresh].row = msg.id

\* A running worker is over with every record before the one in hand, and with that
\* one too when it is idle; one it was interrupted at does not come again.
InOrder ==
    /\ pc \in Busy => /\ position \in Messages /\ offset < position
                      /\ \A m \in 1..position : m < position => outcome[m] # "none"
    /\ pc = "idle" => \A m \in 1..position : outcome[m] # "none"

Settled == \A m \in 1..offset : outcome[m] # "none"

InterruptsOK == Cardinality(Interrupted) <= faults /\ \A m \in Interrupted : m <= offset

\* LinkIsReal, and no link leads to an id that Stripe may still give away.
LinkKnown ==
    \A i \in Present(table) :
        LET id == table[i].stripe
        IN  id # NoStripe =>
                /\ stripe[id] # NoCustomer
                /\ stripe[id].row = i \/ \E m \in Creates(i) : log[m].stripe = id

IInv ==
    /\ Sound(table) /\ TopicOK /\ CursorOK /\ WorkerOK /\ WorldOK
    /\ RowsExist /\ LinkKnown /\ LinkInHand
    /\ Settled /\ InOrder /\ InterruptsOK

-----------------------------------------------------------------------------
LEMMA Numbers ==
    /\ MaxMessages \in Nat /\ MaxAttempts \in Nat \ {0} /\ MaxFaults \in Nat
    /\ MaxRows \in Nat /\ NoStripe \notin StripeIds
    /\ 0 \in 0..MaxAttempts /\ 0 < MaxAttempts
BY DispatcherAssumption, TableAssumption

LEMMA InvTypes == IInv => TypeOK
<1> SUFFICES ASSUME IInv PROVE TypeOK
    OBVIOUS
<1>1. table \in Tables /\ IsUnique(table) /\ log \in Seq(Message) /\ Len(log) <= MaxMessages
    BY DEF IInv, Sound, TopicOK
<1>2. offset \in 0..position /\ position \in 0..Len(log)
    BY <1>1 DEF IInv, CursorOK
<1>3. pc \in {"stopped", "idle", "calling", "linking", "failed", "giving up"}
    BY DEF IInv, WorkerOK, Busy
<1> QED BY <1>1, <1>2, <1>3 DEF IInv, WorkerOK, WorldOK, TypeOK

LEMMA InvInit == Init => IInv
<1> SUFFICES ASSUME Init PROVE IInv
    OBVIOUS
<1>1. Present(table) = {} /\ table \in Tables
    BY DEF Init, EmptyTable, Present, Tables
<1>2. Sound(table)
    BY <1>1, Numbers DEF Sound, IsUnique, Filled
<1>3. log \in Seq(Message) /\ Len(log) = 0
    BY DEF Init
<1>4. TopicOK /\ CursorOK
    BY <1>3, Numbers DEF Init, TopicOK, CursorOK
<1>5. WorkerOK
    BY Numbers DEF Init, WorkerOK
<1>6. WorldOK
    <2>1. stripe \in [StripeIds -> StripeCustomer \cup {NoCustomer}]
        <3>1. \A s \in DOMAIN Foreign : Foreign[s] \in StripeCustomer
            BY DispatcherAssumption DEF StripeCustomer
        <3> QED BY <3>1 DEF Init
    <2>2. outcome \in [Messages -> {"none", "interrupted", "applied", "dead-lettered", "dropped"}]
        BY DEF Init
    <2>3. faults \in 0..MaxFaults
        BY Numbers DEF Init
    <2>4. hasty \in BOOLEAN
        BY Zenon DEF Init
    <2> QED BY <2>1, <2>2, <2>3, <2>4 DEF WorldOK
<1>7. RowsExist /\ LinkKnown /\ LinkInHand
    BY <1>1, <1>3 DEF Init, RowsExist, LinkKnown, LinkInHand
<1>8. Settled /\ InOrder /\ InterruptsOK
    <2>1. Interrupted = {}
        BY DEF Init, Interrupted
    <2> QED BY <2>1, FS_EmptySet DEF Init, Settled, InOrder, InterruptsOK, Busy
<1> QED BY <1>2, <1>4, <1>5, <1>6, <1>7, <1>8 DEF IInv

\* The record in hand.
LEMMA InHand ==
    ASSUME IInv, pc \in Busy
    PROVE  /\ position \in Messages /\ position <= Len(log)
           /\ msg \in Message /\ msg.id \in Present(table) /\ msg.id \in RowIds
<1>1. position \in Messages /\ position <= Len(log) /\ log \in Seq(Message)
    BY DEF IInv, InOrder, CursorOK, TopicOK
<1>2. position \in 1..Len(log)
    BY <1>1, Numbers DEF Messages
<1>3. msg \in Message
    BY <1>1, <1>2, ElementOfSeq DEF msg
<1>4. msg.id \in Present(table)
    BY <1>2 DEF msg, IInv, RowsExist
<1> QED BY <1>1, <1>3, <1>4 DEF Message

\* What the event of a request says of the row as it was and as it becomes.  The
\* row's link stays, unless a create request came with another.
Created(i, new, e) ==
    /\ e.type = "customer_created" /\ e.name = new.name /\ e.stripe = new.stripe
    /\ new.active /\ (i \in Present(table) => ~table[i].active)
    /\ \/ i \in Present(table) /\ new.stripe = table[i].stripe
       \/ new.stripe # NoStripe => stripe[new.stripe] # NoCustomer

Updated(i, new, e) ==
    /\ e.type = "customer_updated" /\ e.name = new.name /\ e.stripe = new.stripe
    /\ i \in Present(table) /\ table[i].active /\ new.active /\ new.stripe = table[i].stripe

Deleted(i, new, e) ==
    /\ e.type = "customer_deleted" /\ e.stripe = new.stripe
    /\ i \in Present(table) /\ table[i].active /\ ~new.active /\ new.stripe = table[i].stripe

Tells(i, new, e) == Created(i, new, e) \/ Updated(i, new, e) \/ Deleted(i, new, e)

\* Taking the customer that is being linked counts as a fault.
Charged(i, new) ==
    \/ Fault
    \/ UNCHANGED faults /\ (fresh # NoStripe /\ new.stripe = fresh =>
                                i \in Present(table) /\ table[i].stripe = fresh)

\* What a request does to the table, the topic and nothing else.
Request(i, new, message) ==
    /\ i \in RowIds /\ new \in Row /\ message \in Message /\ message.id = i
    /\ table' = [table EXCEPT ![i] = new] /\ Sound(table')
    /\ Present(table') = Present(table) \cup {i}
    /\ Tells(i, new, message) /\ Charged(i, new)
    /\ Len(log) < MaxMessages /\ log' = Append(log, message)
    /\ hasty' \in BOOLEAN /\ (hasty' \/ ~(hasty \/ Backlog))
    /\ UNCHANGED <<stripe, workerVars, outcome>>

Sent(i, type, payload) ==
    [type |-> type, id |-> i, name |-> payload.name, stripe |-> payload.stripe]

Types == {"customer_created", "customer_updated", "customer_deleted"}

LEMMA Announced ==
    ASSUME IInv, NEW i \in RowIds, NEW new \in Row, NEW type \in Types, NEW payload \in Row,
           Announce(i, new, type, payload), Sound([table EXCEPT ![i] = new]),
           Present([table EXCEPT ![i] = new]) = Present(table) \cup {i},
           Tells(i, new, Sent(i, type, payload)), Charged(i, new)
    PROVE  \E j \in RowIds, n \in Row, message \in Message : Request(j, n, message)
<1>1. Sent(i, type, payload) \in Message /\ Sent(i, type, payload).id = i
    BY DEF Row, Message, Sent, Types
<1>2. hasty' \in BOOLEAN /\ (hasty' \/ ~(hasty \/ Backlog))
    <2>1. hasty' = (hasty \/ Backlog) /\ hasty \in BOOLEAN
        BY Zenon DEF Announce, IInv, WorldOK
    <2>2. (hasty \/ Backlog) \in BOOLEAN
        BY DEF Backlog
    <2>3. hasty' \in BOOLEAN
        BY <2>1, <2>2, Zenon
    <2>4. hasty' \/ ~(hasty \/ Backlog)
        BY <2>1, Zenon
    <2> QED BY <2>3, <2>4
<1>3. Request(i, new, Sent(i, type, payload))
    BY <1>1, <1>2 DEF Announce, Request, Sent
<1> QED BY <1>1, <1>3

\* Whatever the request, it is one of these.
LEMMA ApiRequest ==
    ASSUME IInv, Api
    PROVE  \E i \in RowIds, new \in Row, message \in Message : Request(i, new, message)
<1>1. table \in Tables /\ Sound(table)
    BY DEF IInv, Sound
<1>2. ASSUME NEW i \in Present(table), NEW new \in Row, NEW type \in Types, NEW payload \in Row,
             new.email = table[i].email, new.stripe = table[i].stripe, UNCHANGED faults,
             Announce(i, new, type, payload), Tells(i, new, Sent(i, type, payload))
      PROVE  \E j \in RowIds, n \in Row, message \in Message : Request(j, n, message)
    <2>1. i \in RowIds
        BY <1>1, PresentRow
    <2>2. IsUnique([table EXCEPT ![i] = new])
        BY <1>1, <1>2, UpdateUnique
    <2>3. Sound([table EXCEPT ![i] = new])
          /\ Present([table EXCEPT ![i] = new]) = Present(table) \cup {i}
        BY <1>1, <2>2, UpdateSound
    <2>4. Charged(i, new)
        BY <1>2 DEF Charged
    <2> QED BY <1>2, <2>1, <2>3, <2>4, Announced
<1>3. ASSUME NEW email \in Emails, NEW name \in Names, NEW given \in Named \cup {NoStripe},
             ApiCreate(email, name, given)
      PROVE  \E i \in RowIds, new \in Row, message \in Message : Request(i, new, message)
    <2>1. given \in StripeIds \cup {NoStripe}
        BY DispatcherAssumption
    <2>2. (given # NoStripe => stripe[given] # NoCustomer)
          /\ (Fault \/ (UNCHANGED faults /\ (given = NoStripe \/ given # fresh)))
        BY <1>3 DEF ApiCreate
    <2>3. ASSUME NEW new, new = [name |-> name, email |-> email, stripe |-> given, active |-> TRUE],
                 ~Collides(table, new), Announce(NextRow(table), new, "customer_created", new)
          PROVE  \E j \in RowIds, n \in Row, message \in Message : Request(j, n, message)
        <3> DEFINE i == NextRow(table)
        <3>1. new \in Row /\ new.stripe = given /\ new.active
            BY <2>1, <2>3 DEF Row
        <3>2. /\ Sound([table EXCEPT ![i] = new])
              /\ Present([table EXCEPT ![i] = new]) = Present(table) \cup {i}
              /\ i \in RowIds \ Present(table)
            BY <1>1, <2>3, <3>1, InsertSound DEF Insert
        <3>3. Tells(i, new, Sent(i, "customer_created", new))
            BY <2>2, <3>1, <3>2 DEF Tells, Created, Sent
        <3>4. Charged(i, new)
            BY <2>2, <3>1 DEF Charged
        <3> QED BY <2>3, <3>1, <3>2, <3>3, <3>4, Announced DEF Types
    <2>4. ASSUME NEW i \in WithEmail(table, email), ~table[i].active,
                 NEW link, link = IF given = NoStripe THEN table[i].stripe ELSE given,
                 NEW new, new = [table[i] EXCEPT !.name = name, !.active = TRUE, !.stripe = link],
                 IsUnique([table EXCEPT ![i] = new]), Announce(i, new, "customer_created", new)
          PROVE  \E j \in RowIds, n \in Row, message \in Message : Request(j, n, message)
        <3>1. i \in Present(table) /\ table[i] \in Row /\ i \in RowIds
            BY <1>1, PresentRow DEF WithEmail
        <3>2. link \in StripeIds \cup {NoStripe}
            BY <2>1, <2>4, <3>1 DEF Row
        <3>3. new \in Row /\ new.stripe = link /\ new.active
            BY <2>4, <3>1, <3>2 DEF Row
        <3>4. Sound([table EXCEPT ![i] = new])
              /\ Present([table EXCEPT ![i] = new]) = Present(table) \cup {i}
            <4> HIDE DEF Sound
            <4>1. IsUnique([table EXCEPT ![i] = new])
                BY <2>4
            <4> QED BY <1>1, <3>1, <3>3, <4>1, UpdateSound
        <3>5. Tells(i, new, Sent(i, "customer_created", new))
            BY <2>2, <2>4, <3>1, <3>3 DEF Tells, Created, Sent
        <3>6. Charged(i, new)
            BY <2>2, <2>4, <3>1, <3>3 DEF Charged
        <3> QED BY <2>4, <3>1, <3>3, <3>4, <3>5, <3>6, Announced DEF Types
    <2> QED BY <1>3, <2>3, <2>4 DEF ApiCreate
<1>4. ASSUME NEW i \in RowIds, NEW name \in Names, ApiUpdate(i, name)
      PROVE  \E j \in RowIds, new \in Row, message \in Message : Request(j, new, message)
    <2> DEFINE new == [table[i] EXCEPT !.name = name]
    <2>1. i \in Present(table) /\ table[i] \in Row /\ table[i].active
        BY <1>1, <1>4, PresentRow DEF ApiUpdate, Active
    <2>2. new \in Row /\ new.email = table[i].email /\ new.stripe = table[i].stripe /\ new.active
        BY <2>1 DEF Row
    <2>3. Tells(i, new, Sent(i, "customer_updated", new))
        BY <2>1, <2>2 DEF Tells, Updated, Sent
    <2> QED BY <1>2, <1>4, <2>1, <2>2, <2>3 DEF ApiUpdate, Types
<1>5. ASSUME NEW i \in RowIds, ApiDelete(i)
      PROVE  \E j \in RowIds, new \in Row, message \in Message : Request(j, new, message)
    <2> DEFINE new == [table[i] EXCEPT !.active = FALSE]
    <2>1. i \in Present(table) /\ table[i] \in Row /\ table[i].active
        BY <1>1, <1>5, PresentRow DEF ApiDelete, Active
    <2>2. new \in Row /\ new.email = table[i].email /\ new.stripe = table[i].stripe /\ ~new.active
        BY <2>1 DEF Row
    <2>3. Tells(i, new, Sent(i, "customer_deleted", table[i]))
        BY <2>1, <2>2 DEF Tells, Deleted, Sent
    <2> QED BY <1>2, <1>5, <2>1, <2>2, <2>3 DEF ApiDelete, Types
<1> QED BY <1>3, <1>4, <1>5 DEF Api

-----------------------------------------------------------------------------
\* The rows and records there are stay; only a request and the link change rows,
\* only a request and the outbox's second publication add a record.
Kept ==
    /\ Present(table) \subseteq Present(table')
    /\ Len(log) <= Len(log') /\ \A k \in 1..Len(log) : log'[k] = log[k]

LEMMA TopicUnchanged ==
    ASSUME IInv, UNCHANGED <<table, log>>
    PROVE  Sound(table') /\ TopicOK' /\ RowsExist' /\ Kept
<1>1. Sound(table')
    BY DEF IInv
<1> QED BY <1>1 DEF IInv, TopicOK, CursorOK, RowsExist, Kept, Present

LEMMA TopicGrows ==
    ASSUME IInv, NEW message \in Message, Len(log) < MaxMessages, log' = Append(log, message),
           Sound(table'), Present(table) \cup {message.id} \subseteq Present(table')
    PROVE  TopicOK' /\ RowsExist' /\ Kept
<1>1. log \in Seq(Message) /\ Len(log) \in Nat
    BY LenProperties DEF IInv, TopicOK
<1>2. /\ log' \in Seq(Message) /\ Len(log') = Len(log) + 1
      /\ \A k \in 1..Len(log) : log'[k] = log[k]
      /\ log'[Len(log) + 1] = message
    BY <1>1, AppendProperties
<1>3. TopicOK' /\ Kept
    BY <1>1, <1>2, Numbers DEF TopicOK, Kept
<1>4. ASSUME NEW k \in 1..Len(log') PROVE log'[k].id \in Present(table')
    <2>1. CASE k \in 1..Len(log)
        BY <1>2, <2>1 DEF IInv, RowsExist
    <2>2. CASE k = Len(log) + 1
        BY <1>2, <2>2
    <2> QED BY <1>1, <1>2, <2>1, <2>2
<1> QED BY <1>3, <1>4 DEF RowsExist, Present

LEMMA TopicStep ==
    ASSUME IInv, [Next]_vars
    PROVE  Sound(table') /\ TopicOK' /\ RowsExist' /\ Kept
<1>1. CASE UNCHANGED <<table, log>>
    BY <1>1, TopicUnchanged
<1>2. CASE Api
    <2>1. PICK i \in RowIds, new \in Row, message \in Message : Request(i, new, message)
        BY <1>2, ApiRequest
    <2> QED BY <2>1, TopicGrows DEF Request
<1>3. ASSUME NEW m \in Messages, Republish(m) PROVE Sound(table') /\ TopicOK' /\ RowsExist' /\ Kept
    <2>1. m \in 1..Len(log) /\ log \in Seq(Message)
        BY <1>3, Numbers DEF Republish, Messages, IInv, TopicOK, CursorOK
    <2>2. log[m] \in Message /\ log[m].id \in Present(table)
        BY <2>1, ElementOfSeq DEF IInv, RowsExist
    <2>3. Sound(table') /\ Present(table') = Present(table)
        BY <1>3 DEF Republish, IInv, Present
    <2> QED BY <1>3, <2>2, <2>3, TopicGrows DEF Republish
<1>4. CASE LinkRow
    <2> DEFINE new == [table[msg.id] EXCEPT !.stripe = fresh]
    <2>1. msg.id \in Present(table) /\ fresh \in StripeIds
          /\ WithStripe(table, fresh) \subseteq {msg.id}
        BY <1>4, InHand DEF LinkRow, Busy, IInv, WorkerOK, Taken
    <2>2. table[msg.id] \in Row
        BY <2>1, PresentRow DEF IInv, Sound
    <2>3. new \in Row /\ new.email = table[msg.id].email /\ new.stripe = fresh
        BY <2>1, <2>2 DEF Row
    <2>4. table' = [table EXCEPT ![msg.id] = new] /\ log' = log
        BY <1>4 DEF LinkRow
    <2>5. IsUnique([table EXCEPT ![msg.id] = new])
        BY <2>1, <2>3, UpdateUnique DEF IInv
    <2>6. Sound(table') /\ Present(table') = Present(table)
        BY <2>1, <2>3, <2>4, <2>5, UpdateSound DEF IInv
    <2> QED BY <2>4, <2>6 DEF IInv, TopicOK, CursorOK, RowsExist, Kept, Present
<1> QED BY <1>1, <1>2, <1>3, <1>4 DEF Next, WorkerStep, Rest, vars, apiVars, StartWorker, Fetch,
        CallOk, CallLost, CallRefused, CallRejected, LinkFails, Retry, DeadLetter,
        DeadLetterFails, AutoCommit, Reconnect, Crash, Interrupt

-----------------------------------------------------------------------------
\* What each step does to the worker's own state.
LEMMA CursorStep ==
    ASSUME IInv, [Next]_vars
    PROVE  CursorOK' /\ WorkerOK'
<1>1. CursorOK /\ WorkerOK /\ Len(log) \in Nat /\ Len(log') \in Nat /\ Len(log) <= Len(log')
    <2>1. log \in Seq(Message) /\ log' \in Seq(Message)
        BY TopicStep DEF IInv, TopicOK
    <2> QED BY <2>1, LenProperties, TopicStep DEF IInv, Kept
<1>2. ASSUME UNCHANGED workerVars PROVE CursorOK' /\ WorkerOK'
    BY <1>1, <1>2 DEF CursorOK, WorkerOK, workerVars
<1>3. CASE Api
    BY <1>2, <1>3, ApiRequest DEF Request
<1>4. ASSUME NEW m \in Messages, Republish(m) PROVE CursorOK' /\ WorkerOK'
    BY <1>2, <1>4 DEF Republish
<1>5. CASE StartWorker
    BY <1>1, <1>5 DEF CursorOK, WorkerOK, StartWorker, Busy
<1>6. CASE Fetch
    BY <1>1, <1>6, Numbers DEF CursorOK, WorkerOK, Fetch, apiVars, Busy
<1>7. ASSUME NEW s \in StripeIds, CallOk(s) PROVE CursorOK' /\ WorkerOK'
    <2>1. UNCHANGED <<log, offset, position, session>> /\ pc = "calling"
        BY <1>7 DEF CallOk, apiVars
    <2>2. \/ pc' = "linking" /\ fresh' = s /\ attempt' = attempt
          \/ pc' = "idle" /\ attempt' = 0 /\ fresh' = fresh
        BY <1>7 DEF CallOk, Done
    <2>3. CursorOK'
        BY <1>1, <2>1 DEF CursorOK
    <2>4. WorkerOK'
        BY <1>1, <2>1, <2>2, Numbers DEF WorkerOK, Busy
    <2> QED BY <2>3, <2>4
<1>8. ASSUME NEW s \in StripeIds, CallLost(s) PROVE CursorOK' /\ WorkerOK'
    BY <1>1, <1>8, Numbers DEF CursorOK, WorkerOK, CallLost, apiVars, Busy
<1>9. CASE CallRefused \/ CallRejected
    BY <1>1, <1>9, Numbers DEF CursorOK, WorkerOK, CallRefused, CallRejected, apiVars, Busy
<1>10. CASE LinkRow
    BY <1>1, <1>10, Numbers DEF CursorOK, WorkerOK, LinkRow, Done, Busy
<1>11. CASE LinkFails
    BY <1>1, <1>11, Numbers DEF CursorOK, WorkerOK, LinkFails, apiVars, Busy
<1>12. CASE Retry
    <2>1. attempt + 1 \in 0..MaxAttempts /\ (attempt + 1 < MaxAttempts \/ attempt + 1 >= MaxAttempts)
        <3>1. attempt \in 0..MaxAttempts /\ attempt < MaxAttempts
            BY <1>1, <1>12 DEF Retry, WorkerOK
        <3> QED BY <3>1, Numbers
    <2> QED BY <1>1, <1>12, <2>1 DEF CursorOK, WorkerOK, Retry, apiVars, Busy
<1>13. CASE DeadLetter \/ DeadLetterFails
    <2>1. /\ UNCHANGED <<log, offset, position, fresh, session>>
          /\ pc = "giving up" /\ pc' = "idle" /\ attempt' = 0
        BY <1>13 DEF DeadLetter, DeadLetterFails, Done, apiVars
    <2>2. CursorOK'
        BY <1>1, <2>1 DEF CursorOK
    <2>3. WorkerOK'
        BY <1>1, <2>1, Numbers DEF WorkerOK
    <2> QED BY <2>2, <2>3
<1>14. CASE AutoCommit \/ Reconnect
    <2>1. /\ UNCHANGED <<log, pc, attempt, fresh>> /\ session' \in {session, "ok"}
          /\ offset' \in {offset, position} /\ position' \in {offset', position}
        BY <1>14 DEF AutoCommit, Reconnect, apiVars
    <2> QED BY <1>1, <2>1 DEF CursorOK, WorkerOK
<1>15. CASE Crash \/ Interrupt
    <2>1. /\ UNCHANGED <<log, position, session>> /\ offset' \in {offset, position}
          /\ pc' = "stopped" /\ attempt' = 0 /\ fresh' = NoStripe
        BY <1>15 DEF Crash, Interrupt, apiVars
    <2>2. CursorOK'
        BY <1>1, <2>1 DEF CursorOK
    <2>3. WorkerOK'
        BY <1>1, <2>1, Numbers DEF WorkerOK
    <2> QED BY <2>2, <2>3
<1>16. CASE Rest \/ UNCHANGED vars
    BY <1>2, <1>16 DEF Rest, vars
<1> QED BY <1>3, <1>4, <1>5, <1>6, <1>7, <1>8, <1>9, <1>10, <1>11, <1>12, <1>13, <1>14, <1>15,
        <1>16 DEF Next, WorkerStep

\* Stripe's customers keep their row; a new one takes an id nobody has.
LEMMA StripeStep ==
    ASSUME IInv, [Next]_vars
    PROVE  /\ stripe' \in [StripeIds -> StripeCustomer \cup {NoCustomer}]
           /\ \A s \in StripeIds : stripe[s] # NoCustomer =>
                  stripe'[s] # NoCustomer /\ stripe'[s].row = stripe[s].row
<1> DEFINE Kind == /\ stripe' \in [StripeIds -> StripeCustomer \cup {NoCustomer}]
                   /\ \A s \in StripeIds : stripe[s] # NoCustomer =>
                          stripe'[s] # NoCustomer /\ stripe'[s].row = stripe[s].row
<1>1. stripe \in [StripeIds -> StripeCustomer \cup {NoCustomer}]
    BY DEF IInv, WorldOK
<1>2. ASSUME NEW s \in StripeIds, StripeCall(s), pc = "calling" PROVE Kind
    <2>1. msg \in Message /\ msg.id \in RowIds
        BY <1>2, InHand DEF Busy
    <2>2. msg.name \in Names
          /\ msg.type \in {"customer_created", "customer_updated", "customer_deleted"}
        BY <2>1 DEF Message
    <2>3. CASE msg.type = "customer_created"
        <3> DEFINE new == [row |-> msg.id, name |-> msg.name, live |-> TRUE]
        <3>1. stripe[s] = NoCustomer /\ stripe' = [stripe EXCEPT ![s] = new]
            BY <1>2, <2>3 DEF StripeCall, Unused
        <3>2. new \in StripeCustomer
            BY <2>1, <2>2 DEF StripeCustomer
        <3> QED BY <1>1, <3>1, <3>2, NoCustomerAssumption
    <2>4. ASSUME msg.type # "customer_created" PROVE Kind
        <3>1. /\ stripe[s] # NoCustomer
              /\ \/ stripe' = [stripe EXCEPT ![s].name = msg.name]
                 \/ stripe' = [stripe EXCEPT ![s].live = FALSE]
            BY <1>2, <2>2, <2>4 DEF StripeCall, Live
        <3> DEFINE old == stripe[s]
        <3>2. old \in StripeCustomer
            BY <1>1, <3>1
        <3>3. /\ [old EXCEPT !.name = msg.name] \in StripeCustomer
              /\ [old EXCEPT !.name = msg.name].row = old.row
              /\ [old EXCEPT !.live = FALSE] \in StripeCustomer
              /\ [old EXCEPT !.live = FALSE].row = old.row
            BY <2>2, <3>2 DEF StripeCustomer
        <3>4. PICK new \in StripeCustomer : new.row = old.row /\ stripe' = [stripe EXCEPT ![s] = new]
            BY <3>1, <3>3
        <3> QED BY <1>1, <3>1, <3>4, NoCustomerAssumption
    <2> QED BY <2>3, <2>4
<1>3. CASE UNCHANGED stripe
    BY <1>1, <1>3
<1>4. CASE Api
    BY <1>3, <1>4, ApiRequest DEF Request
<1>5. ASSUME NEW s \in StripeIds, CallOk(s) \/ CallLost(s) PROVE Kind
    BY <1>2, <1>5 DEF CallOk, CallLost
<1> QED BY <1>3, <1>4, <1>5 DEF Next, WorkerStep, Rest, vars, Republish, StartWorker, Fetch,
        CallRefused, CallRejected, LinkRow, LinkFails, Retry, DeadLetter, DeadLetterFails,
        AutoCommit, Reconnect, Crash, Interrupt

-----------------------------------------------------------------------------
Ends == {"applied", "dead-lettered", "dropped"}

\* The worker is done with the record it has in hand.
Finish ==
    /\ pc \in Busy /\ pc' = "idle" /\ UNCHANGED <<offset, position>>
    /\ \E o \in Ends : outcome' = [outcome EXCEPT ![position] = o]

\* A record is finished by the worker that has it in hand, or abandoned with it.
LEMMA Finishes ==
    ASSUME IInv, [Next]_vars
    PROVE  UNCHANGED outcome \/ Finish \/ Interrupt
<1>1. CASE Api
    BY <1>1, ApiRequest DEF Request
<1>2. ASSUME NEW s \in StripeIds, CallOk(s) \/ CallLost(s)
      PROVE  UNCHANGED outcome \/ Finish
    BY <1>2 DEF CallOk, CallLost, Done, Busy, Ends, Finish
<1>3. CASE LinkRow \/ DeadLetter \/ DeadLetterFails
    BY <1>3 DEF LinkRow, DeadLetter, DeadLetterFails, Done, Busy, Ends, Finish
<1> QED BY <1>1, <1>2, <1>3 DEF Next, WorkerStep, Rest, vars, apiVars, Republish, StartWorker,
        Fetch, CallRefused, CallRejected, LinkFails, Retry, AutoCommit, Reconnect, Crash

\* An interrupt abandons the record in hand, unless it had been dealt with before or
\* is not committed.
LEMMA Interrupts ==
    ASSUME IInv, Interrupt
    PROVE  /\ pc' = "stopped" /\ position' = position /\ offset' \in {offset, position}
           /\ Settled' /\ faults' = faults + 1
           /\ \/ UNCHANGED outcome
              \/ /\ pc \in Busy /\ offset' = position /\ outcome[position] = "none"
                 /\ outcome' = [outcome EXCEPT ![position] = "interrupted"]
<1>1. /\ offset \in Nat /\ position \in Nat /\ Len(log) \in Nat
      /\ offset <= position /\ position <= Len(log) /\ Len(log) <= MaxMessages
    BY LenProperties DEF IInv, CursorOK, TopicOK
<1>2. /\ pc' = "stopped" /\ position' = position /\ offset' \in {offset, position}
      /\ faults' = faults + 1
      /\ outcome' = [m \in Messages |->
             IF m <= offset' /\ outcome[m] = "none" THEN "interrupted" ELSE outcome[m]]
    BY DEF Interrupt, Fault
<1>3. Settled'
    BY <1>1, <1>2, Numbers DEF Settled, Messages
<1>4. outcome = [m \in Messages |-> outcome[m]]
    BY DEF IInv, WorldOK
<1>5. CASE \A m \in Messages : m <= offset' => outcome[m] # "none"
    <2>1. outcome' = outcome
        BY <1>2, <1>4, <1>5
    <2> QED BY <1>2, <1>3, <2>1
<1>6. ASSUME NEW m \in Messages, m <= offset', outcome[m] = "none"
      PROVE  /\ pc \in Busy /\ offset' = position /\ outcome[position] = "none"
             /\ outcome' = [outcome EXCEPT ![position] = "interrupted"]
    <2>1. m \in 1..position /\ (offset' = offset => m \in 1..offset)
        BY <1>1, <1>2, <1>6, Numbers DEF Messages
    <2>2. offset' = position /\ pc # "idle" /\ pc \in Busy
        BY <1>2, <1>6, <2>1 DEF IInv, Settled, InOrder, WorkerOK, Interrupt
    <2>3. m = position /\ \A k \in Messages : k < position => outcome[k] # "none"
        BY <1>1, <1>6, <2>1, <2>2, Numbers DEF IInv, InOrder, Messages
    <2>4. outcome' = [outcome EXCEPT ![position] = "interrupted"]
        <3>1. position \in Messages /\ outcome[position] = "none"
            BY <1>6, <2>3
        <3>2. position <= offset'
            BY <1>1, <2>2
        <3>3. \A k \in Messages : k # position => ~(k <= offset' /\ outcome[k] = "none")
            <4>1. \A k \in Messages : k <= position => k < position \/ k = position
                BY <1>1, Numbers DEF Messages
            <4>2. offset' = position
                BY <2>2
            <4>3. \A k \in Messages : k < position => outcome[k] # "none"
                BY <2>3
            <4> QED BY <4>1, <4>2, <4>3
        <3>4. outcome' = [k \in Messages |-> IF k = position THEN "interrupted" ELSE outcome[k]]
            BY <1>2, <3>1, <3>2, <3>3
        <3> QED BY <1>4, <3>1, <3>4
    <2> QED BY <1>6, <2>2, <2>3, <2>4
<1> QED BY <1>2, <1>3, <1>5, <1>6

LEMMA OutcomeStep ==
    ASSUME IInv, [Next]_vars
    PROVE  /\ outcome' \in [Messages -> Ends \cup {"none", "interrupted"}]
           /\ \A m \in Messages : outcome[m] # "none" => outcome'[m] # "none"
<1>1. outcome \in [Messages -> Ends \cup {"none", "interrupted"}]
    BY DEF IInv, WorldOK, Ends
<1>2. CASE UNCHANGED outcome
    BY <1>1, <1>2
<1>3. ASSUME NEW o \in Ends \cup {"interrupted"}, pc \in Busy,
             outcome' = [outcome EXCEPT ![position] = o]
      PROVE  /\ outcome' \in [Messages -> Ends \cup {"none", "interrupted"}]
             /\ \A m \in Messages : outcome[m] # "none" => outcome'[m] # "none"
    <2>1. position \in Messages /\ o # "none"
        BY <1>3, InHand DEF Ends
    <2> QED BY <1>1, <1>3, <2>1
<1> QED BY <1>2, <1>3, Finishes, Interrupts DEF Finish

LEMMA WorldStep ==
    ASSUME IInv, [Next]_vars
    PROVE  WorldOK' /\ faults <= faults'
<1>1. stripe' \in [StripeIds -> StripeCustomer \cup {NoCustomer}]
    BY StripeStep
<1>2. outcome' \in [Messages -> {"none", "interrupted", "applied", "dead-lettered", "dropped"}]
    BY OutcomeStep DEF Ends
<1>3. hasty' \in BOOLEAN
    <2>1. CASE Api
        BY <2>1, ApiRequest DEF Request
    <2>2. CASE hasty' = hasty
        BY <2>2, Zenon DEF IInv, WorldOK
    <2> QED BY <2>1, <2>2 DEF Next, WorkerStep, Rest, vars, apiVars, Republish, StartWorker,
            Fetch, CallOk, CallLost, CallRefused, CallRejected, LinkRow, LinkFails, Retry,
            DeadLetter, DeadLetterFails, AutoCommit, Reconnect, Crash, Interrupt
<1>4. faults' \in 0..MaxFaults /\ faults <= faults'
    <2>1. faults \in 0..MaxFaults
        BY DEF IInv, WorldOK
    <2>2. Fault \/ UNCHANGED faults => faults' \in 0..MaxFaults /\ faults <= faults'
        BY <2>1, Numbers DEF Fault
    <2>3. CASE Api
        BY <2>2, <2>3, ApiRequest DEF Request, Charged
    <2> QED BY <2>2, <2>3 DEF Next, WorkerStep, Rest, vars, Republish, StartWorker,
            Fetch, CallOk, CallLost, CallRefused, CallRejected, LinkRow, LinkFails, Retry,
            DeadLetter, DeadLetterFails, AutoCommit, Reconnect, Crash, Interrupt
<1> QED BY <1>1, <1>2, <1>3, <1>4 DEF WorldOK

-----------------------------------------------------------------------------
\* Records are handed out one after the other and are over before the next.
LEMMA OrderStep ==
    ASSUME IInv, [Next]_vars
    PROVE  Settled' /\ InOrder'
<1>1. /\ offset \in Nat /\ position \in Nat /\ Len(log) \in Nat
      /\ offset <= position /\ position <= Len(log) /\ Len(log) <= MaxMessages
    BY LenProperties DEF IInv, CursorOK, TopicOK
<1>2. \A m \in 1..position : outcome[m] # "none" => outcome'[m] # "none"
    BY <1>1, Numbers, OutcomeStep DEF Messages
<1>3. Settled /\ InOrder
    BY DEF IInv
<1>4. ASSUME UNCHANGED <<offset, position>>, pc' \in {pc, "stopped"} \/ (pc \in Busy /\ pc' \in Busy)
      PROVE  Settled' /\ InOrder'
    <2>1. Settled'
        BY <1>1, <1>2, <1>3, <1>4 DEF Settled
    <2>2. pc' \in Busy => pc \in Busy
        BY <1>4 DEF Busy
    <2>3. pc' = "idle" => pc = "idle"
        BY <1>4 DEF Busy
    <2> QED BY <1>2, <1>3, <1>4, <2>1, <2>2, <2>3 DEF InOrder
<1>5. CASE Finish
    <2>1. \A m \in 1..position : m < position => outcome'[m] # "none"
        BY <1>2, <1>3, <1>5 DEF Finish, InOrder
    <2>2. outcome'[position] # "none"
        BY <1>3, <1>5 DEF Finish, InOrder, IInv, WorldOK, Ends
    <2>3. InOrder'
        <3>1. \A m \in 1..position : outcome'[m] # "none"
            BY <1>1, <2>1, <2>2
        <3> QED BY <1>5, <3>1 DEF Finish, InOrder, Busy
    <2>4. Settled'
        BY <1>1, <1>2, <1>3, <1>5 DEF Finish, Settled
    <2> QED BY <2>3, <2>4
<1>6. CASE StartWorker
    BY <1>3, <1>6 DEF StartWorker, Settled, InOrder, Busy
<1>7. CASE Fetch
    <2>1. position + 1 \in Messages /\ offset < position + 1
        BY <1>1, <1>7, Numbers DEF Fetch, Messages
    <2>2. \A m \in 1..position + 1 : m < position + 1 => outcome'[m] # "none"
        BY <1>1, <1>3, <1>7 DEF Fetch, InOrder
    <2> QED BY <1>3, <1>7, <2>1, <2>2 DEF Fetch, Settled, InOrder, Busy
<1>8. CASE AutoCommit \/ Reconnect
    BY <1>1, <1>3, <1>8 DEF AutoCommit, Reconnect, Settled, InOrder, Busy
<1>9. CASE Api
    BY <1>4, <1>9, ApiRequest DEF Request, workerVars
<1>10. ASSUME NEW s \in StripeIds, CallOk(s) PROVE Settled' /\ InOrder'
    BY <1>4, <1>5, <1>10 DEF CallOk, Done, Busy, Ends, Finish
<1>11. CASE LinkRow \/ DeadLetter \/ DeadLetterFails
    BY <1>5, <1>11 DEF LinkRow, DeadLetter, DeadLetterFails, Done, Busy, Ends, Finish
<1>12. CASE Interrupt
    BY <1>12, Interrupts DEF InOrder, Busy
<1> QED BY <1>4, <1>6, <1>7, <1>8, <1>9, <1>10, <1>11, <1>12 DEF Next, WorkerStep, Rest, vars,
        workerVars, Republish, CallLost, CallRefused, CallRejected, LinkFails, Retry, Crash, Busy

\* An interrupt costs one record at most, which is committed with it and does not
\* come again.
LEMMA InterruptedStep ==
    ASSUME IInv, [Next]_vars
    PROVE  InterruptsOK' /\ (Finish => UNCHANGED Interrupted)
<1>1. /\ offset \in Nat /\ position \in Nat /\ offset <= position
      /\ faults \in Nat /\ faults' \in Nat /\ faults <= faults'
    BY Numbers, WorldStep DEF IInv, CursorOK, WorldOK
<1>2. IsFiniteSet(Interrupted) /\ Cardinality(Interrupted) \in Nat
    <2>1. IsFiniteSet(Messages) /\ Interrupted \subseteq Messages
        BY FS_Interval, Numbers DEF Messages, Interrupted
    <2> QED BY <2>1, FS_Subset, FS_CardinalityType
<1>3. Cardinality(Interrupted) <= faults /\ \A m \in Interrupted : m <= offset
    BY DEF IInv, InterruptsOK
<1>4. offset' \in {offset, position}
    <2>1. CASE Api
        BY <2>1, ApiRequest DEF Request, workerVars
    <2> QED BY <2>1 DEF Next, WorkerStep, Rest, vars, workerVars, Republish, StartWorker, Fetch,
            CallOk, CallLost, CallRefused, CallRejected, LinkRow, LinkFails, Retry, DeadLetter,
            DeadLetterFails, AutoCommit, Reconnect, Crash, Interrupt
<1>5. ASSUME UNCHANGED Interrupted PROVE InterruptsOK'
    <2>1. \A m \in Interrupted : m \in Nat
        BY DEF Interrupted, Messages
    <2> QED BY <1>1, <1>2, <1>3, <1>4, <1>5, <2>1 DEF InterruptsOK
<1>6. CASE UNCHANGED outcome
    BY <1>5, <1>6 DEF Interrupted
<1>7. Finish => UNCHANGED Interrupted
    <2> SUFFICES ASSUME Finish PROVE UNCHANGED Interrupted
        OBVIOUS
    <2>1. position \in Messages /\ offset < position /\ position \notin Interrupted
        BY <1>1, <1>3 DEF Finish, IInv, InOrder
    <2>2. PICK o \in Ends : outcome' = [outcome EXCEPT ![position] = o]
        BY DEF Finish
    <2>3. \A m \in Messages : outcome'[m] = "interrupted" <=> outcome[m] = "interrupted"
        BY <2>1, <2>2 DEF Interrupted, Ends, IInv, WorldOK
    <2> QED BY <2>3 DEF Interrupted
<1>8. CASE Interrupt
    <2>1. CASE outcome' = outcome
        BY <1>6, <1>7, <2>1
    <2>2. CASE outcome' # outcome
        <3>1. /\ pc \in Busy /\ offset' = position /\ outcome[position] = "none"
              /\ outcome' = [outcome EXCEPT ![position] = "interrupted"] /\ faults' = faults + 1
            BY <1>8, <2>2, Interrupts
        <3>2. position \in Messages /\ position \notin Interrupted
            BY <3>1 DEF IInv, InOrder, Interrupted
        <3>3. \A m \in Messages : outcome'[m] = "interrupted"
                                      <=> (outcome[m] = "interrupted" \/ m = position)
            BY <3>1, <3>2 DEF IInv, WorldOK
        <3>4. Interrupted' = Interrupted \cup {position}
            BY <3>2, <3>3 DEF Interrupted
        <3>5. Cardinality(Interrupted \cup {position}) = Cardinality(Interrupted) + 1
            BY <1>2, <3>2, FS_AddElement
        <3>6. \A m \in Interrupted : m \in Nat /\ m <= offset
            BY <1>3 DEF Interrupted, Messages
        <3>7. InterruptsOK'
            BY <1>1, <1>2, <1>3, <3>1, <3>4, <3>5, <3>6 DEF InterruptsOK
        <3> QED BY <1>7, <3>7
    <2> QED BY <2>1, <2>2
<1> QED BY <1>5, <1>6, <1>7, <1>8, Finishes

-----------------------------------------------------------------------------
\* A customer just created for the row has an id that no row had.
LEMMA NewLink ==
    ASSUME IInv, NEW s \in StripeIds, pc = "calling", msg.type = "customer_created", StripeCall(s)
    PROVE  /\ stripe'[s] # NoCustomer /\ stripe'[s].row = msg.id
           /\ WithStripe(table, s) = {}
<1>1. stripe[s] = NoCustomer /\ stripe \in [StripeIds -> StripeCustomer \cup {NoCustomer}]
      /\ stripe' = [stripe EXCEPT ![s] = [row |-> msg.id, name |-> msg.name, live |-> TRUE]]
    BY DEF StripeCall, Unused, IInv, WorldOK
<1>2. [row |-> msg.id, name |-> msg.name, live |-> TRUE] \in StripeCustomer
    BY InHand DEF Busy, Message, StripeCustomer
<1>3. stripe'[s] # NoCustomer /\ stripe'[s].row = msg.id
    BY <1>1, <1>2, NoCustomerAssumption
<1>4. ASSUME NEW i \in WithStripe(table, s) PROVE FALSE
    <2>1. i \in Present(table) /\ table[i].stripe = s /\ s # NoStripe
        BY <1>4, Numbers DEF WithStripe
    <2> QED BY <1>1, <2>1 DEF IInv, LinkKnown
<1> QED BY <1>3, <1>4

\* Customer id was made for row i, or a create request of the row came with it.
Linked(id, i, st, lg) ==
    /\ st[id] # NoCustomer
    /\ \/ st[id].row = i
       \/ \E m \in 1..Len(lg) : lg[m].id = i /\ lg[m].type = "customer_created" /\ lg[m].stripe = id

LEMMA LinkedKept ==
    ASSUME IInv, [Next]_vars, NEW i, NEW id \in StripeIds, Linked(id, i, stripe, log)
    PROVE  Linked(id, i, stripe', log')
<1>1. log \in Seq(Message) /\ log' \in Seq(Message)
    BY TopicStep DEF IInv, TopicOK
<1>2. Len(log) \in Nat /\ Len(log') \in Nat
    BY <1>1, LenProperties
<1>3. \A m \in 1..Len(log) : m \in 1..Len(log') /\ log'[m] = log[m]
    BY <1>2, TopicStep DEF Kept
<1> QED BY <1>3, StripeStep DEF Linked

LEMMA LinkStep ==
    ASSUME IInv, [Next]_vars
    PROVE  LinkKnown' /\ LinkInHand'
<1>1. LinkKnown /\ LinkInHand /\ table \in Tables /\ fresh \in StripeIds \cup {NoStripe}
    BY DEF IInv, Sound, WorkerOK
<1>2. \A i \in Present(table) : /\ table[i].stripe \in StripeIds \cup {NoStripe}
                                /\ table[i].stripe # NoStripe =>
                                       Linked(table[i].stripe, i, stripe', log')
    <2>1. ASSUME NEW i \in Present(table)
          PROVE  /\ table[i].stripe \in StripeIds \cup {NoStripe}
                 /\ table[i].stripe # NoStripe => Linked(table[i].stripe, i, stripe', log')
        <3>1. table[i].stripe \in StripeIds \cup {NoStripe}
            BY <1>1, PresentRow DEF Row
        <3>2. table[i].stripe # NoStripe => Linked(table[i].stripe, i, stripe, log)
            BY <1>1 DEF LinkKnown, Linked, Creates
        <3> QED BY <3>1, <3>2, LinkedKept
    <2> QED BY <2>1
<1>3. ASSUME \A i \in Present(table') : table'[i].stripe # NoStripe =>
                 Linked(table'[i].stripe, i, stripe', log')
      PROVE  LinkKnown'
    <2>1. ASSUME NEW i \in Present(table)', NEW id, id = table'[i].stripe, id # NoStripe
          PROVE  /\ stripe'[id] # NoCustomer
                 /\ stripe'[id].row = i \/ \E m \in Creates(i)' : log'[m].stripe = id
        <3>1. Linked(id, i, stripe', log')
            BY <1>3, <2>1 DEF Present
        <3> QED BY <3>1 DEF Linked, Creates
    <2> QED BY <2>1 DEF LinkKnown
<1>4. CASE Api
    <2>1. PICK i \in RowIds, new \in Row, message \in Message : Request(i, new, message)
        BY <1>4, ApiRequest
    <2>2. /\ Present(table') = Present(table) \cup {i}
          /\ table'[i] = new /\ \A j \in RowIds : j # i => table'[j] = table[j]
          /\ message.id = i /\ log' = Append(log, message)
          /\ Tells(i, new, message) /\ UNCHANGED <<stripe, pc, fresh, position>>
        BY <1>1, <2>1 DEF Request, Tables, workerVars
    <2>3. new.stripe # NoStripe => Linked(new.stripe, i, stripe', log')
        <3>1. CASE i \in Present(table) /\ new.stripe = table[i].stripe
            BY <1>2, <3>1
        <3>2. CASE /\ message.type = "customer_created" /\ message.stripe = new.stripe
                   /\ new.stripe # NoStripe => stripe[new.stripe] # NoCustomer
            <4>1. log \in Seq(Message)
                BY DEF IInv, TopicOK
            <4>2. Len(log) + 1 \in 1..Len(log') /\ log'[Len(log) + 1] = message
                BY <2>2, <4>1, AppendProperties, LenProperties
            <4> QED BY <2>2, <3>2, <4>2 DEF Linked
        <3> QED BY <2>2, <3>1, <3>2 DEF Tells, Created, Updated, Deleted
    <2>4. LinkKnown'
        <3>1. ASSUME NEW j \in Present(table'), table'[j].stripe # NoStripe
              PROVE  Linked(table'[j].stripe, j, stripe', log')
            <4>1. CASE j = i
                BY <2>2, <2>3, <3>1, <4>1
            <4>2. CASE j # i
                <5>1. j \in Present(table) /\ table'[j] = table[j]
                    BY <2>2, <4>2 DEF Present
                <5> QED BY <1>2, <3>1, <5>1
            <4> QED BY <4>1, <4>2
        <3> QED BY <1>3, <3>1
    <2>5. LinkInHand'
        <3> SUFFICES ASSUME pc = "linking" PROVE LinkInHand'
            BY <2>2 DEF LinkInHand
        <3>1. position \in 1..Len(log)
            BY InHand, Numbers DEF Busy, Messages
        <3>2. msg' = msg
            BY <2>2, <3>1, <1>4, TopicStep DEF Kept, msg, Next
        <3> QED BY <1>1, <2>2, <3>2 DEF LinkInHand
    <2> QED BY <2>4, <2>5
<1>5. CASE LinkRow
    <2>1. /\ msg.id \in Present(table) /\ fresh \in StripeIds
          /\ stripe[fresh] # NoCustomer /\ stripe[fresh].row = msg.id
        BY <1>5, InHand DEF LinkRow, Busy, IInv, WorkerOK, LinkInHand
    <2>2. /\ Present(table') = Present(table) /\ pc' = "idle" /\ stripe' = stripe
          /\ \A i \in Present(table) :
                 table'[i].stripe = IF i = msg.id THEN fresh ELSE table[i].stripe
        <3>1. table' = [table EXCEPT ![msg.id].stripe = fresh] /\ pc' = "idle" /\ stripe' = stripe
            BY <1>5 DEF LinkRow, Done
        <3>2. table[msg.id] \in Row
            BY <1>1, <2>1, PresentRow
        <3>3. [table[msg.id] EXCEPT !.stripe = fresh] \in Row
              /\ [table[msg.id] EXCEPT !.stripe = fresh].stripe = fresh
            BY <2>1, <3>2 DEF Row
        <3> QED BY <1>1, <2>1, <3>1, <3>3, NoRowAssumption DEF Present, Tables
    <2>3. Linked(fresh, msg.id, stripe', log')
        BY <2>1, <2>2 DEF Linked
    <2>4. LinkKnown'
        <3>1. ASSUME NEW j \in Present(table'), table'[j].stripe # NoStripe
              PROVE  Linked(table'[j].stripe, j, stripe', log')
            BY <1>2, <2>2, <2>3, <3>1
        <3> QED BY <1>3, <3>1
    <2>5. LinkInHand'
        BY <2>2 DEF LinkInHand
    <2> QED BY <2>4, <2>5
<1>6. ASSUME UNCHANGED table PROVE LinkKnown'
    BY <1>2, <1>3, <1>6
<1>7. ASSUME NEW s \in StripeIds, CallOk(s) PROVE LinkKnown' /\ LinkInHand'
    <2>1. pc = "calling" /\ StripeCall(s) /\ UNCHANGED <<table, log, position>>
        BY <1>7 DEF CallOk, apiVars
    <2>2. CASE msg.type = "customer_created"
        <3>1. fresh' = s
            BY <1>7, <2>2 DEF CallOk
        <3> QED BY <1>6, <2>1, <2>2, <3>1, NewLink DEF LinkInHand, msg
    <2>3. CASE msg.type # "customer_created"
        <3>1. pc' = "idle"
            BY <1>7, <2>3 DEF CallOk, Done
        <3> QED BY <1>6, <2>1, <3>1 DEF LinkInHand
    <2> QED BY <2>2, <2>3
<1>8. ASSUME NEW m \in Messages, Republish(m) PROVE LinkKnown' /\ LinkInHand'
    <2>1. UNCHANGED <<table, stripe, pc, fresh, position>>
        BY <1>8 DEF Republish, workerVars
    <2>2. LinkInHand'
        <3> SUFFICES ASSUME pc = "linking" PROVE LinkInHand'
            BY <2>1 DEF LinkInHand
        <3>1. position \in 1..Len(log)
            BY InHand, Numbers DEF Busy, Messages
        <3>2. msg' = msg
            BY <1>8, <2>1, <3>1, TopicStep DEF Kept, msg, Next
        <3> QED BY <1>1, <2>1, <3>2 DEF LinkInHand
    <2> QED BY <1>6, <2>1, <2>2
<1>9. CASE table' = table /\ pc' # "linking"
    BY <1>6, <1>9 DEF LinkInHand
<1>10. CASE UNCHANGED <<table, log, stripe, pc, fresh, position>>
    BY <1>1, <1>6, <1>10 DEF LinkInHand, msg
<1>11. CASE AutoCommit
    BY <1>9, <1>11 DEF AutoCommit, apiVars
<1>12. CASE Reconnect
    BY <1>9, <1>12 DEF Reconnect, apiVars
<1>13. CASE Retry
    BY <1>9, <1>13 DEF Retry, apiVars
<1>14. CASE StartWorker \/ Fetch \/ CallRefused \/ CallRejected \/ LinkFails \/ Crash \/ Interrupt
    BY <1>9, <1>14 DEF StartWorker, Fetch, CallRefused, CallRejected, LinkFails, Crash, Interrupt,
       apiVars
<1>15. CASE DeadLetter \/ DeadLetterFails
    BY <1>9, <1>15 DEF DeadLetter, DeadLetterFails, Done, apiVars
<1>16. ASSUME NEW s \in StripeIds, CallLost(s) PROVE LinkKnown' /\ LinkInHand'
    BY <1>9, <1>16 DEF CallLost, apiVars
<1>17. CASE Rest \/ UNCHANGED vars
    BY <1>10, <1>17 DEF Rest, vars, apiVars, workerVars
<1> QED BY <1>4, <1>5, <1>7, <1>8, <1>11, <1>12, <1>13, <1>14, <1>15, <1>16, <1>17
        DEF Next, WorkerStep

-----------------------------------------------------------------------------
LEMMA InvStep == IInv /\ [Next]_vars => IInv'
<1> SUFFICES ASSUME IInv, [Next]_vars PROVE IInv'
    OBVIOUS
<1>1. Sound(table')
    BY TopicStep
<1> QED BY <1>1, TopicStep, CursorStep, WorldStep, OrderStep, InterruptedStep, LinkStep DEF IInv, Sound, IsUnique,
        Filled, Present

LEMMA Invariance == Spec => []IInv
BY InvInit, InvStep, PTL DEF Spec

\* Every variable keeps its type, and the table its unique indexes.
THEOREM TypeCorrect == Spec => []TypeOK
BY Invariance, InvTypes, PTL

\* No record is committed before the worker has dealt with it, whatever crashes,
\* reconnects and failures come between, but for one record for each interrupt.
THEOREM CommittedIsHandled == Spec => []NothingSkipped
<1>1. IInv => NothingSkipped
    BY DEF IInv, Settled, InterruptsOK, NothingSkipped
<1> QED BY <1>1, Invariance, PTL

\* Every link in the table leads to a customer made for that very row, or to one that
\* a create request of the row came with.
THEOREM LinksAreReal == Spec => []LinkIsReal
<1>1. IInv => LinkIsReal
    BY DEF IInv, LinkKnown, LinkIsReal
<1> QED BY <1>1, Invariance, PTL

-----------------------------------------------------------------------------
HandledRecords == {m \in Messages : outcome[m] \notin {"none", "interrupted"}}

LEMMA ConsumerInitially == Init => Consumer!ConsumerInit
BY DEF Init, Interrupted, Consumer!ConsumerInit

\* A request or a second publication adds a record, the end of an event handles
\* one, AutoCommit and Reconnect commit, Interrupt commits or abandons; everything
\* else is a stutter.
LEMMA ConsumerStep ==
    ASSUME IInv, [Next]_vars
    PROVE  [Consumer!ConsumerNext]_(Consumer!consumerVars)
<1> USE DEF Consumer!ConsumerNext, Consumer!consumerVars
<1>1. /\ offset \in Nat /\ position \in Nat /\ offset <= position /\ position <= Len(log)
      /\ log \in Seq(Message) /\ Len(log) <= MaxMessages /\ Len(log) \in Nat
    BY LenProperties DEF IInv, CursorOK, TopicOK
<1>2. ASSUME NEW message \in Message, log' = Append(log, message), UNCHANGED <<outcome, offset>>
      PROVE  Consumer!Arrive
    <2>1. Len(log') = Len(log) + 1
        BY <1>1, <1>2, AppendProperties
    <2> QED BY <1>2, <2>1 DEF Consumer!Arrive, Interrupted
<1>3. CASE Api
    <2>1. PICK i \in RowIds, new \in Row, message \in Message : Request(i, new, message)
        BY <1>3, ApiRequest
    <2> QED BY <1>2, <2>1 DEF Request, workerVars
<1>4. ASSUME NEW m \in Messages, Republish(m) PROVE Consumer!Arrive
    <2>1. m \in 1..Len(log)
        BY <1>1, <1>4, Numbers DEF Republish, Messages
    <2> QED BY <1>1, <1>2, <1>4, <2>1, ElementOfSeq DEF Republish, workerVars
<1>5. ASSUME NEW k \in Messages, outcome[k] # "none" PROVE k \in HandledRecords \cup Interrupted
    BY <1>5 DEF HandledRecords, Interrupted
<1>6. ASSUME Finish, UNCHANGED log PROVE \E m \in Messages : Consumer!Handle(m)
    <2>1. position \in Messages /\ \A k \in Messages : k < position => outcome[k] # "none"
        BY <1>1, <1>6, Numbers DEF Finish, IInv, InOrder, Messages
    <2>2. position \notin Interrupted /\ Interrupted' = Interrupted
        <3>1. pc \in Busy
            BY <1>6 DEF Finish
        <3>2. offset < position
            BY <3>1 DEF IInv, InOrder
        <3>3. \A m \in Interrupted : m <= offset
            BY DEF IInv, InterruptsOK
        <3> QED BY <1>6, <1>1, <3>2, <3>3, InterruptedStep
    <2>3. PICK o \in Ends : outcome' = [outcome EXCEPT ![position] = o]
        BY <1>6 DEF Finish
    <2>4. HandledRecords' = HandledRecords \cup {position}
        <3>1. \A m \in Messages : outcome'[m] = IF m = position THEN o ELSE outcome[m]
            BY <2>1, <2>3 DEF IInv, WorldOK
        <3>2. \A m \in Messages : m \in HandledRecords' <=> (m \in HandledRecords \/ m = position)
            BY <3>1 DEF HandledRecords, Ends
        <3>3. HandledRecords' \subseteq Messages /\ HandledRecords \subseteq Messages
            BY DEF HandledRecords, Messages
        <3> QED BY <2>1, <3>2, <3>3
    <2>5. \A k \in Messages : k < position => k \in HandledRecords \cup Interrupted
        BY <1>5, <2>1
    <2>6. Consumer!Handle(position)
        BY <1>1, <1>6, <2>1, <2>2, <2>4, <2>5
           DEF Consumer!Handle, Consumer!Over, HandledRecords, Finish
    <2> QED BY <2>1, <2>6 DEF Consumer!Handle, Consumer!Over, HandledRecords
<1>7. ASSUME UNCHANGED <<log, outcome>>, offset' \in {offset, position}, Settled'
      PROVE  [Consumer!ConsumerNext]_(Consumer!consumerVars)
    <2>0. Interrupted' = Interrupted
        BY <1>7 DEF Interrupted
    <2>1. CASE offset' = offset
        BY <1>7, <2>0, <2>1
    <2>2. CASE offset' # offset
        <3>1. offset' = position /\ position > offset /\ position \in Messages
            BY <1>1, <1>7, <2>2, Numbers DEF Messages
        <3>2. \A k \in Messages : k <= position => outcome[k] # "none"
            BY <1>1, <1>7, <3>1, Numbers DEF Settled, Messages
        <3>3. \A k \in Messages : k <= position => k \in HandledRecords \cup Interrupted
            BY <1>5, <3>2
        <3> QED BY <1>7, <2>0, <3>1, <3>3 DEF Consumer!Commit, Consumer!Over, HandledRecords
    <2> QED BY <2>1, <2>2
<1>8. CASE UNCHANGED <<log, outcome, offset>>
    BY <1>8 DEF Interrupted
<1>9. ASSUME NEW s \in StripeIds, CallOk(s) PROVE [Consumer!ConsumerNext]_(Consumer!consumerVars)
    <2>1. UNCHANGED log
        BY <1>9 DEF CallOk, apiVars
    <2>2. Finish \/ UNCHANGED <<outcome, offset>>
        BY <1>9 DEF CallOk, Done, Busy, Ends, Finish
    <2>3. CASE Finish
        BY <1>6, <2>1, <2>3
    <2>4. CASE UNCHANGED <<outcome, offset>>
        BY <1>8, <2>1, <2>4
    <2> QED BY <2>2, <2>3, <2>4
<1>10. CASE LinkRow \/ DeadLetter \/ DeadLetterFails
    <2>1. Finish /\ UNCHANGED log
        BY <1>10 DEF LinkRow, DeadLetter, DeadLetterFails, Done, apiVars, Busy, Ends, Finish
    <2> QED BY <1>6, <2>1
<1>11. CASE AutoCommit \/ Reconnect
    BY <1>7, <1>11, OrderStep DEF AutoCommit, Reconnect, apiVars
<1>12. CASE Interrupt
    <2>1. log' = log
        BY <1>12 DEF Interrupt, apiVars
    <2>2. CASE outcome' = outcome
        BY <1>7, <1>12, <2>1, <2>2, Interrupts
    <2>3. CASE outcome' # outcome
        <3>1. /\ pc \in Busy /\ offset' = position /\ outcome[position] = "none"
              /\ outcome' = [outcome EXCEPT ![position] = "interrupted"]
            BY <1>12, <2>3, Interrupts
        <3>2. /\ position \in Messages /\ offset < position
              /\ \A k \in Messages : k < position => outcome[k] # "none"
            BY <1>1, <3>1, Numbers DEF IInv, InOrder, Messages
        <3>3. \A m \in Messages : outcome'[m] = IF m = position THEN "interrupted" ELSE outcome[m]
            BY <3>1, <3>2 DEF IInv, WorldOK
        <3>4. HandledRecords' = HandledRecords
            BY <3>1, <3>3 DEF HandledRecords
        <3>5. Interrupted' = Interrupted \cup {position}
            BY <3>2, <3>3 DEF Interrupted
        <3>6. position \notin HandledRecords \cup Interrupted
            BY <3>1 DEF HandledRecords, Interrupted
        <3>7. \A k \in Messages : k < position => k \in HandledRecords \cup Interrupted
            BY <1>5, <3>2
        <3>8. Consumer!Abandon(position)
            BY <1>1, <2>1, <3>1, <3>2, <3>4, <3>5, <3>6, <3>7
               DEF Consumer!Abandon, Consumer!Over, HandledRecords
        <3> QED BY <3>2, <3>8
    <2> QED BY <2>2, <2>3
<1> QED BY <1>3, <1>4, <1>8, <1>9, <1>10, <1>11, <1>12 DEF Next, WorkerStep, Rest, vars, apiVars,
        workerVars, StartWorker, Fetch, CallLost, CallRefused, CallRejected, LinkFails, Retry, Crash

\* The worker keeps the promises of EventConsumer: records are dealt with in the
\* order of the topic, at least once each, and committed only after that; none is
\* given up but the one in hand when the worker is interrupted.
THEOREM ConsumerRefinement == Spec => RefinesConsumer
<1>1. IInv /\ [Next]_vars => [Consumer!ConsumerNext]_(Consumer!consumerVars)
    BY ConsumerStep
<1> QED BY <1>1, Invariance, ConsumerInitially, PTL DEF Spec, RefinesConsumer, Consumer!ConsumerSpec

-----------------------------------------------------------------------------
(* While nothing fails and nobody is hasty, Stripe is at most one event behind *)
(* the table.                                                              *)

\* The customers in use Stripe has for row i.
Owned(st, i) == {s \in StripeIds : st[s] # NoCustomer /\ st[s].row = i /\ st[s].live}

Mirrored(st, row, i) ==
    IF row.active
    THEN Owned(st, i) = {row.stripe} /\ st[row.stripe].name = row.name
    ELSE Owned(st, i) = {}

\* All that Stripe lacks of row i is event e.
Ahead(st, row, i, e) ==
    \/ /\ e.type = "customer_created"
       /\ row.active /\ row.name = e.name /\ Owned(st, i) = {}
    \/ /\ e.type = "customer_updated"
       /\ row.active /\ row.name = e.name /\ row.stripe = e.stripe /\ Owned(st, i) = {e.stripe}
    \/ /\ e.type = "customer_deleted"
       /\ ~row.active /\ Owned(st, i) = {e.stripe}

\* All that row i lacks is its link to customer s.
Unlinked(st, row, i, e, s) ==
    /\ e.type = "customer_created"
    /\ row.active /\ Owned(st, i) = {s} /\ st[s].name = row.name

Newest == log[Len(log)]

Quiet == faults = 0 /\ ~hasty

QuietInv ==
    Quiet =>
        /\ session = "ok" /\ pc \in {"stopped", "idle", "calling", "linking"}
        /\ pc = "stopped" => position = offset
        /\ position + (IF pc \in Busy THEN 0 ELSE 1) >= Len(log)
        /\ \A i \in Present(table) :
               Mirrored(stripe, table[i], i) \/ (Backlog /\ i = Newest.id)
        /\ Backlog =>
               IF pc = "linking"
               THEN ~Taken /\ Unlinked(stripe, table[Newest.id], Newest.id, Newest, fresh)
               ELSE Ahead(stripe, table[Newest.id], Newest.id, Newest)

\* Stripe's customers were created for rows there are, or for no row.
NoStranger ==
    \A s \in StripeIds : stripe[s] # NoCustomer => stripe[s].row \in Present(table) \cup {0}

LEMMA StrangerStep ==
    ASSUME IInv, NoStranger, [Next]_vars
    PROVE  NoStranger'
<1>1. Present(table) \subseteq Present(table')
    BY TopicStep DEF Kept
<1>2. CASE UNCHANGED stripe
    BY <1>1, <1>2 DEF NoStranger
<1>3. ASSUME NEW s \in StripeIds, StripeCall(s), pc = "calling"
      PROVE  NoStranger'
    <2>1. msg \in Message /\ msg.id \in Present(table)
        BY <1>3, InHand DEF Busy
    <2>2. \A q \in StripeIds : stripe[q] # NoCustomer => stripe'[q].row = stripe[q].row
        BY StripeStep
    <2>3. CASE msg.type = "customer_created"
        <3>1. stripe' = [stripe EXCEPT ![s] = [row |-> msg.id, name |-> msg.name, live |-> TRUE]]
            BY <1>3, <2>3 DEF StripeCall
        <3>2. stripe \in [StripeIds -> StripeCustomer \cup {NoCustomer}]
            BY DEF IInv, WorldOK
        <3>3. stripe'[s].row = msg.id /\ \A q \in StripeIds \ {s} : stripe'[q] = stripe[q]
            BY <3>1, <3>2
        <3> QED BY <1>1, <2>1, <3>3 DEF NoStranger
    <2>4. CASE msg.type # "customer_created"
        <3>1. msg.type \in {"customer_updated", "customer_deleted"}
            BY <2>1, <2>4 DEF Message
        <3>2. /\ stripe[s] # NoCustomer
              /\ \/ stripe' = [stripe EXCEPT ![s].name = msg.name]
                 \/ stripe' = [stripe EXCEPT ![s].live = FALSE]
            BY <1>3, <3>1 DEF StripeCall, Live
        <3>3. \A q \in StripeIds : q # s => stripe'[q] = stripe[q]
            BY <3>2 DEF IInv, WorldOK
        <3> QED BY <1>1, <2>2, <3>2, <3>3 DEF NoStranger
    <2> QED BY <2>3, <2>4
<1>4. CASE Api
    BY <1>2, <1>4, ApiRequest DEF Request
<1>5. ASSUME NEW s \in StripeIds, CallOk(s) \/ CallLost(s) PROVE NoStranger'
    BY <1>3, <1>5 DEF CallOk, CallLost
<1> QED BY <1>2, <1>4, <1>5 DEF Next, WorkerStep, Rest, vars, Republish, StartWorker, Fetch,
        CallRefused, CallRejected, LinkRow, LinkFails, Retry, DeadLetter, DeadLetterFails,
        AutoCommit, Reconnect, Crash, Interrupt

\* A row mirrored in Stripe stays so when another row's customer changes.
LEMMA OthersMirrored ==
    ASSUME NEW st \in [StripeIds -> StripeCustomer \cup {NoCustomer}], NEW s \in StripeIds,
           NEW c \in StripeCustomer, NEW i, NEW k, i # k, c.row = i,
           st[s] = NoCustomer \/ st[s].row = i,
           NEW row, Mirrored(st, row, k)
    PROVE  Mirrored([st EXCEPT ![s] = c], row, k)
<1>1. PICK u : u = [st EXCEPT ![s] = c]
    OBVIOUS
<1>2. u[s] = c /\ \A q \in StripeIds \ {s} : u[q] = st[q]
    BY <1>1
<1>3. s \notin Owned(st, k)
    BY DEF Owned
<1>4. Owned(u, k) = Owned(st, k)
    BY <1>2, <1>3 DEF Owned
<1>5. CASE row.active
    <2>1. row.stripe \in Owned(st, k)
        BY <1>5 DEF Mirrored
    <2>2. u[row.stripe] = st[row.stripe]
        BY <1>2, <1>3, <2>1 DEF Owned
    <2> QED BY <1>1, <1>4, <1>5, <2>2 DEF Mirrored
<1>6. CASE ~row.active
    BY <1>1, <1>4, <1>6 DEF Mirrored
<1> QED BY <1>5, <1>6

\* A request that nobody hurries leaves its row one event ahead of Stripe.
LEMMA ApiAhead ==
    ASSUME IInv, NoStranger, QuietInv, Quiet', Api
    PROVE  /\ Quiet /\ ~Backlog
           /\ \E i \in RowIds, new \in Row, message \in Message :
                  /\ Request(i, new, message)
                  /\ Ahead(stripe, new, i, message)
<1>1. PICK i \in RowIds, new \in Row, e \in Message : Request(i, new, e)
    BY ApiRequest
<1>2. Quiet /\ ~Backlog
    <2>1. faults \in Nat /\ faults' = 0 /\ ~hasty'
        BY Numbers DEF Quiet, IInv, WorldOK
    <2>2. faults = 0
        BY <1>1, <2>1 DEF Request, Charged, Fault
    <2>3. ~hasty /\ ~Backlog
        BY <1>1, <2>1 DEF Request
    <2> QED BY <2>2, <2>3 DEF Quiet
<1>3. \A k \in Present(table) : Mirrored(stripe, table[k], k)
    BY <1>2 DEF QuietInv
<1>4. ASSUME i \notin Present(table) PROVE Owned(stripe, i) = {}
    <2>1. i # 0
        BY DEF RowIds
    <2> QED BY <1>4, <2>1 DEF Owned, NoStranger
<1>5. ASSUME i \in Present(table), ~table[i].active PROVE Owned(stripe, i) = {}
    BY <1>3, <1>5 DEF Mirrored
<1>6. ASSUME i \in Present(table), table[i].active PROVE Owned(stripe, i) = {table[i].stripe}
    BY <1>3, <1>6 DEF Mirrored
<1>7. Tells(i, new, e)
    BY <1>1 DEF Request
<1>8. Ahead(stripe, new, i, e)
    <2>1. CASE Created(i, new, e)
        BY <1>4, <1>5, <2>1 DEF Created, Ahead
    <2>2. CASE Updated(i, new, e)
        BY <1>6, <2>2 DEF Updated, Ahead
    <2>3. CASE Deleted(i, new, e)
        BY <1>6, <2>3 DEF Deleted, Ahead
    <2> QED BY <1>7, <2>1, <2>2, <2>3 DEF Tells
<1> QED BY <1>1, <1>2, <1>8

\* The event in hand is the newest, and there is no other.
LEMMA OneInHand ==
    ASSUME IInv, QuietInv, Quiet, pc \in Busy
    PROVE  /\ msg = Newest /\ position = Len(log) /\ msg.id \in Present(table) /\ Backlog
           /\ msg \in Message /\ pc \in {"calling", "linking"} /\ session = "ok"
           /\ pc = "calling" => Ahead(stripe, table[msg.id], msg.id, msg)
           /\ pc = "linking" => ~Taken /\ Unlinked(stripe, table[msg.id], msg.id, msg, fresh)
           /\ \A i \in Present(table) \ {msg.id} : Mirrored(stripe, table[i], i)
<1>1. position \in Nat /\ Len(log) \in Nat /\ position <= Len(log)
    BY LenProperties DEF IInv, CursorOK, TopicOK
<1>2. position = Len(log)
    BY <1>1 DEF QuietInv
<1>3. msg = Newest /\ Backlog
    BY <1>2 DEF msg, Newest, Backlog, Busy
<1> QED BY <1>2, <1>3, InHand DEF QuietInv, Busy

\* The worker is done with the newest event.
LEMMA CaughtUp ==
    ASSUME IInv, QuietInv, Quiet, pc \in Busy,
           pc' = "idle", UNCHANGED <<log, position, session>>,
           Present(table') = Present(table),
           \A i \in Present(table) : Mirrored(stripe', table'[i], i)
    PROVE  QuietInv'
<1>1. position = Len(log) /\ Len(log) \in Nat /\ session = "ok"
    BY OneInHand, LenProperties DEF IInv, TopicOK
<1>2. ~Backlog'
    BY <1>1 DEF Backlog
<1>3. \A i \in Present(table)' : Mirrored(stripe', table'[i], i)
    BY DEF Present
<1>4. position' + 1 >= Len(log')
    BY <1>1
<1> QED BY <1>1, <1>2, <1>3, <1>4 DEF QuietInv, Busy

LEMMA QuietCall ==
    ASSUME IInv, QuietInv, Quiet, NEW s \in StripeIds, CallOk(s)
    PROVE  QuietInv'
<1>1. /\ pc = "calling" /\ StripeCall(s) /\ UNCHANGED <<table, log, position, session>>
      /\ pc' = IF msg.type = "customer_created" THEN "linking" ELSE "idle"
      /\ msg.type = "customer_created" => fresh' = s
    BY DEF CallOk, apiVars, Done
<1>2. PICK i, row : i = msg.id /\ row = table[i]
    OBVIOUS
<1>3. /\ msg = Newest /\ position = Len(log) /\ i \in Present(table) /\ msg \in Message
      /\ session = "ok" /\ Ahead(stripe, row, i, msg)
      /\ \A k \in Present(table) \ {i} : Mirrored(stripe, table[k], k)
    BY <1>1, <1>2, OneInHand DEF Busy
<1>4. stripe \in [StripeIds -> StripeCustomer \cup {NoCustomer}]
    BY DEF IInv, WorldOK
<1>5. ASSUME NEW c \in StripeCustomer, c.row = i, stripe[s] = NoCustomer \/ stripe[s].row = i,
             stripe' = [stripe EXCEPT ![s] = c]
      PROVE  \A k \in Present(table) \ {i} : Mirrored(stripe', table[k], k)
    BY <1>3, <1>4, <1>5, OthersMirrored
<1>6. CASE msg.type = "customer_created"
    <2>1. PICK c : c = [row |-> msg.id, name |-> msg.name, live |-> TRUE]
        OBVIOUS
    <2>2. c \in StripeCustomer /\ c.row = i /\ c.name = msg.name /\ c.live /\ c # NoCustomer
        <3>1. i \in RowIds /\ msg.name \in Names
            BY <1>2, <1>3 DEF Message
        <3>2. c \in StripeCustomer
            BY <1>2, <2>1, <3>1 DEF StripeCustomer
        <3> QED BY <1>2, <2>1, <3>2, NoCustomerAssumption
    <2>3. stripe[s] = NoCustomer /\ stripe' = [stripe EXCEPT ![s] = c]
        BY <1>1, <1>6, <2>1 DEF StripeCall, Unused
    <2>4. \A k \in Present(table) \ {i} : Mirrored(stripe', table[k], k)
        BY <1>5, <2>2, <2>3
    <2>5. stripe'[s] = c /\ \A q \in StripeIds \ {s} : stripe'[q] = stripe[q]
        BY <1>4, <2>3
    <2>6. Owned(stripe, i) = {} /\ row.active /\ row.name = msg.name
        BY <1>3, <1>6 DEF Ahead
    <2>7. Owned(stripe', i) = {s}
        BY <2>2, <2>5, <2>6 DEF Owned
    <2>8. Unlinked(stripe', row, i, msg, s)
        BY <1>6, <2>2, <2>5, <2>6, <2>7 DEF Unlinked
    <2>9. pc' = "linking" /\ fresh' = s /\ Newest' = Newest /\ Present(table)' = Present(table)
        BY <1>1, <1>6 DEF Newest, Present
    <2>10. Backlog' /\ position' + 0 >= Len(log')
        <3>1. Len(log) \in Nat
            BY LenProperties DEF IInv, TopicOK
        <3> QED BY <1>1, <1>3, <2>9, <3>1 DEF Backlog
    <2>11. \A k \in Present(table)' : Mirrored(stripe', table'[k], k) \/ k = Newest'.id
        BY <1>1, <1>2, <1>3, <2>4, <2>9
    <2>12. Unlinked(stripe', table'[Newest'.id], Newest'.id, Newest', fresh')
        BY <1>1, <1>2, <1>3, <2>8, <2>9
    <2>13. ~Taken'
        <3>1. WithStripe(table, s) = {}
            BY <1>1, <1>6, NewLink
        <3> QED BY <1>1, <2>9, <3>1 DEF Taken, WithStripe, Present
    <2> QED BY <1>1, <1>3, <2>9, <2>10, <2>11, <2>12, <2>13 DEF QuietInv, Busy
<1>7. CASE msg.type = "customer_updated"
    <2>1. s = msg.stripe /\ stripe' = [stripe EXCEPT ![s].name = msg.name]
        BY <1>1, <1>7 DEF StripeCall
    <2>2. Owned(stripe, i) = {s} /\ row.active /\ row.name = msg.name /\ row.stripe = s
        BY <1>3, <1>7, <2>1 DEF Ahead
    <2>3. PICK old : old = stripe[s]
        OBVIOUS
    <2>4. PICK c : c = [old EXCEPT !.name = msg.name]
        OBVIOUS
    <2>5. old \in StripeCustomer /\ old.row = i /\ old.live
        <3>1. s \in Owned(stripe, i)
            BY <2>2
        <3> QED BY <1>4, <2>3, <3>1 DEF Owned
    <2>6. msg.name \in Names
        BY <1>3 DEF Message
    <2>7. c \in StripeCustomer /\ c.row = i /\ c.live /\ c.name = msg.name /\ c # NoCustomer
        BY <2>4, <2>5, <2>6, NoCustomerAssumption DEF StripeCustomer
    <2>8. stripe' = [stripe EXCEPT ![s] = c]
        BY <2>1, <2>3, <2>4
    <2>9. stripe'[s] = c /\ \A q \in StripeIds \ {s} : stripe'[q] = stripe[q]
        BY <1>4, <2>8
    <2>10. Owned(stripe', i) = {s}
        BY <2>2, <2>7, <2>9 DEF Owned
    <2>11. Mirrored(stripe', row, i)
        BY <2>2, <2>7, <2>9, <2>10 DEF Mirrored
    <2>12. \A k \in Present(table) \ {i} : Mirrored(stripe', table[k], k)
        BY <1>5, <2>3, <2>5, <2>7, <2>8
    <2>13. \A k \in Present(table) : Mirrored(stripe', table'[k], k)
        BY <1>1, <1>2, <2>11, <2>12
    <2> QED BY <1>1, <1>7, <2>13, CaughtUp DEF Busy
<1>8. CASE msg.type = "customer_deleted"
    <2>1. s = msg.stripe /\ stripe' = [stripe EXCEPT ![s].live = FALSE]
        BY <1>1, <1>8 DEF StripeCall
    <2>2. Owned(stripe, i) = {s} /\ ~row.active
        BY <1>3, <1>8, <2>1 DEF Ahead
    <2>3. PICK old : old = stripe[s]
        OBVIOUS
    <2>4. PICK c : c = [old EXCEPT !.live = FALSE]
        OBVIOUS
    <2>5. old \in StripeCustomer /\ old.row = i
        <3>1. s \in Owned(stripe, i)
            BY <2>2
        <3> QED BY <1>4, <2>3, <3>1 DEF Owned
    <2>6. c \in StripeCustomer /\ c.row = i /\ ~c.live
        BY <2>4, <2>5 DEF StripeCustomer
    <2>7. stripe' = [stripe EXCEPT ![s] = c]
        BY <2>1, <2>3, <2>4
    <2>8. stripe'[s] = c /\ \A q \in StripeIds \ {s} : stripe'[q] = stripe[q]
        BY <1>4, <2>7
    <2>9. Owned(stripe', i) = {}
        BY <2>2, <2>6, <2>8 DEF Owned
    <2>10. Mirrored(stripe', row, i)
        BY <2>2, <2>9 DEF Mirrored
    <2>11. \A k \in Present(table) \ {i} : Mirrored(stripe', table[k], k)
        BY <1>5, <2>3, <2>5, <2>6, <2>7
    <2>12. \A k \in Present(table) : Mirrored(stripe', table'[k], k)
        BY <1>1, <1>2, <2>10, <2>11
    <2> QED BY <1>1, <1>8, <2>12, CaughtUp DEF Busy
<1> QED BY <1>3, <1>6, <1>7, <1>8 DEF Message

LEMMA QuietLink ==
    ASSUME IInv, QuietInv, Quiet, LinkRow
    PROVE  QuietInv'
<1>1. /\ pc = "linking" /\ pc' = "idle" /\ UNCHANGED <<log, position, session, stripe>>
      /\ table' = [table EXCEPT ![msg.id].stripe = fresh]
    BY DEF LinkRow, Done
<1>2. PICK i, row, new : i = msg.id /\ row = table[i] /\ new = [row EXCEPT !.stripe = fresh]
    OBVIOUS
<1>3. /\ i \in Present(table) /\ Unlinked(stripe, row, i, msg, fresh)
      /\ \A k \in Present(table) \ {i} : Mirrored(stripe, table[k], k)
    BY <1>1, <1>2, OneInHand DEF Busy
<1>4. row \in Row /\ fresh \in StripeIds
    BY <1>1, <1>2, <1>3, PresentRow DEF IInv, Sound, WorkerOK
<1>5. new \in Row /\ new.stripe = fresh /\ new.active = row.active /\ new.name = row.name
    BY <1>2, <1>4 DEF Row
<1>6. table' = [table EXCEPT ![i] = new] /\ table \in Tables
    BY <1>1, <1>2 DEF IInv, Sound
<1>7. Present(table') = Present(table) /\ table'[i] = new
      /\ \A k \in Present(table) \ {i} : table'[k] = table[k]
    BY <1>3, <1>5, <1>6, NoRowAssumption DEF Present, Tables
<1>8. Mirrored(stripe, new, i)
    BY <1>3, <1>5 DEF Unlinked, Mirrored
<1>9. \A k \in Present(table) : Mirrored(stripe', table'[k], k)
    BY <1>1, <1>3, <1>7, <1>8
<1> QED BY <1>1, <1>7, <1>9, CaughtUp DEF Busy

LEMMA QuietStep ==
    ASSUME IInv, NoStranger, QuietInv, [Next]_vars
    PROVE  QuietInv'
<1> SUFFICES ASSUME Quiet' PROVE QuietInv'
    BY DEF QuietInv
<1>1. /\ offset \in Nat /\ position \in Nat /\ Len(log) \in Nat /\ faults \in Nat
      /\ offset <= position /\ position <= Len(log)
    BY LenProperties, Numbers DEF IInv, CursorOK, TopicOK, WorldOK
<1>2. ~Fault
    BY <1>1 DEF Fault, Quiet
<1>3. CASE Api
    <2>1. Quiet /\ ~Backlog
        BY <1>3, ApiAhead
    <2>2. PICK i \in RowIds, new \in Row, e \in Message :
              Request(i, new, e) /\ Ahead(stripe, new, i, e)
        BY <1>3, ApiAhead
    <2>3. /\ e.id = i /\ log' = Append(log, e) /\ table' = [table EXCEPT ![i] = new]
          /\ Present(table') = Present(table) \cup {i}
          /\ UNCHANGED <<stripe, offset, position, pc, session>>
        BY <2>2 DEF Request, workerVars
    <2>4. pc \in {"stopped", "idle"} /\ position = Len(log)
        BY <1>1, <2>1 DEF Backlog
    <2>5. Len(log') = Len(log) + 1 /\ Newest' = e
        BY <1>1, <2>3, AppendProperties DEF Newest, IInv, TopicOK
    <2>6. table'[i] = new /\ \A k \in Present(table) \ {i} : table'[k] = table[k]
        BY <2>3 DEF IInv, Sound, Tables, Present
    <2>7. \A k \in Present(table) : Mirrored(stripe, table[k], k)
        BY <2>1 DEF QuietInv
    <2>8. Backlog' /\ position' + 1 >= Len(log')
        BY <1>1, <2>3, <2>4, <2>5 DEF Backlog
    <2>9. Ahead(stripe', table'[Newest'.id], Newest'.id, Newest')
        BY <2>2, <2>3, <2>5, <2>6
    <2>10. \A k \in Present(table)' : Mirrored(stripe', table'[k], k) \/ k = Newest'.id
        BY <2>3, <2>5, <2>6, <2>7 DEF Present
    <2> QED BY <2>1, <2>3, <2>4, <2>8, <2>9, <2>10 DEF QuietInv, Busy
<1>4. CASE StartWorker \/ AutoCommit \/ Fetch
    <2>1. Quiet /\ Newest' = Newest /\ Present(table)' = Present(table)
          /\ UNCHANGED <<table, log, stripe>>
        BY <1>4 DEF StartWorker, AutoCommit, Fetch, Quiet, apiVars, Newest, Present
    <2>2. \/ Backlog' /\ Backlog /\ pc \in {"stopped", "idle"} /\ pc' \in {"idle", "calling"}
          \/ ~Backlog' /\ ~Backlog /\ pc' = "idle"
        BY <1>1, <1>4, <2>1 DEF StartWorker, AutoCommit, Fetch, Backlog, QuietInv
    <2>3. session' = "ok"
        BY <1>4, <2>1 DEF StartWorker, AutoCommit, Fetch, QuietInv
    <2>4. position' + (IF pc' \in Busy THEN 0 ELSE 1) >= Len(log')
        <3>1. CASE StartWorker
            BY <1>1, <2>1, <3>1 DEF StartWorker, QuietInv, Busy
        <3>2. CASE AutoCommit
            BY <1>1, <2>1, <3>2 DEF AutoCommit, QuietInv, Busy
        <3>3. CASE Fetch
            <4>1. position + 1 >= Len(log)
                BY <1>1, <2>1, <3>3 DEF Fetch, QuietInv, Busy
            <4> QED BY <1>1, <2>1, <3>3, <4>1 DEF Fetch, Busy
        <3> QED BY <1>4, <3>1, <3>2, <3>3
    <2> QED BY <2>1, <2>2, <2>3, <2>4 DEF QuietInv
<1>5. ASSUME NEW s \in StripeIds, CallOk(s) PROVE QuietInv'
    <2>1. Quiet
        BY <1>5 DEF CallOk, Quiet, apiVars
    <2> QED BY <1>5, <2>1, QuietCall
<1>6. CASE LinkRow
    <2>1. Quiet
        BY <1>6 DEF LinkRow, Quiet
    <2> QED BY <1>6, <2>1, QuietLink
<1>7. CASE CallRejected
    <2>1. Quiet /\ pc = "calling" /\ msg.type # "customer_created" /\ ~Live(msg.stripe)
        BY <1>7 DEF CallRejected, Quiet, apiVars
    <2>2. Ahead(stripe, table[msg.id], msg.id, msg)
        BY <2>1, OneInHand DEF Busy
    <2>3. msg.stripe \in Owned(stripe, msg.id)
        BY <2>1, <2>2 DEF Ahead
    <2> QED BY <2>1, <2>3 DEF Owned, Live
<1>8. CASE Retry \/ DeadLetter
    <2>1. pc \in {"failed", "giving up"} /\ UNCHANGED <<hasty, faults>>
        BY <1>8 DEF Retry, DeadLetter, apiVars
    <2>2. Quiet
        BY <2>1 DEF Quiet
    <2> QED BY <2>1, <2>2 DEF QuietInv
<1>9. CASE LinkFails
    <2>1. pc = "linking" /\ (session # "ok" \/ Taken) /\ Quiet
        BY <1>2, <1>9 DEF LinkFails, Quiet, apiVars
    <2> QED BY <2>1, OneInHand DEF Busy
<1>10. CASE Rest \/ UNCHANGED vars
    <2>1. UNCHANGED <<table, log, hasty, stripe, offset, position, pc, fresh, session, faults>>
        BY <1>10 DEF Rest, vars, apiVars, workerVars
    <2>2. /\ Quiet /\ Newest' = Newest /\ Present(table)' = Present(table) /\ (Backlog' <=> Backlog)
          /\ Taken' <=> Taken
        BY <2>1 DEF Quiet, Newest, Present, Backlog, Taken, WithStripe, msg
    <2> QED BY <2>1, <2>2 DEF QuietInv
<1> QED BY <1>2, <1>3, <1>4, <1>5, <1>6, <1>7, <1>8, <1>9, <1>10 DEF Next, WorkerStep,
        Republish, CallLost, CallRefused, DeadLetterFails, Reconnect, Crash, Interrupt

LEMMA QuietAlways == Spec => [](IInv /\ NoStranger /\ QuietInv)
<1>1. Init => NoStranger /\ QuietInv
    <2> SUFFICES ASSUME Init PROVE NoStranger /\ QuietInv
        OBVIOUS
    <2>1. NoStranger
        <3>1. \A s \in DOMAIN Foreign : Foreign[s].row = 0
            BY DispatcherAssumption
        <3> QED BY <3>1 DEF Init, NoStranger
    <2>2. Present(table) = {} /\ Len(log) = 0 /\ position = 0 /\ offset = 0 /\ pc = "stopped"
        BY DEF Init, Present, EmptyTable
    <2>3. ~Backlog
        BY <2>2 DEF Backlog
    <2>4. session = "ok"
        BY DEF Init
    <2>5. QuietInv
        BY <2>2, <2>3, <2>4 DEF QuietInv, Busy
    <2> QED BY <2>1, <2>5
<1>2. IInv /\ NoStranger /\ QuietInv /\ [Next]_vars => NoStranger' /\ QuietInv'
    BY StrangerStep, QuietStep
<1> QED BY <1>1, <1>2, InvInit, InvStep, PTL DEF Spec

\* When nothing has failed and each request waited for the events before it, every
\* row is what Stripe has, however many rows, requests and records there were.
THEOREM MirroredWhenQuiet == Spec => []QuietMirror
<1>1. IInv /\ QuietInv => QuietMirror
    <2> SUFFICES ASSUME IInv, QuietInv, Quiet, ~Backlog, NEW i \in Present(table)
                 PROVE  Mirrors(i)
        BY DEF QuietMirror, Quiet
    <2>1. Mirrored(stripe, table[i], i)
        BY DEF QuietInv
    <2>2. Owned(stripe, i) = {s \in CopiesInStripe(i) : Live(s)}
        BY DEF Owned, CopiesInStripe, Live
    <2> QED BY <2>1, <2>2 DEF Mirrors, Mirrored
<1> QED BY <1>1, QuietAlways, PTL

-----------------------------------------------------------------------------
(* How many customers a row can get.  Between two restarts of the consumer a  *)
(* create event is delivered once; it makes one customer if there is no fault, *)
(* and as many as there are attempts if there is one.  p counts what each      *)
(* create event may have made before the last restart.                        *)

Copies(st, i) == {s \in StripeIds : st[s] # NoCustomer /\ st[s].row = i}

CreatesUpTo(lg, i, n) == {m \in 1..n : lg[m].id = i /\ lg[m].type = "customer_created"}

\* Of the copies of row i, which the create event in hand has made.
Creating(i, at, m) == at \in Busy /\ m.id = i /\ m.type = "customer_created"

InHandOf(i, at, m, tried) ==
    IF ~Creating(i, at, m) THEN 0
    ELSE IF at \in {"linking", "failed"} THEN tried + 1 ELSE tried

\* The records dealt with since the restart end here.
Past(at, n) == IF at \in Busy THEN n - 1 ELSE n

\* No fault since the restart, as far as row i is concerned.
Undisturbed(i, at, m, tried, s) ==
    /\ s = "ok"
    /\ Creating(i, at, m) => tried = 0 /\ at \in {"calling", "linking"}

Early(p, f) == p <= f \/ p + 1 <= MaxAttempts * f

\* k copies, c create events, b of them since the restart, h made by the one in
\* hand, f faults: when stopped, without a fault since the restart, and with one.
Resting(k, c, f) == \E p \in Nat : Early(p, f) /\ k <= c * p

Calm(k, c, b, h, f) == \E p \in Nat : Early(p, f) /\ k <= c * p + b + h

Rough(k, c, b, h, f) ==
    \E p \in Nat : p + MaxAttempts <= MaxAttempts * f /\ k <= c * p + MaxAttempts * b + h

\* The next link will be written.
Health == IF session = "ok" /\ ~(pc = "linking" /\ Taken) THEN "ok" ELSE "broken"

CountInv(i) ==
    LET k == Cardinality(Copies(stripe, i))
        c == Cardinality(CreatesUpTo(log, i, Len(log)))
        b == Cardinality(CreatesUpTo(log, i, Past(pc, position)))
        h == InHandOf(i, pc, msg, attempt)
    IN  /\ IsFiniteSet(Copies(stripe, i))
        /\ IF pc = "stopped" THEN Resting(k, c, faults)
           ELSE \/ Calm(k, c, b, h, faults) /\ Undisturbed(i, pc, msg, attempt, Health)
                \/ Rough(k, c, b, h, faults)

\* The products.
LEMMA Times ==
    ASSUME NEW a \in Nat, NEW b \in Nat, NEW c \in Nat, a <= b
    PROVE  /\ c * a \in Nat /\ c * b \in Nat /\ c * a <= c * b
           /\ a * c <= b * c /\ a * c \in Nat /\ b * c \in Nat
<1>1. PICK d \in Nat : b = a + d
    <2>1. b - a \in Nat /\ b = a + (b - a)
        OBVIOUS
    <2> QED BY <2>1
<1>2. c * b = c * a + c * d /\ b * c = a * c + d * c
    BY <1>1
<1>3. c * d \in Nat /\ d * c \in Nat /\ c * a \in Nat /\ a * c \in Nat
    OBVIOUS
<1> QED BY <1>2, <1>3

\* Early is early with more faults, and after another fault and what an
\* undisturbed or a disturbed delivery can have made.
LEMMA EarlyGrows ==
    ASSUME NEW p \in Nat, NEW f \in Nat, NEW g \in Nat
    PROVE  /\ Early(p, f) /\ f <= g => Early(p, g)
           /\ Early(p, f) /\ f + 1 <= g => p + MaxAttempts <= MaxAttempts * g
           /\ Early(p, f) /\ f + 1 <= g => Early(p + 1, g)
           /\ p + MaxAttempts <= MaxAttempts * f /\ f <= g =>
                  p + MaxAttempts <= MaxAttempts * g
           /\ p + MaxAttempts <= MaxAttempts * f /\ f + 1 <= g => Early(p + MaxAttempts, g)
<1>1. MaxAttempts \in Nat /\ MaxAttempts >= 1
    BY Numbers
<1>2. PICK x, y, z : x = MaxAttempts * f /\ y = MaxAttempts * g /\ z = MaxAttempts * (f + 1)
    OBVIOUS
<1>3. x \in Nat /\ y \in Nat /\ z \in Nat /\ f <= x
    <2>1. x \in Nat /\ y \in Nat /\ z \in Nat
        BY <1>1, <1>2
    <2>2. 1 * f <= MaxAttempts * f
        BY <1>1, Times
    <2> QED BY <1>2, <2>1, <2>2
<1>4. f <= g => x <= y
    BY <1>1, <1>2, Times
<1>5. f + 1 <= g => z <= y
    BY <1>1, <1>2, Times
<1>6. z = x + MaxAttempts
    BY <1>1, <1>2
<1>7. Early(p, f) <=> p <= f \/ p + 1 <= x
    BY <1>2 DEF Early
<1>8. \A q : Early(q, g) <=> q <= g \/ q + 1 <= y
    BY <1>2 DEF Early
<1>9. Early(p, f) /\ f <= g => Early(p, g)
    BY <1>1, <1>3, <1>4, <1>7, <1>8
<1>10. Early(p, f) /\ f + 1 <= g => p + MaxAttempts <= y
    BY <1>1, <1>3, <1>5, <1>6, <1>7
<1>11. Early(p, f) /\ f + 1 <= g => Early(p + 1, g)
    BY <1>1, <1>3, <1>5, <1>6, <1>7, <1>8
<1>12. p + MaxAttempts <= x /\ f <= g => p + MaxAttempts <= y
    BY <1>1, <1>3, <1>4
<1>13. p + MaxAttempts <= x /\ f + 1 <= g => Early(p + MaxAttempts, g)
    BY <1>1, <1>3, <1>5, <1>6, <1>8
<1> QED BY <1>2, <1>9, <1>10, <1>11, <1>12, <1>13

\* One step of a delivery: h goes up with k, or the event is over and b goes up.
Step(k, b, h, l, e, j, w) ==
    \/ e = b /\ l + h <= k + j
    \/ e = b + 1 /\ l <= k /\ h <= w

Onward(k, c, b, h, f, l, d, e, j, g, w) ==
    c <= d /\ f <= g /\ Step(k, b, h, l, e, j, w)

LEMMA CalmGoesOn ==
    ASSUME NEW k, NEW c, NEW b, NEW h, NEW f, NEW l, NEW d, NEW e, NEW j, NEW g,
           k \in Nat, c \in Nat, b \in Nat, h \in Nat, f \in Nat,
           l \in Nat, d \in Nat, e \in Nat, j \in Nat, g \in Nat,
           Calm(k, c, b, h, f), Onward(k, c, b, h, f, l, d, e, j, g, 1)
    PROVE  /\ Calm(l, d, e, j, g)
           /\ f + 1 <= g => Rough(l, d, e, j, g)
<1>1. PICK p \in Nat : Early(p, f) /\ k <= c * p + b + h
    BY DEF Calm
<1>2. PICK x, y : x = c * p /\ y = d * p
    OBVIOUS
<1>3. x \in Nat /\ y \in Nat /\ x <= y
    BY <1>2, Times DEF Onward
<1>4. l <= y + e + j
    BY <1>1, <1>2, <1>3 DEF Onward, Step
<1>5. Calm(l, d, e, j, g)
    BY <1>1, <1>2, <1>4, EarlyGrows DEF Onward, Calm
<1>6. f + 1 <= g => Rough(l, d, e, j, g)
    <2>1. PICK z : z = MaxAttempts * e
        OBVIOUS
    <2>2. z \in Nat /\ e <= z
        <3>1. MaxAttempts \in Nat /\ 1 <= MaxAttempts
            BY Numbers
        <3>2. 1 * e <= MaxAttempts * e /\ MaxAttempts * e \in Nat
            BY <3>1, Times
        <3> QED BY <2>1, <3>2
    <2>3. l <= y + z + j
        BY <1>3, <1>4, <2>2
    <2>4. f + 1 <= g => p + MaxAttempts <= MaxAttempts * g
        BY <1>1, EarlyGrows
    <2> QED BY <1>2, <2>1, <2>3, <2>4 DEF Rough
<1> QED BY <1>5, <1>6

LEMMA RoughGoesOn ==
    ASSUME NEW k, NEW c, NEW b, NEW h, NEW f, NEW l, NEW d, NEW e, NEW j, NEW g,
           k \in Nat, c \in Nat, b \in Nat, h \in Nat, f \in Nat,
           l \in Nat, d \in Nat, e \in Nat, j \in Nat, g \in Nat,
           Rough(k, c, b, h, f), Onward(k, c, b, h, f, l, d, e, j, g, MaxAttempts)
    PROVE  Rough(l, d, e, j, g)
<1>1. PICK p \in Nat : /\ p + MaxAttempts <= MaxAttempts * f
                       /\ k <= c * p + MaxAttempts * b + h
    BY DEF Rough
<1>2. PICK x, y, u, v : x = c * p /\ y = d * p /\ u = MaxAttempts * b /\ v = MaxAttempts * e
    OBVIOUS
<1>3. x \in Nat /\ y \in Nat /\ x <= y
    BY <1>2, Times DEF Onward
<1>4. u \in Nat /\ v \in Nat /\ MaxAttempts \in Nat /\ (e = b => v = u)
      /\ (e = b + 1 => v = u + MaxAttempts)
    BY <1>2, Numbers
<1>5. l <= y + v + j
    BY <1>1, <1>2, <1>3, <1>4 DEF Onward, Step
<1>6. p + MaxAttempts <= MaxAttempts * g
    BY <1>1, EarlyGrows DEF Onward
<1> QED BY <1>2, <1>5, <1>6 DEF Rough

\* What all create events together have made, the one in hand included.
LEMMA InTotal ==
    ASSUME NEW k \in Nat, NEW c \in Nat, NEW b \in Nat, NEW h \in Nat, NEW f \in Nat,
           NEW w \in {1, MaxAttempts}, (h = 0 /\ b <= c) \/ (h <= w /\ b + 1 <= c),
           \/ w = 1 /\ Calm(k, c, b, h, f)
           \/ w = MaxAttempts /\ Rough(k, c, b, h, f)
    PROVE  \E q \in Nat : k <= c * q /\ Early(q, f + 1) /\ (q <= f + 1 \/ q <= MaxAttempts * f)
<1>1. PICK p \in Nat : /\ k <= c * p + w * b + h
                       /\ Early(p + w, f + 1) /\ (p + w <= f + 1 \/ p + w <= MaxAttempts * f)
    <2>1. CASE w = 1 /\ Calm(k, c, b, h, f)
        <3>1. PICK p \in Nat : Early(p, f) /\ k <= c * p + b + h
            BY <2>1 DEF Calm
        <3>2. Early(p + 1, f + 1)
            BY <3>1, EarlyGrows
        <3>3. p + 1 <= f + 1 \/ p + 1 <= MaxAttempts * f
            BY <3>1 DEF Early
        <3> QED BY <2>1, <3>1, <3>2, <3>3
    <2>2. CASE w = MaxAttempts /\ Rough(k, c, b, h, f)
        <3>1. PICK p \in Nat : /\ p + MaxAttempts <= MaxAttempts * f
                               /\ k <= c * p + MaxAttempts * b + h
            BY <2>2 DEF Rough
        <3>2. Early(p + MaxAttempts, f + 1)
            BY <3>1, EarlyGrows
        <3> QED BY <2>2, <3>1, <3>2
    <2> QED BY <2>1, <2>2
<1>2. w \in Nat
    BY Numbers
<1>3. PICK x, y, z : x = c * p /\ y = w * b /\ z = c * w
    OBVIOUS
<1>4. x \in Nat /\ y \in Nat /\ z \in Nat /\ c * (p + w) = x + z
    BY <1>2, <1>3
<1>5. y + h <= z
    <2>1. CASE h = 0 /\ b <= c
        <3>1. w * b <= w * c /\ w * c = c * w
            BY <1>2, <2>1, Times
        <3> QED BY <1>3, <1>4, <2>1, <3>1
    <2>2. CASE h <= w /\ b + 1 <= c
        <3>1. w * (b + 1) <= w * c /\ w * c = c * w /\ w * (b + 1) = w * b + w
            BY <1>2, <2>2, Times
        <3> QED BY <1>2, <1>3, <1>4, <2>2, <3>1
    <2> QED BY <2>1, <2>2
<1>6. k <= c * (p + w)
    BY <1>1, <1>3, <1>4, <1>5
<1>7. p + w \in Nat
    BY <1>2
<1> QED BY <1>1, <1>6, <1>7

\* A restart: all that has been delivered may come again.
LEMMA Restarts ==
    ASSUME NEW k \in Nat, NEW c \in Nat, NEW b \in Nat, NEW h \in Nat, NEW f \in Nat,
           NEW w \in {1, MaxAttempts}, (h = 0 /\ b <= c) \/ (h <= w /\ b + 1 <= c),
           \/ w = 1 /\ Calm(k, c, b, h, f)
           \/ w = MaxAttempts /\ Rough(k, c, b, h, f)
    PROVE  Resting(k, c, f + 1)
<1>1. \E q \in Nat : k <= c * q /\ Early(q, f + 1) /\ (q <= f + 1 \/ q <= MaxAttempts * f)
    BY InTotal
<1> QED BY <1>1 DEF Resting

\* The bound of BoundedCopies.
LEMMA WithinBounds ==
    ASSUME NEW k \in Nat, NEW c \in Nat, NEW f \in Nat, NEW q \in Nat, k <= c * q,
           q <= f + 1 \/ q <= MaxAttempts * f
    PROVE  k <= c * (1 + f) \/ k <= c * MaxAttempts * f
<1>1. PICK m \in Nat : m = MaxAttempts * f /\ c * m = c * MaxAttempts * f
    BY Numbers
<1>2. CASE q <= f + 1
    <2>1. c * q \in Nat /\ c * (1 + f) \in Nat /\ c * q <= c * (1 + f)
        BY <1>2, Times
    <2> QED BY <2>1
<1>3. CASE q <= m
    <2>1. c * q \in Nat /\ c * m \in Nat /\ c * q <= c * m
        BY <1>3, Times
    <2> QED BY <1>1, <2>1
<1> QED BY <1>1, <1>2, <1>3

LEMMA CreatesCounted ==
    ASSUME NEW lg, NEW i, NEW n \in Nat
    PROVE  /\ IsFiniteSet(CreatesUpTo(lg, i, n)) /\ Cardinality(CreatesUpTo(lg, i, n)) \in Nat
           /\ \A m \in Nat : m <= n =>
                  Cardinality(CreatesUpTo(lg, i, m)) <= Cardinality(CreatesUpTo(lg, i, n))
           /\ \A m \in Nat : n = m + 1 =>
                  Cardinality(CreatesUpTo(lg, i, n)) =
                      Cardinality(CreatesUpTo(lg, i, m)) +
                          IF lg[n].id = i /\ lg[n].type = "customer_created" THEN 1 ELSE 0
<1>1. ASSUME NEW m \in Nat
      PROVE  IsFiniteSet(CreatesUpTo(lg, i, m)) /\ Cardinality(CreatesUpTo(lg, i, m)) \in Nat
    <2>1. IsFiniteSet(1..m)
        BY FS_Interval
    <2>2. CreatesUpTo(lg, i, m) \subseteq 1..m
        BY DEF CreatesUpTo
    <2>3. IsFiniteSet(CreatesUpTo(lg, i, m))
        BY <2>1, <2>2, FS_Subset
    <2> QED BY <2>3, FS_CardinalityType
<1>2. ASSUME NEW m \in Nat, m <= n
      PROVE  Cardinality(CreatesUpTo(lg, i, m)) <= Cardinality(CreatesUpTo(lg, i, n))
    <2>1. CreatesUpTo(lg, i, m) \subseteq CreatesUpTo(lg, i, n)
        BY <1>2 DEF CreatesUpTo
    <2> QED BY <1>1, <2>1, FS_Subset
<1>3. ASSUME NEW m \in Nat, n = m + 1
      PROVE  Cardinality(CreatesUpTo(lg, i, n)) =
                 Cardinality(CreatesUpTo(lg, i, m)) +
                     IF lg[n].id = i /\ lg[n].type = "customer_created" THEN 1 ELSE 0
    <2>1. n \notin CreatesUpTo(lg, i, m) /\ 1..n = 1..m \cup {n}
        BY <1>3 DEF CreatesUpTo
    <2>2. CASE lg[n].id = i /\ lg[n].type = "customer_created"
        <3>1. CreatesUpTo(lg, i, n) = CreatesUpTo(lg, i, m) \cup {n}
            BY <2>1, <2>2 DEF CreatesUpTo
        <3>2. Cardinality(CreatesUpTo(lg, i, m) \cup {n}) = Cardinality(CreatesUpTo(lg, i, m)) + 1
            BY <1>1, <2>1, FS_AddElement
        <3> QED BY <2>2, <3>1, <3>2
    <2>3. CASE ~(lg[n].id = i /\ lg[n].type = "customer_created")
        <3>1. CreatesUpTo(lg, i, n) = CreatesUpTo(lg, i, m)
            BY <2>1, <2>3 DEF CreatesUpTo
        <3> QED BY <1>1, <2>3, <3>1
    <2> QED BY <2>2, <2>3
<1> QED BY <1>1, <1>2, <1>3

\* What is counted.
LEMMA Tallies ==
    ASSUME IInv, NEW i, IsFiniteSet(Copies(stripe, i))
    PROVE  /\ Cardinality(Copies(stripe, i)) \in Nat
           /\ Cardinality(CreatesUpTo(log, i, Len(log))) \in Nat
           /\ Cardinality(CreatesUpTo(log, i, Past(pc, position))) \in Nat
           /\ InHandOf(i, pc, msg, attempt) \in Nat
           /\ InHandOf(i, pc, msg, attempt) <= MaxAttempts
           /\ Undisturbed(i, pc, msg, attempt, Health) => InHandOf(i, pc, msg, attempt) <= 1
           /\ Cardinality(CreatesUpTo(log, i, Past(pc, position)))
                  + (IF Creating(i, pc, msg) THEN 1 ELSE 0)
              <= Cardinality(CreatesUpTo(log, i, Len(log)))
           /\ pc \in Busy =>
                  /\ position >= 1
                  /\ Cardinality(CreatesUpTo(log, i, position)) =
                         Cardinality(CreatesUpTo(log, i, Past(pc, position)))
                             + (IF Creating(i, pc, msg) THEN 1 ELSE 0)
           /\ ~Creating(i, pc, msg) => InHandOf(i, pc, msg, attempt) = 0
<1>1. /\ position \in Nat /\ Len(log) \in Nat /\ position <= Len(log)
      /\ attempt \in 0..MaxAttempts /\ MaxAttempts \in Nat
      /\ pc \in {"linking", "failed"} => attempt < MaxAttempts
      /\ pc \in Busy => position >= 1
    BY LenProperties, Numbers DEF IInv, CursorOK, TopicOK, WorkerOK, InOrder, Messages
<1>2. Past(pc, position) \in Nat /\ Past(pc, position) <= Len(log)
    BY <1>1 DEF Past
<1>3. Cardinality(Copies(stripe, i)) \in Nat
    BY FS_CardinalityType
<1>4. /\ Cardinality(CreatesUpTo(log, i, Len(log))) \in Nat
      /\ Cardinality(CreatesUpTo(log, i, Past(pc, position))) \in Nat
    BY <1>1, <1>2, CreatesCounted
<1>5. /\ InHandOf(i, pc, msg, attempt) \in Nat /\ InHandOf(i, pc, msg, attempt) <= MaxAttempts
      /\ Undisturbed(i, pc, msg, attempt, Health) => InHandOf(i, pc, msg, attempt) <= 1
      /\ ~Creating(i, pc, msg) => InHandOf(i, pc, msg, attempt) = 0
    BY <1>1 DEF InHandOf, Undisturbed
<1>6. CASE pc \in Busy
    <2>1. position = Past(pc, position) + 1 /\ (Creating(i, pc, msg) <=>
              log[position].id = i /\ log[position].type = "customer_created")
        BY <1>1, <1>6 DEF Past, Creating, msg
    <2>2. Cardinality(CreatesUpTo(log, i, position)) =
              Cardinality(CreatesUpTo(log, i, Past(pc, position)))
                  + (IF Creating(i, pc, msg) THEN 1 ELSE 0)
        BY <1>1, <1>2, <2>1, CreatesCounted
    <2>3. Cardinality(CreatesUpTo(log, i, position)) <= Cardinality(CreatesUpTo(log, i, Len(log)))
        BY <1>1, CreatesCounted
    <2> QED BY <1>1, <1>3, <1>4, <1>5, <2>2, <2>3
<1>7. CASE pc \notin Busy
    <2>1. ~Creating(i, pc, msg)
        BY <1>7 DEF Creating
    <2>2. Cardinality(CreatesUpTo(log, i, Past(pc, position)))
              <= Cardinality(CreatesUpTo(log, i, Len(log)))
        BY <1>1, <1>2, CreatesCounted
    <2> QED BY <1>3, <1>4, <1>5, <1>7, <2>1, <2>2
<1> QED BY <1>6, <1>7

\* A call makes at most one copy, and none but for the event in hand.
LEMMA CallCopies ==
    ASSUME IInv, NEW s \in StripeIds, pc = "calling", StripeCall(s), NEW i,
           IsFiniteSet(Copies(stripe, i))
    PROVE  /\ IsFiniteSet(Copies(stripe', i))
           /\ Cardinality(Copies(stripe', i)) <=
                  Cardinality(Copies(stripe, i)) + (IF Creating(i, pc, msg) THEN 1 ELSE 0)
<1>1. msg \in Message /\ stripe \in [StripeIds -> StripeCustomer \cup {NoCustomer}]
    BY InHand DEF Busy, IInv, WorldOK
<1>2. Cardinality(Copies(stripe, i)) \in Nat
    BY FS_CardinalityType
<1>3. CASE msg.type = "customer_created"
    <2>1. PICK c : c = [row |-> msg.id, name |-> msg.name, live |-> TRUE]
        OBVIOUS
    <2>2. c.row = msg.id /\ stripe[s] = NoCustomer /\ stripe' = [stripe EXCEPT ![s] = c]
        BY <1>3, <2>1 DEF StripeCall, Unused
    <2>3. c # NoCustomer
        <3>1. c \in StripeCustomer
            BY <1>1, <2>1 DEF StripeCustomer, Message
        <3> QED BY <3>1, NoCustomerAssumption
    <2>4. stripe'[s] = c /\ \A q \in StripeIds \ {s} : stripe'[q] = stripe[q]
        BY <1>1, <2>2
    <2>5. s \notin Copies(stripe, i)
        BY <2>2 DEF Copies
    <2>6. CASE msg.id = i
        <3>1. Copies(stripe', i) = Copies(stripe, i) \cup {s}
            BY <2>2, <2>3, <2>4, <2>6 DEF Copies
        <3>2. /\ IsFiniteSet(Copies(stripe, i) \cup {s})
              /\ Cardinality(Copies(stripe, i) \cup {s}) = Cardinality(Copies(stripe, i)) + 1
            BY <2>5, FS_AddElement
        <3>3. Creating(i, pc, msg)
            BY <1>3, <2>6 DEF Creating, Busy
        <3> QED BY <1>2, <3>1, <3>2, <3>3
    <2>7. CASE msg.id # i
        <3>1. Copies(stripe', i) = Copies(stripe, i)
            BY <2>2, <2>4, <2>7 DEF Copies
        <3> QED BY <1>2, <3>1
    <2> QED BY <2>6, <2>7
<1>4. CASE msg.type \in {"customer_updated", "customer_deleted"}
    <2>1. /\ stripe[s] # NoCustomer
          /\ \/ stripe' = [stripe EXCEPT ![s].name = msg.name]
             \/ stripe' = [stripe EXCEPT ![s].live = FALSE]
        BY <1>4 DEF StripeCall, Live
    <2>2. \A q \in StripeIds \ {s} : stripe'[q] = stripe[q]
        BY <1>1, <2>1
    <2>3. stripe'[s] # NoCustomer /\ stripe'[s].row = stripe[s].row
        <3>2. PICK old : old = stripe[s] /\ old \in StripeCustomer
            BY <1>1, <2>1
        <3>3. /\ [old EXCEPT !.name = msg.name] \in StripeCustomer
              /\ [old EXCEPT !.name = msg.name].row = old.row
              /\ [old EXCEPT !.live = FALSE] \in StripeCustomer
              /\ [old EXCEPT !.live = FALSE].row = old.row
            BY <1>1, <3>2 DEF StripeCustomer, Message
        <3>4. stripe'[s] \in {[old EXCEPT !.name = msg.name], [old EXCEPT !.live = FALSE]}
            BY <1>1, <2>1, <3>2
        <3> QED BY <3>2, <3>3, <3>4, NoCustomerAssumption
    <2>4. Copies(stripe', i) = Copies(stripe, i)
        BY <2>1, <2>2, <2>3 DEF Copies
    <2> QED BY <1>2, <2>4
<1> QED BY <1>1, <1>3, <1>4 DEF Message

LEMMA RestingGoesOn ==
    ASSUME NEW k \in Nat, NEW c \in Nat, NEW f \in Nat, NEW d \in Nat, NEW g \in Nat,
           Resting(k, c, f), c <= d, f <= g
    PROVE  Resting(k, d, g) /\ \A e, j \in Nat : Calm(k, d, e, j, g)
<1>1. PICK p \in Nat : Early(p, f) /\ k <= c * p
    BY DEF Resting
<1>2. c * p \in Nat /\ d * p \in Nat /\ c * p <= d * p
    BY Times
<1>3. Early(p, g) /\ k <= d * p
    BY <1>1, <1>2, EarlyGrows
<1>4. \A e, j \in Nat : k <= d * p + e + j
    BY <1>2, <1>3
<1> QED BY <1>3, <1>4 DEF Resting, Calm

\* A step that does not restart the consumer.
LEMMA CountGoesOn ==
    ASSUME NEW k, NEW c, NEW b, NEW h, NEW f, NEW l, NEW d, NEW e, NEW j, NEW g,
           k \in Nat, c \in Nat, b \in Nat, h \in Nat, f \in Nat,
           l \in Nat, d \in Nat, e \in Nat, j \in Nat, g \in Nat,
           NEW before \in BOOLEAN, NEW after \in BOOLEAN,
           (Calm(k, c, b, h, f) /\ before) \/ Rough(k, c, b, h, f),
           Onward(k, c, b, h, f, l, d, e, j, g, MaxAttempts),
           before => Onward(k, c, b, h, f, l, d, e, j, g, 1) /\ (after \/ f + 1 <= g)
    PROVE  (Calm(l, d, e, j, g) /\ after) \/ Rough(l, d, e, j, g)
<1>1. CASE Calm(k, c, b, h, f) /\ before
    <2>1. Onward(k, c, b, h, f, l, d, e, j, g, 1)
        BY <1>1
    <2>2. Calm(l, d, e, j, g) /\ (f + 1 <= g => Rough(l, d, e, j, g))
        BY <1>1, <2>1, CalmGoesOn
    <2> QED BY <1>1, <2>2
<1>2. CASE Rough(k, c, b, h, f)
    BY <1>2, RoughGoesOn
<1> QED BY <1>1, <1>2

\* A restart.
LEMMA CountRestarts ==
    ASSUME IInv, NEW i, CountInv(i), pc # "stopped"
    PROVE  Resting(Cardinality(Copies(stripe, i)), Cardinality(CreatesUpTo(log, i, Len(log))),
                   faults + 1)
<1>1. PICK k, c, b, h, f : /\ k = Cardinality(Copies(stripe, i))
                           /\ c = Cardinality(CreatesUpTo(log, i, Len(log)))
                           /\ b = Cardinality(CreatesUpTo(log, i, Past(pc, position)))
                           /\ h = InHandOf(i, pc, msg, attempt) /\ f = faults
    OBVIOUS
<1>2. IsFiniteSet(Copies(stripe, i))
    BY DEF CountInv
<1>3. /\ k \in Nat /\ c \in Nat /\ b \in Nat /\ h \in Nat /\ f \in Nat /\ h <= MaxAttempts
      /\ Undisturbed(i, pc, msg, attempt, Health) => h <= 1
      /\ (h = 0 /\ b <= c) \/ b + 1 <= c
    <2>1. f \in Nat
        BY <1>1, Numbers DEF IInv, WorldOK
    <2> QED BY <1>1, <1>2, <2>1, Tallies
<1>4. CASE Calm(k, c, b, h, f) /\ Undisturbed(i, pc, msg, attempt, Health)
    <2>1. (h = 0 /\ b <= c) \/ (h <= 1 /\ b + 1 <= c)
        BY <1>3, <1>4
    <2>2. PICK w \in {1, MaxAttempts} : w = 1
        OBVIOUS
    <2>3. Resting(k, c, f + 1)
        BY <1>3, <1>4, <2>1, <2>2, Restarts
    <2> QED BY <1>1, <2>3
<1>5. CASE Rough(k, c, b, h, f)
    <2>1. (h = 0 /\ b <= c) \/ (h <= MaxAttempts /\ b + 1 <= c)
        BY <1>3
    <2>2. PICK w \in {1, MaxAttempts} : w = MaxAttempts
        OBVIOUS
    <2>3. Resting(k, c, f + 1)
        BY <1>3, <1>5, <2>1, <2>2, Restarts
    <2> QED BY <1>1, <2>3
<1> QED BY <1>1, <1>4, <1>5 DEF CountInv

\* What is counted, after a step.
LEMMA TalliesAfter ==
    ASSUME IInv', NEW i, IsFiniteSet(Copies(stripe', i))
    PROVE  /\ Cardinality(Copies(stripe', i)) \in Nat
           /\ Cardinality(CreatesUpTo(log', i, Len(log'))) \in Nat
           /\ Cardinality(CreatesUpTo(log', i, Past(pc', position'))) \in Nat
           /\ InHandOf(i, pc', msg', attempt') \in Nat
           /\ faults' \in Nat
<1>1. PICK lg, at, n, m, tried, f, len :
          /\ lg = log' /\ at = pc' /\ n = position' /\ m = msg' /\ tried = attempt' /\ f = faults'
          /\ len = Len(log')
    OBVIOUS
<1>2. f \in Nat /\ len \in Nat /\ n \in Nat /\ tried \in Nat /\ (at \in Busy => n >= 1)
    <2>1. faults' \in 0..MaxFaults
        BY DEF IInv, WorldOK
    <2>2. log' \in Seq(Message) /\ position' \in Nat
        BY DEF IInv, TopicOK, CursorOK
    <2>3. attempt' \in 0..MaxAttempts
        BY DEF IInv, WorkerOK
    <2>4. pc' \in Busy => position' \in Messages
        BY DEF IInv, InOrder
    <2> QED BY <1>1, <2>1, <2>2, <2>3, <2>4, LenProperties, Numbers DEF Messages
<1>3. Past(at, n) \in Nat
    BY <1>2 DEF Past
<1>4. InHandOf(i, at, m, tried) \in Nat
    BY <1>2 DEF InHandOf
<1>5. /\ Cardinality(CreatesUpTo(lg, i, len)) \in Nat
      /\ Cardinality(CreatesUpTo(lg, i, Past(at, n))) \in Nat
    BY <1>2, <1>3, CreatesCounted
<1> QED BY <1>1, <1>2, <1>4, <1>5, FS_CardinalityType

\* The step of the delivery that an action takes.
Moves(i, w) ==
    Step(Cardinality(Copies(stripe, i)), Cardinality(CreatesUpTo(log, i, Past(pc, position))),
         InHandOf(i, pc, msg, attempt),
         Cardinality(Copies(stripe', i)), Cardinality(CreatesUpTo(log', i, Past(pc', position'))),
         InHandOf(i, pc', msg', attempt'), w)

LEMMA CreatesGrow ==
    ASSUME IInv, [Next]_vars, NEW i
    PROVE  /\ Cardinality(CreatesUpTo(log, i, Len(log)))
                  <= Cardinality(CreatesUpTo(log', i, Len(log')))
           /\ \A n \in 0..Len(log) : CreatesUpTo(log', i, n) = CreatesUpTo(log, i, n)
           /\ pc \in Busy /\ position' = position => msg' = msg
<1>1. PICK lg, lh, m, n : lg = log /\ lh = log' /\ m = Len(log) /\ n = Len(log')
    OBVIOUS
<1>2. m \in Nat /\ n \in Nat /\ m <= n /\ \A k \in 1..m : lh[k] = lg[k]
    <2>1. log \in Seq(Message) /\ log' \in Seq(Message)
        BY TopicStep DEF IInv, TopicOK
    <2> QED BY <1>1, <2>1, LenProperties, TopicStep DEF Kept
<1>3. \A q \in 0..m : CreatesUpTo(lh, i, q) = CreatesUpTo(lg, i, q)
    BY <1>2 DEF CreatesUpTo
<1>4. Cardinality(CreatesUpTo(lg, i, m)) <= Cardinality(CreatesUpTo(lh, i, n))
    <2>1. Cardinality(CreatesUpTo(lh, i, m)) <= Cardinality(CreatesUpTo(lh, i, n))
        BY <1>2, CreatesCounted
    <2> QED BY <1>2, <1>3, <2>1
<1>5. pc \in Busy /\ position' = position => msg' = msg
    <2>1. pc \in Busy => position \in 1..m
        BY <1>1, <1>2, Numbers DEF IInv, CursorOK, InOrder, Messages
    <2> QED BY <1>1, <1>2, <2>1 DEF msg
<1> QED BY <1>1, <1>3, <1>4, <1>5

\* A running consumer that goes on.
LEMMA Moved ==
    ASSUME IInv, IInv', [Next]_vars, NEW i, CountInv(i), IsFiniteSet(Copies(stripe', i)),
           pc # "stopped", pc' # "stopped", faults <= faults', Moves(i, MaxAttempts),
           Undisturbed(i, pc, msg, attempt, Health) =>
               /\ Moves(i, 1)
               /\ Undisturbed(i, pc', msg', attempt', Health') \/ faults + 1 <= faults'
    PROVE  CountInv(i)'
<1>1. PICK k, c, b, h, f : /\ k = Cardinality(Copies(stripe, i))
                           /\ c = Cardinality(CreatesUpTo(log, i, Len(log)))
                           /\ b = Cardinality(CreatesUpTo(log, i, Past(pc, position)))
                           /\ h = InHandOf(i, pc, msg, attempt) /\ f = faults
    OBVIOUS
<1>2. PICK l, d, e, j, g : /\ l = Cardinality(Copies(stripe', i))
                           /\ d = Cardinality(CreatesUpTo(log', i, Len(log')))
                           /\ e = Cardinality(CreatesUpTo(log', i, Past(pc', position')))
                           /\ j = InHandOf(i, pc', msg', attempt') /\ g = faults'
    OBVIOUS
<1>3. PICK before \in BOOLEAN, after \in BOOLEAN :
          /\ before <=> Undisturbed(i, pc, msg, attempt, Health)
          /\ after <=> Undisturbed(i, pc', msg', attempt', Health')
    BY DEF Undisturbed
<1>4. k \in Nat /\ c \in Nat /\ b \in Nat /\ h \in Nat /\ f \in Nat
    <2>1. IsFiniteSet(Copies(stripe, i)) /\ faults \in Nat
        BY Numbers DEF CountInv, IInv, WorldOK
    <2> QED BY <1>1, <2>1, Tallies
<1>5. l \in Nat /\ d \in Nat /\ e \in Nat /\ j \in Nat /\ g \in Nat
    BY <1>2, TalliesAfter
<1>6. c <= d /\ f <= g
    BY <1>1, <1>2, CreatesGrow
<1>7. Onward(k, c, b, h, f, l, d, e, j, g, MaxAttempts)
    BY <1>1, <1>2, <1>6 DEF Onward, Moves
<1>8. before => Onward(k, c, b, h, f, l, d, e, j, g, 1) /\ (after \/ f + 1 <= g)
    BY <1>1, <1>2, <1>3, <1>6 DEF Onward, Moves
<1>9. (Calm(k, c, b, h, f) /\ before) \/ Rough(k, c, b, h, f)
    BY <1>1, <1>3 DEF CountInv
<1>10. (Calm(l, d, e, j, g) /\ after) \/ Rough(l, d, e, j, g)
    BY <1>4, <1>5, <1>7, <1>8, <1>9, CountGoesOn
<1> QED BY <1>2, <1>3, <1>10 DEF CountInv

\* What the worker does with the event in hand, which stays in hand: no more copies
\* than the event is charged with.
LEMMA MovesInHand ==
    ASSUME IInv, IInv', [Next]_vars, NEW i, CountInv(i), pc \in Busy, pc' \in Busy, position' = position,
           IsFiniteSet(Copies(stripe', i)),
           Cardinality(Copies(stripe', i)) + InHandOf(i, pc, msg, attempt)
               <= Cardinality(Copies(stripe, i)) + InHandOf(i, pc', msg, attempt'),
           NEW w
    PROVE  Moves(i, w)
<1>1. msg' = msg /\ position \in 1..Len(log)
    BY CreatesGrow, LenProperties DEF IInv, CursorOK, InOrder, Messages, TopicOK
<1>2. PICK n : n = position - 1 /\ n \in 0..Len(log)
    BY <1>1, LenProperties DEF IInv, TopicOK
<1>3. Past(pc, position) = n /\ Past(pc', position') = n
    BY <1>2 DEF Past
<1>4. CreatesUpTo(log', i, n) = CreatesUpTo(log, i, n)
    BY <1>2, CreatesGrow
<1> QED BY <1>1, <1>3, <1>4 DEF Moves, Step

\* The event in hand is over.
LEMMA MovesOn ==
    ASSUME IInv, IInv', [Next]_vars, NEW i, CountInv(i), pc \in Busy, pc' = "idle",
           UNCHANGED <<log, position>>, IsFiniteSet(Copies(stripe', i)),
           Cardinality(Copies(stripe', i)) <= Cardinality(Copies(stripe, i))
    PROVE  /\ Moves(i, MaxAttempts)
           /\ Undisturbed(i, pc, msg, attempt, Health) => Moves(i, 1)
<1>1. PICK k, l, b, h, e, u :
                           /\ l = Cardinality(Copies(stripe', i))
                           /\ k = Cardinality(Copies(stripe, i))
                           /\ b = Cardinality(CreatesUpTo(log, i, Past(pc, position)))
                           /\ h = InHandOf(i, pc, msg, attempt)
                           /\ e = Cardinality(CreatesUpTo(log, i, position))
                           /\ u = IF Creating(i, pc, msg) THEN 1 ELSE 0
    OBVIOUS
<1>2. IsFiniteSet(Copies(stripe, i))
    BY DEF CountInv
<1>3. /\ k \in Nat /\ l \in Nat /\ l <= k /\ b \in Nat /\ h \in Nat /\ h <= MaxAttempts /\ e = b + u
      /\ Undisturbed(i, pc, msg, attempt, Health) => h <= 1
      /\ u = 0 => h = 0
    BY <1>1, <1>2, Tallies, TalliesAfter
<1>4. Past(pc', position') = position /\ InHandOf(i, pc', msg', attempt') = 0
    BY DEF Past, InHandOf, Creating, Busy
<1>5. Moves(i, MaxAttempts) <=> Step(k, b, h, l, e, 0, MaxAttempts)
    BY <1>1, <1>4 DEF Moves
<1>6. Moves(i, 1) <=> Step(k, b, h, l, e, 0, 1)
    BY <1>1, <1>4 DEF Moves
<1>7. u \in {0, 1}
    BY <1>1
<1>8. Step(k, b, h, l, e, 0, MaxAttempts)
    BY <1>3, <1>7 DEF Step
<1>9. h <= 1 => Step(k, b, h, l, e, 0, 1)
    BY <1>3, <1>7 DEF Step
<1> QED BY <1>3, <1>5, <1>6, <1>8, <1>9

\* Nothing the counts are about has changed but the records and the faults.
LEMMA CountStays ==
    ASSUME IInv, IInv', [Next]_vars, NEW i, CountInv(i),
           UNCHANGED <<stripe, pc, position, attempt>>, faults <= faults',
           Health = "ok" => Health' = "ok" \/ faults + 1 <= faults'
    PROVE  CountInv(i)'
<1>1. IsFiniteSet(Copies(stripe, i)) /\ IsFiniteSet(Copies(stripe', i))
    BY DEF CountInv
<1>2. CASE pc = "stopped"
    <2>1. PICK k, c, d, f, g : /\ k = Cardinality(Copies(stripe, i))
                               /\ c = Cardinality(CreatesUpTo(log, i, Len(log)))
                               /\ d = Cardinality(CreatesUpTo(log', i, Len(log')))
                               /\ f = faults /\ g = faults'
        OBVIOUS
    <2>2. k \in Nat /\ c \in Nat /\ d \in Nat /\ f \in Nat /\ g \in Nat
        <3>1. faults \in Nat
            BY Numbers DEF IInv, WorldOK
        <3> QED BY <1>1, <2>1, <3>1, Tallies, TalliesAfter
    <2>3. Resting(k, c, f) /\ c <= d /\ f <= g
        BY <1>2, <2>1, CreatesGrow DEF CountInv
    <2>4. Resting(k, d, g)
        BY <2>2, <2>3, RestingGoesOn
    <2> QED BY <1>1, <1>2, <2>1, <2>4 DEF CountInv
<1>3. CASE pc # "stopped"
    <2>1. PICK k, h, b : /\ k = Cardinality(Copies(stripe, i))
                         /\ h = InHandOf(i, pc, msg, attempt)
                         /\ b = Cardinality(CreatesUpTo(log, i, Past(pc, position)))
        OBVIOUS
    <2>2. k \in Nat /\ h \in Nat /\ b \in Nat
        BY <1>1, <2>1, Tallies
    <2>3. pc \in Busy => msg' = msg
        BY CreatesGrow
    <2>4. InHandOf(i, pc', msg', attempt') = h
        BY <2>1, <2>3 DEF InHandOf, Creating
    <2>5. Undisturbed(i, pc, msg, attempt, Health) =>
              Undisturbed(i, pc', msg', attempt', Health') \/ faults + 1 <= faults'
        BY <2>3 DEF Undisturbed, Creating
    <2>6. Past(pc, position) \in 0..Len(log)
        BY LenProperties DEF Past, IInv, CursorOK, InOrder, Messages, TopicOK
    <2>7. Cardinality(CreatesUpTo(log', i, Past(pc', position'))) = b
        <3>1. PICK n : n = Past(pc, position)
            OBVIOUS
        <3>2. CreatesUpTo(log', i, n) = CreatesUpTo(log, i, n)
            BY <2>6, <3>1, CreatesGrow
        <3> QED BY <2>1, <3>1, <3>2
    <2>8. Step(k, b, h, k, b, h, MaxAttempts) /\ Step(k, b, h, k, b, h, 1)
        BY <2>2 DEF Step
    <2>9. Moves(i, MaxAttempts) /\ Moves(i, 1)
        BY <2>1, <2>4, <2>7, <2>8 DEF Moves
    <2> QED BY <1>1, <1>3, <2>5, <2>9, Moved
<1> QED BY <1>2, <1>3

LEMMA CountCall ==
    ASSUME IInv, IInv', [Next]_vars, NEW i, CountInv(i), NEW s \in StripeIds,
           CallOk(s) \/ CallLost(s)
    PROVE  CountInv(i)'
<1>1. /\ pc = "calling" /\ StripeCall(s) /\ UNCHANGED <<log, position, session>>
      /\ faults' = faults \/ (faults' = faults + 1 /\ pc' = "failed")
      /\ faults \in Nat /\ attempt \in Nat
    <2>1. faults \in Nat /\ attempt \in Nat
        BY Numbers DEF IInv, WorldOK, WorkerOK
    <2>2. CASE CallOk(s)
        BY <2>1, <2>2 DEF CallOk, apiVars
    <2>3. CASE CallLost(s)
        BY <2>1, <2>3 DEF CallLost, Fault, apiVars
    <2> QED BY <2>2, <2>3
<1>2. IsFiniteSet(Copies(stripe, i))
    BY DEF CountInv
<1>3. PICK k, l, u : /\ k = Cardinality(Copies(stripe, i)) /\ l = Cardinality(Copies(stripe', i))
                     /\ u = IF Creating(i, pc, msg) THEN 1 ELSE 0
    OBVIOUS
<1>4. IsFiniteSet(Copies(stripe', i)) /\ k \in Nat /\ l \in Nat /\ l <= k + u
    <2>1. IsFiniteSet(Copies(stripe', i)) /\ l <= k + u
        BY <1>1, <1>2, <1>3, CallCopies
    <2> QED BY <1>2, <1>3, <2>1, FS_CardinalityType
<1>5. pc \in Busy /\ pc # "stopped" /\ InHandOf(i, pc, msg, attempt) = IF u = 1 THEN attempt ELSE 0
    BY <1>1, <1>3 DEF Busy, InHandOf
<1>6. CASE pc' \in {"linking", "failed"} /\ attempt' = attempt
    <2>1. pc' \in Busy /\ (Creating(i, pc', msg) <=> u = 1)
        <3>1. pc' \in Busy /\ pc \in Busy
            BY <1>1, <1>6 DEF Busy
        <3>2. Creating(i, pc', msg) <=> Creating(i, pc, msg)
            BY <3>1 DEF Creating
        <3> QED BY <1>3, <3>1, <3>2
    <2>2. InHandOf(i, pc', msg, attempt') = IF u = 1 THEN attempt + 1 ELSE 0
        BY <1>6, <2>1 DEF InHandOf
    <2>3. u \in {0, 1}
        BY <1>3
    <2>4. l + InHandOf(i, pc, msg, attempt) <= k + InHandOf(i, pc', msg, attempt')
        BY <1>1, <1>4, <1>5, <2>2, <2>3
    <2>5. Moves(i, MaxAttempts) /\ Moves(i, 1)
        BY <1>1, <1>3, <1>4, <1>5, <2>1, <2>4, MovesInHand
    <2>6. faults <= faults' /\ (pc' = "linking" \/ faults + 1 <= faults')
        BY <1>1, <1>6 DEF CallOk, CallLost, Fault, Done
    <2>7. Undisturbed(i, pc, msg, attempt, Health) =>
              Undisturbed(i, pc', msg', attempt', Health') \/ faults + 1 <= faults'
        <3>1. CASE faults + 1 <= faults'
            BY <3>1
        <3>2. CASE pc' = "linking" /\ ~(faults + 1 <= faults')
            <4>1. msg.type = "customer_created" /\ fresh' = s /\ table' = table
                BY <1>1, <3>2 DEF CallOk, CallLost, Fault, Done, apiVars
            <4>2. WithStripe(table, s) = {}
                BY <1>1, <4>1, NewLink
            <4>3. ~Taken'
                BY <4>1, <4>2 DEF Taken, WithStripe, Present
            <4>4. Health = "ok" => Health' = "ok"
                BY <1>1, <4>3 DEF Health
            <4> QED BY <1>1, <1>5, <1>6, <3>2, <4>4, CreatesGrow DEF Undisturbed, Creating
        <3> QED BY <2>6, <3>1, <3>2
    <2> QED BY <1>4, <1>5, <1>6, <2>5, <2>6, <2>7, Moved
<1>7. CASE msg.type # "customer_created" /\ pc' = "idle"
    <2>1. u = 0
        BY <1>3, <1>7 DEF Creating
    <2>2. UNCHANGED <<log, position, session, faults>> /\ l <= k
        BY <1>1, <1>3, <1>4, <1>7, <2>1
    <2>3. /\ Moves(i, MaxAttempts)
          /\ Undisturbed(i, pc, msg, attempt, Health) => Moves(i, 1)
        BY <1>3, <1>4, <1>5, <1>7, <2>2, MovesOn
    <2>4. Undisturbed(i, pc, msg, attempt, Health) =>
              Undisturbed(i, pc', msg', attempt', Health')
        BY <1>7, <2>2 DEF Undisturbed, Creating, Busy, Health
    <2>5. faults <= faults' /\ pc' # "stopped"
        BY <1>1, <1>7, <2>2
    <2> QED BY <1>4, <1>5, <2>3, <2>4, <2>5, Moved
<1> QED BY <1>6, <1>7 DEF CallOk, CallLost, Done

\* The steps that stay with the event and copy nothing.
LEMMA CountWithin ==
    ASSUME IInv, IInv', [Next]_vars, NEW i, CountInv(i),
           CallRefused \/ CallRejected \/ LinkFails \/ Retry
    PROVE  CountInv(i)'
<1>1. /\ UNCHANGED <<log, position, stripe>> /\ pc \in Busy /\ pc' \in Busy
      /\ pc # "stopped" /\ pc' # "stopped"
      /\ faults \in Nat /\ attempt \in Nat /\ faults <= faults'
    <2>1. faults \in Nat /\ attempt \in Nat
        BY Numbers DEF IInv, WorldOK, WorkerOK
    <2>2. CASE CallRefused
        BY <2>1, <2>2 DEF CallRefused, Fault, apiVars, Busy
    <2>3. CASE CallRejected
        BY <2>1, <2>3 DEF CallRejected, apiVars, Busy
    <2>4. CASE LinkFails
        BY <2>1, <2>4 DEF LinkFails, Fault, apiVars, Busy
    <2>5. CASE Retry
        <3>1. /\ pc = "failed" /\ pc' \in {"calling", "giving up"}
              /\ UNCHANGED <<log, position, stripe, faults>>
            BY <2>5 DEF Retry, apiVars
        <3>2. pc \in Busy /\ pc' \in Busy /\ pc # "stopped" /\ pc' # "stopped"
            BY <3>1 DEF Busy
        <3>3. faults <= faults'
            <4>1. faults' = faults
                BY <3>1
            <4> QED BY <2>1, <4>1
        <3> QED BY <2>1, <3>1, <3>2, <3>3
    <2> QED BY <2>2, <2>3, <2>4, <2>5
<1>2. IsFiniteSet(Copies(stripe, i)) /\ IsFiniteSet(Copies(stripe', i)) /\ msg' = msg
    BY <1>1, CreatesGrow DEF CountInv
<1>3. PICK k, h, j : /\ k = Cardinality(Copies(stripe, i))
                     /\ h = InHandOf(i, pc, msg, attempt) /\ j = InHandOf(i, pc', msg, attempt')
    OBVIOUS
<1>4. Creating(i, pc', msg) <=> Creating(i, pc, msg)
    BY <1>1 DEF Creating
<1>5. h <= j /\ k \in Nat /\ h \in Nat /\ j \in Nat
    <2>1. k \in Nat /\ h \in Nat
        BY <1>2, <1>3, Tallies
    <2>2. CASE CallRefused
        <3>1. pc = "calling" /\ pc' = "failed" /\ attempt' = attempt
            BY <2>2 DEF CallRefused
        <3> QED BY <1>1, <1>3, <1>4, <2>1, <3>1 DEF InHandOf
    <2>3. CASE CallRejected
        <3>1. ~Creating(i, pc, msg)
            BY <2>3 DEF CallRejected, Creating
        <3> QED BY <1>3, <1>4, <2>1, <3>1 DEF InHandOf
    <2>4. CASE LinkFails
        <3>1. pc = "linking" /\ pc' = "failed" /\ attempt' = attempt
            BY <2>4 DEF LinkFails
        <3> QED BY <1>1, <1>3, <1>4, <2>1, <3>1 DEF InHandOf
    <2>5. CASE Retry
        <3>1. pc = "failed" /\ pc' \in {"calling", "giving up"} /\ attempt' = attempt + 1
            BY <2>5 DEF Retry
        <3>2. h = IF Creating(i, pc, msg) THEN attempt + 1 ELSE 0
            BY <1>3, <3>1 DEF InHandOf
        <3>3. j = IF Creating(i, pc, msg) THEN attempt + 1 ELSE 0
            BY <1>3, <1>4, <3>1 DEF InHandOf
        <3> QED BY <2>1, <3>2, <3>3
    <2> QED BY <2>2, <2>3, <2>4, <2>5
<1>6. Moves(i, MaxAttempts) /\ Moves(i, 1)
    <2>1. Cardinality(Copies(stripe', i)) + h <= k + j
        BY <1>1, <1>3, <1>5
    <2> QED BY <1>1, <1>2, <1>3, <2>1, MovesInHand
<1>7. Undisturbed(i, pc, msg, attempt, Health) =>
          Undisturbed(i, pc', msg', attempt', Health') \/ faults + 1 <= faults'
    <2>1. CASE CallRefused
        BY <1>1, <2>1 DEF CallRefused, Fault
    <2>2. CASE LinkFails
        BY <1>1, <2>2 DEF LinkFails, Fault, Undisturbed, Health
    <2>3. CASE CallRejected \/ Retry
        <3>1. Undisturbed(i, pc, msg, attempt, Health) => ~Creating(i, pc, msg)
            BY <2>3 DEF CallRejected, Retry, Undisturbed, Creating
        <3>2. session' = session /\ pc' # "linking"
            BY <2>3 DEF CallRejected, Retry
        <3> QED BY <1>2, <1>4, <3>1, <3>2 DEF Undisturbed, Health
    <2> QED BY <2>1, <2>2, <2>3
<1> QED BY <1>1, <1>2, <1>6, <1>7, Moved

\* The steps that end the event.
LEMMA CountOver ==
    ASSUME IInv, IInv', [Next]_vars, NEW i, CountInv(i), LinkRow \/ DeadLetter \/ DeadLetterFails
    PROVE  CountInv(i)'
<1>1. /\ UNCHANGED <<log, position, stripe, session>> /\ pc \in Busy /\ pc' = "idle"
      /\ pc # "stopped" /\ faults \in Nat /\ faults <= faults'
    <2>1. faults \in Nat
        BY Numbers DEF IInv, WorldOK
    <2>2. CASE LinkRow
        BY <2>1, <2>2 DEF LinkRow, Done, Busy
    <2>3. CASE DeadLetter
        <3>1. /\ pc = "giving up" /\ pc' = "idle"
              /\ UNCHANGED <<log, position, stripe, session, faults>>
            BY <2>3 DEF DeadLetter, Done, apiVars
        <3>2. pc \in Busy /\ pc # "stopped"
            BY <3>1 DEF Busy
        <3>3. faults <= faults'
            <4>1. faults' = faults
                BY <3>1
            <4> QED BY <2>1, <4>1
        <3> QED BY <2>1, <3>1, <3>2, <3>3
    <2>4. CASE DeadLetterFails
        <3>1. /\ pc = "giving up" /\ pc' = "idle" /\ faults' = faults + 1
              /\ UNCHANGED <<log, position, stripe, session>>
            BY <2>4 DEF DeadLetterFails, Done, Fault, apiVars
        <3>2. pc \in Busy /\ pc # "stopped"
            BY <3>1 DEF Busy
        <3>3. faults <= faults'
            <4>1. faults' = faults + 1
                BY <3>1
            <4> QED BY <2>1, <4>1
        <3> QED BY <2>1, <3>1, <3>2, <3>3
    <2> QED BY <2>2, <2>3, <2>4
<1>2. IsFiniteSet(Copies(stripe, i)) /\ IsFiniteSet(Copies(stripe', i))
      /\ Cardinality(Copies(stripe', i)) <= Cardinality(Copies(stripe, i))
    <2>1. IsFiniteSet(Copies(stripe, i)) /\ Copies(stripe', i) = Copies(stripe, i)
        BY <1>1 DEF CountInv
    <2>2. Cardinality(Copies(stripe, i)) \in Nat
        BY <2>1, FS_CardinalityType
    <2> QED BY <2>1, <2>2
<1>3. Undisturbed(i, pc, msg, attempt, Health) => Undisturbed(i, pc', msg', attempt', Health')
    BY <1>1 DEF Undisturbed, Creating, Busy, Health
<1> QED BY <1>1, <1>2, <1>3, MovesOn, Moved

LEMMA CountFetch ==
    ASSUME IInv, IInv', [Next]_vars, NEW i, CountInv(i), Fetch
    PROVE  CountInv(i)'
<1>1. /\ UNCHANGED <<log, stripe, session, faults>> /\ pc = "idle" /\ pc' = "calling"
      /\ position' = position + 1 /\ attempt' = 0 /\ position \in 0..Len(log) /\ faults \in Nat
    <2>1. position \in 0..Len(log) /\ faults \in Nat
        BY LenProperties, Numbers DEF IInv, CursorOK, TopicOK, WorldOK
    <2> QED BY <2>1 DEF Fetch, apiVars
<1>2. IsFiniteSet(Copies(stripe, i)) /\ IsFiniteSet(Copies(stripe', i))
    BY <1>1 DEF CountInv
<1>3. PICK k, b : /\ k = Cardinality(Copies(stripe, i))
                  /\ b = Cardinality(CreatesUpTo(log, i, position))
    OBVIOUS
<1>4. Past(pc, position) = position /\ Past(pc', position') = position
    BY <1>1 DEF Past, Busy
<1>5. InHandOf(i, pc, msg, attempt) = 0 /\ InHandOf(i, pc', msg', attempt') = 0
    BY <1>1 DEF InHandOf, Creating, Busy
<1>6. k \in Nat
    BY <1>2, <1>3, Tallies
<1>7. Step(k, b, 0, k, b, 0, MaxAttempts) /\ Step(k, b, 0, k, b, 0, 1)
    BY <1>6 DEF Step
<1>8. Moves(i, MaxAttempts) /\ Moves(i, 1)
    BY <1>1, <1>3, <1>4, <1>5, <1>7 DEF Moves
<1>9. Undisturbed(i, pc, msg, attempt, Health) => Undisturbed(i, pc', msg', attempt', Health')
    BY <1>1 DEF Undisturbed, Health
<1> QED BY <1>1, <1>2, <1>8, <1>9, Moved

LEMMA CountNewConsumer ==
    ASSUME IInv, IInv', [Next]_vars, NEW i, CountInv(i),
           StartWorker \/ Reconnect \/ Crash \/ Interrupt
    PROVE  CountInv(i)'
<1>1. UNCHANGED <<log, stripe>> /\ faults \in Nat
    <2>1. faults \in Nat
        BY Numbers DEF IInv, WorldOK
    <2> QED BY <2>1 DEF StartWorker, Reconnect, Crash, Interrupt, apiVars
<1>2. IsFiniteSet(Copies(stripe, i)) /\ IsFiniteSet(Copies(stripe', i))
    BY <1>1 DEF CountInv
<1>3. PICK k, c, e, j, g : /\ k = Cardinality(Copies(stripe, i))
                           /\ c = Cardinality(CreatesUpTo(log, i, Len(log)))
                           /\ e = Cardinality(CreatesUpTo(log', i, Past(pc', position')))
                           /\ j = InHandOf(i, pc', msg', attempt') /\ g = faults'
    OBVIOUS
<1>4. k \in Nat /\ c \in Nat /\ e \in Nat /\ j \in Nat /\ g \in Nat
    BY <1>2, <1>3, Tallies, TalliesAfter
<1>5. Resting(k, c, g)
    <2>1. CASE StartWorker
        BY <1>3, <2>1 DEF StartWorker, CountInv
    <2>2. CASE Reconnect \/ Crash \/ Interrupt
        <3>1. pc # "stopped" /\ faults' = faults + 1
            BY <2>2 DEF Reconnect, Crash, Interrupt, Fault
        <3> QED BY <1>3, <3>1, CountRestarts
    <2> QED BY <2>1, <2>2
<1>6. CASE Crash \/ Interrupt
    <2>1. pc' = "stopped"
        BY <1>6 DEF Crash, Interrupt
    <2> QED BY <1>1, <1>2, <1>3, <1>5, <2>1 DEF CountInv
<1>7. CASE StartWorker \/ Reconnect
    <2>1. pc' = "idle" /\ session' = "ok"
        BY <1>7 DEF StartWorker, Reconnect
    <2>2. Undisturbed(i, pc', msg', attempt', Health')
        BY <2>1 DEF Undisturbed, Creating, Busy, Health
    <2>3. Calm(k, c, e, j, g)
        BY <1>4, <1>5, RestingGoesOn
    <2> QED BY <1>1, <1>2, <1>3, <2>1, <2>2, <2>3 DEF CountInv
<1> QED BY <1>6, <1>7

LEMMA CountStep ==
    ASSUME IInv, IInv', [Next]_vars, NEW i, CountInv(i)
    PROVE  CountInv(i)'
<1>1. faults \in Nat
    BY Numbers DEF IInv, WorldOK
<1>2. CASE Api
    <2>1. PICK j \in RowIds, new \in Row, message \in Message : Request(j, new, message)
        BY <1>2, ApiRequest
    <2>2. UNCHANGED <<stripe, pc, position, attempt, session, fresh>>
        BY <2>1 DEF Request, workerVars
    <2>3. CASE Fault
        BY <1>1, <2>2, <2>3, CountStays DEF Fault
    <2>4. CASE ~Fault
        <3>1. faults' = faults /\ (fresh # NoStripe /\ new.stripe = fresh =>
                                       j \in Present(table) /\ table[j].stripe = fresh)
            BY <2>1, <2>4 DEF Request, Charged
        <3>2. /\ \A k \in RowIds \ {j} : table'[k] = table[k]
              /\ table'[j] = new
            BY <2>1 DEF Request, IInv, Sound, Tables
        <3>3. ASSUME pc = "linking", Taken' PROVE Taken
            <4>1. msg' = msg /\ fresh # NoStripe
                BY <2>2, <3>3, CreatesGrow DEF IInv, WorkerOK, Busy
            <4>2. PICK k \in RowIds : k # msg.id /\ table'[k] # NoRow /\ table'[k].stripe = fresh
                BY <2>2, <3>3, <4>1 DEF Taken, WithStripe, Present
            <4>3. k \in Present(table) /\ table[k].stripe = fresh
                BY <3>1, <3>2, <4>1, <4>2 DEF Present
            <4> QED BY <4>2, <4>3 DEF Taken, WithStripe
        <3>4. Health = "ok" => Health' = "ok"
            BY <2>2, <3>3 DEF Health
        <3> QED BY <1>1, <2>2, <3>1, <3>4, CountStays
    <2> QED BY <2>3, <2>4
<1>3. ASSUME NEW m \in Messages, Republish(m) PROVE CountInv(i)'
    <2>1. UNCHANGED <<stripe, pc, position, attempt>> /\ faults' = faults + 1
        BY <1>3 DEF Republish, Fault, workerVars
    <2>2. faults <= faults' /\ faults + 1 <= faults'
        BY <1>1, <2>1
    <2> QED BY <2>1, <2>2, CountStays
<1>4. CASE AutoCommit \/ Rest \/ UNCHANGED vars
    <2>1. UNCHANGED <<table, log, stripe, pc, position, attempt, fresh, session, faults>>
        BY <1>4 DEF AutoCommit, Rest, vars, apiVars, workerVars
    <2>2. faults <= faults' /\ Health' = Health
        BY <1>1, <2>1 DEF Health, Taken, WithStripe, Present, msg
    <2> QED BY <2>1, <2>2, CountStays
<1>5. ASSUME NEW s \in StripeIds, CallOk(s) \/ CallLost(s) PROVE CountInv(i)'
    BY <1>5, CountCall
<1> QED BY <1>2, <1>3, <1>4, <1>5, CountWithin, CountOver, CountFetch, CountNewConsumer
        DEF Next, WorkerStep

LEMMA CountInit == Init => \A i \in RowIds : CountInv(i)
<1> SUFFICES ASSUME Init, NEW i \in RowIds PROVE CountInv(i)
    OBVIOUS
<1>1. Copies(stripe, i) = {}
    <2>1. (\A s \in DOMAIN Foreign : Foreign[s].row = 0) /\ i # 0
        BY DispatcherAssumption DEF RowIds
    <2> QED BY <2>1 DEF Init, Copies
<1>2. Len(log) = 0 /\ pc = "stopped" /\ faults = 0
    BY DEF Init
<1>3. IsFiniteSet(Copies(stripe, i)) /\ Cardinality(Copies(stripe, i)) = 0
    BY <1>1, FS_EmptySet
<1>4. PICK c \in Nat : c = Cardinality(CreatesUpTo(log, i, Len(log)))
    BY <1>2, CreatesCounted
<1>5. Early(0, 0) /\ 0 <= c * 0
    BY <1>4 DEF Early
<1>6. Resting(0, c, 0)
    BY <1>5 DEF Resting
<1> QED BY <1>2, <1>3, <1>4, <1>6 DEF CountInv

LEMMA CountAlways == Spec => [](IInv /\ \A i \in RowIds : CountInv(i))
<1> DEFINE CountAll == \A i \in RowIds : CountInv(i)
<1>1. Init => CountAll
    BY CountInit
<1>2. IInv /\ IInv' /\ CountAll /\ [Next]_vars => CountAll'
    BY CountStep
<1> HIDE DEF CountAll
<1>3. Spec => [](IInv /\ CountAll)
    BY <1>1, <1>2, InvInit, InvStep, PTL DEF Spec
<1> QED BY <1>3 DEF CountAll

LEMMA CountBounds ==
    ASSUME IInv, NEW i, CountInv(i),
           NEW k, k = Cardinality(Copies(stripe, i)),
           NEW c, c = Cardinality(CreatesUpTo(log, i, Len(log)))
    PROVE  k <= c * (1 + faults) \/ k <= c * MaxAttempts * faults
<1>1. PICK b, h, f : /\ b = Cardinality(CreatesUpTo(log, i, Past(pc, position)))
                     /\ h = InHandOf(i, pc, msg, attempt) /\ f = faults
    OBVIOUS
<1>2. IsFiniteSet(Copies(stripe, i))
    BY DEF CountInv
<1>3. /\ k \in Nat /\ c \in Nat /\ b \in Nat /\ h \in Nat /\ f \in Nat /\ h <= MaxAttempts
      /\ Undisturbed(i, pc, msg, attempt, Health) => h <= 1
      /\ (h = 0 /\ b <= c) \/ b + 1 <= c
    <2>1. f \in Nat
        BY <1>1, Numbers DEF IInv, WorldOK
    <2> QED BY <1>1, <1>2, <2>1, Tallies
<1>4. \E q \in Nat : k <= c * q /\ (q <= f + 1 \/ q <= MaxAttempts * f)
    <2>1. CASE pc = "stopped"
        <3>1. PICK p \in Nat : Early(p, f) /\ k <= c * p
            BY <1>1, <2>1 DEF CountInv, Resting
        <3>2. PICK x : x = MaxAttempts * f
            OBVIOUS
        <3>3. x \in Nat
            BY <1>3, <3>2, Numbers
        <3>4. p <= f \/ p + 1 <= x
            BY <3>1, <3>2 DEF Early
        <3>5. p <= f + 1 \/ p <= x
            BY <1>3, <3>3, <3>4
        <3> QED BY <3>1, <3>2, <3>5
    <2>2. CASE Calm(k, c, b, h, f) /\ Undisturbed(i, pc, msg, attempt, Health)
        <3>1. (h = 0 /\ b <= c) \/ (h <= 1 /\ b + 1 <= c)
            BY <1>3, <2>2
        <3>2. PICK w \in {1, MaxAttempts} : w = 1
            OBVIOUS
        <3>3. \E q \in Nat : k <= c * q /\ Early(q, f + 1) /\ (q <= f + 1 \/ q <= MaxAttempts * f)
            BY <1>3, <2>2, <3>1, <3>2, InTotal
        <3> QED BY <3>3
    <2>3. CASE Rough(k, c, b, h, f)
        <3>1. (h = 0 /\ b <= c) \/ (h <= MaxAttempts /\ b + 1 <= c)
            BY <1>3
        <3>2. PICK w \in {1, MaxAttempts} : w = MaxAttempts
            OBVIOUS
        <3>3. \E q \in Nat : k <= c * q /\ Early(q, f + 1) /\ (q <= f + 1 \/ q <= MaxAttempts * f)
            BY <1>3, <2>3, <3>1, <3>2, InTotal
        <3> QED BY <3>3
    <2> QED BY <1>1, <2>1, <2>2, <2>3 DEF CountInv
<1>5. k <= c * (1 + f) \/ k <= c * MaxAttempts * f
    BY <1>3, <1>4, WithinBounds
<1> QED BY <1>1, <1>5

\* However many records, attempts and faults there are, the create events, the faults
\* and the attempts bound how many customers Stripe has for a row.
THEOREM CopiesBounded == Spec => []BoundedCopies
<1>1. ASSUME IInv, \A i \in RowIds : CountInv(i) PROVE BoundedCopies
    <2>1. ASSUME NEW i \in RowIds, NEW k, k = Cardinality(CopiesInStripe(i)),
                 NEW c, c = Cardinality(Creates(i))
          PROVE  k <= c * (1 + faults) \/ k <= c * MaxAttempts * faults
        <3>1. CopiesInStripe(i) = Copies(stripe, i) /\ Creates(i) = CreatesUpTo(log, i, Len(log))
            BY DEF CopiesInStripe, Copies, Creates, CreatesUpTo
        <3> QED BY <1>1, <2>1, <3>1, CountBounds
    <2> QED BY <2>1 DEF BoundedCopies
<1> QED BY <1>1, CountAlways, PTL
=============================================================================
