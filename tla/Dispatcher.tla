----------------------------- MODULE Dispatcher -----------------------------
(***************************************************************************)
(* The worker (worker.py, app/core/retry.py): it reads the customer topic  *)
(* and applies each event to Stripe (app/integrations/stripe_service.py),  *)
(* again after a failure, and to the dead letter topic after too many.     *)
(*                                                                         *)
(* Calls to Stripe, commits and the consumer's own steps are one step      *)
(* each; API requests change the table and the topic in between.  A        *)
(* request and the publication of its event are one step here: the modules *)
(* CustomerService and Outbox take them apart.                             *)
(***************************************************************************)
EXTENDS CustomerTable, Sequences

CONSTANTS
    MaxMessages,    \* bound: records in the topic
    MaxAttempts,    \* settings.MAX_RETRY_ATTEMPTS
    MaxFaults,      \* bound: crashes, interrupts, errors, duplicate publications
                    \* and requests that take the customer being linked
    Foreign,        \* the account's customers that the worker did not make
    Named,          \* bound: the Stripe ids that requests name
    NoCustomer      \* a Stripe id that is not in use

ASSUME DispatcherAssumption ==
    /\ MaxMessages \in Nat
    /\ MaxAttempts \in Nat \ {0}
    /\ MaxFaults \in Nat
    /\ Foreign \in [DOMAIN Foreign -> [row : {0}, name : Names, live : BOOLEAN]]
    /\ DOMAIN Foreign \subseteq StripeIds /\ Named \subseteq StripeIds
    /\ StripeIds \subseteq Nat      \* Stripe numbers its customers

VARIABLES
    table,      \* the customers table
    log,        \* the topic: Seq of [type, id, name, stripe]
    stripe,     \* [StripeIds -> StripeCustomer \cup {NoCustomer}]
    offset,     \* records the consumer group has committed
    position,   \* records the consumer has handed out
    pc,         \* where process_message is
    attempt,    \* attempts of this event that failed
    fresh,      \* the Stripe customer just created, still to be linked
    session,    \* {"ok", "broken"}: the worker's only database session
    outcome,    \* history: [Messages -> what became of the record]
    hasty,      \* history: was a request made with events still to apply?
    faults      \* bounds MaxFaults

apiVars == <<table, log, hasty>>
workerVars == <<offset, position, pc, attempt, fresh, session>>
vars == <<apiVars, stripe, workerVars, outcome, faults>>

Messages == 1..MaxMessages

\* Row 0: not made for any row.
StripeCustomer == [row : RowIds \cup {0}, name : Names, live : BOOLEAN]

ASSUME NoCustomerAssumption == NoCustomer \notin StripeCustomer

Live(s) == s \in StripeIds /\ stripe[s] # NoCustomer /\ stripe[s].live

Message == [type : {"customer_created", "customer_updated", "customer_deleted"},
            id : RowIds, name : Names, stripe : StripeIds \cup {NoStripe}]

Init ==
    /\ table = EmptyTable
    /\ log = <<>>
    /\ stripe = [s \in StripeIds |-> IF s \in DOMAIN Foreign THEN Foreign[s] ELSE NoCustomer]
    /\ offset = 0
    /\ position = 0
    /\ pc = "stopped"
    /\ attempt = 0
    /\ fresh = NoStripe
    /\ session = "ok"
    /\ outcome = [m \in Messages |-> "none"]
    /\ hasty = FALSE
    /\ faults = 0

Fault == faults < MaxFaults /\ faults' = faults + 1

-----------------------------------------------------------------------------
(* Requests, and what the outbox makes of them.                            *)

Backlog == position < Len(log) \/ pc \notin {"stopped", "idle"}

\* The row becomes new, and an event with the payload row is published.
Announce(i, new, type, payload) ==
    /\ Len(log) < MaxMessages
    /\ table' = [table EXCEPT ![i] = new]
    /\ log' = Append(log, [type |-> type, id |-> i,
                           name |-> payload.name, stripe |-> payload.stripe])
    /\ hasty' = (hasty \/ Backlog)
    /\ UNCHANGED <<stripe, workerVars, outcome>>

\* The client may name a Stripe customer, even the one the worker is linking.  The
\* unique index refuses one that another row has.  An id that no customer has is
\* modelled as one of a customer deleted long ago: Stripe rejects what is done to it.
ApiCreate(email, name, given) ==
    /\ given # NoStripe => stripe[given] # NoCustomer
    /\ IF given # NoStripe /\ given = fresh THEN Fault ELSE UNCHANGED faults
    /\ \/ LET new == [name |-> name, email |-> email, stripe |-> given, active |-> TRUE]
          IN  /\ ~Collides(table, new)
              /\ Announce(NextRow(table), new, "customer_created", new)
       \/ \E i \in WithEmail(table, email) :
              LET link == IF given = NoStripe THEN table[i].stripe ELSE given
                  new == [table[i] EXCEPT !.name = name, !.active = TRUE, !.stripe = link]
              IN  /\ ~table[i].active
                  /\ IsUnique([table EXCEPT ![i] = new])
                  /\ Announce(i, new, "customer_created", new)

ApiUpdate(i, name) ==
    /\ i \in Active(table)
    /\ LET new == [table[i] EXCEPT !.name = name]
       IN  Announce(i, new, "customer_updated", new)
    /\ UNCHANGED faults

\* The payload is the row as it was.
ApiDelete(i) ==
    /\ i \in Active(table)
    /\ Announce(i, [table[i] EXCEPT !.active = FALSE], "customer_deleted", table[i])
    /\ UNCHANGED faults

\* The outbox publishes at least once: an event may come again, after others.
Republish(m) ==
    /\ Fault
    /\ m <= Len(log) /\ Len(log) < MaxMessages
    /\ log' = Append(log, log[m])
    /\ UNCHANGED <<table, hasty, stripe, workerVars, outcome>>

-----------------------------------------------------------------------------
(* The consumer.                                                           *)

\* Mutant of StartWorker: the group has no committed offset to resume from.
StartAtTheEnd ==
    /\ pc = "stopped"
    /\ pc' = "idle"
    /\ position' = Len(log)
    /\ session' = "ok"
    /\ UNCHANGED <<apiVars, stripe, offset, attempt, fresh, outcome, faults>>

\* The group resumes from its committed offset, with a new session.
StartWorker ==
    /\ pc = "stopped"
    /\ pc' = "idle"
    /\ position' = offset
    /\ session' = "ok"
    /\ UNCHANGED <<apiVars, stripe, offset, attempt, fresh, outcome, faults>>

Fetch ==
    /\ pc = "idle"
    /\ position < Len(log)
    /\ position' = position + 1
    /\ attempt' = 0
    /\ pc' = "calling"
    /\ UNCHANGED <<apiVars, stripe, offset, fresh, session, outcome, faults>>

\* Mutant of AutoCommit: the record in hand is committed too.
AutoCommitEarly ==
    /\ pc # "stopped"
    /\ offset' = position
    /\ UNCHANGED <<apiVars, stripe, position, pc, attempt, fresh, session, outcome, faults>>

\* The consumer commits what it has handed out when it is asked for more.
AutoCommit ==
    /\ pc = "idle"
    /\ offset < position
    /\ offset' = position
    /\ UNCHANGED <<apiVars, stripe, position, pc, attempt, fresh, session, outcome, faults>>

\* The consumer raises: main closes it, which commits unless Kafka is away, and
\* replaces it and the session.
Reconnect ==
    /\ pc = "idle"
    /\ Fault
    /\ offset' \in {offset, position}
    /\ position' = offset'
    /\ session' = "ok"
    /\ UNCHANGED <<apiVars, stripe, pc, attempt, fresh, outcome>>

\* The process dies, and with it what it held.
Crash ==
    /\ pc # "stopped"
    /\ Fault
    /\ pc' = "stopped"
    /\ attempt' = 0
    /\ fresh' = NoStripe
    /\ UNCHANGED <<apiVars, stripe, offset, position, session, outcome>>

\* KeyboardInterrupt or SystemExit is no Exception: the worker leaves the record in
\* hand, and closing the consumer commits it, if Kafka can be reached.
Interrupt ==
    /\ pc # "stopped"
    /\ Fault
    /\ pc' = "stopped"
    /\ attempt' = 0
    /\ fresh' = NoStripe
    /\ offset' \in {offset, position}
    /\ outcome' = [m \in Messages |->
                      IF m <= offset' /\ outcome[m] = "none" THEN "interrupted" ELSE outcome[m]]
    /\ UNCHANGED <<apiVars, stripe, position, session>>

-----------------------------------------------------------------------------
(* One attempt: process_stripe_event and the integration.                  *)

msg == log[position]

\* The event is over; the consumer is asked for the next one.
Done(o) ==
    /\ pc' = "idle"
    /\ attempt' = 0
    /\ outcome' = [outcome EXCEPT ![position] = o]

\* The id of the next customer Stripe creates.
Unused(s) ==
    /\ stripe[s] = NoCustomer
    /\ \A t \in StripeIds : t < s => stripe[t] # NoCustomer

\* What Stripe does when called for msg: s is the customer, new or not.  It
\* knows nothing of events: each create makes one more customer.
StripeCall(s) ==
    CASE msg.type = "customer_created" ->
             /\ Unused(s)
             /\ stripe' = [stripe EXCEPT ![s] =
                              [row |-> msg.id, name |-> msg.name, live |-> TRUE]]
      [] msg.type = "customer_updated" ->
             /\ s = msg.stripe /\ Live(s)
             /\ stripe' = [stripe EXCEPT ![s].name = msg.name]
      [] msg.type = "customer_deleted" ->
             /\ s = msg.stripe /\ Live(s)
             /\ stripe' = [stripe EXCEPT ![s].live = FALSE]

\* The call succeeds.  A new customer is still to be linked to its row.
CallOk(s) ==
    /\ pc = "calling"
    /\ StripeCall(s)
    /\ IF msg.type = "customer_created"
       THEN pc' = "linking" /\ fresh' = s /\ UNCHANGED <<attempt, outcome>>
       ELSE Done("applied") /\ UNCHANGED fresh
    /\ UNCHANGED <<apiVars, offset, position, session, faults>>

\* Stripe acts but the answer is lost.
CallLost(s) ==
    /\ pc = "calling"
    /\ Fault
    /\ StripeCall(s)
    /\ pc' = "failed"
    /\ UNCHANGED <<apiVars, offset, position, attempt, fresh, session, outcome>>

\* Mutant of CallRefused: the id is noted before Stripe has agreed.
CallRefusedNoted ==
    /\ pc = "calling"
    /\ Fault
    /\ IF msg.type = "customer_created"
       THEN pc' = "linking" /\ \E s \in StripeIds : Unused(s) /\ fresh' = s
       ELSE pc' = "failed" /\ UNCHANGED fresh
    /\ UNCHANGED <<apiVars, stripe, offset, position, attempt, session, outcome>>

\* The call does not reach Stripe, or Stripe is busy.
CallRefused ==
    /\ pc = "calling"
    /\ Fault
    /\ pc' = "failed"
    /\ UNCHANGED <<apiVars, stripe, offset, position, attempt, fresh, session, outcome>>

\* No attempt can succeed: the payload has no Stripe id, or one Stripe deleted.
CallRejected ==
    /\ pc = "calling"
    /\ msg.type # "customer_created"
    /\ ~Live(msg.stripe)
    /\ pc' = "failed"
    /\ UNCHANGED <<apiVars, stripe, offset, position, attempt, fresh, session, outcome, faults>>

\* Mutant of LinkRow: the commit is forgotten.
LinkRowUncommitted ==
    /\ pc = "linking"
    /\ session = "ok"
    /\ fresh' = NoStripe
    /\ Done("applied")
    /\ UNCHANGED <<apiVars, stripe, offset, position, session, faults>>

\* Another row has been given the new customer.
Taken == \E i \in WithStripe(table, fresh) : i # msg.id

\* stripe_customer_id = the new customer, whatever the row has become.
LinkRow ==
    /\ pc = "linking"
    /\ session = "ok" /\ ~Taken
    /\ table' = [table EXCEPT ![msg.id].stripe = fresh]
    /\ fresh' = NoStripe
    /\ Done("applied")
    /\ UNCHANGED <<log, hasty, stripe, offset, position, session, faults>>

\* A database error, in this event or an earlier one: create_customer returns
\* None without a rollback, so the session stays as it is.
LinkFails ==
    /\ pc = "linking"
    /\ \/ (session = "broken" \/ Taken) /\ UNCHANGED faults
       \/ session = "ok" /\ Fault
    /\ session' = "broken"
    /\ fresh' = NoStripe
    /\ pc' = "failed"
    /\ UNCHANGED <<apiVars, stripe, offset, position, attempt, outcome>>

-----------------------------------------------------------------------------
(* After a failed attempt: retry_with_backoff, then process_message.       *)

\* Mutant of Retry: one attempt too many.
RetryOnceMore ==
    /\ pc = "failed"
    /\ attempt' = attempt + 1
    /\ pc' = IF attempt' > MaxAttempts THEN "giving up" ELSE "calling"
    /\ UNCHANGED <<apiVars, stripe, offset, position, fresh, session, outcome, faults>>

\* Mutant of Retry: the counter starts anew.
RetryForever ==
    /\ pc = "failed"
    /\ attempt' = 0
    /\ pc' = "calling"
    /\ UNCHANGED <<apiVars, stripe, offset, position, fresh, session, outcome, faults>>

Retry ==
    /\ pc = "failed"
    /\ attempt' = attempt + 1
    /\ pc' = IF attempt' >= MaxAttempts THEN "giving up" ELSE "calling"
    /\ UNCHANGED <<apiVars, stripe, offset, position, fresh, session, outcome, faults>>

DeadLetter ==
    /\ pc = "giving up"
    /\ Done("dead-lettered")
    /\ UNCHANGED <<apiVars, stripe, offset, position, fresh, session, faults>>

\* A failure to dead-letter is logged, and that is all.
DeadLetterFails ==
    /\ pc = "giving up"
    /\ Fault
    /\ Done("dropped")
    /\ UNCHANGED <<apiVars, stripe, offset, position, fresh, session>>

-----------------------------------------------------------------------------
Api ==
    \/ \E email \in Emails, name \in Names, given \in Named \cup {NoStripe} :
           ApiCreate(email, name, given)
    \/ \E i \in RowIds : ApiDelete(i) \/ \E name \in Names : ApiUpdate(i, name)

WorkerStep ==
    \/ Fetch
    \/ \E s \in StripeIds : CallOk(s) \/ CallLost(s)
    \/ CallRefused \/ CallRejected
    \/ LinkRow \/ LinkFails
    \/ Retry \/ DeadLetter \/ DeadLetterFails

\* No more requests; the worker has nothing to do.
Rest == Len(log) = MaxMessages /\ ~Backlog /\ UNCHANGED vars

Next ==
    \/ Api
    \/ \E m \in Messages : Republish(m)
    \/ StartWorker \/ WorkerStep \/ AutoCommit
    \/ Reconnect \/ Crash \/ Interrupt
    \/ Rest

Spec == Init /\ [][Next]_vars

\* A live worker goes on: its calls time out, and every exception has a handler.
LiveSpec == Spec /\ WF_vars(WorkerStep)

-----------------------------------------------------------------------------
\* Every variable has its type; attempts stay below their maximum while one is
\* to be made, and the worker holds a new customer exactly while linking it.
TypeOK ==
    /\ table \in Tables /\ IsUnique(table)
    /\ log \in Seq(Message) /\ Len(log) <= MaxMessages
    /\ stripe \in [StripeIds -> StripeCustomer \cup {NoCustomer}]
    /\ offset \in 0..position
    /\ position \in 0..Len(log)
    /\ pc \in {"stopped", "idle", "calling", "linking", "failed", "giving up"}
    /\ attempt \in 0..MaxAttempts
    /\ pc \in {"calling", "linking", "failed"} => attempt < MaxAttempts
    /\ fresh \in StripeIds \cup {NoStripe}
    /\ fresh # NoStripe <=> pc = "linking"
    /\ session \in {"ok", "broken"}
    /\ outcome \in [Messages -> {"none", "interrupted", "applied", "dead-lettered", "dropped"}]
    /\ hasty \in BOOLEAN
    /\ faults \in 0..MaxFaults

Interrupted == {m \in Messages : outcome[m] = "interrupted"}

\* Kafka is told to forget a record only after the worker has dealt with it, so
\* that a crash at any point repeats work and skips none.  The one exception is the
\* record in hand when the worker is interrupted, one for each interrupt.
NothingSkipped ==
    /\ \A m \in 1..offset : outcome[m] # "none"
    /\ Cardinality(Interrupted) <= faults

\* The worker implements EventConsumer, through crashes, reconnects and whatever
\* becomes of an event: records are dealt with in order, and forgotten only after
\* that or with the worker that had them in hand.
Consumer == INSTANCE EventConsumer WITH
    Records <- Messages,
    appended <- Len(log),
    handled <- {m \in Messages : outcome[m] \notin {"none", "interrupted"}},
    abandoned <- Interrupted,
    committed <- offset

RefinesConsumer == Consumer!ConsumerSpec

Creates(i) == {m \in 1..Len(log) : log[m].id = i /\ log[m].type = "customer_created"}

\* Through lost answers, retries, crashes and broken sessions, a row is linked to a
\* customer Stripe really created for it, or to one a create request came with.
LinkIsReal ==
    \A i \in Present(table) :
        LET id == table[i].stripe
        IN  id # NoStripe =>
                \/ stripe[id] # NoCustomer /\ stripe[id].row = i
                \/ \E m \in Creates(i) : log[m].stripe = id

CopiesInStripe(i) ==
    {s \in StripeIds : stripe[s] # NoCustomer /\ stripe[s].row = i}

\* Creating is not idempotent, but the harm is limited: without a fault each
\* create event makes one customer; if every fault delivers the events again, one
\* more each; if a fault makes attempts fail, at most MaxAttempts a delivery.
BoundedCopies ==
    \A i \in RowIds :
        LET copies == Cardinality(CopiesInStripe(i))
            creates == Cardinality(Creates(i))
        IN  \/ copies <= creates * (1 + faults)
            \/ copies <= creates * MaxAttempts * faults

\* Stripe has what the row says.
Mirrors(i) ==
    LET live == {s \in CopiesInStripe(i) : Live(s)}
    IN  IF table[i].active
        THEN live = {table[i].stripe} /\ stripe[table[i].stripe].name = table[i].name
        ELSE live = {}

\* When nothing failed, and each request waited until the events before it had
\* been applied, Stripe mirrors the table whenever the worker has caught up: the
\* link is written in time for the payloads of later events, deletes reach the
\* customer they mean, and a reactivated row gets a customer of its own.
QuietMirror ==
    (faults = 0 /\ ~hasty /\ ~Backlog) => \A i \in Present(table) : Mirrors(i)

\* While the worker lives, every record is applied, dead-lettered or, if that
\* fails too, dropped: no failure keeps it on one record for ever.  (One that an
\* interrupt committed is over as well.)
EveryEventHandled ==
    <>[](pc # "stopped") =>
        \A m \in Messages : m <= Len(log) ~> outcome[m] # "none"

\* Processing an event again does no harm, "Idempotent Processing - Safe to
\* replay events" (README.md:164): no row has two customers in Stripe.
SafeToReplay ==
    \A i \in RowIds : \A s, t \in CopiesInStripe(i) : Live(s) /\ Live(t) => s = t
=============================================================================
