------------------------------ MODULE Webhook ------------------------------
(***************************************************************************)
(* Stripe's webhooks (app/routes/webhook_routes.py, the inward half of     *)
(* app/integrations/stripe_service.py, app/services/conflict_service.py):  *)
(* each delivery looks for a row by Stripe id, then by email, and updates, *)
(* links, creates or deactivates it.                                       *)
(*                                                                         *)
(* A step is one statement or commit of a handler; handlers of different   *)
(* replicas interleave, and API requests and the worker change the table   *)
(* in between, one step each.  Stripe may deliver an event late, again, or *)
(* not at all.                                                             *)
(***************************************************************************)
EXTENDS CustomerTable, Sequences

CONSTANTS
    Handlers,   \* handle_webhook, once in each replica
    Strategies, \* values of CONFLICT_RESOLUTION_STRATEGY the replicas may have
    NoName,     \* a missing name, kept as ""
    NoEmail,    \* a Stripe customer without an email
    MaxEvents,  \* bound: events Stripe emits
    MaxWrites   \* bound: API requests

ASSUME WebhookAssumption ==
    /\ IsFiniteSet(Handlers)
    /\ Strategies \subseteq {"flag", "reject", "merge"}
    /\ NoName \in Names
    /\ NoEmail \notin Emails
    /\ MaxEvents \in Nat /\ MaxWrites \in Nat

VARIABLES
    table,      \* the customers table
    pending,    \* [Emails -> number of data_conflicts rows with status pending]
    sent,       \* Seq(Event): what happened in Stripe
    announced,  \* customer_created events the worker has not seen: [row, name, email]
    creating,   \* the worker's creates still to be linked: pairs <<id, row>>
    job,        \* [Handlers -> Job]: the delivery each handler works on
    done,       \* history: deliveries so far, while orderly
    orderly,    \* history: all in order, one at a time, and no conflict met?
    stable,     \* history: the event handled last, alone, with no write since
    writes      \* bounds MaxWrites

histories == <<done, orderly, stable>>
vars == <<table, pending, sent, announced, creating, job, histories, writes>>

Event == [type : {"created", "updated", "deleted"}, id : StripeIds,
          name : Names, email : Emails \cup {NoEmail}]

NoEvent == [type |-> "none"]

Job == [pc : {"idle", "find", "taken", "by email", "create", "insert", "load", "write",
              "conflict", "record", "resolve"},
        op : {"none", "update", "link", "rename", "reactivate", "adopt", "deactivate", "merge"},
        event : Event \cup {NoEvent},
        row : 0..MaxRows,           \* the row to write
        seen : Row \cup {NoRow},    \* the row as first read (a Pydantic copy)
        loaded : Row \cup {NoRow},  \* the row as read to be written
        email : Emails \cup {NoEmail}, \* the email to write
        touched : BOOLEAN]          \* did others write since the delivery?

Idle == [pc |-> "idle", op |-> "none", event |-> NoEvent, row |-> 0, seen |-> NoRow,
         loaded |-> NoRow, email |-> NoEmail, touched |-> FALSE]

Init ==
    /\ table = EmptyTable
    /\ pending = [e \in Emails |-> 0]
    /\ sent = <<>>
    /\ announced = {}
    /\ creating = {}
    /\ job = [h \in Handlers |-> Idle]
    /\ done = 0
    /\ orderly = TRUE
    /\ stable = NoEvent
    /\ writes = 0

-----------------------------------------------------------------------------
(* How a step ends.                                                        *)

AllIdle(H) == \A h \in H : job[h] = Idle

\* The table becomes t in a step that is none of the handlers H: they have been
\* overtaken, if it changes.
Overtaken(H, t) ==
    [h \in H |-> IF job[h] = Idle \/ t = table THEN job[h]
                 ELSE [job[h] EXCEPT !.touched = TRUE]]

\* Handler h commits t and goes on as j.
Commit(h, t, j) ==
    /\ table' = t
    /\ job' = [Overtaken(Handlers, t) EXCEPT ![h] = j]
    /\ stable' = IF t = table THEN stable ELSE NoEvent

\* Handler h goes on as j, having written nothing.
Goto(h, j) ==
    /\ job' = [job EXCEPT ![h] = j]
    /\ UNCHANGED <<table, stable>>

\* Handler h answers, with 200 whether it did anything or not.
Finish(h, t) ==
    /\ table' = t
    /\ job' = [Overtaken(Handlers, t) EXCEPT ![h] = Idle]
    /\ stable' = IF AllIdle(Handlers \ {h}) /\ ~job[h].touched
                 THEN job[h].event ELSE NoEvent

\* A conflict was met or the deliveries got out of order, if bad.
Note(bad) ==
    /\ orderly' = (orderly /\ ~bad)
    /\ done' = IF orderly' THEN done ELSE 0

outside == <<sent, announced, creating, writes>>

-----------------------------------------------------------------------------
(* Stripe, the API and the worker.                                         *)

Of(s) == {k \in 1..Len(sent) : sent[k].id = s}

Latest(s) == sent[CHOOSE k \in Of(s) : \A l \in Of(s) : l <= k]

Emit(event) ==
    /\ Len(sent) < MaxEvents
    /\ sent' = Append(sent, event)
    /\ UNCHANGED <<table, pending, job, histories, writes>>

\* A customer is created, changed or deleted in Stripe.
StripeChange(s, type, name, email) ==
    /\ Emit([type |-> type, id |-> s, name |-> name, email |-> email])
    /\ IF type = "created" THEN Of(s) = {}
       ELSE Of(s) # {} /\ Latest(s).type # "deleted"
    /\ type = "deleted" => name = NoName /\ email = NoEmail
    /\ UNCHANGED <<announced, creating>>

\* The worker creates a Stripe customer, for a row created or brought back.
WorkerCreate(s, a) ==
    /\ a \in announced
    /\ Of(s) = {}
    /\ Emit([type |-> "created", id |-> s, name |-> a.name, email |-> a.email])
    /\ announced' = announced \ {a}
    /\ creating' = creating \cup {<<s, a.row>>}

\* The rest of the system commits t.
Elsewhere(t, bad) ==
    /\ table' = t
    /\ job' = Overtaken(Handlers, t)
    /\ stable' = NoEvent
    /\ Note(bad)
    /\ UNCHANGED <<pending, sent>>

\* It links the customer to the row, unless another row has taken it.  Its
\* retries are left to Dispatcher.
WorkerLink(s, i) ==
    /\ <<s, i>> \in creating
    /\ creating' = creating \ {<<s, i>>}
    /\ LET t == [table EXCEPT ![i].stripe = s]
       IN  Elsewhere(IF IsUnique(t) THEN t ELSE table, table[i].stripe \notin {NoStripe, s})
    /\ UNCHANGED <<announced, writes>>

Request(t, bad) ==
    /\ writes' = writes + 1
    /\ Elsewhere(t, bad)
    /\ UNCHANGED creating

\* The client may name a Stripe customer for the row: that customer need not look
\* like it, and the worker will replace it by one of its own.
ApiCreate(name, email, given) ==
    LET new == [name |-> name, email |-> email, stripe |-> given, active |-> TRUE]
        announce(i) == announced' = announced \cup {[row |-> i, name |-> name, email |-> email]}
    IN  /\ writes < MaxWrites
        /\ \/ /\ ~Collides(table, new)
              /\ Request(Insert(table, new), ~AllIdle(Handlers) \/ given # NoStripe)
              /\ announce(NextRow(table))
           \/ \E i \in WithEmail(table, email) :
                  LET link == IF given = NoStripe THEN table[i].stripe ELSE given
                      t == [table EXCEPT ![i].active = TRUE, ![i].name = name, ![i].stripe = link]
                  IN  /\ ~table[i].active
                      /\ IsUnique(t)
                      /\ Request(t, TRUE)
                      /\ announce(i)

ApiUpdate(i, name, email) ==
    /\ writes < MaxWrites
    /\ i \in Active(table)
    /\ WithEmail(table, email) \subseteq {i}
    /\ Request([table EXCEPT ![i].name = name, ![i].email = email], TRUE)
    /\ UNCHANGED announced

ApiDelete(i) ==
    /\ writes < MaxWrites
    /\ i \in Active(table)
    /\ Request([table EXCEPT ![i].active = FALSE], TRUE)
    /\ UNCHANGED announced

-----------------------------------------------------------------------------
(* A delivery: handle_webhook_event.                                       *)

\* Any event, whenever and as often as the network likes.
Deliver(h, k) ==
    /\ job[h] = Idle
    /\ job' = [job EXCEPT ![h] = [Idle EXCEPT !.pc = "find", !.event = sent[k]]]
    /\ orderly' = (orderly /\ k = done + 1 /\ AllIdle(Handlers))
    /\ done' = IF orderly' THEN k ELSE 0
    /\ stable' = IF sent[k] = stable /\ AllIdle(Handlers) THEN stable ELSE NoEvent
    /\ UNCHANGED <<table, pending, outside>>

\* get_by_stripe_id sees active rows only.
Linked(h) == WithStripe(table, job[h].event.id) \cap Active(table)

\* A linked row is to be updated; without one, the customer is looked for by its
\* email, and ignored if it has none.
FindByStripe(h) ==
    LET e == job[h].event
    IN  /\ job[h].pc = "find" /\ e.type # "deleted"
        /\ \/ Linked(h) = {} /\ e.email = NoEmail /\ Finish(h, table)
           \/ Linked(h) = {} /\ e.email # NoEmail /\ Goto(h, [job[h] EXCEPT !.pc = "by email"])
           \/ \E i \in Linked(h) :
              Goto(h, [job[h] EXCEPT
                  !.pc = IF e.email \in {NoEmail, table[i].email} THEN "load" ELSE "taken",
                  !.op = "update", !.row = i, !.seen = table[i], !.email = table[i].email])
        /\ UNCHANGED <<pending, orderly, done, outside>>

FindDeleted(h) ==
    /\ job[h].pc = "find" /\ job[h].event.type = "deleted"
    /\ \/ Linked(h) = {} /\ Finish(h, table)
       \/ \E i \in Linked(h) :
          Goto(h, [job[h] EXCEPT !.pc = "load", !.op = "deactivate", !.row = i])
    /\ UNCHANGED <<pending, orderly, done, outside>>

\* An email that belongs to another active row is not taken over.
CheckTaken(h) ==
    LET e == job[h].event
        taken == (WithEmail(table, e.email) \cap Active(table)) \ {job[h].row} # {}
    IN  /\ job[h].pc = "taken"
        /\ Goto(h, [job[h] EXCEPT !.pc = "load",
                                  !.email = IF taken THEN @ ELSE e.email])
        /\ Note(taken)
        /\ UNCHANGED <<pending, outside>>

\* Mutant of FindByEmail: a row that is linked already is linked again.
FindByEmailLinked(h) ==
    LET hits == WithEmail(table, job[h].event.email) \cap Active(table)
    IN  /\ job[h].pc = "by email"
        /\ \/ hits = {} /\ Goto(h, [job[h] EXCEPT !.pc = "create"])
           \/ \E i \in hits :
                  Goto(h, [job[h] EXCEPT !.pc = "load", !.op = "link", !.row = i,
                                         !.seen = table[i]])
        /\ UNCHANGED <<pending, orderly, done, outside>>

\* A row with the email is linked, unless it is linked already; without one, the
\* customer is new.
FindByEmail(h) ==
    LET hits == WithEmail(table, job[h].event.email) \cap Active(table)
        linked == \E i \in hits : table[i].stripe # NoStripe
    IN  /\ job[h].pc = "by email"
        /\ \/ hits = {} /\ Goto(h, [job[h] EXCEPT !.pc = "create"])
           \/ linked /\ Finish(h, table)
           \/ \E i \in hits :
                  /\ ~linked
                  /\ Goto(h, [job[h] EXCEPT !.pc = "load", !.op = "link", !.row = i,
                                            !.seen = table[i]])
        /\ Note(linked)
        /\ UNCHANGED <<pending, outside>>

\* customer_repo.create: an active row with the email by now is an error.
Create(h) ==
    LET same == WithEmail(table, job[h].event.email)
    IN  /\ job[h].pc = "create"
        /\ \/ same = {} /\ Goto(h, [job[h] EXCEPT !.pc = "insert"])
           \/ same \cap Active(table) # {} /\ Finish(h, table)
           \/ \E i \in same \ Active(table) :
                  Goto(h, [job[h] EXCEPT !.pc = "write", !.op = "reactivate", !.row = i,
                                         !.loaded = table[i]])
        /\ UNCHANGED <<pending, orderly, done, outside>>

\* The new row is linked in a transaction of its own.
InsertRow(h) ==
    LET e == job[h].event
        new == [name |-> e.name, email |-> e.email, stripe |-> NoStripe, active |-> TRUE]
    IN  /\ job[h].pc = "insert"
        /\ IF Collides(table, new) THEN Finish(h, table)
           ELSE Commit(h, Insert(table, new),
                       [job[h] EXCEPT !.pc = "load", !.op = "adopt", !.row = NextRow(table)])
        /\ UNCHANGED <<pending, orderly, done, outside>>

\* The row is read to be written: any row, but update wants an active one.
Load(h) ==
    LET i == job[h].row
    IN  /\ job[h].pc = "load"
        /\ IF job[h].op \in {"update", "rename"} /\ ~table[i].active THEN Finish(h, table)
           ELSE Goto(h, [job[h] EXCEPT !.pc = "write", !.loaded = table[i]])
        /\ UNCHANGED <<pending, orderly, done, outside>>

\* Mutant of Edited: an update writes the email of the event, whatever it is.
EditedBlindly(j) ==
    CASE j.op \in {"update", "rename"} ->
             [j.loaded EXCEPT !.name = j.event.name, !.email = j.event.email]
      [] j.op \in {"link", "adopt"} -> [j.loaded EXCEPT !.stripe = j.event.id]
      [] j.op = "reactivate" -> [j.loaded EXCEPT !.active = TRUE, !.name = j.event.name]
      [] j.op = "deactivate" -> [j.loaded EXCEPT !.active = FALSE]
      [] j.op = "merge" -> [j.loaded EXCEPT !.name = j.event.name, !.stripe = j.event.id]

\* What the ORM holds when it commits.
Edited(j) ==
    CASE j.op \in {"update", "rename"} ->
             [j.loaded EXCEPT !.name = j.event.name, !.email = j.email]
      [] j.op \in {"link", "adopt"} -> [j.loaded EXCEPT !.stripe = j.event.id]
      [] j.op = "reactivate" -> [j.loaded EXCEPT !.active = TRUE, !.name = j.event.name]
      [] j.op = "deactivate" -> [j.loaded EXCEPT !.active = FALSE]
      [] j.op = "merge" -> [j.loaded EXCEPT !.name = j.event.name, !.stripe = j.event.id]

Written(h) == Flush(table, job[h].row, job[h].loaded, Edited(job[h]))

\* Mutant of Write: a link does not bring the name along.
WriteWithoutName(h) ==
    /\ job[h].pc = "write"
    /\ IsUnique(Written(h))
    /\ CASE job[h].op = "reactivate" ->
                Commit(h, Written(h), [job[h] EXCEPT !.pc = "load", !.op = "adopt"])
         [] job[h].op = "merge" ->
                Commit(h, Written(h), [job[h] EXCEPT !.pc = "resolve"])
         [] OTHER -> Finish(h, Written(h))
    /\ UNCHANGED <<pending, orderly, done, outside>>

\* Mutant of Write: the table has no unique indexes.
WriteUnchecked(h) ==
    /\ job[h].pc = "write"
    /\ Finish(h, Written(h))
    /\ UNCHANGED <<pending, orderly, done, outside>>

\* The commit succeeds.  A reactivated row is still to be linked, a linked one
\* may need the name, and a merged one leaves a conflict to be resolved.
Write(h) ==
    LET j == job[h]
        renames == j.op = "link" /\ j.event.name \notin {NoName, j.seen.name}
    IN  /\ j.pc = "write"
        /\ IsUnique(Written(h))
        /\ CASE j.op = "reactivate" ->
                    Commit(h, Written(h), [j EXCEPT !.pc = "load", !.op = "adopt"])
             [] renames ->
                    Commit(h, Written(h), [j EXCEPT !.pc = "load", !.op = "rename",
                                                    !.email = j.seen.email])
             [] j.op = "merge" ->
                    Commit(h, Written(h), [j EXCEPT !.pc = "resolve"])
             [] OTHER -> Finish(h, Written(h))
        /\ UNCHANGED <<pending, orderly, done, outside>>

\* A unique index refuses it.  The repository hides that from the integration,
\* except when the Stripe id collides: with a row get_by_stripe_id did not see.
WriteCollides(h) ==
    /\ job[h].pc = "write"
    /\ ~IsUnique(Written(h))
    /\ IF job[h].op \in {"link", "adopt"}
       THEN Goto(h, [job[h] EXCEPT !.pc = "conflict"])
       ELSE Finish(h, table)
    /\ Note(TRUE)
    /\ UNCHANGED <<pending, outside>>

-----------------------------------------------------------------------------
(* handle_email_conflict.                                                  *)

\* The active row with the email, if any, is the existing customer; one pending
\* conflict for an email is enough.
CheckConflict(h) ==
    LET email == job[h].event.email
        existing == WithEmail(table, email) \cap Active(table)
    IN  /\ job[h].pc = "conflict"
        /\ IF pending[email] > 0 THEN Finish(h, table)
           ELSE \/ /\ existing = {}
                   /\ Goto(h, [job[h] EXCEPT !.pc = "record", !.row = 0, !.seen = NoRow])
                \/ \E i \in existing :
                   Goto(h, [job[h] EXCEPT !.pc = "record", !.row = i, !.seen = table[i]])
        /\ UNCHANGED <<pending, orderly, done, outside>>

\* Mutant of RecordConflict: what could not be resolved is recorded again.
RecordUntilResolved(h, strategy) ==
    /\ job[h].pc = "record"
    /\ pending' = [pending EXCEPT ![job[h].event.email] = @ + 1]
    /\ Goto(h, IF strategy = "reject" THEN [job[h] EXCEPT !.pc = "resolve"] ELSE job[h])
    /\ UNCHANGED <<orderly, done, outside>>

\* The existing customer can be merged only if it is not linked; a missing name
\* is an error.
Mergeable(h) ==
    job[h].row # 0 /\ job[h].seen.stripe = NoStripe /\ job[h].event.name # NoName

\* The record is committed, then the strategy applied.
RecordConflict(h, strategy) ==
    /\ job[h].pc = "record"
    /\ pending' = [pending EXCEPT ![job[h].event.email] = @ + 1]
    /\ CASE strategy = "reject" -> Goto(h, [job[h] EXCEPT !.pc = "resolve"])
         [] strategy = "merge" /\ Mergeable(h) ->
                Goto(h, [job[h] EXCEPT !.pc = "load", !.op = "merge"])
         [] OTHER -> Finish(h, table)
    /\ UNCHANGED <<orderly, done, outside>>

ResolveConflict(h) ==
    /\ job[h].pc = "resolve"
    /\ pending' = [pending EXCEPT ![job[h].event.email] = @ - 1]
    /\ Finish(h, table)
    /\ UNCHANGED <<orderly, done, outside>>

\* The handler dies or meets a database error, and answers 200 if it can: what
\* it committed stays.
Fail(h) ==
    /\ job[h] # Idle
    /\ job' = [job EXCEPT ![h] = Idle]
    /\ stable' = NoEvent
    /\ Note(TRUE)
    /\ UNCHANGED <<table, pending, outside>>

-----------------------------------------------------------------------------
Environment ==
    \/ \E s \in StripeIds, name \in Names, email \in Emails \cup {NoEmail},
          type \in {"created", "updated", "deleted"} : StripeChange(s, type, name, email)
    \/ \E s \in StripeIds :
           (\E a \in announced : WorkerCreate(s, a)) \/ \E i \in RowIds : WorkerLink(s, i)
    \/ \E name \in Names, email \in Emails :
           \/ \E given \in StripeIds \cup {NoStripe} : ApiCreate(name, email, given)
           \/ \E i \in RowIds : ApiUpdate(i, name, email)
    \/ \E i \in RowIds : ApiDelete(i)

Handle(h) ==
    \/ \E k \in 1..Len(sent) : Deliver(h, k)
    \/ FindByStripe(h) \/ FindDeleted(h) \/ CheckTaken(h) \/ FindByEmail(h)
    \/ Create(h) \/ InsertRow(h)
    \/ Load(h) \/ Write(h) \/ WriteCollides(h)
    \/ CheckConflict(h) \/ ResolveConflict(h)
    \/ \E strategy \in Strategies : RecordConflict(h, strategy)
    \/ Fail(h)

Next == Environment \/ \E h \in Handlers : Handle(h)

Spec == Init /\ [][Next]_vars

-----------------------------------------------------------------------------
\* Every variable has its type, the unique indexes hold, and no more conflicts
\* are resolved than were recorded.
TypeOK ==
    /\ table \in Tables /\ IsUnique(table)
    /\ pending \in [Emails -> Nat]
    /\ sent \in Seq(Event) /\ Len(sent) <= MaxEvents
    /\ announced \subseteq [row : RowIds, name : Names, email : Emails]
    /\ creating \subseteq StripeIds \X RowIds
    /\ job \in [Handlers -> Job]
    /\ \A h \in Handlers : job[h].pc = "write" => job[h].row \in Present(table)
    /\ done \in 0..Len(sent)
    /\ orderly \in BOOLEAN
    /\ stable \in Event \cup {NoEvent}
    /\ writes \in 0..MaxWrites

\* The table has what Stripe last said of s; a customer without an email is not
\* kept.  Without a name any name will do: a link keeps the row's, an update blanks it.
Mirrors(s) ==
    LET e == Latest(s)
        rows == WithStripe(table, s) \cap Active(table)
    IN  IF e.type = "deleted" THEN rows = {}
        ELSE e.email # NoEmail =>
                 \E i \in rows : /\ table[i].email = e.email
                                 /\ table[i].name = e.name \/ e.name = NoName

\* When the webhooks came in order, one after the other, none met a conflict, and
\* rows were only ever inserted by others, with no Stripe id and between deliveries,
\* the table mirrors Stripe: whichever way a row is found, linked, created or brought
\* back, also for the echo of a customer the worker itself created.
OrderlyMirror ==
    (orderly /\ done = Len(sent) /\ AllIdle(Handlers)) =>
        \A s \in {sent[k].id : k \in 1..Len(sent)} : Mirrors(s)

\* Handling an event again, with nothing written in between, changes no row.
RepeatsNothing(h) ==
    /\ job[h] # Idle /\ job[h].event = stable
    /\ job'[h].pc # job[h].pc
    => table' = table

\* So it is for every event that has a name, whatever became of it.
NamedRepeatsNothing ==
    [][\A h \in Handlers : job[h].event # NoEvent /\ job[h].event.name # NoName =>
                               RepeatsNothing(h)]_vars

\* A row that is linked keeps its link: a webhook replaces it only on a row it
\* has itself created or brought back, or if others wrote after it had looked.
LinkKept ==
    [][\A h \in Handlers :
           (job[h].op \in {"link", "merge"} /\ ~job[h].touched /\ job'[h].pc # job[h].pc) =>
               \A i \in Present(table) :
                   table[i].stripe # NoStripe => table'[i].stripe = table[i].stripe]_vars

\* A webhook changes an email only on the row it found and only to the one its
\* event carries, never to none; without one it leaves the email as it is, unless
\* others wrote after it had looked: then it writes back what it had seen.
EmailKept ==
    [][\A h \in Handlers :
           (job[h].pc = "write" /\ ~job[h].touched /\ job'[h].pc # "write") =>
               \A i \in Present(table) :
                   \/ table'[i].email = table[i].email
                   \/ /\ i = job[h].row
                      /\ table'[i].email \in Emails \cap {job[h].event.email}]_vars

\* The check for a similar conflict and the record are apart, and still no email
\* gets more pending conflicts than there are handlers that could have raced: the
\* recorded ones and those about to be are never more.
BoundedPending ==
    \A e \in Emails :
        LET recording == {h \in Handlers : job[h].pc = "record" /\ job[h].event.email = e}
        IN  pending[e] + Cardinality(recording) <= Cardinality(Handlers)

\* "Idempotent processing (safe to run multiple times)" (stripe_service.py:144).
SafeToRepeat == [][\A h \in Handlers : RepeatsNothing(h)]_vars
=============================================================================
