-------------------------- MODULE CustomerService --------------------------
(***************************************************************************)
(* The customer requests of the API (app/services/customer_service.py over *)
(* app/repos/customer_repo.py): each runs in a thread and a session of its *)
(* own, so their statements interleave.  The repository commits the row    *)
(* itself; the service then writes the outbox event and commits again.     *)
(*                                                                         *)
(* A step is one statement or commit that other sessions can tell from its *)
(* neighbours.  The events are listed in the order of created_at, which is *)
(* the order of their INSERTs, not of their commits.                       *)
(***************************************************************************)
EXTENDS CustomerTable, Sequences

CONSTANTS
    Requests,   \* API requests; each performs one operation
    MaxFails    \* bound: requests that die or meet a database error

ASSUME ServiceAssumption == MaxFails \in Nat

VARIABLES
    table,      \* the committed customers table
    events,     \* Seq of outbox rows [req, type, id, payload, status]
    pc,         \* [Requests -> ...]: the next statement of the request
    op,         \* [Requests -> operation and arguments]
    target,     \* [Requests -> 0..MaxRows]: the row it works on, 0 for none yet
    loaded,     \* [Requests -> Row \cup {NoRow}]: the row as the session read it
    payload,    \* [Requests -> Row \cup {NoRow}]: model_dump() for the event
    outcome,    \* [Requests -> {"none", "ok", "refused", "error"}]: the answer
    cut,        \* history: requests that failed after their row was committed
    overlap,    \* history: were two requests ever open at once?
    fails       \* bounds MaxFails

rowVars == <<table, events>>
requestVars == <<pc, op, target, loaded, payload, outcome>>
historyVars == <<cut, overlap, fails>>
vars == <<rowVars, requestVars, historyVars>>

NoOp == [kind |-> "none"]

Operations ==
    [kind : {"create"}, name : Names, email : Emails, stripe : StripeIds \cup {NoStripe}]
    \cup [kind : {"update"}, id : RowIds, name : Names, email : Emails]
    \cup [kind : {"delete"}, id : RowIds]

EventType == [create |-> "customer_created",
              update |-> "customer_updated",
              delete |-> "customer_deleted"]

Open == {r \in Requests : pc[r] \notin {"ready", "done"}}

-----------------------------------------------------------------------------
Init ==
    /\ table = EmptyTable
    /\ events = <<>>
    /\ pc = [r \in Requests |-> "ready"]
    /\ op = [r \in Requests |-> NoOp]
    /\ target = [r \in Requests |-> 0]
    /\ loaded = [r \in Requests |-> NoRow]
    /\ payload = [r \in Requests |-> NoRow]
    /\ outcome = [r \in Requests |-> "none"]
    /\ cut = {}
    /\ overlap = FALSE
    /\ fails = 0

\* A request arrives.
Begin(r) ==
    /\ pc[r] = "ready"
    /\ \E o \in Operations :
           /\ op' = [op EXCEPT ![r] = o]
           /\ pc' = [pc EXCEPT ![r] = CASE o.kind = "create" -> "find"
                                        [] o.kind = "update" -> "load"
                                        [] o.kind = "delete" -> "snapshot"]
    /\ overlap' = (overlap \/ Open # {})
    /\ UNCHANGED <<rowVars, target, loaded, payload, outcome, cut, fails>>

Answer(r, o) ==
    /\ pc' = [pc EXCEPT ![r] = "done"]
    /\ outcome' = [outcome EXCEPT ![r] = o]

-----------------------------------------------------------------------------
(* The repository: read, write, commit, read back.                         *)

\* create: look for a row with the email, active or not.
FindByEmail(r) ==
    /\ pc[r] = "find"
    /\ LET found == WithEmail(table, op[r].email) IN
       \/ /\ found = {}
          /\ pc' = [pc EXCEPT ![r] = "insert"]
          /\ UNCHANGED <<target, loaded, outcome>>
       \/ \E i \in found :
             /\ table[i].active      \* already exists: ValueError
             /\ Answer(r, "refused")
             /\ UNCHANGED <<target, loaded>>
       \/ \E i \in found :
             /\ ~table[i].active     \* a deleted customer: reactivate it
             /\ target' = [target EXCEPT ![r] = i]
             /\ loaded' = [loaded EXCEPT ![r] = table[i]]
             /\ pc' = [pc EXCEPT ![r] = "write"]
             /\ UNCHANGED outcome
    /\ UNCHANGED <<rowVars, op, payload, historyVars>>

\* Mutant of InsertRow: nothing but the lookup keeps emails unique.
InsertUnchecked(r) ==
    /\ pc[r] = "insert"
    /\ table' = Insert(table, [name |-> op[r].name, email |-> op[r].email,
                               stripe |-> op[r].stripe, active |-> TRUE])
    /\ target' = [target EXCEPT ![r] = NextRow(table)]
    /\ pc' = [pc EXCEPT ![r] = "refresh"]
    /\ UNCHANGED <<events, op, loaded, payload, outcome, historyVars>>

\* create: INSERT and commit, or IntegrityError.
InsertRow(r) ==
    /\ pc[r] = "insert"
    /\ LET new == [name |-> op[r].name, email |-> op[r].email,
                   stripe |-> op[r].stripe, active |-> TRUE]
       IN  IF Collides(table, new)
           THEN Answer(r, "refused") /\ UNCHANGED <<table, target>>
           ELSE /\ table' = Insert(table, new)
                /\ target' = [target EXCEPT ![r] = NextRow(table)]
                /\ pc' = [pc EXCEPT ![r] = "refresh"]
                /\ UNCHANGED outcome
    /\ UNCHANGED <<events, op, loaded, payload, historyVars>>

\* delete: get_by_id, whose copy becomes the payload.
Snapshot(r) ==
    /\ pc[r] = "snapshot"
    /\ IF op[r].id \in Active(table)
       THEN /\ payload' = [payload EXCEPT ![r] = table[op[r].id]]
            /\ pc' = [pc EXCEPT ![r] = "load"]
            /\ UNCHANGED outcome
       ELSE Answer(r, "refused") /\ UNCHANGED payload
    /\ UNCHANGED <<rowVars, op, target, loaded, historyVars>>

\* Mutant of Load: the filter on is_active is dropped.
LoadAny(r) ==
    /\ pc[r] = "load"
    /\ IF op[r].id \in Present(table)
       THEN /\ target' = [target EXCEPT ![r] = op[r].id]
            /\ loaded' = [loaded EXCEPT ![r] = table[op[r].id]]
            /\ pc' = [pc EXCEPT ![r] = "write"]
            /\ UNCHANGED outcome
       ELSE Answer(r, "refused") /\ UNCHANGED <<target, loaded>>
    /\ UNCHANGED <<rowVars, op, payload, historyVars>>

\* update and delete: the row, if it is active.
Load(r) ==
    /\ pc[r] = "load"
    /\ IF op[r].id \in Active(table)
       THEN /\ target' = [target EXCEPT ![r] = op[r].id]
            /\ loaded' = [loaded EXCEPT ![r] = table[op[r].id]]
            /\ pc' = [pc EXCEPT ![r] = "write"]
            /\ UNCHANGED outcome
       ELSE Answer(r, "refused") /\ UNCHANGED <<target, loaded>>
    /\ UNCHANGED <<rowVars, op, payload, historyVars>>

\* The row as the request has edited it.
Edited(r) ==
    CASE op[r].kind = "create" ->
             [loaded[r] EXCEPT !.name = op[r].name, !.active = TRUE,
                               !.stripe = IF op[r].stripe # NoStripe THEN op[r].stripe ELSE @]
      [] op[r].kind = "update" -> [loaded[r] EXCEPT !.name = op[r].name, !.email = op[r].email]
      [] op[r].kind = "delete" -> [loaded[r] EXCEPT !.active = FALSE]

\* UPDATE and commit, or IntegrityError.  Only create and update read the row
\* back; delete already has its payload.
WriteRow(r) ==
    /\ pc[r] = "write"
    /\ LET written == Flush(table, target[r], loaded[r], Edited(r))
       IN  IF IsUnique(written)
           THEN /\ table' = written
                /\ pc' = [pc EXCEPT ![r] =
                             IF op[r].kind = "delete" THEN "event" ELSE "refresh"]
                /\ UNCHANGED outcome
           ELSE Answer(r, "refused") /\ UNCHANGED table
    /\ UNCHANGED <<events, op, target, loaded, payload, historyVars>>

\* Mutant of Refresh: an update announces its own copy of the row.
RefreshFromCopy(r) ==
    /\ pc[r] = "refresh"
    /\ payload' = [payload EXCEPT ![r] = IF op[r].kind = "update" THEN Edited(r)
                                         ELSE table[target[r]]]
    /\ pc' = [pc EXCEPT ![r] = "event"]
    /\ UNCHANGED <<rowVars, op, target, loaded, outcome, historyVars>>

\* db.refresh in a new transaction: the payload is what the row is by now.
Refresh(r) ==
    /\ pc[r] = "refresh"
    /\ payload' = [payload EXCEPT ![r] = table[target[r]]]
    /\ pc' = [pc EXCEPT ![r] = "event"]
    /\ UNCHANGED <<rowVars, op, target, loaded, outcome, historyVars>>

-----------------------------------------------------------------------------
(* The service: the event, and the second commit.                          *)

AddEventToOutbox(r) ==
    /\ pc[r] = "event"
    /\ events' = Append(events, [req |-> r, type |-> EventType[op[r].kind],
                                 id |-> target[r], payload |-> payload[r],
                                 status |-> "flushed"])
    /\ pc' = [pc EXCEPT ![r] = "commit"]
    /\ UNCHANGED <<table, op, target, loaded, payload, outcome, historyVars>>

\* What becomes of the event that request r has flushed, if there is one.
Settle(r, status) ==
    events' = [n \in 1..Len(events) |->
                  IF events[n].req = r /\ events[n].status = "flushed"
                  THEN [events[n] EXCEPT !.status = status] ELSE events[n]]

\* Mutant of CommitEvent: no second commit; the session's close rolls back.
CommitForgotten(r) ==
    /\ pc[r] = "commit"
    /\ Settle(r, "undone")
    /\ pc' = [pc EXCEPT ![r] = "reply"]
    /\ UNCHANGED <<table, op, target, loaded, payload, outcome, historyVars>>

CommitEvent(r) ==
    /\ pc[r] = "commit"
    /\ Settle(r, "committed")
    /\ pc' = [pc EXCEPT ![r] = "reply"]
    /\ UNCHANGED <<table, op, target, loaded, payload, outcome, historyVars>>

Reply(r) ==
    /\ pc[r] = "reply"
    /\ Answer(r, "ok")
    /\ UNCHANGED <<rowVars, op, target, loaded, payload, historyVars>>

\* A database call raises, or the process dies.  The rollback undoes what this
\* session has not committed: an event, but never the row.
Fail(r) ==
    /\ fails < MaxFails
    /\ r \in Open
    /\ fails' = fails + 1
    /\ cut' = IF pc[r] \in {"refresh", "event", "commit"} THEN cut \cup {r} ELSE cut
    /\ Settle(r, "undone")
    /\ Answer(r, "error")
    /\ UNCHANGED <<table, op, target, loaded, payload, overlap>>

Quiet == \A r \in Requests : pc[r] = "done"

\* Nothing more arrives.
Rest == Quiet /\ UNCHANGED vars

Next ==
    \/ \E r \in Requests :
           \/ Begin(r) \/ FindByEmail(r) \/ InsertRow(r) \/ Snapshot(r) \/ Load(r)
           \/ WriteRow(r) \/ Refresh(r) \/ AddEventToOutbox(r) \/ CommitEvent(r)
           \/ Reply(r) \/ Fail(r)
    \/ Rest

Spec == Init /\ [][Next]_vars

-----------------------------------------------------------------------------
Phases == {"ready", "find", "insert", "snapshot", "load", "write", "refresh",
           "event", "commit", "reply", "done"}

Event == [req : Requests, type : {"customer_created", "customer_updated", "customer_deleted"},
          id : RowIds, payload : Row, status : {"flushed", "committed", "undone"}]

\* Every variable has its type; the table obeys its unique indexes.
TypeOK ==
    /\ table \in Tables /\ IsUnique(table)
    /\ events \in Seq(Event)
    /\ pc \in [Requests -> Phases]
    /\ op \in [Requests -> Operations \cup {NoOp}]
    /\ target \in [Requests -> RowIds \cup {0}]
    /\ loaded \in [Requests -> Row \cup {NoRow}]
    /\ payload \in [Requests -> Row \cup {NoRow}]
    /\ outcome \in [Requests -> {"none", "ok", "refused", "error"}]
    /\ cut \subseteq Requests
    /\ overlap \in BOOLEAN
    /\ fails \in 0..MaxFails

Committed == {n \in 1..Len(events) : events[n].status = "committed"}

CommittedEvents == {events[n] : n \in Committed}

\* A request answered with success has its event in the outbox for good; one
\* that was refused has none.
AckedIsAnnounced ==
    \A r \in Requests :
        LET announced == \E ev \in CommittedEvents : ev.req = r
        IN  /\ outcome[r] = "ok" => announced
            /\ outcome[r] = "refused" => ~announced

\* Does the event tell what the row is now?
Tells(ev, i) ==
    /\ ev.id = i
    /\ \/ table[i].active /\ ev.type # "customer_deleted" /\ ev.payload = table[i]
       \/ ~table[i].active /\ ev.type = "customer_deleted"

\* When all requests are answered and none was cut short, some event tells the
\* final state of each row, however the requests interleaved: the last writer
\* reads back what it left.  No write goes unannounced.
FinalStateAnnounced ==
    (Quiet /\ cut = {}) =>
        \A i \in Present(table) : \E ev \in CommittedEvents : Tells(ev, i)

\* If, besides, the requests came one after the other, it is the last event of
\* the row that tells it: whoever applies the events in order ends up right.
LastEventTells ==
    (Quiet /\ cut = {} /\ ~overlap) =>
        \A n \in Committed :
            (\A m \in Committed : events[m].id = events[n].id => m <= n)
                => Tells(events[n], events[n].id)

\* The row and its event are committed together: customer_service.py:16 adds the
\* event "within the same transaction", and line 24 commits "both customer
\* creation and outbox event".
CommittedTogether ==
    \A r \in Requests :
        (pc[r] = "done" /\ r \in cut) => \E ev \in CommittedEvents : ev.req = r
=============================================================================
