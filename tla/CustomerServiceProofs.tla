------------------------ MODULE CustomerServiceProofs ------------------------
(***************************************************************************)
(* Theorems about CustomerService for any number of requests, and any sets *)
(* of names, emails and Stripe ids.                                        *)
(***************************************************************************)
EXTENDS CustomerService, CustomerTableProofs, SequenceTheorems

Kind(r) == op[r].kind

\* What a request has in hand at each of its statements.
InHand(r) ==
    /\ pc[r] # "ready" => op[r] \in Operations
    /\ pc[r] \in {"find", "insert"} => Kind(r) = "create"
    /\ pc[r] = "snapshot" => Kind(r) = "delete"
    /\ pc[r] = "load" => Kind(r) # "create"
    /\ pc[r] = "load" /\ Kind(r) = "delete" => payload[r] \in Row
    /\ pc[r] \in {"write", "refresh", "event", "commit"} => target[r] \in Present(table)
    /\ pc[r] = "write" => /\ loaded[r] \in Row
                          /\ loaded[r].active <=> Kind(r) # "create"
                          /\ Kind(r) = "delete" => payload[r] \in Row
    /\ pc[r] = "refresh" => Kind(r) # "delete"
    /\ pc[r] \in {"event", "commit"} => payload[r] \in Row
    /\ pc[r] = "done" <=> outcome[r] # "none"

EventOf(r, status) ==
    [req |-> r, type |-> EventType[Kind(r)], id |-> target[r], payload |-> payload[r],
     status |-> status]

\* Request r has a committed event.
Announced(r) == \E n \in Committed : events[n].req = r

\* The events of request r, by how far it has come.
EventsOf(r) ==
    /\ pc[r] = "commit" => \E n \in 1..Len(events) : events[n] = EventOf(r, "flushed")
    /\ pc[r] = "reply" \/ outcome[r] = "ok" => Announced(r)
    /\ \A n \in 1..Len(events) :
           events[n].req = r =>
               /\ pc[r] \in {"commit", "reply", "done"} /\ outcome[r] # "refused"
               /\ events[n].status = "flushed" => pc[r] = "commit"
               /\ events[n].status = "undone" => r \in cut

\* Request r is on its way to an event that tells what row i is.
Telling(r, i) ==
    /\ target[r] = i
    /\ IF table[i].active
       THEN /\ Kind(r) # "delete"
            /\ pc[r] = "refresh" \/ (pc[r] \in {"event", "commit"} /\ payload[r] = table[i])
       ELSE Kind(r) = "delete" /\ pc[r] \in {"event", "commit"}

\* Every row is told by an event or about to be.
RowsTold ==
    cut = {} =>
        \A i \in Present(table) :
            \/ \E n \in Committed : Tells(events[n], i)
            \/ \E r \in Requests : Telling(r, i)

\* While requests come one after the other, the row a request loaded stays as it
\* is until it writes, and what it reads back is what it wrote.
Alone ==
    ~overlap =>
        /\ \A r, q \in Open : r = q
        /\ \A r \in Requests :
               /\ pc[r] = "write" => table[target[r]].active = loaded[r].active
               /\ pc[r] \in {"refresh", "event"} => Telling(r, target[r])

Last(n) == \A m \in 1..Len(events) : events[m].id = events[n].id => m <= n

\* The last event of each row tells it, unless a request has written the row
\* and has still to add its event.
LastTold ==
    cut = {} /\ ~overlap =>
        \A n \in 1..Len(events) :
            Last(n) => \/ Tells(events[n], events[n].id)
                       \/ \E r \in Requests : /\ target[r] = events[n].id
                                              /\ pc[r] \in {"refresh", "event"}

StateOK ==
    /\ pc \in [Requests -> Phases]
    /\ op \in [Requests -> Operations \cup {NoOp}]
    /\ target \in [Requests -> RowIds \cup {0}]
    /\ loaded \in [Requests -> Row \cup {NoRow}]
    /\ payload \in [Requests -> Row \cup {NoRow}]
    /\ outcome \in [Requests -> {"none", "ok", "refused", "error"}]

HistoryOK == cut \subseteq Requests /\ overlap \in BOOLEAN /\ fails \in 0..MaxFails

EventsOK ==
    /\ events \in Seq(Event)
    /\ \A n \in 1..Len(events) : events[n].id \in Present(table)

IInv ==
    /\ Sound(table) /\ EventsOK /\ StateOK /\ HistoryOK
    /\ \A r \in Requests : InHand(r) /\ EventsOf(r)
    /\ RowsTold /\ Alone /\ LastTold

-----------------------------------------------------------------------------
LEMMA TypesFromInv == IInv => TypeOK
<1> SUFFICES ASSUME IInv PROVE TypeOK
    OBVIOUS
<1>1. table \in Tables /\ IsUnique(table) /\ events \in Seq(Event)
    BY DEF IInv, Sound, EventsOK
<1> QED BY <1>1 DEF IInv, StateOK, HistoryOK, TypeOK

LEMMA InvInit == Init => IInv
<1> SUFFICES ASSUME Init PROVE IInv
    OBVIOUS
<1>1. Present(table) = {} /\ table \in Tables
    BY DEF Init, EmptyTable, Present, Tables
<1>2. Sound(table)
    BY <1>1, TableAssumption DEF Sound, IsUnique, Filled
<1>3. events \in Seq(Event) /\ Len(events) = 0
    BY DEF Init
<1>4. StateOK
    BY DEF Init, StateOK, Phases
<1>5. HistoryOK
    <2>1. overlap \in BOOLEAN
        BY Zenon DEF Init
    <2>2. fails \in 0..MaxFails /\ cut \subseteq Requests
        BY ServiceAssumption DEF Init
    <2> QED BY <2>1, <2>2 DEF HistoryOK
<1>6. \A r \in Requests : InHand(r) /\ EventsOf(r)
    BY <1>3 DEF Init, InHand, EventsOf
<1>7. EventsOK /\ RowsTold /\ Alone /\ LastTold
    BY <1>1, <1>3 DEF Init, EventsOK, RowsTold, Alone, LastTold, Open
<1> QED BY <1>2, <1>4, <1>5, <1>6, <1>7 DEF IInv

-----------------------------------------------------------------------------
RequestStep(r) ==
    \/ Begin(r) \/ FindByEmail(r) \/ InsertRow(r) \/ Snapshot(r) \/ Load(r)
    \/ WriteRow(r) \/ Refresh(r) \/ AddEventToOutbox(r) \/ CommitEvent(r)
    \/ Reply(r) \/ Fail(r)

\* The others do not notice a step, but for the table, the events and the history.
LEMMA Others ==
    ASSUME StateOK, NEW r \in Requests, RequestStep(r), NEW q \in Requests, q # r
    PROVE  /\ pc'[q] = pc[q] /\ op'[q] = op[q] /\ target'[q] = target[q]
           /\ loaded'[q] = loaded[q] /\ payload'[q] = payload[q] /\ outcome'[q] = outcome[q]
BY DEF StateOK, RequestStep, Begin, FindByEmail, InsertRow, Snapshot, Load, WriteRow, Refresh,
       AddEventToOutbox, CommitEvent, Reply, Fail, Answer

LEMMA HistoryStep ==
    ASSUME HistoryOK, NEW r \in Requests, RequestStep(r)
    PROVE  /\ HistoryOK' /\ (overlap => overlap')
           /\ cut' = IF Fail(r) /\ pc[r] \in {"refresh", "event", "commit"} THEN cut \cup {r} ELSE cut
<1>1. CASE Begin(r)
    <2>1. overlap' \in BOOLEAN /\ (overlap => overlap')
        BY <1>1 DEF Begin
    <2>2. cut' = cut /\ fails' = fails /\ pc[r] = "ready"
        BY <1>1 DEF Begin
    <2> QED BY <2>1, <2>2 DEF HistoryOK
<1>2. CASE Fail(r)
    <2>1. fails' \in 0..MaxFails /\ overlap' = overlap
        BY <1>2, ServiceAssumption DEF Fail, HistoryOK
    <2> QED BY <1>2, <2>1 DEF HistoryOK, Fail
<1>3. ASSUME UNCHANGED historyVars
      PROVE  /\ HistoryOK' /\ (overlap => overlap')
             /\ cut' = IF Fail(r) /\ pc[r] \in {"refresh", "event", "commit"} THEN cut \cup {r} ELSE cut
    <2>1. cut' = cut /\ overlap' = overlap /\ fails' = fails
        BY <1>3 DEF historyVars
    <2>2. ~Fail(r)
        BY <2>1 DEF Fail, HistoryOK
    <2> QED BY <2>1, <2>2 DEF HistoryOK
<1> QED BY <1>1, <1>2, <1>3 DEF RequestStep, FindByEmail, InsertRow, Snapshot, Load, WriteRow,
        Refresh, AddEventToOutbox, CommitEvent, Reply

\* A row stays where it is; a request changes no row but its own.
LEMMA TableStep ==
    ASSUME IInv, NEW r \in Requests, RequestStep(r)
    PROVE  /\ Sound(table') /\ Present(table) \subseteq Present(table')
           /\ \/ UNCHANGED table /\ (pc[r] \in {"insert", "write"} => pc'[r] = "done")
              \/ /\ InsertRow(r) /\ target'[r] \notin Present(table)
                 /\ Present(table') = Present(table) \cup {target'[r]}
                 /\ pc'[r] = "refresh" /\ table'[target'[r]].active
                 /\ \A j \in Present(table) : table'[j] = table[j]
              \/ /\ WriteRow(r) /\ Present(table') = Present(table)
                 /\ target[r] \in Present(table)
                 /\ pc'[r] = (IF Kind(r) = "delete" THEN "event" ELSE "refresh")
                 /\ table'[target[r]].active =
                        (IF Kind(r) = "create" THEN TRUE
                         ELSE IF Kind(r) = "delete" THEN FALSE
                         ELSE table[target[r]].active)
                 /\ \A j \in Present(table) : j # target[r] => table'[j] = table[j]
<1>1. Sound(table) /\ table \in Tables
    BY DEF IInv, Sound
<1>2. CASE UNCHANGED table /\ (pc[r] \in {"insert", "write"} => pc'[r] = "done")
    BY <1>1, <1>2 DEF Present
<1>3. CASE InsertRow(r) /\ pc'[r] # "done"
    <2> DEFINE new == [name |-> op[r].name, email |-> op[r].email,
                       stripe |-> op[r].stripe, active |-> TRUE]
               i == NextRow(table)
    <2>1. /\ ~Collides(table, new) /\ table' = Insert(table, new)
          /\ target' = [target EXCEPT ![r] = i] /\ pc' = [pc EXCEPT ![r] = "refresh"]
        BY <1>3 DEF InsertRow, Answer, IInv, StateOK
    <2>2. op[r] \in Operations /\ op[r].kind = "create"
        BY <1>3 DEF InsertRow, IInv, InHand, Kind
    <2>3. new \in Row
        BY <2>2 DEF Operations, Row
    <2>4. Sound(table') /\ Present(table') = Present(table) \cup {i} /\ i \in RowIds \ Present(table)
        BY <1>1, <2>1, <2>3, InsertSound
    <2>5. target'[r] = i /\ pc'[r] = "refresh"
        BY <2>1 DEF IInv, StateOK
    <2>6. table'[i] = new /\ \A j \in Present(table) : table'[j] = table[j]
        BY <1>1, <2>1, <2>4 DEF Insert, Tables, Present
    <2>7. new.active
        OBVIOUS
    <2> HIDE DEF new, i
    <2> QED BY <1>3, <2>4, <2>5, <2>6, <2>7
<1>4. CASE WriteRow(r) /\ pc'[r] # "done"
    <2> DEFINE i == target[r]
               u == Flush(table, i, loaded[r], Edited(r))
    <2>1. /\ pc[r] = "write" /\ IsUnique(u) /\ table' = u
          /\ pc' = [pc EXCEPT ![r] = IF op[r].kind = "delete" THEN "event" ELSE "refresh"]
        BY <1>4 DEF WriteRow, Answer, IInv, StateOK
    <2>2. /\ op[r] \in Operations /\ i \in Present(table) /\ loaded[r] \in Row
          /\ loaded[r].active <=> Kind(r) # "create"
        BY <2>1 DEF IInv, InHand
    <2>3. /\ Edited(r) \in Row
          /\ Edited(r).active = IF Kind(r) = "create" THEN TRUE
                                ELSE IF Kind(r) = "delete" THEN FALSE ELSE loaded[r].active
        <3>1. CASE op[r].kind = "create"
            <4>1. op[r].name \in Names /\ op[r].stripe \in StripeIds \cup {NoStripe}
                BY <2>2, <3>1 DEF Operations
            <4> QED BY <2>2, <3>1, <4>1 DEF Edited, Kind, Row
        <3>2. CASE op[r].kind = "update"
            <4>1. op[r].name \in Names /\ op[r].email \in Emails
                BY <2>2, <3>2 DEF Operations
            <4> QED BY <2>2, <3>2, <4>1 DEF Edited, Kind, Row
        <3>3. CASE op[r].kind = "delete"
            BY <2>2, <3>3 DEF Edited, Kind, Row
        <3> QED BY <2>2, <3>1, <3>2, <3>3 DEF Operations
    <2> HIDE DEF u
    <2>4. /\ u \in Tables /\ Present(u) = Present(table)
          /\ u[i].active = IF Edited(r).active # loaded[r].active THEN Edited(r).active
                           ELSE table[i].active
          /\ \A j \in RowIds : j # i => u[j] = table[j]
        <3>1. i \in Present(table) /\ loaded[r] \in Row /\ Edited(r) \in Row /\ table \in Tables
            BY <1>1, <2>2, <2>3
        <3>2. u = Flush(table, i, loaded[r], Edited(r))
            BY DEF u
        <3> HIDE DEF i
        <3> QED BY <3>1, <3>2, FlushRow
    <2>5. Sound(u)
        BY <1>1, <2>1, <2>4 DEF Sound, Filled
    <2>6. u[i].active = IF Kind(r) = "create" THEN TRUE
                        ELSE IF Kind(r) = "delete" THEN FALSE ELSE table[i].active
        BY <2>2, <2>3, <2>4
    <2>7. pc'[r] = IF Kind(r) = "delete" THEN "event" ELSE "refresh"
        BY <2>1 DEF IInv, StateOK, Kind
    <2> QED BY <1>4, <2>1, <2>2, <2>4, <2>5, <2>6, <2>7 DEF Present
<1>5. CASE (InsertRow(r) \/ WriteRow(r)) /\ pc'[r] = "done"
    BY <1>1, <1>2, <1>5 DEF InsertRow, WriteRow, IInv, StateOK
<1>6. CASE Fail(r)
    BY <1>2, <1>6 DEF Fail, Answer, IInv, StateOK
<1> QED BY <1>2, <1>3, <1>4, <1>5, <1>6 DEF RequestStep, Begin, FindByEmail, Snapshot, Load, Refresh,
        AddEventToOutbox, CommitEvent, Reply, rowVars

-----------------------------------------------------------------------------
LEMMA StateStep ==
    ASSUME IInv, NEW r \in Requests, RequestStep(r)
    PROVE  StateOK'
<1>1. StateOK /\ InHand(r) /\ table \in Tables
    BY DEF IInv, Sound
<1>2. CASE Begin(r)
    <2>1. PICK o \in Operations : op' = [op EXCEPT ![r] = o]
        BY <1>2 DEF Begin
    <2>2. pc' \in [Requests -> Phases]
        BY <1>1, <1>2 DEF Begin, Operations, StateOK, Phases
    <2> QED BY <1>1, <1>2, <2>1, <2>2 DEF Begin, StateOK
<1>3. CASE FindByEmail(r)
    <2>1. \A i \in WithEmail(table, op[r].email) : i \in RowIds /\ table[i] \in Row
        BY <1>1, PresentRow DEF WithEmail
    <2>2. pc' \in [Requests -> Phases] /\ outcome' \in [Requests -> {"none", "ok", "refused", "error"}]
        BY <1>1, <1>3 DEF FindByEmail, Answer, StateOK, Phases
    <2>3. target' \in [Requests -> RowIds \cup {0}] /\ loaded' \in [Requests -> Row \cup {NoRow}]
        BY <1>1, <1>3, <2>1 DEF FindByEmail, StateOK
    <2> QED BY <1>1, <1>3, <2>2, <2>3 DEF FindByEmail, StateOK
<1>4. CASE InsertRow(r)
    <2>1. pc' \in [Requests -> Phases] /\ outcome' \in [Requests -> {"none", "ok", "refused", "error"}]
        BY <1>1, <1>4 DEF InsertRow, Answer, StateOK, Phases
    <2>2. target' \in [Requests -> RowIds \cup {0}]
        <3>1. CASE UNCHANGED target
            BY <1>1, <3>1 DEF StateOK
        <3>2. CASE target' = [target EXCEPT ![r] = NextRow(table)] /\ ~UNCHANGED target
            <4>1. target'[r] = NextRow(table) /\ pc' = [pc EXCEPT ![r] = "refresh"]
                BY <1>1, <1>4, <3>2 DEF StateOK, InsertRow
            <4> DEFINE new == [name |-> op[r].name, email |-> op[r].email,
                               stripe |-> op[r].stripe, active |-> TRUE]
            <4>2. ~Collides(table, new)
                BY <1>4, <3>2 DEF InsertRow
            <4>3. new.email \in Emails /\ WithEmail(table, new.email) = {}
                BY <1>1, <1>4, <4>2 DEF InsertRow, InHand, Kind, Operations, Collides
            <4>4. NextRow(table) \in RowIds
                BY <4>3, NextRowFree DEF IInv
            <4> QED BY <1>1, <3>2, <4>4 DEF StateOK
        <3> QED BY <1>4, <3>1, <3>2 DEF InsertRow
    <2> QED BY <1>1, <1>4, <2>1, <2>2 DEF InsertRow, StateOK
<1>5. CASE Snapshot(r) \/ Load(r)
    <2>1. \A i \in Active(table) : i \in RowIds /\ table[i] \in Row
        BY <1>1, PresentRow DEF Active
    <2>2. pc' \in [Requests -> Phases] /\ outcome' \in [Requests -> {"none", "ok", "refused", "error"}]
        BY <1>1, <1>5 DEF Snapshot, Load, Answer, StateOK, Phases
    <2>3. target' \in [Requests -> RowIds \cup {0}]
        BY <1>1, <1>5, <2>1 DEF Snapshot, Load, StateOK
    <2>4. loaded' \in [Requests -> Row \cup {NoRow}] /\ payload' \in [Requests -> Row \cup {NoRow}]
        BY <1>1, <1>5, <2>1 DEF Snapshot, Load, StateOK
    <2> QED BY <1>1, <1>5, <2>2, <2>3, <2>4 DEF Snapshot, Load, StateOK
<1>6. CASE Refresh(r)
    <2>1. table[target[r]] \in Row
        BY <1>1, <1>6, PresentRow DEF Refresh, InHand
    <2> QED BY <1>1, <1>6, <2>1 DEF Refresh, StateOK, Phases
<1>7. CASE WriteRow(r) \/ AddEventToOutbox(r) \/ CommitEvent(r) \/ Reply(r) \/ Fail(r)
    <2>1. pc' \in [Requests -> Phases] /\ outcome' \in [Requests -> {"none", "ok", "refused", "error"}]
        BY <1>1, <1>7 DEF WriteRow, AddEventToOutbox, CommitEvent, Reply, Fail, Answer, StateOK, Phases
    <2> QED BY <1>1, <1>7, <2>1 DEF WriteRow, AddEventToOutbox, CommitEvent, Reply, Fail, StateOK
<1> QED BY <1>2, <1>3, <1>4, <1>5, <1>6, <1>7 DEF RequestStep

LEMMA InHandStep ==
    ASSUME IInv, NEW r \in Requests, RequestStep(r), NEW q \in Requests
    PROVE  InHand(q)'
<1>1. StateOK /\ InHand(r) /\ InHand(q) /\ Sound(table) /\ table \in Tables
    BY DEF IInv, Sound
<1>2. Present(table) \subseteq Present(table')
    BY TableStep
<1>3. CASE q # r
    BY <1>1, <1>2, <1>3, Others DEF InHand, Kind
<1>4. CASE q = r /\ Begin(r)
    BY <1>1, <1>4 DEF Begin, InHand, Kind, Operations, StateOK
<1>5. CASE q = r /\ FindByEmail(r)
    <2>1. \A i \in WithEmail(table, op[r].email) : i \in Present(table) /\ table[i] \in Row
        BY <1>1, PresentRow DEF WithEmail
    <2> QED BY <1>1, <1>2, <1>5, <2>1 DEF FindByEmail, Answer, InHand, Kind, StateOK
<1>6. CASE q = r /\ InsertRow(r)
    <2>1. CASE pc'[r] = "done"
        BY <1>1, <1>6, <2>1 DEF InsertRow, Answer, InHand, Kind, StateOK
    <2>2. CASE pc'[r] # "done"
        <3>1. target'[r] \in Present(table')
            BY <1>6, <2>2, TableStep DEF InsertRow, WriteRow
        <3> QED BY <1>1, <1>6, <2>2, <3>1 DEF InsertRow, Answer, InHand, Kind, StateOK
    <2> QED BY <2>1, <2>2
<1>7. CASE q = r /\ (Snapshot(r) \/ Load(r))
    <2>1. \A i \in Active(table) : i \in Present(table) /\ table[i] \in Row /\ table[i].active
        BY <1>1, PresentRow DEF Active
    <2> QED BY <1>1, <1>2, <1>7, <2>1 DEF Snapshot, Load, Answer, InHand, Kind, StateOK
<1>8. CASE q = r /\ WriteRow(r)
    BY <1>1, <1>2, <1>8 DEF WriteRow, Answer, InHand, Kind, StateOK
<1>9. CASE q = r /\ Refresh(r)
    <2>1. table[target[r]] \in Row
        BY <1>1, <1>9, PresentRow DEF Refresh, InHand
    <2> QED BY <1>1, <1>2, <1>9, <2>1 DEF Refresh, InHand, Kind, StateOK
<1>10. CASE q = r /\ (AddEventToOutbox(r) \/ CommitEvent(r) \/ Reply(r) \/ Fail(r))
    BY <1>1, <1>2, <1>10 DEF AddEventToOutbox, CommitEvent, Reply, Fail, Answer, InHand, Kind,
        StateOK, Open
<1> QED BY <1>3, <1>4, <1>5, <1>6, <1>7, <1>8, <1>9, <1>10 DEF RequestStep

-----------------------------------------------------------------------------
\* Only the status of an event ever changes.
LEMMA Settled ==
    ASSUME events \in Seq(Event), NEW r \in Requests, NEW s \in {"committed", "undone"},
           Settle(r, s)
    PROVE  /\ events' \in Seq(Event) /\ Len(events') = Len(events)
           /\ \A n \in 1..Len(events) :
                  /\ events'[n].req = events[n].req /\ events'[n].type = events[n].type
                  /\ events'[n].id = events[n].id /\ events'[n].payload = events[n].payload
                  /\ events'[n].status = IF events[n].req = r /\ events[n].status = "flushed"
                                         THEN s ELSE events[n].status
<1>1. Len(events) \in Nat /\ \A n \in 1..Len(events) : events[n] \in Event
    BY ElementOfSeq
<1>2. \A n \in 1..Len(events) : [events[n] EXCEPT !.status = s] \in Event
    BY <1>1 DEF Event
<1> DEFINE new(n) == IF events[n].req = r /\ events[n].status = "flushed"
                     THEN [events[n] EXCEPT !.status = s] ELSE events[n]
<1>3. events' = [n \in 1..Len(events) |-> new(n)]
    BY DEF Settle
<1>4. \A n \in 1..Len(events) : new(n) \in Event
    BY <1>1, <1>2
<1>5. \A n \in 1..Len(events) :
          /\ new(n).req = events[n].req /\ new(n).type = events[n].type
          /\ new(n).id = events[n].id /\ new(n).payload = events[n].payload
          /\ new(n).status = IF events[n].req = r /\ events[n].status = "flushed"
                             THEN s ELSE events[n].status
    BY <1>1 DEF Event
<1> HIDE DEF new
<1>6. events' \in [1..Len(events) -> Event]
    BY <1>3, <1>4
<1>7. events' \in Seq(Event) /\ Len(events') = Len(events)
    BY <1>1, <1>6, SeqDef
<1> QED BY <1>3, <1>5, <1>7

\* What a step does to the events: it leaves them, adds its own, or settles it.
LEMMA EventsStep ==
    ASSUME IInv, NEW r \in Requests, RequestStep(r)
    PROVE  /\ EventsOK'
           /\ \/ UNCHANGED events /\ pc[r] \notin {"event", "commit"}
              \/ Fail(r) /\ UNCHANGED events /\ pc[r] = "event"
              \/ /\ AddEventToOutbox(r) /\ UNCHANGED <<table, cut>>
                 /\ Len(events') = Len(events) + 1
                 /\ \A n \in 1..Len(events) : events'[n] = events[n]
                 /\ events'[Len(events) + 1] = EventOf(r, "flushed")
              \/ /\ pc[r] = "commit" /\ UNCHANGED table
                 /\ \/ CommitEvent(r) /\ Settle(r, "committed")
                    \/ Fail(r) /\ Settle(r, "undone")
<1>1. /\ events \in Seq(Event) /\ Len(events) \in Nat
      /\ \A n \in 1..Len(events) : events[n].id \in Present(table)
    BY DEF IInv, EventsOK
<1>2. Present(table) \subseteq Present(table')
    BY TableStep
<1>3. CASE AddEventToOutbox(r)
    <2>1. EventOf(r, "flushed") \in Event /\ target[r] \in Present(table)
        <3>1. /\ op[r] \in Operations /\ payload[r] \in Row /\ target[r] \in Present(table)
            BY <1>3 DEF AddEventToOutbox, IInv, InHand
        <3>2. target[r] \in RowIds
            BY <3>1 DEF Present
        <3>3. EventType[Kind(r)] \in {"customer_created", "customer_updated", "customer_deleted"}
            BY <3>1 DEF Operations, Kind, EventType
        <3> QED BY <3>1, <3>2, <3>3 DEF EventOf, Event
    <2>2. events' = Append(events, EventOf(r, "flushed"))
        BY <1>3 DEF AddEventToOutbox, EventOf, Kind
    <2>3. EventOf(r, "flushed").id = target[r]
        BY DEF EventOf
    <2> HIDE DEF EventOf
    <2>4. /\ events' \in Seq(Event) /\ Len(events') = Len(events) + 1
          /\ \A n \in 1..Len(events) : events'[n] = events[n]
          /\ events'[Len(events) + 1] = EventOf(r, "flushed")
        BY <1>1, <2>1, <2>2, AppendProperties
    <2>5. EventsOK'
        BY <1>1, <1>2, <2>1, <2>3, <2>4 DEF EventsOK
    <2> QED BY <1>3, <2>4, <2>5 DEF AddEventToOutbox, historyVars
<1>4. CASE CommitEvent(r) \/ (Fail(r) /\ pc[r] = "commit")
    <2>1. PICK s \in {"committed", "undone"} : Settle(r, s)
        BY <1>4 DEF CommitEvent, Fail
    <2>2. EventsOK'
        BY <1>1, <1>2, <2>1, Settled DEF EventsOK
    <2> QED BY <1>4, <2>2 DEF CommitEvent, Fail
<1>5. CASE Fail(r) /\ pc[r] # "commit"
    <2>1. \A n \in 1..Len(events) : ~(events[n].req = r /\ events[n].status = "flushed")
        BY <1>5 DEF IInv, EventsOf
    <2>2. events' = [n \in 1..Len(events) |-> events[n]]
        BY <1>5, <2>1 DEF Fail, Settle
    <2>3. events' = events
        BY <1>1, <2>2, SeqDef
    <2> QED BY <1>1, <1>2, <1>5, <2>3 DEF EventsOK
<1>6. CASE UNCHANGED events /\ pc[r] \notin {"event", "commit"}
    BY <1>1, <1>2, <1>6 DEF EventsOK
<1> QED BY <1>3, <1>4, <1>5, <1>6 DEF RequestStep, Begin, FindByEmail, InsertRow, Snapshot, Load,
        WriteRow, Refresh, Reply, rowVars

\* The events there were are there still, and tell the same; what was committed
\* stays committed.
LEMMA EventsKept ==
    ASSUME IInv, NEW r \in Requests, RequestStep(r)
    PROVE  /\ Len(events) \in Nat /\ Len(events) <= Len(events') /\ Len(events') \in Nat
           /\ Committed \subseteq Committed'
           /\ \A n \in 1..Len(events) :
                  /\ events'[n].req = events[n].req /\ events'[n].type = events[n].type
                  /\ events'[n].id = events[n].id /\ events'[n].payload = events[n].payload
                  /\ events[n].req # r => events'[n].status = events[n].status
<1>1. events \in Seq(Event) /\ Len(events) \in Nat
    BY DEF IInv, EventsOK
<1>2. CASE UNCHANGED events
    BY <1>1, <1>2 DEF Committed
<1>3. CASE /\ Len(events') = Len(events) + 1
           /\ \A n \in 1..Len(events) : events'[n] = events[n]
    BY <1>1, <1>3 DEF Committed
<1>4. ASSUME NEW s \in {"committed", "undone"}, Settle(r, s)
      PROVE  /\ Len(events') = Len(events)
             /\ Committed \subseteq Committed'
             /\ \A n \in 1..Len(events) :
                    /\ events'[n].req = events[n].req /\ events'[n].type = events[n].type
                    /\ events'[n].id = events[n].id /\ events'[n].payload = events[n].payload
                    /\ events[n].req # r => events'[n].status = events[n].status
    BY <1>1, <1>4, Settled DEF Committed
<1> QED BY <1>1, <1>2, <1>3, <1>4, EventsStep

-----------------------------------------------------------------------------
LEMMA EventsOfStep ==
    ASSUME IInv, NEW r \in Requests, RequestStep(r), NEW q \in Requests
    PROVE  EventsOf(q)'
<1>1. StateOK /\ HistoryOK /\ EventsOf(q) /\ EventsOf(r) /\ InHand(r)
    BY DEF IInv
<1>2. cut \subseteq cut'
    BY <1>1, HistoryStep
<1>3. CASE q # r
    <2>1. /\ pc'[q] = pc[q] /\ op'[q] = op[q] /\ target'[q] = target[q]
          /\ payload'[q] = payload[q] /\ outcome'[q] = outcome[q]
        BY <1>1, <1>3, Others
    <2>2. \A n \in 1..Len(events') : events'[n].req = q => n \in 1..Len(events)
        <3>1. CASE Len(events') = Len(events)
            BY <3>1
        <3>2. CASE Len(events') = Len(events) + 1 /\ events'[Len(events) + 1] = EventOf(r, "flushed")
            BY <1>3, <3>2, EventsKept DEF EventOf
        <3> QED BY <3>1, <3>2, EventsStep, Settled DEF IInv, EventsOK
    <2>3. pc'[q] = "commit" => \E n \in 1..Len(events') : events'[n] = EventOf(q, "flushed")'
        <3> SUFFICES ASSUME pc'[q] = "commit"
                     PROVE \E n \in 1..Len(events') : events'[n] = EventOf(q, "flushed")'
            OBVIOUS
        <3>1. PICK n \in 1..Len(events) : events[n] = EventOf(q, "flushed")
            BY <1>1, <2>1 DEF EventsOf
        <3>2. EventOf(q, "flushed")' = EventOf(q, "flushed")
            BY <2>1 DEF EventOf, Kind
        <3>3. n \in 1..Len(events') /\ events'[n] = events[n]
            <4>1. events[n].req # r
                BY <1>3, <3>1 DEF EventOf
            <4>2. CASE UNCHANGED events
                BY <4>2
            <4>3. CASE Settle(r, "committed") \/ Settle(r, "undone")
                BY <4>1, <4>3, EventsKept DEF Settle
            <4> QED BY <4>2, <4>3, EventsStep, EventsKept
        <3> QED BY <3>1, <3>2, <3>3
    <2>4. pc'[q] = "reply" \/ outcome'[q] = "ok" => Announced(q)'
        BY <1>1, <2>1, EventsKept DEF EventsOf, Announced, Committed
    <2>5. ASSUME NEW n \in 1..Len(events'), events'[n].req = q
          PROVE  /\ pc'[q] \in {"commit", "reply", "done"} /\ outcome'[q] # "refused"
                 /\ events'[n].status = "flushed" => pc'[q] = "commit"
                 /\ events'[n].status = "undone" => q \in cut'
        <3>1. n \in 1..Len(events)
            BY <2>2, <2>5
        <3>2. events[n].req = q /\ events'[n].status = events[n].status
            BY <1>3, <2>5, <3>1, EventsKept
        <3> QED BY <1>1, <1>2, <2>1, <3>1, <3>2 DEF EventsOf
    <2> QED BY <2>3, <2>4, <2>5 DEF EventsOf
<1>4. CASE q = r /\ AddEventToOutbox(r)
    <2>1. /\ pc[r] = "event" /\ pc'[r] = "commit" /\ op'[r] = op[r] /\ target'[r] = target[r]
          /\ payload'[r] = payload[r] /\ outcome'[r] = outcome[r] /\ outcome[r] = "none"
        BY <1>1, <1>4 DEF AddEventToOutbox, StateOK, InHand
    <2>2. \A n \in 1..Len(events) : events[n].req # r
        BY <1>1, <2>1 DEF EventsOf
    <2>3. /\ Len(events) \in Nat /\ Len(events') = Len(events) + 1
          /\ \A n \in 1..Len(events) : events'[n] = events[n]
          /\ events'[Len(events) + 1] = EventOf(r, "flushed")
        BY <1>4, <2>1, EventsKept, EventsStep DEF Fail, Answer, IInv, StateOK
    <2>4. EventOf(r, "flushed")' = EventOf(r, "flushed") /\ EventOf(r, "flushed").status = "flushed"
        BY <2>1 DEF EventOf, Kind
    <2> QED BY <1>4, <2>1, <2>2, <2>3, <2>4 DEF EventsOf
<1>5. CASE q = r /\ CommitEvent(r)
    <2>1. /\ pc[r] = "commit" /\ pc'[r] = "reply" /\ outcome'[r] = outcome[r] /\ outcome[r] = "none"
        BY <1>1, <1>5 DEF CommitEvent, StateOK, InHand
    <2>2. /\ Len(events) \in Nat /\ Len(events') = Len(events)
          /\ \A n \in 1..Len(events) :
                 /\ events'[n].req = events[n].req
                 /\ events'[n].status = IF events[n].req = r /\ events[n].status = "flushed"
                                        THEN "committed" ELSE events[n].status
        BY <1>5, EventsKept, Settled DEF CommitEvent, IInv, EventsOK
    <2>3. PICK n \in 1..Len(events) : events[n].req = r /\ events[n].status = "flushed"
        BY <1>1, <2>1 DEF EventsOf, EventOf
    <2>4. Announced(r)'
        BY <2>2, <2>3 DEF Announced, Committed
    <2> QED BY <1>1, <1>2, <1>5, <2>1, <2>2, <2>4 DEF EventsOf
<1>6. CASE q = r /\ Fail(r)
    <2>1. pc'[r] = "done" /\ outcome'[r] = "error" /\ Settle(r, "undone")
          /\ pc[r] \notin {"ready", "done"}
        BY <1>1, <1>6 DEF Fail, Answer, StateOK, Open
    <2>2. /\ Len(events') = Len(events)
          /\ \A n \in 1..Len(events) :
                 /\ events'[n].req = events[n].req
                 /\ events'[n].status = IF events[n].req = r /\ events[n].status = "flushed"
                                        THEN "undone" ELSE events[n].status
        BY <2>1, Settled DEF IInv, EventsOK
    <2>3. pc[r] = "commit" => r \in cut'
        BY <1>6 DEF Fail
    <2> QED BY <1>1, <1>2, <1>6, <2>1, <2>2, <2>3 DEF EventsOf
<1>7. CASE q = r /\ Reply(r)
    <2>1. /\ pc[r] = "reply" /\ pc'[r] = "done" /\ outcome'[r] = "ok" /\ events' = events
        BY <1>1, <1>7 DEF Reply, Answer, StateOK, rowVars
    <2> QED BY <1>1, <1>2, <1>7, <2>1 DEF EventsOf, Announced, Committed
<1>8. CASE /\ q = r
           /\ Begin(r) \/ FindByEmail(r) \/ InsertRow(r) \/ Snapshot(r) \/ Load(r)
              \/ WriteRow(r) \/ Refresh(r)
    <2>1. /\ pc[r] \in {"ready", "find", "insert", "snapshot", "load", "write", "refresh"}
          /\ pc'[r] \notin {"commit", "reply"} /\ outcome'[r] # "ok" /\ events' = events
        <3>1. CASE Begin(r)
            BY <1>1, <3>1 DEF Begin, Operations, StateOK, InHand, rowVars
        <3>2. CASE FindByEmail(r) \/ InsertRow(r) \/ Snapshot(r) \/ Load(r)
            BY <1>1, <3>2 DEF FindByEmail, InsertRow, Snapshot, Load, Answer, StateOK, InHand, rowVars
        <3>3. CASE WriteRow(r) \/ Refresh(r)
            BY <1>1, <3>3 DEF WriteRow, Refresh, Answer, StateOK, InHand, rowVars
        <3> QED BY <1>8, <3>1, <3>2, <3>3
    <2> QED BY <1>1, <1>8, <2>1 DEF EventsOf
<1> QED BY <1>3, <1>4, <1>5, <1>6, <1>7, <1>8 DEF RequestStep

\* An event that told a row tells it as long as the row does not change.
LEMMA TellsKept ==
    ASSUME IInv, NEW r \in Requests, RequestStep(r), NEW n \in 1..Len(events),
           NEW i, Tells(events[n], i), table'[i] = table[i]
    PROVE  Tells(events[n], i)' /\ (n \in Committed => n \in Committed')
BY EventsKept DEF Tells

LEMMA RowsToldStep ==
    ASSUME IInv, NEW r \in Requests, RequestStep(r)
    PROVE  RowsTold'
<1> SUFFICES ASSUME cut' = {}, NEW i \in Present(table')
             PROVE  \/ \E n \in Committed' : Tells(events[n], i)'
                    \/ \E q \in Requests : Telling(q, i)'
    BY DEF RowsTold
<1>1. StateOK /\ HistoryOK /\ InHand(r) /\ EventsOf(r)
    BY DEF IInv
<1>2. cut = {} /\ ~(Fail(r) /\ pc[r] \in {"refresh", "event", "commit"})
    BY <1>1, HistoryStep
<1>3. ASSUME i \in Present(table), table'[i] = table[i], pc[r] # "write" \/ target[r] # i
      PROVE  \/ \E n \in Committed' : Tells(events[n], i)'
             \/ \E q \in Requests : Telling(q, i)'
    <2>1. CASE \E n \in Committed : Tells(events[n], i)
        BY <1>3, <2>1, TellsKept DEF Committed
    <2>2. ASSUME NEW q \in Requests, Telling(q, i), q # r
          PROVE  Telling(q, i)'
        <3>1. /\ pc'[q] = pc[q] /\ op'[q] = op[q] /\ target'[q] = target[q]
              /\ payload'[q] = payload[q]
            BY <1>1, <2>2, Others
        <3> QED BY <1>3, <2>2, <3>1 DEF Telling, Kind
    <2>3. CASE Telling(r, i)
        <3>1. pc[r] \in {"refresh", "event", "commit"} /\ target[r] = i
            BY <2>3 DEF Telling
        <3>2. CASE Refresh(r)
            <4>1. /\ pc'[r] = "event" /\ payload'[r] = table[i] /\ target'[r] = i /\ op'[r] = op[r]
                BY <1>1, <3>1, <3>2 DEF Refresh, StateOK
            <4>2. table[i].active /\ Kind(r) # "delete"
                BY <1>1, <2>3, <3>2 DEF Refresh, InHand, Telling
            <4> QED BY <1>3, <4>1, <4>2 DEF Telling, Kind
        <3>3. CASE AddEventToOutbox(r)
            <4>1. /\ pc[r] = "event" /\ pc'[r] = "commit" /\ payload'[r] = payload[r]
                  /\ target'[r] = i /\ op'[r] = op[r]
                BY <1>1, <3>1, <3>3 DEF AddEventToOutbox, StateOK
            <4> QED BY <1>3, <2>3, <4>1 DEF Telling, Kind
        <3>4. CASE CommitEvent(r)
            <4>1. PICK n \in 1..Len(events) : events[n] = EventOf(r, "flushed")
                BY <1>1, <3>4 DEF CommitEvent, EventsOf
            <4>2. Tells(events[n], i)
                <5>1. Kind(r) = "delete" <=> EventType[Kind(r)] = "customer_deleted"
                    BY <1>1, <3>1 DEF InHand, Operations, Kind, EventType
                <5>2. /\ events[n].id = i /\ events[n].type = EventType[Kind(r)]
                      /\ events[n].payload = payload[r]
                    BY <3>1, <4>1 DEF EventOf
                <5>3. IF table[i].active THEN Kind(r) # "delete" /\ payload[r] = table[i]
                                         ELSE Kind(r) = "delete"
                    BY <2>3, <3>4 DEF CommitEvent, Telling
                <5> QED BY <5>1, <5>2, <5>3 DEF Tells
            <4>3. n \in Committed'
                <5>1. /\ Settle(r, "committed") /\ events[n].req = r /\ events[n].status = "flushed"
                    BY <3>4, <4>1 DEF CommitEvent, EventOf
                <5> QED BY <5>1, Settled DEF IInv, EventsOK, Committed
            <4> QED BY <1>3, <4>2, <4>3, TellsKept
        <3> QED BY <1>1, <1>2, <3>1, <3>2, <3>3, <3>4 DEF RequestStep, Begin, FindByEmail,
                InsertRow, Snapshot, Load, WriteRow, Reply
    <2> QED BY <1>2, <1>3, <2>1, <2>2, <2>3 DEF IInv, RowsTold
<1>4. CASE UNCHANGED table /\ (pc[r] \in {"insert", "write"} => pc'[r] = "done")
    <2>1. CASE pc[r] # "write"
        BY <1>3, <1>4, <2>1
    <2>2. CASE pc[r] = "write"
        <3>1. ~Telling(r, i)
            BY <2>2 DEF Telling
        <3>2. CASE \E n \in Committed : Tells(events[n], i)
            BY <1>4, <3>2, TellsKept DEF Committed
        <3>3. ASSUME NEW q \in Requests, Telling(q, i)
              PROVE  Telling(q, i)'
            <4>1. /\ pc'[q] = pc[q] /\ op'[q] = op[q] /\ target'[q] = target[q]
                  /\ payload'[q] = payload[q]
                BY <1>1, <3>1, <3>3, Others
            <4> QED BY <1>4, <3>3, <4>1 DEF Telling, Kind
        <3> QED BY <1>2, <1>4, <3>2, <3>3 DEF IInv, RowsTold
    <2> QED BY <2>1, <2>2
<1>5. CASE /\ InsertRow(r) /\ Present(table') = Present(table) \cup {target'[r]}
           /\ pc'[r] = "refresh" /\ table'[target'[r]].active
           /\ \A j \in Present(table) : table'[j] = table[j]
    <2>1. CASE i \in Present(table)
        BY <1>3, <1>5, <2>1 DEF InsertRow
    <2>2. CASE i = target'[r]
        <3>1. Kind(r) = "create" /\ op' = op
            BY <1>1, <1>5 DEF InsertRow, InHand
        <3>2. Telling(r, i)'
            BY <1>5, <2>2, <3>1 DEF Telling, Kind
        <3> QED BY <3>2
    <2> QED BY <1>5, <2>1, <2>2
<1>6. CASE /\ WriteRow(r) /\ Present(table') = Present(table)
           /\ pc'[r] = (IF Kind(r) = "delete" THEN "event" ELSE "refresh")
           /\ table'[target[r]].active =
                  (IF Kind(r) = "create" THEN TRUE
                   ELSE IF Kind(r) = "delete" THEN FALSE
                   ELSE table[target[r]].active)
           /\ \A j \in Present(table) : j # target[r] => table'[j] = table[j]
    <2>1. CASE i # target[r]
        BY <1>3, <1>6, <2>1
    <2>2. CASE i = target[r]
        <3>1. op' = op /\ target' = target /\ op[r] \in Operations /\ pc[r] = "write"
            BY <1>1, <1>6 DEF WriteRow, InHand
        <3>2. CASE Kind(r) = "create" \/ Kind(r) = "delete" \/ table[i].active
            <4>1. Telling(r, i)'
                BY <1>6, <2>2, <3>1, <3>2 DEF Telling, Kind
            <4> QED BY <4>1
        <3>3. CASE Kind(r) = "update" /\ ~table[i].active
            <4>1. ~table'[i].active
                BY <1>6, <2>2, <3>3
            <4>2. ~Telling(r, i)
                BY <3>1 DEF Telling
            <4>3. CASE \E n \in Committed : Tells(events[n], i)
                <5>1. PICK n \in Committed : Tells(events[n], i)
                    BY <4>3
                <5>2. n \in 1..Len(events)
                    BY DEF Committed
                <5>3. n \in Committed' /\ Tells(events[n], i)'
                    BY <3>3, <4>1, <5>1, <5>2, EventsKept DEF Tells
                <5> QED BY <5>3
            <4>4. ASSUME NEW q \in Requests, Telling(q, i)
                  PROVE  Telling(q, i)'
                <5>1. /\ pc'[q] = pc[q] /\ op'[q] = op[q] /\ target'[q] = target[q]
                      /\ payload'[q] = payload[q]
                    BY <1>1, <4>2, <4>4, Others
                <5> QED BY <3>3, <4>1, <4>4, <5>1 DEF Telling, Kind
            <4> QED BY <1>2, <1>6, <4>3, <4>4 DEF IInv, RowsTold
        <3> QED BY <3>1, <3>2, <3>3 DEF Operations, Kind
    <2> QED BY <2>1, <2>2
<1> QED BY <1>4, <1>5, <1>6, TableStep

\* While requests come one after the other, the one that moves is the only one
\* open.
LEMMA OnlyOpen ==
    ASSUME IInv, NEW r \in Requests, RequestStep(r), ~overlap'
    PROVE  /\ ~overlap
           /\ Open \subseteq {r} /\ Open' \subseteq {r}
           /\ Begin(r) \/ r \in Open
<1>1. StateOK /\ ~overlap /\ \A p, q \in Open : p = q
    BY HistoryStep DEF IInv, Alone
<1>2. \A q \in Requests : q # r => pc'[q] = pc[q]
    BY <1>1, Others
<1>3. CASE Begin(r)
    BY <1>1, <1>2, <1>3 DEF Begin, Open
<1>4. CASE ~Begin(r)
    <2>1. r \in Open
        BY <1>4 DEF RequestStep, FindByEmail, InsertRow, Snapshot, Load, WriteRow, Refresh,
                    AddEventToOutbox, CommitEvent, Reply, Fail, Open
    <2> QED BY <1>1, <1>2, <2>1 DEF Open
<1> QED BY <1>3, <1>4

LEMMA AloneStep ==
    ASSUME IInv, NEW r \in Requests, RequestStep(r)
    PROVE  Alone'
<1> SUFFICES ASSUME ~overlap'
             PROVE  /\ \A p, q \in Open' : p = q
                    /\ \A q \in Requests :
                           /\ pc'[q] = "write" => table'[target'[q]].active = loaded'[q].active
                           /\ pc'[q] \in {"refresh", "event"} => Telling(q, target[q])'
    BY DEF Alone
<1>1. ~overlap /\ Open \subseteq {r} /\ Open' \subseteq {r}
    BY OnlyOpen
<1>2. StateOK /\ InHand(r) /\ Sound(table) /\ Alone
    BY DEF IInv
<1>3. \A q \in Requests : pc'[q] \in {"write", "refresh", "event"} => q = r
    BY <1>1 DEF Open
<1>4. ASSUME pc'[r] = "write" PROVE table'[target'[r]].active = loaded'[r].active
    <2>1. FindByEmail(r) \/ Load(r)
        BY <1>2, <1>4 DEF RequestStep, Begin, FindByEmail, InsertRow, Snapshot, Load, WriteRow,
            Refresh, AddEventToOutbox, CommitEvent, Reply, Fail, Answer, StateOK, Operations
    <2>2. target'[r] \in RowIds /\ loaded'[r] = table[target'[r]] /\ table' = table
        BY <1>2, <1>4, <2>1 DEF FindByEmail, Load, Answer, StateOK, Active, WithEmail, Present, rowVars
    <2> QED BY <2>2
<1>5. ASSUME pc'[r] \in {"refresh", "event"} PROVE Telling(r, target[r])'
    <2>1. CASE InsertRow(r)
        <3>1. Kind(r) = "create" /\ op' = op /\ pc'[r] = "refresh"
            BY <1>2, <1>5, <2>1 DEF InsertRow, Answer, InHand, StateOK
        <3>2. table'[target'[r]].active
            BY <2>1, <3>1, TableStep DEF InsertRow, WriteRow
        <3> QED BY <3>1, <3>2 DEF Telling, Kind
    <2>2. CASE WriteRow(r)
        <3>1. /\ op[r] \in Operations /\ op' = op /\ target' = target
              /\ loaded[r].active <=> Kind(r) # "create"
              /\ table[target[r]].active = loaded[r].active
            BY <1>1, <1>2, <2>2 DEF WriteRow, InHand, Alone
        <3>2. /\ pc'[r] = (IF Kind(r) = "delete" THEN "event" ELSE "refresh")
              /\ table'[target[r]].active =
                     (IF Kind(r) = "create" THEN TRUE
                      ELSE IF Kind(r) = "delete" THEN FALSE
                      ELSE table[target[r]].active)
            BY <1>5, <2>2, TableStep DEF WriteRow, InsertRow
        <3>3. table'[target'[r]].active <=> Kind(r) # "delete"
            BY <3>1, <3>2 DEF Operations, Kind
        <3> QED BY <3>1, <3>2, <3>3 DEF Telling, Kind
    <2>3. CASE Refresh(r)
        <3>1. /\ pc'[r] = "event" /\ payload'[r] = table[target[r]] /\ op' = op
              /\ target' = target /\ table' = table
            BY <1>2, <2>3 DEF Refresh, StateOK, rowVars
        <3>2. Telling(r, target[r]) /\ pc[r] = "refresh"
            BY <1>1, <1>2, <2>3 DEF Refresh, Alone
        <3> QED BY <3>1, <3>2 DEF Telling, Kind
    <2> QED BY <1>2, <1>5, <2>1, <2>2, <2>3 DEF RequestStep, Begin, FindByEmail, Snapshot, Load,
            AddEventToOutbox, CommitEvent, Reply, Fail, Answer, StateOK, Operations
<1>6. \A p, q \in Open' : p = q
    BY <1>1
<1> QED BY <1>3, <1>4, <1>5, <1>6

LEMMA LastToldStep ==
    ASSUME IInv, NEW r \in Requests, RequestStep(r)
    PROVE  LastTold'
<1> SUFFICES ASSUME cut' = {}, ~overlap', NEW n \in 1..Len(events'), Last(n)'
             PROVE  \/ Tells(events[n], events[n].id)'
                    \/ \E q \in Requests : /\ target'[q] = events'[n].id
                                           /\ pc'[q] \in {"refresh", "event"}
    BY DEF LastTold
<1>1. /\ StateOK /\ HistoryOK /\ InHand(r) /\ Alone /\ LastTold /\ EventsOK
      /\ ~overlap /\ Open \subseteq {r} /\ cut = {}
      /\ ~(Fail(r) /\ pc[r] \in {"refresh", "event", "commit"})
    BY OnlyOpen, HistoryStep DEF IInv
<1>2. CASE n \notin 1..Len(events)
    <2>1. /\ AddEventToOutbox(r) /\ UNCHANGED table
          /\ n = Len(events) + 1 /\ events'[n] = EventOf(r, "flushed")
        BY <1>2, EventsStep, EventsKept, Settled DEF EventsOK, IInv
    <2>2. Telling(r, target[r]) /\ pc[r] = "event" /\ op[r] \in Operations
        BY <1>1, <2>1 DEF AddEventToOutbox, Alone, InHand
    <2>3. Kind(r) = "delete" <=> EventType[Kind(r)] = "customer_deleted"
        BY <2>2 DEF Operations, Kind, EventType
    <2>4. /\ events'[n].id = target[r] /\ events'[n].type = EventType[Kind(r)]
          /\ events'[n].payload = payload[r]
        BY <2>1 DEF EventOf
    <2>5. Tells(events[n], events[n].id)'
        BY <2>1, <2>2, <2>3, <2>4 DEF Tells, Telling
    <2> QED BY <2>5
<1>3. CASE n \in 1..Len(events)
    <2> DEFINE i == events[n].id
    <2>1. events'[n].id = i /\ i \in Present(table)
        BY <1>1, <1>3, EventsKept DEF EventsOK
    <2>2. Last(n)
        <3> SUFFICES ASSUME NEW m \in 1..Len(events), events[m].id = i PROVE m <= n
            BY DEF Last
        <3>1. m \in 1..Len(events') /\ events'[m].id = events'[n].id
            BY <1>3, <2>1, EventsKept
        <3> QED BY <3>1 DEF Last
    <2>3. ASSUME Tells(events[n], i), table'[i] = table[i]
          PROVE  Tells(events[n], events[n].id)'
        BY <1>3, <2>1, <2>3, TellsKept
    <2>4. ASSUME NEW q \in Requests, target[q] = i, pc[q] \in {"refresh", "event"}
          PROVE  q = r
        BY <1>1, <2>4 DEF Open
    <2> HIDE DEF i
    <2>5. Tells(events[n], i) \/ (target[r] = i /\ pc[r] \in {"refresh", "event"})
        BY <1>1, <1>3, <2>2, <2>4 DEF LastTold, i
    <2>6. CASE WriteRow(r) /\ target[r] = i /\ pc'[r] # "done"
        <3>1. target'[r] = i /\ pc'[r] \in {"refresh", "event"}
            BY <1>1, <2>6 DEF WriteRow, Answer, StateOK
        <3> QED BY <2>1, <3>1
    <2>7. CASE ~(WriteRow(r) /\ target[r] = i /\ pc'[r] # "done")
        <3>1. table'[i] = table[i]
            BY <2>1, <2>7, TableStep DEF InsertRow, WriteRow
        <3>2. CASE Tells(events[n], i)
            BY <2>3, <3>1, <3>2
        <3>3. CASE target[r] = i /\ Refresh(r)
            <4>1. target'[r] = i /\ pc'[r] = "event"
                BY <1>1, <3>3 DEF Refresh, StateOK
            <4> QED BY <2>1, <4>1
        <3>4. CASE target[r] = i /\ pc[r] \in {"refresh", "event"} /\ ~Refresh(r)
            <4>1. AddEventToOutbox(r)
                BY <1>1, <3>4 DEF RequestStep, Begin, FindByEmail, InsertRow, Snapshot, Load,
                    WriteRow, CommitEvent, Reply
            <4>2. /\ Len(events) \in Nat /\ Len(events') = Len(events) + 1
                  /\ events'[Len(events) + 1].id = i
                <5>1. pc[r] = "event" /\ pc'[r] = "commit"
                    BY <1>1, <4>1 DEF AddEventToOutbox, StateOK
                <5>2. EventOf(r, "flushed").id = i
                    BY <3>4 DEF EventOf
                <5> QED BY <5>1, <5>2, <1>1, EventsStep, EventsKept DEF Fail
            <4>3. Len(events) + 1 <= n
                BY <2>1, <4>2 DEF Last
            <4> QED BY <1>3, <4>2, <4>3
        <3> QED BY <2>5, <3>2, <3>3, <3>4
    <2> QED BY <2>6, <2>7
<1> QED BY <1>2, <1>3

-----------------------------------------------------------------------------
LEMMA InvStep == IInv /\ [Next]_vars => IInv'
<1> SUFFICES ASSUME IInv, [Next]_vars PROVE IInv'
    OBVIOUS
<1>1. ASSUME NEW r \in Requests, RequestStep(r) PROVE IInv'
    <2>1. Sound(table')
        BY <1>1, TableStep
    <2>2. EventsOK' /\ StateOK' /\ HistoryOK'
        BY <1>1, EventsStep, StateStep, HistoryStep DEF IInv
    <2>3. \A q \in Requests : InHand(q)' /\ EventsOf(q)'
        BY <1>1, InHandStep, EventsOfStep
    <2>4. RowsTold' /\ Alone' /\ LastTold'
        BY <1>1, RowsToldStep, AloneStep, LastToldStep
    <2> QED BY <2>1, <2>2, <2>3, <2>4 DEF IInv, Sound
<1>2. CASE UNCHANGED vars
    <2>1. /\ table' = table /\ events' = events /\ pc' = pc /\ op' = op /\ target' = target
          /\ loaded' = loaded /\ payload' = payload /\ outcome' = outcome
          /\ cut' = cut /\ overlap' = overlap /\ fails' = fails
        BY <1>2 DEF vars, rowVars, requestVars, historyVars
    <2>2. Sound(table') /\ EventsOK' /\ StateOK' /\ HistoryOK'
        BY <2>1 DEF IInv, EventsOK, StateOK, HistoryOK
    <2>3. \A q \in Requests : InHand(q)' /\ EventsOf(q)'
        BY <2>1 DEF IInv, InHand, EventsOf, EventOf, Announced, Committed, Kind
    <2>4. RowsTold' /\ Alone'
        BY <2>1 DEF IInv, RowsTold, Alone, Committed, Tells, Telling, Kind, Open
    <2>5. LastTold'
        BY <2>1 DEF IInv, LastTold, Last, Tells
    <2> QED BY <2>2, <2>3, <2>4, <2>5 DEF IInv, Sound
<1> QED BY <1>1, <1>2 DEF Next, RequestStep, Rest

LEMMA Invariance == Spec => []IInv
<1>1. Init => IInv
    BY InvInit
<1>2. IInv /\ [Next]_vars => IInv'
    BY InvStep
<1> QED BY <1>1, <1>2, PTL DEF Spec

-----------------------------------------------------------------------------
\* Every variable keeps its type, and the table its unique indexes, whatever
\* lookups and inserts race.
THEOREM TypeCorrect == Spec => []TypeOK
<1>1. IInv => TypeOK
    BY TypesFromInv
<1> QED BY <1>1, Invariance, PTL

\* A request answered with success has its event, one refused has none.
THEOREM Acknowledged == Spec => []AckedIsAnnounced
<1>1. IInv => AckedIsAnnounced
    <2> SUFFICES ASSUME IInv, NEW r \in Requests
                 PROVE  LET announced == \E ev \in CommittedEvents : ev.req = r
                        IN  /\ outcome[r] = "ok" => announced
                            /\ outcome[r] = "refused" => ~announced
        BY DEF AckedIsAnnounced
    <2>1. EventsOf(r)
        BY DEF IInv
    <2> QED BY <2>1 DEF EventsOf, Announced, CommittedEvents, Committed
<1> QED BY <1>1, Invariance, PTL

\* No write of a row goes unannounced, however the requests interleave.
THEOREM FinalState == Spec => []FinalStateAnnounced
<1>1. IInv => FinalStateAnnounced
    <2> SUFFICES ASSUME IInv, Quiet, cut = {}, NEW i \in Present(table)
                 PROVE  \E ev \in CommittedEvents : Tells(ev, i)
        BY DEF FinalStateAnnounced
    <2>1. \A r \in Requests : ~Telling(r, i)
        BY DEF Quiet, Telling
    <2>2. \E n \in Committed : Tells(events[n], i)
        BY <2>1 DEF IInv, RowsTold
    <2> QED BY <2>2 DEF CommittedEvents
<1> QED BY <1>1, Invariance, PTL

\* Requests that come one after the other leave the last event of each row
\* telling the row.
THEOREM LastEvent == Spec => []LastEventTells
<1>1. IInv => LastEventTells
    <2> SUFFICES ASSUME IInv, Quiet, cut = {}, ~overlap, NEW n \in Committed,
                        \A m \in Committed : events[m].id = events[n].id => m <= n
                 PROVE  Tells(events[n], events[n].id)
        BY DEF LastEventTells
    <2>1. \A m \in 1..Len(events) : m \in Committed
        <3> SUFFICES ASSUME NEW m \in 1..Len(events) PROVE events[m].status = "committed"
            BY DEF Committed
        <3>1. events[m] \in Event
            BY ElementOfSeq DEF IInv, EventsOK
        <3>2. events[m].req \in Requests /\ events[m].status \in {"flushed", "committed", "undone"}
            BY <3>1 DEF Event
        <3>3. pc[events[m].req] = "done"
            BY <3>2 DEF Quiet
        <3> QED BY <3>2, <3>3 DEF IInv, EventsOf
    <2>2. Last(n) /\ n \in 1..Len(events)
        BY <2>1 DEF Last, Committed
    <2> QED BY <2>2 DEF IInv, LastTold, Quiet
<1> QED BY <1>1, Invariance, PTL
=============================================================================
