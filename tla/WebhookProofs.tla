---------------------------- MODULE WebhookProofs ----------------------------
(***************************************************************************)
(* Theorems about Webhook for any number of replicas, events, requests and *)
(* rows, any strategies, and any sets of names, emails and Stripe ids.     *)
(***************************************************************************)
EXTENDS Webhook, CustomerTableProofs, SequenceTheorems

\* What a handler holds at each of its statements.
Shape(j) ==
    /\ j \in Job
    /\ j.pc = "idle" => j = Idle
    /\ j.pc # "idle" => j.event \in Event
    /\ \/ j.pc \in {"taken", "by email", "create", "insert", "conflict", "record", "resolve"}
       \/ j.op \in {"link", "rename", "reactivate", "adopt", "merge"}
       => j.event.email \in Emails \/ j.pc = "taken"
    /\ j.pc \notin {"idle", "find"} => (j.event.type = "deleted" <=> j.op = "deactivate")
    /\ j.pc \in {"find", "by email", "create", "insert"} => j.op = "none"
    /\ j.pc = "taken" => j.op = "update" /\ j.event.email \in Emails
    /\ j.pc = "load" => j.op \notin {"none", "reactivate"}
    /\ j.pc = "write" => j.op # "none"
    /\ j.pc \in {"conflict", "record"} => j.op \in {"link", "adopt"}
    /\ j.op \in {"update", "rename"} => j.email \in Emails
    /\ j.op = "link" /\ j.pc \in {"load", "write"} => j.seen \in Row
    /\ j.pc = "write" => j.loaded \in Row
    /\ j.pc \in {"taken", "load", "write"} => j.row \in Present(table)
    /\ j.pc = "record" /\ j.row # 0 => j.row \in Present(table) /\ j.seen \in Row

\* The active rows with the Stripe id, and with the email, of event e.
ById(e) == WithStripe(table, e.id) \cap Active(table)
ByEmail(e) == WithEmail(table, e.email) \cap Active(table)

\* What a handler has found is so still, unless others wrote since.
FoundById(j) ==
    /\ j.pc \in {"taken", "load", "write"} /\ j.op \in {"update", "deactivate", "rename"} =>
           j.row \in ById(j.event)
    /\ j.pc = "taken" => j.email = table[j.row].email
    /\ j.pc \in {"load", "write"} /\ j.op = "update" =>
           \/ /\ j.email = j.event.email
              /\ j.email = table[j.row].email \/ ByEmail(j.event) \ {j.row} = {}
           \/ /\ j.email = table[j.row].email
              /\ j.event.email = NoEmail \/ ByEmail(j.event) \ {j.row} # {}
    /\ j.pc \in {"load", "write"} /\ j.op = "rename" =>
           j.email = table[j.row].email /\ j.email = j.event.email

FoundByEmail(j) ==
    /\ \/ j.pc \in {"by email", "create", "insert", "conflict", "record", "resolve"}
       \/ j.pc \in {"load", "write"} /\ j.op \in {"link", "reactivate", "merge"}
       => ById(j.event) = {}
    /\ j.pc = "create" => ByEmail(j.event) = {}
    /\ j.pc = "insert" => WithEmail(table, j.event.email) = {}
    /\ j.pc \in {"load", "write"} /\ j.op \in {"link", "merge"} =>
           j.row \in ByEmail(j.event) /\ table[j.row].stripe = NoStripe
    /\ j.pc \in {"load", "write"} /\ j.op = "link" => j.seen = table[j.row]
    /\ j.op = "reactivate" => j.row \in WithEmail(table, j.event.email) \ Active(table)
    /\ j.pc \in {"load", "write"} /\ j.op = "adopt" =>
           /\ j.row \in ByEmail(j.event) /\ ById(j.event) \subseteq {j.row}
           /\ table[j.row].name = j.event.name
    /\ \/ j.pc \in {"conflict", "record", "resolve"}
       \/ j.pc \in {"load", "write"} /\ j.op = "merge"
       => ByEmail(j.event) # {} /\ WithStripe(table, j.event.id) # {}
    /\ j.pc = "record" /\ j.row # 0 => j.row \in ByEmail(j.event) /\ j.seen = table[j.row]

Undisturbed(j) ==
    ~j.touched =>
        /\ j.pc = "write" => j.loaded = table[j.row]
        /\ FoundById(j) /\ FoundByEmail(j)

JobInv(j) == Shape(j) /\ Undisturbed(j)

\* Handling e once more would change no row: it finds none to act on, or would
\* write what is there, or write what a unique index refuses.
Settled(e) ==
    IF e.type = "deleted" THEN ById(e) = {}
    ELSE \/ /\ ById(e) = {} 
            /\ \/ e.email = NoEmail
               \/ \E i \in ByEmail(e) : table[i].stripe # NoStripe \/ WithStripe(table, e.id) # {}
         \/ \E i \in ById(e) :
                \/ /\ table[i].name = e.name
                   /\ e.email \in {NoEmail, table[i].email} \/ ByEmail(e) \ {i} # {}
                \/ WithEmail(table, e.email) \ {i} # {} /\ ByEmail(e) \ {i} = {}

\* The event handled last is settled if it has a name, and whoever is busy is
\* handling it again, alone.
StableOK ==
    stable # NoEvent =>
        /\ stable.name # NoName \/ stable.type = "deleted" => Settled(stable)
        /\ \A h \in Handlers : job[h] # Idle =>
               /\ job[h].event = stable /\ ~job[h].touched /\ job[h].op # "adopt"
               /\ AllIdle(Handlers \ {h})

\* The handlers about to record a conflict for e, and those with a recorded one
\* still to resolve.
Recording(e) == {h \in Handlers : job[h].pc = "record" /\ job[h].event.email = e}

Resolving(e) ==
    {h \in Handlers : (job[h].pc = "resolve" \/ job[h].op = "merge") /\ job[h].event.email = e}

PendingOK ==
    /\ pending \in [Emails -> Nat]
    /\ \A e \in Emails :
           /\ pending[e] + Cardinality(Recording(e)) <= Cardinality(Handlers)
           /\ Cardinality(Resolving(e)) <= pending[e]

WorldOK ==
    /\ sent \in Seq(Event) /\ Len(sent) <= MaxEvents
    /\ announced \subseteq [row : Present(table), name : Names, email : Emails]
    /\ creating \subseteq StripeIds \X Present(table)
    /\ done \in 0..Len(sent)
    /\ orderly \in BOOLEAN
    /\ stable \in Event \cup {NoEvent}
    /\ writes \in 0..MaxWrites

TypeInv ==
    /\ Sound(table) /\ WorldOK
    /\ job \in [Handlers -> Job]
    /\ \A h \in Handlers : Shape(job[h])

-----------------------------------------------------------------------------
(* What the steps have in common.                                          *)

\* The job of a handler that does not take the step.
Left(q) ==
    job'[q] = IF job[q] = Idle \/ table' = table THEN job[q]
              ELSE [job[q] EXCEPT !.touched = TRUE]

\* Rows are never removed.
Grows == Sound(table') /\ Present(table) \subseteq Present(table')

\* A handler's step leaves the other handlers their jobs.
LEMMA HandlerLeaves ==
    ASSUME TypeInv, NEW h \in Handlers, Handle(h)
    PROVE  /\ \A q \in Handlers \ {h} : Left(q)
           /\ job' = [job' EXCEPT ![h] = job'[h]] /\ DOMAIN job' = Handlers
<1> USE DEF Left, Overtaken, Commit, Goto, Finish, TypeInv
<1>1. ASSUME NEW k \in 1..Len(sent), Deliver(h, k)
      PROVE  /\ \A q \in Handlers \ {h} : Left(q)
             /\ job' = [job' EXCEPT ![h] = job'[h]] /\ DOMAIN job' = Handlers
    BY <1>1 DEF Deliver
<1>2. CASE FindByStripe(h)
    BY <1>2 DEF FindByStripe
<1>3. CASE FindDeleted(h)
    BY <1>3 DEF FindDeleted
<1>4. CASE CheckTaken(h)
    BY <1>4 DEF CheckTaken
<1>5. CASE FindByEmail(h)
    BY <1>5 DEF FindByEmail
<1>6. CASE Create(h)
    BY <1>6 DEF Create
<1>7. CASE InsertRow(h)
    BY <1>7 DEF InsertRow
<1>8. CASE Load(h)
    BY <1>8 DEF Load
<1>9. CASE Write(h)
    BY <1>9 DEF Write
<1>10. CASE WriteCollides(h)
    BY <1>10 DEF WriteCollides
<1>11. CASE CheckConflict(h)
    BY <1>11 DEF CheckConflict
<1>12. CASE ResolveConflict(h)
    BY <1>12 DEF ResolveConflict
<1>13. ASSUME NEW strategy \in Strategies, RecordConflict(h, strategy)
      PROVE  /\ \A q \in Handlers \ {h} : Left(q)
             /\ job' = [job' EXCEPT ![h] = job'[h]] /\ DOMAIN job' = Handlers
    BY <1>13 DEF RecordConflict
<1>14. CASE Fail(h)
    BY <1>14 DEF Fail
<1> QED BY <1>1, <1>2, <1>3, <1>4, <1>5, <1>6, <1>7, <1>8, <1>9, <1>10, <1>11, <1>12, <1>13,
           <1>14 DEF Handle

\* A job that others leave alone keeps its shape.
LEMMA LeftShape ==
    ASSUME NEW q \in Handlers, job[q] \in Job, Shape(job[q]), Left(q), Grows
    PROVE  job'[q] \in Job /\ Shape(job[q])'
<1>1. CASE job[q] = Idle \/ table' = table
    <2>1. job'[q] = job[q]
        BY <1>1 DEF Left
    <2> QED BY <2>1 DEF Shape, Grows
<1>2. CASE ~(job[q] = Idle \/ table' = table)
    <2>1. job'[q] = [job[q] EXCEPT !.touched = TRUE]
        BY <1>2 DEF Left
    <2>2. job'[q] \in Job
        BY <2>1 DEF Job
    <2>3. \A f \in {"pc", "op", "event", "row", "seen", "loaded", "email"} : job'[q][f] = job[q][f]
        BY <2>1 DEF Job
    <2>4. job[q].pc # "idle"
        BY <1>2 DEF Shape
    <2> QED BY <2>2, <2>3, <2>4 DEF Shape, Grows
<1> QED BY <1>1, <1>2

\* What is written is a row.
LEMMA EditedRow ==
    ASSUME NEW j, j \in Job, Shape(j), j.pc = "write"
    PROVE  /\ Edited(j) \in Row /\ j.loaded \in Row /\ j.row \in Present(table)
           /\ j.event \in Event
<1>1. /\ j.loaded \in Row /\ j.row \in Present(table) /\ j.event \in Event
      /\ j.op \in {"update", "link", "rename", "reactivate", "adopt", "deactivate", "merge"}
    BY DEF Shape, Job
<1>2. CASE j.op \in {"update", "rename"}
    <2>1. j.email \in Emails
        BY <1>2 DEF Shape
    <2>2. Edited(j) = [j.loaded EXCEPT !.name = j.event.name, !.email = j.email]
        BY <1>2 DEF Edited
    <2> QED BY <1>1, <2>1, <2>2 DEF Row, Event
<1>3. CASE j.op \in {"link", "adopt"}
    <2>1. Edited(j) = [j.loaded EXCEPT !.stripe = j.event.id]
        BY <1>3 DEF Edited
    <2> QED BY <1>1, <2>1 DEF Row, Event
<1>4. CASE j.op = "reactivate"
    <2>1. Edited(j) = [j.loaded EXCEPT !.active = TRUE, !.name = j.event.name]
        BY <1>4 DEF Edited
    <2> QED BY <1>1, <2>1 DEF Row, Event
<1>5. CASE j.op = "deactivate"
    <2>1. Edited(j) = [j.loaded EXCEPT !.active = FALSE]
        BY <1>5 DEF Edited
    <2> QED BY <1>1, <2>1 DEF Row, Event
<1>6. CASE j.op = "merge"
    <2>1. Edited(j) = [j.loaded EXCEPT !.name = j.event.name, !.stripe = j.event.id]
        BY <1>6 DEF Edited
    <2> QED BY <1>1, <2>1 DEF Row, Event
<1> QED BY <1>1, <1>2, <1>3, <1>4, <1>5, <1>6

\* The table after a commit that the indexes allow.
LEMMA WrittenSound ==
    ASSUME TypeInv, NEW h \in Handlers, job[h].pc = "write"
    PROVE  /\ Written(h) \in Tables /\ Present(Written(h)) = Present(table)
           /\ \A i \in RowIds \ {job[h].row} : Written(h)[i] = table[i]
           /\ IsUnique(Written(h)) => Sound(Written(h))
<1>1. job[h] \in Job /\ Shape(job[h]) /\ table \in Tables
    BY DEF TypeInv, Sound
<1>2. Edited(job[h]) \in Row /\ job[h].loaded \in Row /\ job[h].row \in Present(table)
    BY <1>1, EditedRow
<1> DEFINE t == Written(h)
<1>3. t = Flush(table, job[h].row, job[h].loaded, Edited(job[h]))
    BY DEF Written
<1> HIDE DEF t
<1>4. /\ t \in Tables /\ Present(t) = Present(table)
      /\ \A i \in RowIds : i # job[h].row => t[i] = table[i]
    BY <1>1, <1>2, <1>3, FlushRow
<1>5. IsUnique(t) => Sound(t)
    BY <1>4 DEF Sound, Filled, TypeInv
<1> QED BY <1>4, <1>5 DEF t

-----------------------------------------------------------------------------
(* The shape of a handler's job after its own step.                        *)

LEMMA DeliverShape ==
    ASSUME TypeInv, NEW h \in Handlers, NEW k \in 1..Len(sent), Deliver(h, k)
    PROVE  Grows /\ job'[h] \in Job /\ Shape(job[h])'
<1>1. sent[k] \in Event
    BY DEF TypeInv, WorldOK
<1>2. job'[h] = [Idle EXCEPT !.pc = "find", !.event = sent[k]] /\ table' = table
    BY DEF Deliver, TypeInv
<1>3. job'[h] \in Job
    <2>1. 0 \in 0..MaxRows
        BY TableAssumption
    <2> QED BY <1>1, <1>2, <2>1 DEF Job, Idle
<1>4. /\ job'[h].pc = "find" /\ job'[h].op = "none" /\ job'[h].event = sent[k]
    BY <1>2 DEF Idle
<1> QED BY <1>1, <1>2, <1>3, <1>4 DEF Shape, Grows, TypeInv

LEMMA IdleShape ==
    ASSUME NEW h \in Handlers, job'[h] = Idle
    PROVE  job'[h] \in Job /\ Shape(job[h])'
<1>1. job'[h] \in Job
    BY TableAssumption DEF Idle, Job
<1> QED BY <1>1 DEF Idle, Shape

LEMMA FindByStripeShape ==
    ASSUME TypeInv, NEW h \in Handlers, FindByStripe(h)
    PROVE  Grows /\ job'[h] \in Job /\ Shape(job[h])'
<1> DEFINE e == job[h].event
<1>1. /\ job[h] \in Job /\ Shape(job[h]) /\ job[h].pc = "find" /\ e.type # "deleted"
      /\ job[h].op = "none" /\ e \in Event /\ table \in Tables
    BY DEF FindByStripe, TypeInv, Shape, Sound
<1>2. table' = table /\ Grows
    BY DEF FindByStripe, Finish, Goto, Grows, TypeInv
<1>3. CASE job'[h] = Idle
    BY <1>2, <1>3, IdleShape
<1>4. CASE e.email # NoEmail /\ job'[h] = [job[h] EXCEPT !.pc = "by email"]
    <2>1. /\ job'[h].pc = "by email" /\ job'[h].op = "none" /\ job'[h].event = e
          /\ job'[h] \in Job
        BY <1>1, <1>4 DEF Job
    <2>2. e.email \in Emails
        BY <1>1, <1>4 DEF Event
    <2> QED BY <1>1, <1>2, <2>1, <2>2 DEF Shape
<1>5. ASSUME NEW i \in Linked(h),
             job'[h] = [job[h] EXCEPT
                  !.pc = IF e.email \in {NoEmail, table[i].email} THEN "load" ELSE "taken",
                  !.op = "update", !.row = i, !.seen = table[i], !.email = table[i].email]
      PROVE  job'[h] \in Job /\ Shape(job[h])'
    <2>1. i \in Present(table) /\ i \in 0..MaxRows /\ table[i] \in Row /\ table[i].email \in Emails
        BY <1>1, PresentRow, TableAssumption DEF Linked, WithStripe, RowIds, Row
    <2>2. job'[h] \in Job
        BY <1>1, <1>5, <2>1 DEF Job
    <2>3. /\ job'[h].pc \in {"load", "taken"} /\ job'[h].op = "update" /\ job'[h].event = e
          /\ job'[h].row = i /\ job'[h].email = table[i].email
          /\ job'[h].pc = "taken" => e.email # NoEmail
        BY <1>1, <1>5 DEF Job
    <2>4. job'[h].pc = "taken" => e.email \in Emails
        BY <1>1, <2>3 DEF Event
    <2> QED BY <1>1, <1>2, <2>1, <2>2, <2>3, <2>4 DEF Shape
<1>6. h \in DOMAIN job
    BY DEF TypeInv
<1> QED BY <1>2, <1>3, <1>4, <1>5, <1>6 DEF FindByStripe, Finish, Goto, Overtaken

LEMMA FindDeletedShape ==
    ASSUME TypeInv, NEW h \in Handlers, FindDeleted(h)
    PROVE  Grows /\ job'[h] \in Job /\ Shape(job[h])'
<1>1. /\ job[h] \in Job /\ Shape(job[h]) /\ job[h].pc = "find"
      /\ job[h].event.type = "deleted" /\ job[h].event \in Event /\ table \in Tables
      /\ h \in DOMAIN job
    BY DEF FindDeleted, TypeInv, Shape, Sound
<1>2. table' = table /\ Grows
    BY DEF FindDeleted, Finish, Goto, Grows, TypeInv
<1>3. CASE job'[h] = Idle
    BY <1>2, <1>3, IdleShape
<1>4. ASSUME NEW i \in Linked(h),
             job'[h] = [job[h] EXCEPT !.pc = "load", !.op = "deactivate", !.row = i]
      PROVE  job'[h] \in Job /\ Shape(job[h])'
    <2>1. i \in Present(table) /\ i \in 0..MaxRows
        BY <1>1, PresentRow, TableAssumption DEF Linked, WithStripe, RowIds
    <2>2. job'[h] \in Job
        BY <1>1, <1>4, <2>1 DEF Job
    <2>3. /\ job'[h].pc = "load" /\ job'[h].op = "deactivate" /\ job'[h].event = job[h].event
          /\ job'[h].row = i
        BY <1>1, <1>4 DEF Job
    <2> QED BY <1>1, <1>2, <2>1, <2>2, <2>3 DEF Shape
<1> QED BY <1>1, <1>2, <1>3, <1>4 DEF FindDeleted, Finish, Goto, Overtaken

LEMMA CheckTakenShape ==
    ASSUME TypeInv, NEW h \in Handlers, CheckTaken(h)
    PROVE  Grows /\ job'[h] \in Job /\ Shape(job[h])'
<1>1. /\ job[h] \in Job /\ Shape(job[h]) /\ job[h].pc = "taken" /\ h \in DOMAIN job
      /\ job[h].event \in Event /\ job[h].op = "update" /\ job[h].event.email \in Emails
      /\ job[h].email \in Emails /\ job[h].row \in Present(table)
    BY DEF CheckTaken, TypeInv, Shape
<1>2. table' = table /\ Grows
    BY DEF CheckTaken, Goto, Grows, TypeInv
<1>3. PICK m \in {job[h].email, job[h].event.email} :
          job'[h] = [job[h] EXCEPT !.pc = "load", !.email = m]
    BY <1>1 DEF CheckTaken, Goto
<1>4. /\ job'[h] \in Job /\ job'[h].pc = "load" /\ job'[h].op = "update"
      /\ job'[h].event = job[h].event /\ job'[h].row = job[h].row /\ job'[h].email \in Emails
    BY <1>1, <1>3 DEF Job
<1> QED BY <1>1, <1>2, <1>4 DEF Shape

LEMMA FindByEmailShape ==
    ASSUME TypeInv, NEW h \in Handlers, FindByEmail(h)
    PROVE  Grows /\ job'[h] \in Job /\ Shape(job[h])'
<1>1. /\ job[h] \in Job /\ Shape(job[h]) /\ job[h].pc = "by email" /\ h \in DOMAIN job
      /\ job[h].event \in Event /\ job[h].op = "none" /\ job[h].event.email \in Emails
      /\ job[h].event.type # "deleted" /\ table \in Tables
    BY DEF FindByEmail, TypeInv, Shape, Sound
<1>2. table' = table /\ Grows
    BY DEF FindByEmail, Finish, Goto, Grows, TypeInv
<1>3. CASE job'[h] = Idle
    BY <1>2, <1>3, IdleShape
<1>4. CASE job'[h] = [job[h] EXCEPT !.pc = "create"]
    <2>1. /\ job'[h] \in Job /\ job'[h].pc = "create" /\ job'[h].op = "none"
          /\ job'[h].event = job[h].event
        BY <1>1, <1>4 DEF Job
    <2> QED BY <1>1, <1>2, <2>1 DEF Shape
<1>5. ASSUME NEW i \in WithEmail(table, job[h].event.email) \cap Active(table),
             job'[h] = [job[h] EXCEPT !.pc = "load", !.op = "link", !.row = i,
                                      !.seen = table[i]]
      PROVE  job'[h] \in Job /\ Shape(job[h])'
    <2>0. i \in Present(table) /\ table \in Tables
        BY <1>1 DEF WithEmail
    <2>1. i \in Present(table) /\ i \in 0..MaxRows /\ table[i] \in Row
        BY <2>0, PresentRow, TableAssumption DEF RowIds
    <2>2. /\ job'[h] \in Job /\ job'[h].pc = "load" /\ job'[h].op = "link"
          /\ job'[h].event = job[h].event /\ job'[h].row = i /\ job'[h].seen = table[i]
        BY <1>1, <1>5, <2>1 DEF Job
    <2> QED BY <1>1, <1>2, <2>1, <2>2 DEF Shape
<1> QED BY <1>1, <1>2, <1>3, <1>4, <1>5 DEF FindByEmail, Finish, Goto, Overtaken

LEMMA CreateShape ==
    ASSUME TypeInv, NEW h \in Handlers, Create(h)
    PROVE  Grows /\ job'[h] \in Job /\ Shape(job[h])'
<1>1. /\ job[h] \in Job /\ Shape(job[h]) /\ job[h].pc = "create" /\ h \in DOMAIN job
      /\ job[h].event \in Event /\ job[h].op = "none" /\ job[h].event.email \in Emails
      /\ job[h].event.type # "deleted" /\ table \in Tables
    BY DEF Create, TypeInv, Shape, Sound
<1>2. table' = table /\ Grows
    BY DEF Create, Finish, Goto, Grows, TypeInv
<1>3. CASE job'[h] = Idle
    BY <1>2, <1>3, IdleShape
<1>4. CASE job'[h] = [job[h] EXCEPT !.pc = "insert"]
    <2>1. /\ job'[h] \in Job /\ job'[h].pc = "insert" /\ job'[h].op = "none"
          /\ job'[h].event = job[h].event
        BY <1>1, <1>4 DEF Job
    <2> QED BY <1>1, <1>2, <2>1 DEF Shape
<1>5. ASSUME NEW i \in WithEmail(table, job[h].event.email) \ Active(table),
             job'[h] = [job[h] EXCEPT !.pc = "write", !.op = "reactivate", !.row = i,
                                      !.loaded = table[i]]
      PROVE  job'[h] \in Job /\ Shape(job[h])'
    <2>0. i \in Present(table) /\ table \in Tables
        BY <1>1 DEF WithEmail
    <2>1. i \in Present(table) /\ i \in 0..MaxRows /\ table[i] \in Row
        BY <2>0, PresentRow, TableAssumption DEF RowIds
    <2>2. /\ job'[h] \in Job /\ job'[h].pc = "write" /\ job'[h].op = "reactivate"
          /\ job'[h].event = job[h].event /\ job'[h].row = i /\ job'[h].loaded = table[i]
        BY <1>1, <1>5, <2>1 DEF Job
    <2> QED BY <1>1, <1>2, <2>1, <2>2 DEF Shape
<1> QED BY <1>1, <1>2, <1>3, <1>4, <1>5 DEF Create, Finish, Goto, Overtaken

LEMMA InsertRowShape ==
    ASSUME TypeInv, NEW h \in Handlers, InsertRow(h)
    PROVE  Grows /\ job'[h] \in Job /\ Shape(job[h])'
<1> DEFINE e == job[h].event
           new == [name |-> e.name, email |-> e.email, stripe |-> NoStripe, active |-> TRUE]
<1>1. /\ job[h] \in Job /\ Shape(job[h]) /\ job[h].pc = "insert" /\ h \in DOMAIN job
      /\ e \in Event /\ job[h].op = "none" /\ e.email \in Emails
      /\ e.type # "deleted" /\ Sound(table)
    BY DEF InsertRow, TypeInv, Shape, Sound
<1>2. new \in Row
    BY <1>1 DEF Row, Event
<1>3. CASE Collides(table, new)
    <2>1. table' = table /\ job'[h] = Idle
        BY <1>1, <1>3 DEF InsertRow, Finish, Overtaken
    <2> QED BY <2>1, IdleShape DEF Grows, TypeInv
<1>4. CASE ~Collides(table, new)
    <2>1. /\ table' = Insert(table, new)
          /\ job'[h] = [job[h] EXCEPT !.pc = "load", !.op = "adopt", !.row = NextRow(table)]
        BY <1>1, <1>4 DEF InsertRow, Commit, Overtaken
    <2>2. /\ Sound(table') /\ Present(table') = Present(table) \cup {NextRow(table)}
          /\ NextRow(table) \in RowIds
        BY <1>1, <1>2, <1>4, <2>1, InsertSound
    <2>0. NextRow(table) \in 0..MaxRows
        BY <2>2, TableAssumption DEF RowIds
    <2> HIDE DEF new
    <2>3. /\ job'[h] \in Job /\ job'[h].pc = "load" /\ job'[h].op = "adopt"
          /\ job'[h].event = e /\ job'[h].row = NextRow(table)
        BY <1>1, <2>0, <2>1 DEF Job
    <2> QED BY <1>1, <2>2, <2>3 DEF Shape, Grows
<1> QED BY <1>3, <1>4

LEMMA LoadShape ==
    ASSUME TypeInv, NEW h \in Handlers, Load(h)
    PROVE  Grows /\ job'[h] \in Job /\ Shape(job[h])'
<1>1. /\ job[h] \in Job /\ Shape(job[h]) /\ job[h].pc = "load" /\ h \in DOMAIN job
      /\ job[h].row \in Present(table) /\ table \in Tables
    BY DEF Load, TypeInv, Shape, Sound
<1>2. table' = table /\ Grows
    BY DEF Load, Finish, Goto, Grows, TypeInv
<1>3. CASE job'[h] = Idle
    BY <1>2, <1>3, IdleShape
<1>4. CASE job'[h] = [job[h] EXCEPT !.pc = "write", !.loaded = table[job[h].row]]
    <2>1. table[job[h].row] \in Row
        BY <1>1, PresentRow
    <2>2. /\ job'[h] \in Job /\ job'[h].pc = "write" /\ job'[h].loaded \in Row
          /\ \A f \in {"op", "event", "row", "seen", "email"} : job'[h][f] = job[h][f]
        BY <1>1, <1>4, <2>1 DEF Job
    <2> QED BY <1>1, <1>2, <2>2 DEF Shape
<1> QED BY <1>1, <1>2, <1>3, <1>4 DEF Load, Finish, Goto, Overtaken

LEMMA WriteShape ==
    ASSUME TypeInv, NEW h \in Handlers, Write(h)
    PROVE  Grows /\ job'[h] \in Job /\ Shape(job[h])'
<1> DEFINE j == job[h]
<1>1. /\ j \in Job /\ Shape(j) /\ j.pc = "write" /\ h \in DOMAIN job
      /\ j.event \in Event /\ j.row \in Present(table)
    BY DEF Write, TypeInv, Shape
<1>2. table' = Written(h) /\ IsUnique(Written(h))
    BY DEF Write, Commit, Finish
<1>3. Grows /\ Present(table') = Present(table)
    BY <1>1, <1>2, WrittenSound DEF Grows
<1>4. CASE job'[h] = Idle
    BY <1>3, <1>4, IdleShape
<1>5. CASE j.op = "reactivate" /\ job'[h] = [j EXCEPT !.pc = "load", !.op = "adopt"]
    <2>1. /\ job'[h] \in Job /\ job'[h].pc = "load" /\ job'[h].op = "adopt"
          /\ \A f \in {"event", "row", "seen", "email"} : job'[h][f] = j[f]
        BY <1>1, <1>5 DEF Job
    <2> QED BY <1>1, <1>3, <1>5, <2>1 DEF Shape
<1>6. CASE j.op = "link" /\ job'[h] = [j EXCEPT !.pc = "load", !.op = "rename", !.email = j.seen.email]
    <2>1. j.seen.email \in Emails
        BY <1>1, <1>6 DEF Shape, Row
    <2>2. /\ job'[h] \in Job /\ job'[h].pc = "load" /\ job'[h].op = "rename"
          /\ job'[h].email \in Emails
          /\ \A f \in {"event", "row", "seen"} : job'[h][f] = j[f]
        BY <1>1, <1>6, <2>1 DEF Job
    <2> QED BY <1>1, <1>3, <1>6, <2>2 DEF Shape
<1>7. CASE j.op = "merge" /\ job'[h] = [j EXCEPT !.pc = "resolve"]
    <2>1. /\ job'[h] \in Job /\ job'[h].pc = "resolve"
          /\ \A f \in {"op", "event", "row", "seen", "email"} : job'[h][f] = j[f]
        BY <1>1, <1>7 DEF Job
    <2> QED BY <1>1, <1>3, <1>7, <2>1 DEF Shape
<1> QED BY <1>1, <1>4, <1>5, <1>6, <1>7 DEF Write, Commit, Finish, Overtaken

LEMMA WriteCollidesShape ==
    ASSUME TypeInv, NEW h \in Handlers, WriteCollides(h)
    PROVE  Grows /\ job'[h] \in Job /\ Shape(job[h])'
<1>1. /\ job[h] \in Job /\ Shape(job[h]) /\ job[h].pc = "write" /\ h \in DOMAIN job
      /\ job[h].event \in Event
    BY DEF WriteCollides, TypeInv, Shape
<1>2. table' = table /\ Grows
    BY DEF WriteCollides, Finish, Goto, Grows, TypeInv
<1>3. CASE job'[h] = Idle
    BY <1>2, <1>3, IdleShape
<1>4. CASE job[h].op \in {"link", "adopt"} /\ job'[h] = [job[h] EXCEPT !.pc = "conflict"]
    <2>1. /\ job'[h] \in Job /\ job'[h].pc = "conflict"
          /\ \A f \in {"op", "event", "row", "seen", "email"} : job'[h][f] = job[h][f]
        BY <1>1, <1>4 DEF Job
    <2> QED BY <1>1, <1>2, <1>4, <2>1 DEF Shape
<1> QED BY <1>1, <1>3, <1>4 DEF WriteCollides, Finish, Goto, Overtaken

LEMMA CheckConflictShape ==
    ASSUME TypeInv, NEW h \in Handlers, CheckConflict(h)
    PROVE  Grows /\ job'[h] \in Job /\ Shape(job[h])'
<1>1. /\ job[h] \in Job /\ Shape(job[h]) /\ job[h].pc = "conflict" /\ h \in DOMAIN job
      /\ job[h].event \in Event /\ table \in Tables
    BY DEF CheckConflict, TypeInv, Shape, Sound
<1>2. table' = table /\ Grows
    BY DEF CheckConflict, Finish, Goto, Grows, TypeInv
<1>3. CASE job'[h] = Idle
    BY <1>2, <1>3, IdleShape
<1>4. CASE job'[h] = [job[h] EXCEPT !.pc = "record", !.row = 0, !.seen = NoRow]
    <2>1. 0 \in 0..MaxRows
        BY TableAssumption
    <2>2. /\ job'[h] \in Job /\ job'[h].pc = "record" /\ job'[h].row = 0
          /\ \A f \in {"op", "event", "email"} : job'[h][f] = job[h][f]
        BY <1>1, <1>4, <2>1 DEF Job
    <2> QED BY <1>1, <1>2, <2>2 DEF Shape
<1>5. ASSUME NEW i \in WithEmail(table, job[h].event.email) \cap Active(table),
             job'[h] = [job[h] EXCEPT !.pc = "record", !.row = i, !.seen = table[i]]
      PROVE  job'[h] \in Job /\ Shape(job[h])'
    <2>1. i \in Present(table) /\ table \in Tables
        BY <1>1 DEF WithEmail
    <2>2. i \in Present(table) /\ i \in 0..MaxRows /\ table[i] \in Row
        BY <2>1, PresentRow, TableAssumption DEF RowIds
    <2>3. /\ job'[h] \in Job /\ job'[h].pc = "record" /\ job'[h].row = i /\ job'[h].seen = table[i]
          /\ \A f \in {"op", "event", "email"} : job'[h][f] = job[h][f]
        BY <1>1, <1>5, <2>2 DEF Job
    <2> QED BY <1>1, <1>2, <2>2, <2>3 DEF Shape
<1> QED BY <1>1, <1>2, <1>3, <1>4, <1>5 DEF CheckConflict, Finish, Goto, Overtaken

LEMMA RecordConflictShape ==
    ASSUME TypeInv, NEW h \in Handlers, NEW strategy \in Strategies, RecordConflict(h, strategy)
    PROVE  Grows /\ job'[h] \in Job /\ Shape(job[h])'
<1>1. /\ job[h] \in Job /\ Shape(job[h]) /\ job[h].pc = "record" /\ h \in DOMAIN job
      /\ job[h].event \in Event
    BY DEF RecordConflict, TypeInv, Shape
<1>2. table' = table /\ Grows
    BY DEF RecordConflict, Finish, Goto, Grows, TypeInv
<1>3. CASE job'[h] = Idle
    BY <1>2, <1>3, IdleShape
<1>4. CASE job'[h] = [job[h] EXCEPT !.pc = "resolve"]
    <2>1. /\ job'[h] \in Job /\ job'[h].pc = "resolve"
          /\ \A f \in {"op", "event", "row", "seen", "email"} : job'[h][f] = job[h][f]
        BY <1>1, <1>4 DEF Job
    <2> QED BY <1>1, <1>2, <2>1 DEF Shape
<1>5. CASE Mergeable(h) /\ job'[h] = [job[h] EXCEPT !.pc = "load", !.op = "merge"]
    <2>1. /\ job'[h] \in Job /\ job'[h].pc = "load" /\ job'[h].op = "merge"
          /\ \A f \in {"event", "row", "seen", "email"} : job'[h][f] = job[h][f]
        BY <1>1, <1>5 DEF Job
    <2>2. job[h].row # 0
        BY <1>5 DEF Mergeable
    <2> QED BY <1>1, <1>2, <2>1, <2>2 DEF Shape
<1> QED BY <1>1, <1>2, <1>3, <1>4, <1>5 DEF RecordConflict, Finish, Goto, Overtaken

\* Every step of a handler keeps the shape of all jobs, and every row.
LEMMA HandlerShape ==
    ASSUME TypeInv, NEW h \in Handlers, Handle(h)
    PROVE  Grows /\ job' \in [Handlers -> Job] /\ \A q \in Handlers : Shape(job[q])'
<1>1. Grows /\ job'[h] \in Job /\ Shape(job[h])'
    <2>1. ASSUME NEW k \in 1..Len(sent), Deliver(h, k)
          PROVE  Grows /\ job'[h] \in Job /\ Shape(job[h])'
        BY <2>1, DeliverShape
    <2>2. CASE FindByStripe(h)
        BY <2>2, FindByStripeShape
    <2>3. CASE FindDeleted(h)
        BY <2>3, FindDeletedShape
    <2>4. CASE CheckTaken(h)
        BY <2>4, CheckTakenShape
    <2>5. CASE FindByEmail(h)
        BY <2>5, FindByEmailShape
    <2>6. CASE Create(h)
        BY <2>6, CreateShape
    <2>7. CASE InsertRow(h)
        BY <2>7, InsertRowShape
    <2>8. CASE Load(h)
        BY <2>8, LoadShape
    <2>9. CASE Write(h)
        BY <2>9, WriteShape
    <2>10. CASE WriteCollides(h)
        BY <2>10, WriteCollidesShape
    <2>11. CASE CheckConflict(h)
        BY <2>11, CheckConflictShape
    <2>12. ASSUME NEW strategy \in Strategies, RecordConflict(h, strategy)
           PROVE  Grows /\ job'[h] \in Job /\ Shape(job[h])'
        BY <2>12, RecordConflictShape
    <2>13. CASE ResolveConflict(h) \/ Fail(h)
        <3>1. job'[h] = Idle /\ table' = table
            BY <2>13 DEF ResolveConflict, Fail, Finish, Overtaken, TypeInv
        <3> QED BY <3>1, IdleShape DEF Grows, TypeInv
    <2> QED BY <2>1, <2>2, <2>3, <2>4, <2>5, <2>6, <2>7, <2>8, <2>9, <2>10, <2>11, <2>12, <2>13
        DEF Handle
<1>2. \A q \in Handlers : job'[q] \in Job /\ Shape(job[q])'
    <2> SUFFICES ASSUME NEW q \in Handlers PROVE job'[q] \in Job /\ Shape(job[q])'
        OBVIOUS
    <2>1. CASE q = h
        BY <1>1, <2>1
    <2>2. CASE q # h
        <3>1. Left(q)
            BY <2>2, HandlerLeaves
        <3> QED BY <1>1, <3>1, LeftShape DEF TypeInv
    <2> QED BY <2>1, <2>2
<1> QED BY <1>1, <1>2, HandlerLeaves

-----------------------------------------------------------------------------
(* The world around the handlers.                                          *)

\* Deliveries in order are counted, and a note of anything else starts anew.
LEMMA NoteOK ==
    ASSUME WorldOK, sent' = sent, NEW bad, Note(bad)
    PROVE  done' \in 0..Len(sent') /\ orderly' \in BOOLEAN
<1>1. orderly' \in BOOLEAN
    BY DEF Note
<1>2. Len(sent) \in Nat
    BY DEF WorldOK
<1> QED BY <1>1, <1>2 DEF Note, WorldOK

\* What was handled last is an event, after every step of a handler.
LEMMA HandlerStable ==
    ASSUME NEW h \in Handlers, Handle(h), \A k \in 1..Len(sent) : ~Deliver(h, k), ~Fail(h)
    PROVE  job[h] # Idle /\ stable' \in {stable, NoEvent, job[h].event}
<1>1. ASSUME NEW t, Finish(h, t) PROVE stable' \in {stable, NoEvent, job[h].event}
    BY <1>1 DEF Finish
<1>2. ASSUME NEW j, Goto(h, j) PROVE stable' \in {stable, NoEvent, job[h].event}
    BY <1>2 DEF Goto
<1>3. ASSUME NEW t, NEW j, Commit(h, t, j) PROVE stable' \in {stable, NoEvent, job[h].event}
    BY <1>3 DEF Commit
<1> USE <1>1, <1>2, <1>3
<1>4. Idle.pc = "idle"
    BY DEF Idle
<1>5. CASE FindByStripe(h)
    <2>1. job[h] # Idle
        BY <1>4, <1>5 DEF FindByStripe
    <2> QED BY <1>5, <2>1 DEF FindByStripe
<1>6. CASE FindDeleted(h)
    <2>1. job[h] # Idle
        BY <1>4, <1>6 DEF FindDeleted
    <2> QED BY <1>6, <2>1 DEF FindDeleted
<1>7. CASE CheckTaken(h)
    <2>1. job[h] # Idle
        BY <1>4, <1>7 DEF CheckTaken
    <2> QED BY <1>7, <2>1 DEF CheckTaken
<1>8. CASE FindByEmail(h)
    <2>1. job[h] # Idle
        BY <1>4, <1>8 DEF FindByEmail
    <2> QED BY <1>8, <2>1 DEF FindByEmail
<1>9. CASE Create(h)
    <2>1. job[h] # Idle
        BY <1>4, <1>9 DEF Create
    <2> QED BY <1>9, <2>1 DEF Create
<1>10. CASE InsertRow(h)
    <2>1. job[h] # Idle
        BY <1>4, <1>10 DEF InsertRow
    <2> QED BY <1>10, <2>1 DEF InsertRow
<1>11. CASE Load(h)
    <2>1. job[h] # Idle
        BY <1>4, <1>11 DEF Load
    <2> QED BY <1>11, <2>1 DEF Load
<1>12. CASE Write(h)
    <2>1. job[h] # Idle
        BY <1>4, <1>12 DEF Write
    <2> QED BY <1>12, <2>1 DEF Write
<1>13. CASE WriteCollides(h)
    <2>1. job[h] # Idle
        BY <1>4, <1>13 DEF WriteCollides
    <2> QED BY <1>13, <2>1 DEF WriteCollides
<1>14. CASE CheckConflict(h)
    <2>1. job[h] # Idle
        BY <1>4, <1>14 DEF CheckConflict
    <2> QED BY <1>14, <2>1 DEF CheckConflict
<1>15. CASE ResolveConflict(h)
    <2>1. job[h] # Idle
        BY <1>4, <1>15 DEF ResolveConflict
    <2> QED BY <1>15, <2>1 DEF ResolveConflict
<1>16. ASSUME NEW strategy \in Strategies, RecordConflict(h, strategy)
      PROVE  job[h] # Idle /\ stable' \in {stable, NoEvent, job[h].event}
    <2>1. job[h] # Idle
        BY <1>4, <1>16 DEF RecordConflict
    <2> QED BY <1>16, <2>1 DEF RecordConflict
<1> QED BY <1>5, <1>6, <1>7, <1>8, <1>9, <1>10, <1>11, <1>12, <1>13, <1>14, <1>15, <1>16 DEF Handle

LEMMA HandlerWorld ==
    ASSUME TypeInv, NEW h \in Handlers, Handle(h)
    PROVE  WorldOK'
<1>1. outside' = outside /\ Present(table) \subseteq Present(table')
    <2>1. outside' = outside
        BY DEF Handle, Deliver, FindByStripe, FindDeleted, CheckTaken, FindByEmail, Create,
               InsertRow, Load, Write, WriteCollides, CheckConflict, RecordConflict,
               ResolveConflict, Fail, outside
    <2> QED BY <2>1, HandlerShape DEF Grows
<1>2. done' \in 0..Len(sent') /\ orderly' \in BOOLEAN
    <2>1. done \in 0..Len(sent) /\ orderly \in BOOLEAN /\ Len(sent) \in Nat /\ sent' = sent
        BY <1>1 DEF TypeInv, WorldOK, outside
    <2>2. ASSUME NEW k \in 1..Len(sent), Deliver(h, k)
          PROVE  done' \in 0..Len(sent') /\ orderly' \in BOOLEAN
        <3>1. orderly' \in BOOLEAN
            BY <2>2 DEF Deliver
        <3>2. done' = k \/ done' = 0
            BY <2>2 DEF Deliver
        <3> QED BY <2>1, <3>1, <3>2
    <2>3. ASSUME NEW bad, Note(bad)
          PROVE  done' \in 0..Len(sent') /\ orderly' \in BOOLEAN
        BY <2>1, <2>3, NoteOK DEF TypeInv
    <2>4. CASE CheckTaken(h) \/ FindByEmail(h) \/ WriteCollides(h) \/ Fail(h)
        BY <2>3, <2>4 DEF CheckTaken, FindByEmail, WriteCollides, Fail
    <2>5. CASE UNCHANGED <<orderly, done>>
        BY <2>1, <2>5
    <2> QED BY <2>2, <2>4, <2>5 DEF Handle, FindByStripe, FindDeleted, Create, InsertRow, Load, Write,
               CheckConflict, RecordConflict, ResolveConflict
<1>3. stable' \in Event \cup {NoEvent}
    <2>1. stable \in Event \cup {NoEvent}
        BY DEF TypeInv, WorldOK
    <2>2. job[h] # Idle => job[h].event \in Event
        BY DEF TypeInv, Shape
    <2>3. ASSUME NEW k \in 1..Len(sent), Deliver(h, k)
          PROVE  stable' \in Event \cup {NoEvent}
        BY <2>1, <2>3 DEF Deliver
    <2>4. CASE Fail(h)
        BY <2>4 DEF Fail
    <2>5. CASE (\A k \in 1..Len(sent) : ~Deliver(h, k)) /\ ~Fail(h)
        BY <2>1, <2>2, <2>5, HandlerStable
    <2> QED BY <2>3, <2>4, <2>5
<1> QED BY <1>1, <1>2, <1>3 DEF TypeInv, WorldOK, outside

\* Something happens in Stripe: the handlers do not know yet.
LEMMA EmitWorld ==
    ASSUME TypeInv, NEW event \in Event, Emit(event),
           announced' \subseteq announced, creating' \subseteq StripeIds \X Present(table)
    PROVE  Grows /\ (\A q \in Handlers : Left(q)) /\ job' = job /\ WorldOK'
<1>1. UNCHANGED <<table, pending, job, done, orderly, stable, writes>>
    BY DEF Emit, histories
<1>2. sent \in Seq(Event) /\ Len(sent) \in Nat /\ Len(sent) < MaxEvents /\ sent' = Append(sent, event)
    BY DEF Emit, TypeInv, WorldOK
<1>3. sent' \in Seq(Event) /\ Len(sent') = Len(sent) + 1
    BY <1>2, AppendProperties
<1>4. MaxEvents \in Nat /\ done \in 0..Len(sent)
    BY WebhookAssumption DEF TypeInv, WorldOK
<1>5. Len(sent') <= MaxEvents /\ done' \in 0..Len(sent')
    BY <1>1, <1>2, <1>3, <1>4
<1>6. announced' \subseteq [row : Present(table), name : Names, email : Emails]
    BY DEF TypeInv, WorldOK
<1> QED BY <1>1, <1>3, <1>5, <1>6 DEF TypeInv, WorldOK, Grows, Left

\* Something is committed elsewhere.
LEMMA ElsewhereWorld ==
    ASSUME TypeInv, NEW t, NEW bad, Elsewhere(t, bad),
           Sound(t), Present(table) \subseteq Present(t),
           announced' \subseteq announced \cup [row : Present(t), name : Names, email : Emails],
           creating' \subseteq creating, writes' \in 0..MaxWrites
    PROVE  Grows /\ (\A q \in Handlers : Left(q)) /\ job' \in [Handlers -> Job] /\ WorldOK'
<1>1. table' = t /\ sent' = sent /\ stable' = NoEvent /\ Note(bad)
    BY DEF Elsewhere
<1>2. Grows
    BY <1>1 DEF Grows
<1>3. \A q \in Handlers : Left(q)
    BY <1>1 DEF Elsewhere, Overtaken, Left
<1>4. job' \in [Handlers -> Job]
    BY <1>3, <1>2, LeftShape DEF Elsewhere, Overtaken, TypeInv
<1>5. done' \in 0..Len(sent') /\ orderly' \in BOOLEAN
    BY <1>1, NoteOK DEF TypeInv
<1>6. announced' \subseteq [row : Present(t), name : Names, email : Emails]
    BY DEF TypeInv, WorldOK
<1>7. creating' \subseteq StripeIds \X Present(t)
    BY DEF TypeInv, WorldOK
<1> QED BY <1>1, <1>2, <1>3, <1>4, <1>5, <1>6, <1>7 DEF TypeInv, WorldOK

\* A row may take an email no other row has.
LEMMA UpdateEmail ==
    ASSUME NEW t, Sound(t), NEW i \in Present(t), NEW row \in Row,
           row.stripe = t[i].stripe, WithEmail(t, row.email) \subseteq {i}
    PROVE  IsUnique([t EXCEPT ![i] = row])
<1> DEFINE u == [t EXCEPT ![i] = row]
<1>1. t \in Tables /\ i \in RowIds
    BY PresentRow DEF Sound
<1>2. Present(u) = Present(t)
    BY <1>1, NoRowAssumption DEF Present, Tables
<1>3. u[i] = row /\ \A h \in Present(t) \ {i} : u[h] = t[h]
    BY <1>1 DEF Tables, Present
<1>4. \A h \in Present(t) \ {i} :
          /\ t[h].email # row.email
          /\ row.stripe # NoStripe => t[h].stripe # row.stripe
    BY DEF Sound, IsUnique, WithEmail
<1> SUFFICES ASSUME NEW j \in Present(u), NEW k \in Present(u), j # k
             PROVE  /\ u[j].email # u[k].email
                    /\ u[j].stripe # NoStripe => u[j].stripe # u[k].stripe
    BY DEF IsUnique
<1>5. CASE j = i
    BY <1>2, <1>3, <1>4, <1>5
<1>6. CASE k = i
    BY <1>2, <1>3, <1>4, <1>6
<1>7. CASE j # i /\ k # i
    BY <1>2, <1>3, <1>7 DEF Sound, IsUnique
<1> QED BY <1>5, <1>6, <1>7

LEMMA WorkerLinkWorld ==
    ASSUME TypeInv, NEW s \in StripeIds, NEW i \in RowIds, WorkerLink(s, i)
    PROVE  Grows /\ (\A q \in Handlers : Left(q)) /\ job' \in [Handlers -> Job] /\ WorldOK'
<1> DEFINE u == [table EXCEPT ![i].stripe = s]
           t == IF IsUnique(u) THEN u ELSE table
<1>1. <<s, i>> \in creating /\ i \in Present(table) /\ Sound(table)
    BY DEF WorkerLink, TypeInv, WorldOK
<1>2. table[i] \in Row /\ [table[i] EXCEPT !.stripe = s] \in Row
    BY <1>1, PresentRow DEF Sound, Row
<1>3. u = [table EXCEPT ![i] = [table[i] EXCEPT !.stripe = s]]
    OBVIOUS
<1>4. Sound(t) /\ Present(table) \subseteq Present(t)
    <2>1. CASE IsUnique(u)
        <3> HIDE DEF u
        <3>1. Sound(u) /\ Present(u) = Present(table)
            BY <1>1, <1>2, <1>3, <2>1, UpdateSound
        <3> QED BY <2>1, <3>1
    <2>2. CASE ~IsUnique(u)
        BY <1>1, <2>2
    <2> QED BY <2>1, <2>2
<1>5. /\ Elsewhere(t, table[i].stripe \notin {NoStripe, s})
      /\ announced' = announced /\ writes' = writes /\ creating' \subseteq creating
    BY DEF WorkerLink
<1>6. writes \in 0..MaxWrites
    BY DEF TypeInv, WorldOK
<1> HIDE DEF t
<1> QED BY <1>4, <1>5, <1>6, ElsewhereWorld

\* A request is counted.
LEMMA RequestWorld ==
    ASSUME TypeInv, writes < MaxWrites, NEW t, NEW bad, Request(t, bad),
           Sound(t), Present(table) \subseteq Present(t),
           announced' \subseteq announced \cup [row : Present(t), name : Names, email : Emails]
    PROVE  Grows /\ (\A q \in Handlers : Left(q)) /\ job' \in [Handlers -> Job] /\ WorldOK'
<1>1. writes' \in 0..MaxWrites
    BY WebhookAssumption DEF Request, TypeInv, WorldOK
<1>2. Elsewhere(t, bad) /\ creating' = creating
    BY DEF Request
<1> QED BY <1>1, <1>2, ElsewhereWorld

LEMMA ApiCreateWorld ==
    ASSUME TypeInv, NEW name \in Names, NEW email \in Emails,
           NEW given \in StripeIds \cup {NoStripe}, ApiCreate(name, email, given)
    PROVE  Grows /\ (\A q \in Handlers : Left(q)) /\ job' \in [Handlers -> Job] /\ WorldOK'
<1> DEFINE new == [name |-> name, email |-> email, stripe |-> given, active |-> TRUE]
<1>1. Sound(table) /\ writes < MaxWrites
    BY DEF ApiCreate, TypeInv
<1>2. CASE /\ ~Collides(table, new)
           /\ Request(Insert(table, new), ~AllIdle(Handlers) \/ given # NoStripe)
           /\ announced' = announced \cup {[row |-> NextRow(table), name |-> name, email |-> email]}
    <2>1. new \in Row /\ ~Collides(table, new)
        BY <1>2 DEF Row
    <2> HIDE DEF new
    <2>2. /\ Sound(Insert(table, new))
          /\ Present(Insert(table, new)) = Present(table) \cup {NextRow(table)}
        BY <1>1, <2>1, InsertSound
    <2> DEFINE t == Insert(table, new)
    <2>3. announced' \subseteq announced \cup [row : Present(t), name : Names, email : Emails]
        BY <1>2, <2>2
    <2> HIDE DEF t
    <2> QED BY <1>1, <1>2, <2>2, <2>3, RequestWorld DEF t
<1>3. ASSUME NEW i \in WithEmail(table, email),
             NEW link, link = IF given = NoStripe THEN table[i].stripe ELSE given,
             NEW u, u = [table EXCEPT ![i].active = TRUE, ![i].name = name, ![i].stripe = link],
             IsUnique(u), Request(u, TRUE),
             announced' = announced \cup {[row |-> i, name |-> name, email |-> email]}
      PROVE  Grows /\ (\A q \in Handlers : Left(q)) /\ job' \in [Handlers -> Job] /\ WorldOK'
    <2> DEFINE row == [table[i] EXCEPT !.active = TRUE, !.name = name, !.stripe = link]
    <2>1. i \in Present(table) /\ table \in Tables
        BY <1>1 DEF WithEmail, Sound
    <2>2. table[i] \in Row /\ i \in RowIds
        BY <2>1, PresentRow
    <2>3. row \in Row
        <3>1. link \in StripeIds \cup {NoStripe}
            BY <1>3, <2>2 DEF Row
        <3> QED BY <2>2, <3>1 DEF Row
    <2>4. u = [table EXCEPT ![i] = row]
        BY <1>3, <2>1, <2>2 DEF Tables
    <2> HIDE DEF row
    <2>5. Sound(u) /\ Present(u) = Present(table)
        <3>1. IsUnique([table EXCEPT ![i] = row])
            BY <1>3, <2>4
        <3> QED BY <1>1, <2>1, <2>3, <2>4, <3>1, UpdateSound
    <2>6. announced' \subseteq announced \cup [row : Present(u), name : Names, email : Emails]
        BY <1>3, <2>1, <2>5
    <2>7. Request(u, TRUE)
        BY <1>3
    <2> QED BY <1>1, <2>5, <2>6, <2>7, RequestWorld
<1>4. \/ /\ ~Collides(table, new)
         /\ Request(Insert(table, new), ~AllIdle(Handlers) \/ given # NoStripe)
         /\ announced' = announced \cup {[row |-> NextRow(table), name |-> name, email |-> email]}
      \/ \E i \in WithEmail(table, email) : \E link, u :
            /\ link = IF given = NoStripe THEN table[i].stripe ELSE given
            /\ u = [table EXCEPT ![i].active = TRUE, ![i].name = name, ![i].stripe = link]
            /\ IsUnique(u) /\ Request(u, TRUE)
            /\ announced' = announced \cup {[row |-> i, name |-> name, email |-> email]}
    BY DEF ApiCreate
<1> HIDE DEF new
<1> QED BY <1>2, <1>3, <1>4

LEMMA ApiUpdateWorld ==
    ASSUME TypeInv, NEW name \in Names, NEW email \in Emails, NEW i \in RowIds,
           ApiUpdate(i, name, email)
    PROVE  Grows /\ (\A q \in Handlers : Left(q)) /\ job' \in [Handlers -> Job] /\ WorldOK'
<1> DEFINE row == [table[i] EXCEPT !.name = name, !.email = email]
<1>1. /\ Sound(table) /\ writes < MaxWrites /\ i \in Present(table) /\ table \in Tables
      /\ WithEmail(table, email) \subseteq {i}
      /\ Request([table EXCEPT ![i].name = name, ![i].email = email], TRUE)
      /\ announced' = announced
    BY DEF ApiUpdate, TypeInv, Sound, Active
<1>2. table[i] \in Row
    BY <1>1, PresentRow
<1>3. row \in Row /\ row.email = email /\ row.stripe = table[i].stripe
    BY <1>2 DEF Row
<1>4. [table EXCEPT ![i].name = name, ![i].email = email] = [table EXCEPT ![i] = row]
    BY <1>1, <1>2 DEF Tables
<1> HIDE DEF row
<1>5. IsUnique([table EXCEPT ![i] = row])
    BY <1>1, <1>3, UpdateEmail
<1>6. Sound([table EXCEPT ![i] = row]) /\ Present([table EXCEPT ![i] = row]) = Present(table)
    BY <1>1, <1>3, <1>5, UpdateSound
<1> QED BY <1>1, <1>4, <1>6, RequestWorld

LEMMA ApiDeleteWorld ==
    ASSUME TypeInv, NEW i \in RowIds, ApiDelete(i)
    PROVE  Grows /\ (\A q \in Handlers : Left(q)) /\ job' \in [Handlers -> Job] /\ WorldOK'
<1> DEFINE row == [table[i] EXCEPT !.active = FALSE]
<1>1. /\ Sound(table) /\ writes < MaxWrites /\ i \in Present(table) /\ table \in Tables
      /\ Request([table EXCEPT ![i].active = FALSE], TRUE)
      /\ announced' = announced
    BY DEF ApiDelete, TypeInv, Sound, Active
<1>2. table[i] \in Row
    BY <1>1, PresentRow
<1>3. row \in Row /\ row.email = table[i].email /\ row.stripe = table[i].stripe
    BY <1>2 DEF Row
<1>4. [table EXCEPT ![i].active = FALSE] = [table EXCEPT ![i] = row]
    OBVIOUS
<1> HIDE DEF row
<1>5. IsUnique([table EXCEPT ![i] = row])
    BY <1>1, <1>3, UpdateUnique
<1>6. Sound([table EXCEPT ![i] = row]) /\ Present([table EXCEPT ![i] = row]) = Present(table)
    BY <1>1, <1>3, <1>5, UpdateSound
<1> QED BY <1>1, <1>4, <1>6, RequestWorld

\* What Stripe, the API and the worker do reaches the handlers only through the
\* table.
LEMMA EnvironmentWorld ==
    ASSUME TypeInv, Environment
    PROVE  Grows /\ (\A q \in Handlers : Left(q)) /\ job' \in [Handlers -> Job] /\ WorldOK'
<1>1. ASSUME NEW s \in StripeIds, NEW name \in Names, NEW email \in Emails \cup {NoEmail},
             NEW type \in {"created", "updated", "deleted"}, StripeChange(s, type, name, email)
      PROVE  Grows /\ (\A q \in Handlers : Left(q)) /\ job' \in [Handlers -> Job] /\ WorldOK'
    <2> DEFINE event == [type |-> type, id |-> s, name |-> name, email |-> email]
    <2>1. event \in Event
        BY DEF Event
    <2>2. Emit(event) /\ announced' = announced /\ creating' = creating
        BY <1>1 DEF StripeChange
    <2>3. creating \subseteq StripeIds \X Present(table) /\ job \in [Handlers -> Job]
        BY DEF TypeInv, WorldOK
    <2> HIDE DEF event
    <2> QED BY <2>1, <2>2, <2>3, EmitWorld
<1>2. ASSUME NEW s \in StripeIds, NEW a \in announced, WorkerCreate(s, a)
      PROVE  Grows /\ (\A q \in Handlers : Left(q)) /\ job' \in [Handlers -> Job] /\ WorldOK'
    <2> DEFINE event == [type |-> "created", id |-> s, name |-> a.name, email |-> a.email]
    <2>1. a \in [row : Present(table), name : Names, email : Emails]
        BY DEF TypeInv, WorldOK
    <2>2. event \in Event
        BY <2>1 DEF Event
    <2>3. Emit(event) /\ announced' \subseteq announced /\ creating' = creating \cup {<<s, a.row>>}
        BY <1>2 DEF WorkerCreate
    <2>4. creating' \subseteq StripeIds \X Present(table) /\ job \in [Handlers -> Job]
        BY <2>1, <2>3 DEF TypeInv, WorldOK
    <2> HIDE DEF event
    <2> QED BY <2>2, <2>3, <2>4, EmitWorld
<1> QED BY <1>1, <1>2, WorkerLinkWorld, ApiCreateWorld, ApiUpdateWorld, ApiDeleteWorld DEF Environment

\* It either adds an event or may write the table.
LEMMA EnvironmentWrites ==
    ASSUME Environment
    PROVE  (\E t, bad : Elsewhere(t, bad)) \/ (\E event : Emit(event))
<1> DEFINE Q == (\E t, bad : Elsewhere(t, bad)) \/ (\E event : Emit(event))
<1>1. ASSUME NEW t, NEW bad, Request(t, bad) PROVE Q
    BY <1>1 DEF Request
<1>2. ASSUME NEW name, NEW email, NEW given, ApiCreate(name, email, given) PROVE Q
    <2> HIDE DEF Q
    <2> QED BY <1>1, <1>2 DEF ApiCreate
<1>3. ASSUME NEW name, NEW email, NEW i, ApiUpdate(i, name, email) PROVE Q
    <2> HIDE DEF Q
    <2> QED BY <1>1, <1>3 DEF ApiUpdate
<1>4. ASSUME NEW i, ApiDelete(i) PROVE Q
    <2> HIDE DEF Q
    <2> QED BY <1>1, <1>4 DEF ApiDelete
<1>5. ASSUME NEW s, NEW i, WorkerLink(s, i) PROVE Q
    BY <1>5 DEF WorkerLink
<1>6. ASSUME NEW s, NEW a, WorkerCreate(s, a) PROVE Q
    BY <1>6 DEF WorkerCreate
<1>7. ASSUME NEW s, NEW type, NEW name, NEW email, StripeChange(s, type, name, email) PROVE Q
    BY <1>7 DEF StripeChange
<1> HIDE DEF Q
<1>8. Q
    BY <1>2, <1>3, <1>4, <1>5, <1>6, <1>7 DEF Environment
<1> QED BY <1>8 DEF Q

-----------------------------------------------------------------------------
(* Types.                                                                  *)

LEMMA TypeStep ==
    ASSUME TypeInv, [Next]_vars
    PROVE  TypeInv'
<1>1. CASE Environment
    <2>1. Grows /\ (\A q \in Handlers : Left(q)) /\ job' \in [Handlers -> Job] /\ WorldOK'
        BY <1>1, EnvironmentWorld
    <2>2. \A q \in Handlers : Shape(job[q])'
        BY <2>1, LeftShape DEF TypeInv
    <2> QED BY <2>1, <2>2 DEF TypeInv, Grows
<1>2. ASSUME NEW h \in Handlers, Handle(h)
      PROVE  TypeInv'
    BY <1>2, HandlerShape, HandlerWorld DEF TypeInv, Grows
<1>3. CASE UNCHANGED vars
    <2>1. UNCHANGED <<table, job, sent, announced, creating, done, orderly, stable, writes>>
        BY <1>3 DEF vars, histories
    <2>2. WorldOK'
        BY <2>1 DEF TypeInv, WorldOK
    <2>3. \A q \in Handlers : Shape(job[q])'
        <3>1. \A q \in Handlers : Left(q) /\ job[q] \in Job /\ Shape(job[q])
            BY <2>1 DEF Left, TypeInv
        <3>2. Grows
            BY <2>1 DEF Grows, TypeInv
        <3> QED BY <3>1, <3>2, LeftShape
    <2> QED BY <2>1, <2>2, <2>3 DEF TypeInv
<1> QED BY <1>1, <1>2, <1>3 DEF Next

LEMMA TypeInit == Init => TypeInv
<1> SUFFICES ASSUME Init PROVE TypeInv
    OBVIOUS
<1>1. Sound(table)
    BY TableAssumption DEF Init, EmptyTable, Sound, Tables, IsUnique, Filled, Present
<1>2. WorldOK
    BY WebhookAssumption DEF Init, WorldOK
<1>3. Idle \in Job
    BY TableAssumption DEF Idle, Job
<1>4. \A h \in Handlers : job[h] = Idle
    BY DEF Init
<1>5. Shape(Idle)
    BY <1>3 DEF Shape, Idle
<1> QED BY <1>1, <1>2, <1>3, <1>4, <1>5 DEF TypeInv, Init

LEMMA TypeInvariant == Spec => []TypeInv
<1> QED BY TypeInit, TypeStep, PTL DEF Spec

-----------------------------------------------------------------------------
(* Conflicts.                                                              *)

\* The handlers at the conflicts of e are found where they were, but for those of
\* S, who take the step.
LEMMA OthersAt ==
    ASSUME TypeInv, NEW S, \A q \in Handlers \ S : Left(q), NEW e
    PROVE  /\ Recording(e)' \ S = Recording(e) \ S
           /\ Resolving(e)' \ S = Resolving(e) \ S
<1>1. \A q \in Handlers \ S :
          job'[q].pc = job[q].pc /\ job'[q].op = job[q].op /\ job'[q].event = job[q].event
    <2> SUFFICES ASSUME NEW q \in Handlers \ S
                 PROVE  job'[q].pc = job[q].pc /\ job'[q].op = job[q].op
                        /\ job'[q].event = job[q].event
        OBVIOUS
    <2>1. Left(q) /\ job[q] \in Job
        BY DEF TypeInv
    <2> QED BY <2>1 DEF Left, Job
<1> QED BY <1>1 DEF Recording, Resolving

LEMMA OneAt ==
    ASSUME TypeInv, NEW h, \A q \in Handlers \ {h} : Left(q), NEW e
    PROVE  /\ Recording(e)' \ {h} = Recording(e) \ {h}
           /\ Resolving(e)' \ {h} = Resolving(e) \ {h}
BY OthersAt

LEMMA HandlersFinite ==
    ASSUME NEW S, S \subseteq Handlers
    PROVE  IsFiniteSet(S) /\ Cardinality(S) \in Nat /\ Cardinality(S) <= Cardinality(Handlers)
           /\ Cardinality(Handlers) \in Nat
BY WebhookAssumption, FS_Subset, FS_CardinalityType

\* No more conflicts are recorded, and none is added to those about to be.
LEMMA PendingShrinks ==
    ASSUME PendingOK, pending' = pending,
           \A e \in Emails : /\ Recording(e)' \subseteq Recording(e)
                             /\ Resolving(e)' \subseteq Resolving(e)
    PROVE  PendingOK'
<1>1. pending' \in [Emails -> Nat]
    BY DEF PendingOK
<1>2. ASSUME NEW e \in Emails
      PROVE  /\ pending'[e] + Cardinality(Recording(e)') <= Cardinality(Handlers)
             /\ Cardinality(Resolving(e)') <= pending'[e]
    <2>1. Recording(e) \subseteq Handlers /\ Resolving(e) \subseteq Handlers
        BY DEF Recording, Resolving
    <2>2. /\ IsFiniteSet(Recording(e)) /\ Cardinality(Recording(e)) \in Nat
          /\ IsFiniteSet(Resolving(e)) /\ Cardinality(Resolving(e)) \in Nat
          /\ Cardinality(Handlers) \in Nat
        BY <2>1, HandlersFinite
    <2>3. /\ Cardinality(Recording(e)') <= Cardinality(Recording(e))
          /\ Cardinality(Resolving(e)') <= Cardinality(Resolving(e))
          /\ Cardinality(Recording(e)') \in Nat /\ Cardinality(Resolving(e)') \in Nat
        BY <1>2, <2>2, FS_Subset, FS_CardinalityType
    <2>4. /\ pending[e] + Cardinality(Recording(e)) <= Cardinality(Handlers)
          /\ Cardinality(Resolving(e)) <= pending[e] /\ pending[e] \in Nat
        BY DEF PendingOK
    <2> QED BY <2>2, <2>3, <2>4
<1>3. \A e \in Emails :
          Cardinality(Recording(e)') = Cardinality(Recording(e))' /\
          Cardinality(Resolving(e)') = Cardinality(Resolving(e))'
    OBVIOUS
<1> QED BY <1>1, <1>2, <1>3 DEF PendingOK

LEMMA CheckConflictPending ==
    ASSUME TypeInv, PendingOK, NEW h \in Handlers, CheckConflict(h)
    PROVE  PendingOK'
<1>0. PICK m \in Emails : m = job[h].event.email
    BY DEF TypeInv, Shape, CheckConflict
<1>1. /\ \A q \in Handlers \ {h} : Left(q)
      /\ pending' = pending
    BY <1>0, HandlerLeaves DEF CheckConflict, Handle
<1>2. /\ job[h] \in Job /\ job[h].pc = "conflict" /\ job[h].op \in {"link", "adopt"}
      /\ m \in Emails /\ job[h].event.email = m
    BY <1>0 DEF TypeInv, Shape, CheckConflict
<1>3. \A e : h \notin Recording(e) /\ h \notin Resolving(e)
    BY <1>2 DEF Recording, Resolving
<1>4. CASE job'[h] = Idle
    <2>1. \A e : h \notin Recording(e)' /\ h \notin Resolving(e)'
        BY <1>4 DEF Idle, Recording, Resolving
    <2>2. \A e \in Emails : /\ Recording(e)' \subseteq Recording(e)
                            /\ Resolving(e)' \subseteq Resolving(e)
        BY <1>1, <1>3, <2>1, OneAt
    <2> QED BY <1>1, <2>2, PendingShrinks
<1>5. CASE /\ pending[m] = 0
           /\ job'[h].pc = "record" /\ job'[h].op = job[h].op /\ job'[h].event = job[h].event
    <2>1. \A e \in Emails : Resolving(e)' = Resolving(e)
        <3>1. \A e : h \notin Resolving(e)'
            BY <1>2, <1>5 DEF Resolving
        <3> QED BY <1>1, <1>3, <3>1, OneAt
    <2>2. \A e \in Emails \ {m} : Recording(e)' = Recording(e)
        <3>1. \A e \in Emails \ {m} : h \notin Recording(e)'
            BY <1>2, <1>5 DEF Recording
        <3> QED BY <1>1, <1>3, <3>1, OneAt
    <2>3. ASSUME NEW e \in Emails
          PROVE  pending'[e] + Cardinality(Recording(e))' <= Cardinality(Handlers)
        <3>1. CASE e = m
            <4>1. Recording(e)' \subseteq Handlers
                BY DEF Recording
            <4>2. Cardinality(Recording(e)') <= Cardinality(Handlers)
                  /\ Cardinality(Recording(e)') \in Nat
                BY <4>1, HandlersFinite
            <4>3. pending'[e] = 0
                BY <1>1, <1>5, <3>1
            <4> QED BY <4>2, <4>3
        <3>2. CASE e # m
            BY <1>1, <2>2, <3>2 DEF PendingOK
        <3> QED BY <3>1, <3>2
    <2> QED BY <1>1, <2>1, <2>3 DEF PendingOK
<1>6. h \in DOMAIN job
    BY DEF TypeInv
<1>7. pending[m] \in Nat /\ ~(pending[m] > 0) => pending[m] = 0
    BY <1>2 DEF PendingOK
<1>8. CASE job'[h] = Idle \/ ~(pending[m] > 0)
    <2>1. job'[h] = Idle \/ \E i, r : job'[h] = [job[h] EXCEPT !.pc = "record", !.row = i, !.seen = r]
        BY <1>2, <1>6, <1>8 DEF CheckConflict, Goto, Finish, Overtaken
    <2>2. ASSUME NEW i, NEW r, job'[h] = [job[h] EXCEPT !.pc = "record", !.row = i, !.seen = r]
          PROVE  job'[h].pc = "record" /\ job'[h].op = job[h].op /\ job'[h].event = job[h].event
        BY <1>2, <2>2 DEF Job
    <2>3. pending[m] \in Nat
        BY <1>2 DEF PendingOK
    <2> QED BY <1>4, <1>5, <1>7, <1>8, <2>1, <2>2, <2>3
<1> QED BY <1>2, <1>6, <1>8 DEF CheckConflict, Finish, Overtaken

LEMMA RecordConflictPending ==
    ASSUME TypeInv, PendingOK, NEW h \in Handlers, NEW strategy \in Strategies,
           RecordConflict(h, strategy)
    PROVE  PendingOK'
<1>0. PICK m \in Emails : m = job[h].event.email
    BY DEF TypeInv, Shape, RecordConflict
<1>1. /\ \A q \in Handlers \ {h} : Left(q)
      /\ pending' = [pending EXCEPT ![m] = @ + 1]
    BY <1>0, HandlerLeaves DEF RecordConflict, Handle
<1>2. /\ job[h] \in Job /\ job[h].pc = "record" /\ job[h].op \in {"link", "adopt"}
      /\ m \in Emails /\ h \in DOMAIN job /\ job[h].event.email = m
    BY <1>0 DEF TypeInv, Shape, RecordConflict
<1>3. /\ job'[h] = Idle \/ job'[h] = [job[h] EXCEPT !.pc = "resolve"]
         \/ job'[h] = [job[h] EXCEPT !.pc = "load", !.op = "merge"]
    BY <1>2 DEF RecordConflict, Goto, Finish, Overtaken
<1>4. /\ job'[h].pc # "record" /\ (job'[h] = Idle \/ job'[h].event = job[h].event)
      /\ Idle.pc = "idle" /\ Idle.op = "none"
    <2>1. Idle.pc = "idle" /\ Idle.op = "none"
        BY DEF Idle
    <2>2. CASE job'[h] = Idle
        BY <2>1, <2>2
    <2>3. CASE \/ job'[h] = [job[h] EXCEPT !.pc = "resolve"]
               \/ job'[h] = [job[h] EXCEPT !.pc = "load", !.op = "merge"]
        BY <1>2, <2>1, <2>3 DEF Job
    <2> QED BY <1>3, <2>2, <2>3
<1>5. h \in Recording(m) /\ \A e : h \notin Recording(e)' /\ h \notin Resolving(e)
    BY <1>2, <1>4 DEF Recording, Resolving
<1>6. \A e \in Emails \ {m} : h \notin Recording(e) /\ h \notin Resolving(e)'
    BY <1>2, <1>4 DEF Recording, Resolving
<1>7. \A e \in Emails \ {m} : Recording(e)' = Recording(e) /\ Resolving(e)' = Resolving(e)
    <2> SUFFICES ASSUME NEW e \in Emails \ {m}
                 PROVE  Recording(e)' = Recording(e) /\ Resolving(e)' = Resolving(e)
        OBVIOUS
    <2>1. /\ Recording(e)' \ {h} = Recording(e) \ {h}
          /\ Resolving(e)' \ {h} = Resolving(e) \ {h}
        BY <1>1, OneAt
    <2>2. /\ h \notin Recording(e)' /\ h \notin Recording(e)
          /\ h \notin Resolving(e)' /\ h \notin Resolving(e)
        BY <1>5, <1>6
    <2>3. Recording(e)' = Recording(e)
        BY <2>1, <2>2
    <2>4. Resolving(e)' = Resolving(e)
        BY <2>1, <2>2
    <2> QED BY <2>3, <2>4
<1>8. /\ Recording(m)' = Recording(m) \ {h} /\ Resolving(m)' \subseteq Resolving(m) \cup {h}
    BY <1>1, <1>5, OneAt
<1>9. pending \in [Emails -> Nat] /\ pending' \in [Emails -> Nat]
    BY <1>1, <1>2 DEF PendingOK
<1>10. ASSUME NEW e \in Emails
       PROVE  /\ pending'[e] + Cardinality(Recording(e))' <= Cardinality(Handlers)
              /\ Cardinality(Resolving(e))' <= pending'[e]
    <2>1. CASE e # m
        BY <1>1, <1>7, <1>9, <2>1 DEF PendingOK
    <2>2. CASE e = m
        <3>1. Recording(m) \subseteq Handlers /\ Resolving(m) \subseteq Handlers
            BY DEF Recording, Resolving
        <3>2. /\ IsFiniteSet(Recording(m)) /\ Cardinality(Recording(m)) \in Nat
              /\ IsFiniteSet(Resolving(m)) /\ Cardinality(Resolving(m)) \in Nat
              /\ Cardinality(Handlers) \in Nat
            BY <3>1, HandlersFinite
        <3>3. Cardinality(Recording(m)') = Cardinality(Recording(m)) - 1
            BY <1>5, <1>8, <3>2, FS_RemoveElement
        <3>4. /\ IsFiniteSet(Resolving(m) \cup {h})
              /\ Cardinality(Resolving(m) \cup {h}) = Cardinality(Resolving(m)) + 1
            BY <1>5, <3>2, FS_AddElement
        <3>5. /\ Cardinality(Resolving(m)') <= Cardinality(Resolving(m)) + 1
              /\ Cardinality(Resolving(m)') \in Nat
            BY <1>8, <3>4, FS_Subset, FS_CardinalityType
        <3>6. pending'[m] = pending[m] + 1 /\ pending[m] \in Nat
            BY <1>1, <1>2, <1>9
        <3>7. /\ pending[m] + Cardinality(Recording(m)) <= Cardinality(Handlers)
              /\ Cardinality(Resolving(m)) <= pending[m]
            BY <1>2 DEF PendingOK
        <3>8. /\ pending'[m] + Cardinality(Recording(m)') <= Cardinality(Handlers)
              /\ Cardinality(Resolving(m)') <= pending'[m]
            BY <3>2, <3>3, <3>5, <3>6, <3>7
        <3> QED BY <2>2, <3>8
    <2> QED BY <2>1, <2>2
<1> QED BY <1>9, <1>10 DEF PendingOK

LEMMA ResolveConflictPending ==
    ASSUME TypeInv, PendingOK, NEW h \in Handlers, ResolveConflict(h)
    PROVE  PendingOK'
<1>0. PICK m \in Emails : m = job[h].event.email
    BY DEF TypeInv, Shape, ResolveConflict
<1>1. /\ \A q \in Handlers \ {h} : Left(q)
      /\ pending' = [pending EXCEPT ![m] = @ - 1]
    BY <1>0, HandlerLeaves DEF ResolveConflict, Handle
<1>2. /\ job[h] \in Job /\ job[h].pc = "resolve" /\ m \in Emails /\ h \in DOMAIN job
      /\ job[h].event.email = m
    BY <1>0 DEF TypeInv, Shape, ResolveConflict
<1>3. job'[h] = Idle
    BY <1>2 DEF ResolveConflict, Finish, Overtaken
<1>4. /\ h \in Resolving(m) /\ \A e : h \notin Recording(e)
      /\ \A e \in Emails \ {m} : h \notin Resolving(e)
    BY <1>2 DEF Recording, Resolving
<1>5. \A e : h \notin Recording(e)' /\ h \notin Resolving(e)'
    BY <1>3 DEF Idle, Recording, Resolving
<1>6. \A e \in Emails : /\ Recording(e)' = Recording(e)
                        /\ Resolving(e)' = IF e = m THEN Resolving(e) \ {h} ELSE Resolving(e)
    <2> SUFFICES ASSUME NEW e \in Emails
                 PROVE  /\ Recording(e)' = Recording(e)
                        /\ Resolving(e)' = IF e = m THEN Resolving(e) \ {h} ELSE Resolving(e)
        OBVIOUS
    <2>1. /\ Recording(e)' \ {h} = Recording(e) \ {h}
          /\ Resolving(e)' \ {h} = Resolving(e) \ {h}
        BY <1>1, OneAt
    <2> QED BY <1>4, <1>5, <2>1
<1>7. Recording(m) \subseteq Handlers /\ Resolving(m) \subseteq Handlers
    BY DEF Recording, Resolving
<1>8. /\ IsFiniteSet(Resolving(m)) /\ Cardinality(Resolving(m)) \in Nat
      /\ Cardinality(Recording(m)) \in Nat /\ Cardinality(Handlers) \in Nat
    BY <1>7, HandlersFinite
<1>9. /\ Cardinality(Resolving(m)') = Cardinality(Resolving(m)) - 1
      /\ IsFiniteSet(Resolving(m)')
    BY <1>4, <1>6, <1>8, FS_RemoveElement
<1>10. Cardinality(Resolving(m)') \in Nat
    BY <1>9, FS_CardinalityType
<1>11. /\ pending \in [Emails -> Nat] /\ Cardinality(Resolving(m)) <= pending[m]
       /\ pending[m] + Cardinality(Recording(m)) <= Cardinality(Handlers)
    BY <1>2 DEF PendingOK
<1>12. pending'[m] = pending[m] - 1 /\ pending[m] - 1 \in Nat
    BY <1>1, <1>2, <1>8, <1>9, <1>10, <1>11
<1>13. pending' \in [Emails -> Nat]
    BY <1>1, <1>2, <1>11, <1>12
<1>14. ASSUME NEW e \in Emails
       PROVE  /\ pending'[e] + Cardinality(Recording(e))' <= Cardinality(Handlers)
              /\ Cardinality(Resolving(e))' <= pending'[e]
    <2>1. CASE e # m
        BY <1>1, <1>6, <1>11, <2>1 DEF PendingOK
    <2>2. CASE e = m
        <3>1. /\ pending'[m] + Cardinality(Recording(m)) <= Cardinality(Handlers)
              /\ Cardinality(Resolving(m)') <= pending'[m]
            BY <1>8, <1>9, <1>11, <1>12
        <3> QED BY <1>2, <1>6, <2>2, <3>1
    <2> QED BY <2>1, <2>2
<1> QED BY <1>13, <1>14 DEF PendingOK

\* The other steps neither record nor resolve, and lead no handler to do so.
LEMMA HandlerPending ==
    ASSUME TypeInv, PendingOK, NEW h \in Handlers, Handle(h)
    PROVE  PendingOK'
<1> DEFINE Keeps == /\ job'[h].pc # "record"
                    /\ job'[h].pc = "resolve" \/ job'[h].op = "merge" =>
                           /\ job[h].pc = "resolve" \/ job[h].op = "merge"
                           /\ job'[h].event = job[h].event
<1>1. ASSUME Keeps, pending' = pending PROVE PendingOK'
    <2>1. \A q \in Handlers \ {h} : Left(q)
        BY HandlerLeaves
    <2>2. ASSUME NEW e \in Emails
          PROVE  /\ Recording(e)' \subseteq Recording(e)
                 /\ Resolving(e)' \subseteq Resolving(e)
        <3>1. /\ Recording(e)' \ {h} = Recording(e) \ {h}
              /\ Resolving(e)' \ {h} = Resolving(e) \ {h}
            BY <2>1, OneAt
        <3>2. h \notin Recording(e)' /\ (h \in Resolving(e)' => h \in Resolving(e))
            BY <1>1 DEF Recording, Resolving
        <3> QED BY <3>1, <3>2
    <2> QED BY <1>1, <2>2, PendingShrinks
<1>2. Idle.pc = "idle" /\ Idle.op = "none" /\ h \in DOMAIN job /\ job[h] \in Job /\ Shape(job[h])
    BY DEF Idle, TypeInv
<1>3. job'[h] = Idle => Keeps
    BY <1>2
<1>4. ASSUME NEW k \in 1..Len(sent), Deliver(h, k)
      PROVE  Keeps /\ pending' = pending
    <2>1. job'[h].pc = "find" /\ job'[h].op = "none"
        BY <1>2, <1>4 DEF Deliver, Idle
    <2> QED BY <1>4, <2>1 DEF Deliver
<1>5. CASE FindByStripe(h)
    <2>1. CASE job'[h] = Idle \/ job'[h] = [job[h] EXCEPT !.pc = "by email"]
        BY <1>1, <1>2, <1>3, <1>5, <2>1 DEF FindByStripe, Job
    <2>2. ASSUME NEW i \in Linked(h),
                 Goto(h, [job[h] EXCEPT
                     !.pc = IF job[h].event.email \in {NoEmail, table[i].email} THEN "load"
                            ELSE "taken",
                     !.op = "update", !.row = i, !.seen = table[i], !.email = table[i].email])
          PROVE  Keeps
        BY <1>2, <2>2 DEF Goto, Job
    <2> QED BY <1>1, <1>2, <1>5, <2>1, <2>2 DEF FindByStripe, Finish, Goto, Overtaken
<1>6. CASE FindDeleted(h)
    BY <1>1, <1>2, <1>3, <1>6 DEF FindDeleted, Finish, Goto, Overtaken, Job
<1>7. CASE CheckTaken(h)
    BY <1>1, <1>2, <1>3, <1>7 DEF CheckTaken, Finish, Goto, Overtaken, Job
<1>8. CASE FindByEmail(h)
    <2>1. PICK i : \/ job'[h] \in {Idle, [job[h] EXCEPT !.pc = "create"]}
                   \/ job'[h] = [job[h] EXCEPT !.pc = "load", !.op = "link", !.row = i,
                                               !.seen = table[i]]
        BY <1>2, <1>8 DEF FindByEmail, Finish, Goto, Overtaken
    <2>2. Keeps
        BY <1>2, <1>3, <2>1 DEF Job
    <2> QED BY <1>1, <1>8, <2>2 DEF FindByEmail
<1>9. CASE Create(h)
    <2>1. PICK i : \/ job'[h] \in {Idle, [job[h] EXCEPT !.pc = "insert"]}
                   \/ job'[h] = [job[h] EXCEPT !.pc = "write", !.op = "reactivate", !.row = i,
                                               !.loaded = table[i]]
        BY <1>2, <1>9 DEF Create, Finish, Goto, Overtaken
    <2>2. Keeps
        BY <1>2, <1>3, <2>1 DEF Job
    <2> QED BY <1>1, <1>9, <2>2 DEF Create
<1>10. CASE InsertRow(h)
    BY <1>1, <1>2, <1>3, <1>10 DEF InsertRow, Finish, Commit, Overtaken, Job
<1>11. CASE Load(h)
    BY <1>1, <1>2, <1>3, <1>11 DEF Load, Finish, Goto, Overtaken, Job
<1>12. CASE Write(h)
    <2>1. \/ job'[h] = Idle
          \/ \E o \in {"adopt", "rename"} : \E m :
                 job'[h] = [job[h] EXCEPT !.pc = "load", !.op = o, !.email = m]
          \/ job'[h] = [job[h] EXCEPT !.pc = "load", !.op = "adopt"]
          \/ job[h].op = "merge" /\ job'[h] = [job[h] EXCEPT !.pc = "resolve"]
        BY <1>2, <1>12 DEF Write, Finish, Commit, Overtaken
    <2>2. Keeps
        BY <1>2, <1>3, <2>1 DEF Job
    <2> QED BY <1>1, <1>12, <2>2 DEF Write
<1>13. CASE WriteCollides(h)
    BY <1>1, <1>2, <1>3, <1>13 DEF WriteCollides, Finish, Goto, Overtaken, Job
<1>14. CASE Fail(h)
    BY <1>1, <1>2, <1>3, <1>14 DEF Fail
<1> QED BY <1>1, <1>4, <1>5, <1>6, <1>7, <1>8, <1>9, <1>10, <1>11, <1>12, <1>13, <1>14,
           CheckConflictPending, RecordConflictPending, ResolveConflictPending DEF Handle

LEMMA PendingStep ==
    ASSUME TypeInv, PendingOK, [Next]_vars
    PROVE  PendingOK'
<1>1. CASE Environment
    <2>1. pending' = pending
        <3>1. ASSUME NEW t, NEW bad, Elsewhere(t, bad) PROVE pending' = pending
            BY <3>1 DEF Elsewhere
        <3>2. ASSUME NEW event, Emit(event) PROVE pending' = pending
            BY <3>2 DEF Emit
        <3> QED BY <1>1, <3>1, <3>2, EnvironmentWrites
    <2>2. \A q \in Handlers : Left(q)
        BY <1>1, EnvironmentWorld
    <2>3. ASSUME NEW e \in Emails
          PROVE  /\ Recording(e)' \subseteq Recording(e)
                 /\ Resolving(e)' \subseteq Resolving(e)
        <3>1. \A q \in Handlers \ {} : Left(q)
            BY <2>2
        <3>2. /\ Recording(e)' \ {} = Recording(e) \ {}
              /\ Resolving(e)' \ {} = Resolving(e) \ {}
            BY <3>1, OthersAt
        <3> QED BY <3>2
    <2> QED BY <2>1, <2>3, PendingShrinks
<1>2. ASSUME NEW h \in Handlers, Handle(h)
      PROVE  PendingOK'
    BY <1>2, HandlerPending
<1>3. CASE UNCHANGED vars
    BY <1>3 DEF PendingOK, Recording, Resolving, vars
<1> QED BY <1>1, <1>2, <1>3 DEF Next

LEMMA PendingInit == Init => PendingOK
<1> SUFFICES ASSUME Init PROVE PendingOK
    OBVIOUS
<1>1. pending \in [Emails -> Nat] /\ \A e \in Emails : pending[e] = 0
    BY DEF Init
<1>2. \A h \in Handlers : job[h].pc = "idle" /\ job[h].op = "none"
    BY DEF Init, Idle
<1>3. \A e \in Emails : Recording(e) = {} /\ Resolving(e) = {}
    BY <1>2 DEF Recording, Resolving
<1>4. Cardinality({}) = 0 /\ Cardinality(Handlers) \in Nat
    BY WebhookAssumption, FS_EmptySet, FS_CardinalityType
<1>5. ASSUME NEW e \in Emails
      PROVE  /\ pending[e] + Cardinality(Recording(e)) <= Cardinality(Handlers)
             /\ Cardinality(Resolving(e)) <= pending[e]
    <2>1. Cardinality(Recording(e)) = 0 /\ Cardinality(Resolving(e)) = 0 /\ pending[e] = 0
        BY <1>1, <1>3, <1>4
    <2>2. Cardinality(Handlers) >= 0
        BY <1>4
    <2> QED BY <1>4, <2>1, <2>2
<1> QED BY <1>1, <1>5 DEF PendingOK

LEMMA PendingInvariant == Spec => [](TypeInv /\ PendingOK)
<1>1. Init => TypeInv /\ PendingOK
    BY TypeInit, PendingInit
<1>2. TypeInv /\ PendingOK /\ [Next]_vars => (TypeInv /\ PendingOK)'
    BY TypeStep, PendingStep
<1> QED BY <1>1, <1>2, PTL DEF Spec

\* Every variable keeps its type and the unique indexes hold, with any number of
\* deliveries, requests and links interleaved; resolving a conflict never takes
\* the count of pending ones below zero.
THEOREM TypeCorrect == Spec => []TypeOK
<1>1. TypeInv /\ PendingOK => TypeOK
    <2> SUFFICES ASSUME TypeInv, PendingOK PROVE TypeOK
        OBVIOUS
    <2>1. Present(table) \subseteq RowIds
        BY DEF Present
    <2>2. \A h \in Handlers : job[h].pc = "write" => job[h].row \in Present(table)
        BY DEF TypeInv, Shape
    <2> QED BY <2>1, <2>2 DEF TypeInv, PendingOK, WorldOK, Sound, TypeOK
<1> QED BY <1>1, PendingInvariant, PTL

\* The check for a similar conflict and the insert of a new one are apart
\* (conflict_service.py:48-57), and still an email never has more pending
\* conflicts than there are handlers, those about to be recorded included.
THEOREM ConflictsBounded == Spec => []BoundedPending
<1>1. PendingOK => BoundedPending
    BY DEF PendingOK, BoundedPending, Recording
<1> QED BY <1>1, PendingInvariant, PTL

-----------------------------------------------------------------------------
(* What a handler has found.                                               *)

FoundInv == \A h \in Handlers : Undisturbed(job[h])

\* A job that others leave alone still knows what is there, or that it has been
\* overtaken.
LEMMA LeftUndisturbed ==
    ASSUME NEW q \in Handlers, job[q] \in Job, Undisturbed(job[q]), Left(q)
    PROVE  Undisturbed(job[q])'
<1>1. CASE table' = table
    <2>1. job'[q] = job[q]
        BY <1>1 DEF Left
    <2> QED BY <1>1, <2>1 DEF Undisturbed, FoundById, FoundByEmail, ById, ByEmail
<1>2. CASE job[q] = Idle
    <2>1. job'[q].pc = "idle" /\ job'[q].op = "none"
        BY <1>2 DEF Left, Idle
    <2> QED BY <2>1 DEF Undisturbed, FoundById, FoundByEmail
<1>3. CASE table' # table /\ job[q] # Idle
    <2>1. job'[q].touched
        BY <1>3 DEF Left, Job
    <2> QED BY <2>1 DEF Undisturbed
<1> QED BY <1>1, <1>2, <1>3

LEMMA IdleUndisturbed ==
    ASSUME NEW h \in Handlers, job'[h] = Idle
    PROVE  Undisturbed(job[h])'
<1>1. job'[h].pc = "idle" /\ job'[h].op = "none"
    BY DEF Idle
<1> QED BY <1>1 DEF Undisturbed, FoundById, FoundByEmail

\* A row read and written with no write in between becomes what the handler
\* holds.
LEMMA WrittenUntouched ==
    ASSUME TypeInv, FoundInv, NEW h \in Handlers, job[h].pc = "write", ~job[h].touched
    PROVE  /\ job[h].loaded = table[job[h].row] /\ table[job[h].row] \in Row
           /\ Written(h) = [table EXCEPT ![job[h].row] = Edited(job[h])]
<1>1. /\ job[h] \in Job /\ Shape(job[h]) /\ table \in Tables
      /\ job[h].loaded = table[job[h].row]
    BY DEF TypeInv, FoundInv, Undisturbed, Sound
<1>2. Edited(job[h]) \in Row /\ job[h].loaded \in Row
    BY <1>1, EditedRow
<1> DEFINE e == Edited(job[h])
           l == job[h].loaded
<1>3. [f \in DOMAIN e |-> IF e[f] # l[f] THEN e[f] ELSE table[job[h].row][f]] = e
    <2> HIDE DEF e
    <2>1. e = [f \in DOMAIN e |-> e[f]]
        BY <1>2 DEF Row, e
    <2>2. \A f \in DOMAIN e : (IF e[f] # l[f] THEN e[f] ELSE table[job[h].row][f]) = e[f]
        BY <1>1
    <2> QED BY <2>1, <2>2
<1> QED BY <1>1, <1>2, <1>3 DEF Written, Flush

LEMMA DeliverFound ==
    ASSUME TypeInv, NEW h \in Handlers, NEW k \in 1..Len(sent), Deliver(h, k)
    PROVE  Undisturbed(job[h])'
<1>1. job'[h] = [Idle EXCEPT !.pc = "find", !.event = sent[k]]
    BY DEF Deliver, TypeInv
<1>2. job'[h].pc = "find" /\ job'[h].op = "none"
    BY <1>1 DEF Idle
<1> QED BY <1>2 DEF Undisturbed, FoundById, FoundByEmail

LEMMA FindByStripeFound ==
    ASSUME TypeInv, FoundInv, NEW h \in Handlers, FindByStripe(h)
    PROVE  Undisturbed(job[h])'
<1> DEFINE e == job[h].event
<1>1. /\ job[h] \in Job /\ Shape(job[h]) /\ job[h].pc = "find" /\ job[h].op = "none"
      /\ table' = table /\ h \in DOMAIN job
    BY DEF FindByStripe, Finish, Goto, TypeInv, Shape
<1>2. CASE Linked(h) = {} /\ job'[h] = [job[h] EXCEPT !.pc = "by email"]
    <2>1. job'[h].pc = "by email" /\ job'[h].op = "none" /\ job'[h].event = job[h].event
        BY <1>1, <1>2 DEF Job
    <2>2. ById(job[h].event)' = {}
        BY <1>1, <1>2, <2>1 DEF ById, Linked
    <2> QED BY <2>1, <2>2 DEF Undisturbed, FoundById, FoundByEmail
<1>3. ASSUME NEW i \in Linked(h),
             job'[h] = [job[h] EXCEPT
                  !.pc = IF e.email \in {NoEmail, table[i].email} THEN "load" ELSE "taken",
                  !.op = "update", !.row = i, !.seen = table[i], !.email = table[i].email]
      PROVE  Undisturbed(job[h])'
    <2>1. /\ job'[h].pc \in {"load", "taken"} /\ job'[h].op = "update" /\ job'[h].event = e
          /\ job'[h].row = i /\ job'[h].email = table[i].email
          /\ job'[h].pc = "load" => e.email \in {NoEmail, table[i].email}
        BY <1>1, <1>3 DEF Job
    <2>2. i \in ById(job[h].event)'
        BY <1>1, <2>1 DEF ById, Linked
    <2> QED BY <1>1, <2>1, <2>2 DEF Undisturbed, FoundById, FoundByEmail
<1> QED BY <1>1, <1>2, <1>3, IdleUndisturbed DEF FindByStripe, Finish, Goto, Overtaken

LEMMA FindDeletedFound ==
    ASSUME TypeInv, FoundInv, NEW h \in Handlers, FindDeleted(h)
    PROVE  Undisturbed(job[h])'
<1>1. /\ job[h] \in Job /\ job[h].pc = "find" /\ table' = table /\ h \in DOMAIN job
    BY DEF FindDeleted, Finish, Goto, TypeInv
<1>2. ASSUME NEW i \in Linked(h),
             job'[h] = [job[h] EXCEPT !.pc = "load", !.op = "deactivate", !.row = i]
      PROVE  Undisturbed(job[h])'
    <2>1. /\ job'[h].pc = "load" /\ job'[h].op = "deactivate" /\ job'[h].event = job[h].event
          /\ job'[h].row = i
        BY <1>1, <1>2 DEF Job
    <2>2. i \in ById(job[h].event)'
        BY <1>1, <2>1 DEF ById, Linked
    <2> QED BY <2>1, <2>2 DEF Undisturbed, FoundById, FoundByEmail
<1> QED BY <1>1, <1>2, IdleUndisturbed DEF FindDeleted, Finish, Goto, Overtaken

LEMMA CheckTakenFound ==
    ASSUME TypeInv, FoundInv, NEW h \in Handlers, CheckTaken(h)
    PROVE  Undisturbed(job[h])'
<1> DEFINE e == job[h].event
           taken == (WithEmail(table, e.email) \cap Active(table)) \ {job[h].row} # {}
<1>1. /\ job[h] \in Job /\ Shape(job[h]) /\ job[h].pc = "taken" /\ job[h].op = "update"
      /\ table' = table /\ Undisturbed(job[h])
    BY DEF CheckTaken, Goto, TypeInv, FoundInv, Shape
<1>2. job'[h] = [job[h] EXCEPT !.pc = "load", !.email = IF taken THEN @ ELSE e.email]
    BY DEF CheckTaken, Goto, TypeInv
<1>3. /\ job'[h].pc = "load" /\ job'[h].op = "update" /\ job'[h].event = e
      /\ job'[h].row = job[h].row /\ job'[h].touched = job[h].touched
      /\ job'[h].email = IF taken THEN job[h].email ELSE e.email
    BY <1>1, <1>2 DEF Job
<1>4. ~job[h].touched => job[h].row \in ById(e) /\ job[h].email = table[job[h].row].email
    BY <1>1 DEF Undisturbed, FoundById
<1> QED BY <1>1, <1>3, <1>4 DEF Undisturbed, FoundById, FoundByEmail, ById, ByEmail

LEMMA FindByEmailFound ==
    ASSUME TypeInv, FoundInv, NEW h \in Handlers, FindByEmail(h)
    PROVE  Undisturbed(job[h])'
<1> DEFINE hits == WithEmail(table, job[h].event.email) \cap Active(table)
<1>1. /\ job[h] \in Job /\ Shape(job[h]) /\ job[h].pc = "by email" /\ job[h].op = "none"
      /\ table' = table /\ h \in DOMAIN job /\ Undisturbed(job[h])
    BY DEF FindByEmail, Finish, Goto, TypeInv, FoundInv, Shape
<1>2. ~job[h].touched => ById(job[h].event) = {}
    BY <1>1 DEF Undisturbed, FoundByEmail
<1>3. CASE hits = {} /\ job'[h] = [job[h] EXCEPT !.pc = "create"]
    <2>1. job'[h].pc = "create" /\ job'[h].op = "none" /\ job'[h].event = job[h].event
          /\ job'[h].touched = job[h].touched
        BY <1>1, <1>3 DEF Job
    <2> QED BY <1>1, <1>2, <1>3, <2>1 DEF Undisturbed, FoundById, FoundByEmail, ById, ByEmail
<1>4. ASSUME NEW i \in hits, \A j \in hits : table[j].stripe = NoStripe,
             job'[h] = [job[h] EXCEPT !.pc = "load", !.op = "link", !.row = i,
                                      !.seen = table[i]]
      PROVE  Undisturbed(job[h])'
    <2>1. /\ job'[h].pc = "load" /\ job'[h].op = "link" /\ job'[h].event = job[h].event
          /\ job'[h].row = i /\ job'[h].seen = table[i] /\ job'[h].touched = job[h].touched
        BY <1>1, <1>4 DEF Job
    <2> QED BY <1>1, <1>2, <1>4, <2>1 DEF Undisturbed, FoundById, FoundByEmail, ById, ByEmail
<1> QED BY <1>1, <1>3, <1>4, IdleUndisturbed DEF FindByEmail, Finish, Goto, Overtaken

LEMMA CreateFound ==
    ASSUME TypeInv, FoundInv, NEW h \in Handlers, Create(h)
    PROVE  Undisturbed(job[h])'
<1> DEFINE same == WithEmail(table, job[h].event.email)
<1>1. /\ job[h] \in Job /\ Shape(job[h]) /\ job[h].pc = "create" /\ job[h].op = "none"
      /\ table' = table /\ h \in DOMAIN job /\ Undisturbed(job[h])
    BY DEF Create, Finish, Goto, TypeInv, FoundInv, Shape
<1>2. ~job[h].touched => ById(job[h].event) = {}
    BY <1>1 DEF Undisturbed, FoundByEmail
<1>3. CASE same = {} /\ job'[h] = [job[h] EXCEPT !.pc = "insert"]
    <2>1. job'[h].pc = "insert" /\ job'[h].op = "none" /\ job'[h].event = job[h].event
          /\ job'[h].touched = job[h].touched
        BY <1>1, <1>3 DEF Job
    <2> QED BY <1>1, <1>2, <1>3, <2>1 DEF Undisturbed, FoundById, FoundByEmail, ById, ByEmail
<1>4. ASSUME NEW i \in same \ Active(table),
             job'[h] = [job[h] EXCEPT !.pc = "write", !.op = "reactivate", !.row = i,
                                      !.loaded = table[i]]
      PROVE  Undisturbed(job[h])'
    <2>1. /\ job'[h].pc = "write" /\ job'[h].op = "reactivate" /\ job'[h].event = job[h].event
          /\ job'[h].row = i /\ job'[h].loaded = table[i] /\ job'[h].touched = job[h].touched
        BY <1>1, <1>4 DEF Job
    <2> QED BY <1>1, <1>2, <1>4, <2>1 DEF Undisturbed, FoundById, FoundByEmail, ById, ByEmail
<1> QED BY <1>1, <1>3, <1>4, IdleUndisturbed DEF Create, Finish, Goto, Overtaken

LEMMA LoadFound ==
    ASSUME TypeInv, FoundInv, NEW h \in Handlers, Load(h)
    PROVE  Undisturbed(job[h])'
<1>1. /\ job[h] \in Job /\ Shape(job[h]) /\ job[h].pc = "load" /\ job[h].op # "reactivate"
      /\ table' = table /\ h \in DOMAIN job /\ Undisturbed(job[h])
    BY DEF Load, Finish, Goto, TypeInv, FoundInv, Shape
<1>2. CASE job'[h] = [job[h] EXCEPT !.pc = "write", !.loaded = table[job[h].row]]
    <2>1. /\ job'[h].pc = "write" /\ job'[h].loaded = table[job[h].row]
          /\ \A f \in {"op", "event", "row", "seen", "email", "touched"} : job'[h][f] = job[h][f]
        BY <1>1, <1>2 DEF Job
    <2> QED BY <1>1, <2>1 DEF Undisturbed, FoundById, FoundByEmail, ById, ByEmail
<1> QED BY <1>1, <1>2, IdleUndisturbed DEF Load, Finish, Goto, Overtaken

LEMMA CheckConflictFound ==
    ASSUME TypeInv, FoundInv, NEW h \in Handlers, CheckConflict(h)
    PROVE  Undisturbed(job[h])'
<1>1. /\ job[h] \in Job /\ Shape(job[h]) /\ job[h].pc = "conflict" /\ job[h].op \in {"link", "adopt"}
      /\ table' = table /\ h \in DOMAIN job /\ Undisturbed(job[h])
    BY DEF CheckConflict, Finish, Goto, TypeInv, FoundInv, Shape
<1>2. ~job[h].touched => /\ ById(job[h].event) = {} /\ ByEmail(job[h].event) # {}
                         /\ WithStripe(table, job[h].event.id) # {}
    BY <1>1 DEF Undisturbed, FoundByEmail
<1>3. ASSUME NEW i, NEW r,
             \/ i = 0
             \/ i \in WithEmail(table, job[h].event.email) \cap Active(table) /\ r = table[i],
             job'[h] = [job[h] EXCEPT !.pc = "record", !.row = i, !.seen = r]
      PROVE  Undisturbed(job[h])'
    <2>1. /\ job'[h].pc = "record" /\ job'[h].row = i /\ job'[h].seen = r
          /\ \A f \in {"op", "event", "touched"} : job'[h][f] = job[h][f]
        BY <1>1, <1>3 DEF Job
    <2> QED BY <1>1, <1>2, <1>3, <2>1 DEF Undisturbed, FoundById, FoundByEmail, ById, ByEmail
<1> QED BY <1>1, <1>3, IdleUndisturbed DEF CheckConflict, Finish, Goto, Overtaken

LEMMA RecordConflictFound ==
    ASSUME TypeInv, FoundInv, NEW h \in Handlers, NEW strategy \in Strategies,
           RecordConflict(h, strategy)
    PROVE  Undisturbed(job[h])'
<1>1. /\ job[h] \in Job /\ Shape(job[h]) /\ job[h].pc = "record" /\ job[h].op \in {"link", "adopt"}
      /\ table' = table /\ h \in DOMAIN job /\ Undisturbed(job[h])
    BY DEF RecordConflict, Finish, Goto, TypeInv, FoundInv, Shape
<1>2. ~job[h].touched =>
          /\ ById(job[h].event) = {} /\ ByEmail(job[h].event) # {}
          /\ WithStripe(table, job[h].event.id) # {}
          /\ job[h].row # 0 => job[h].row \in ByEmail(job[h].event) /\ job[h].seen = table[job[h].row]
    BY <1>1 DEF Undisturbed, FoundByEmail
<1>3. CASE job'[h] = [job[h] EXCEPT !.pc = "resolve"]
    <2>1. /\ job'[h].pc = "resolve"
          /\ \A f \in {"op", "event", "touched"} : job'[h][f] = job[h][f]
        BY <1>1, <1>3 DEF Job
    <2> QED BY <1>1, <1>2, <2>1 DEF Undisturbed, FoundById, FoundByEmail, ById, ByEmail
<1>4. CASE Mergeable(h) /\ job'[h] = [job[h] EXCEPT !.pc = "load", !.op = "merge"]
    <2>1. /\ job'[h].pc = "load" /\ job'[h].op = "merge"
          /\ \A f \in {"event", "row", "touched"} : job'[h][f] = job[h][f]
        BY <1>1, <1>4 DEF Job
    <2>2. job[h].row # 0 /\ job[h].seen.stripe = NoStripe
        BY <1>4 DEF Mergeable
    <2> QED BY <1>1, <1>2, <2>1, <2>2 DEF Undisturbed, FoundById, FoundByEmail, ById, ByEmail
<1> QED BY <1>1, <1>3, <1>4, IdleUndisturbed DEF RecordConflict, Finish, Goto, Overtaken

LEMMA InsertRowFound ==
    ASSUME TypeInv, FoundInv, NEW h \in Handlers, InsertRow(h)
    PROVE  Undisturbed(job[h])'
<1> DEFINE e == job[h].event
           new == [name |-> e.name, email |-> e.email, stripe |-> NoStripe, active |-> TRUE]
           i == NextRow(table)
<1>1. /\ job[h] \in Job /\ Shape(job[h]) /\ job[h].pc = "insert" /\ Undisturbed(job[h])
      /\ h \in DOMAIN job /\ e \in Event /\ e.email \in Emails /\ Sound(table)
    BY DEF InsertRow, TypeInv, FoundInv, Shape
<1>2. CASE Collides(table, new)
    <2>1. job'[h] = Idle
        BY <1>1, <1>2 DEF InsertRow, Finish, Overtaken
    <2> QED BY <2>1, IdleUndisturbed
<1>3. CASE ~Collides(table, new)
    <2>1. /\ table' = Insert(table, new)
          /\ job'[h] = [job[h] EXCEPT !.pc = "load", !.op = "adopt", !.row = i]
        BY <1>1, <1>3 DEF InsertRow, Commit, Overtaken
    <2>2. new \in Row
        BY <1>1 DEF Row, Event
    <2> HIDE DEF new
    <2>3. /\ Present(table') = Present(table) \cup {i} /\ i \in RowIds \ Present(table)
          /\ table \in Tables
        BY <1>1, <1>3, <2>1, <2>2, InsertSound DEF Sound
    <2>4. table'[i] = new /\ \A k \in Present(table) : table'[k] = table[k]
        BY <2>1, <2>3 DEF Insert, Tables
    <2> HIDE DEF i
    <2>5. /\ job'[h].pc = "load" /\ job'[h].op = "adopt" /\ job'[h].row = i
          /\ job'[h].event = e /\ job'[h].touched = job[h].touched
        BY <1>1, <2>1 DEF Job
    <2>6. new.name = e.name /\ new.email = e.email /\ new.active
        BY DEF new
    <2>7. i \in ByEmail(job[h].event)'
        BY <2>3, <2>4, <2>5, <2>6 DEF ByEmail, WithEmail, Active
    <2>8. ~job[h].touched => ById(e) = {}
        BY <1>1 DEF Undisturbed, FoundByEmail
    <2>9. ~job[h].touched => ById(job[h].event)' \subseteq {i}
        BY <2>3, <2>4, <2>5, <2>8 DEF ById, WithStripe, Active
    <2> QED BY <2>4, <2>5, <2>6, <2>7, <2>9 DEF Undisturbed, FoundById, FoundByEmail
<1> QED BY <1>2, <1>3

\* A merge is refused, unless others wrote in between: the conflict was met on the
\* Stripe id it writes, and somebody still holds it.
LEMMA MergeRefused ==
    ASSUME TypeInv, FoundInv, NEW h \in Handlers, job[h].pc = "write", job[h].op = "merge",
           ~job[h].touched
    PROVE  ~IsUnique(Written(h))
<1> DEFINE j == job[h]
           i == job[h].row
           w == Written(h)
<1>1. /\ j \in Job /\ Shape(j) /\ j.event \in Event /\ i \in Present(table)
      /\ table \in Tables /\ Undisturbed(j)
    BY DEF TypeInv, FoundInv, Shape, Sound
<1>2. /\ table[i].stripe = NoStripe /\ WithStripe(table, j.event.id) # {}
    BY <1>1 DEF Undisturbed, FoundByEmail
<1>3. /\ w = [table EXCEPT ![i] = Edited(j)] /\ j.loaded \in Row
      /\ Present(w) = Present(table)
    BY <1>1, WrittenUntouched, WrittenSound
<1>4. Edited(j).stripe = j.event.id
    BY <1>3 DEF Edited, Row
<1>5. j.event.id # NoStripe
    BY <1>1, TableAssumption DEF Event
<1>6. PICK k \in Present(table) : table[k].stripe = j.event.id
    BY <1>2 DEF WithStripe
<1>7. k # i
    BY <1>2, <1>5, <1>6
<1>8. w[i].stripe = j.event.id /\ w[k].stripe = j.event.id
    BY <1>1, <1>3, <1>4, <1>6, <1>7 DEF Tables, Present
<1> HIDE DEF w
<1>9. ~IsUnique(w)
    <2>1. i \in Present(w) /\ k \in Present(w)
        BY <1>1, <1>3, <1>6
    <2> QED BY <1>5, <1>7, <1>8, <2>1 DEF IsUnique
<1> QED BY <1>9 DEF w

LEMMA WriteFound ==
    ASSUME TypeInv, FoundInv, NEW h \in Handlers, Write(h)
    PROVE  Undisturbed(job[h])'
<1> DEFINE j == job[h]
           e == job[h].event
           i == job[h].row
<1>1. /\ j \in Job /\ Shape(j) /\ j.pc = "write" /\ h \in DOMAIN job /\ Undisturbed(j)
      /\ e \in Event /\ i \in Present(table) /\ table \in Tables
      /\ i \in RowIds /\ table[i] \in Row
    BY PresentRow DEF Write, TypeInv, FoundInv, Shape, Sound
<1>2. table' = Written(h) /\ IsUnique(Written(h)) /\ Present(table') = Present(table)
    BY <1>1, WrittenSound DEF Write, Commit, Finish
<1>3. CASE j.touched
    <2>1. \/ job'[h] = Idle \/ job'[h] = [j EXCEPT !.pc = "load", !.op = "adopt"]
          \/ job'[h] = [j EXCEPT !.pc = "load", !.op = "rename", !.email = j.seen.email]
          \/ job'[h] = [j EXCEPT !.pc = "resolve"]
        BY <1>1 DEF Write, Commit, Finish, Overtaken
    <2>2. job'[h] = Idle \/ job'[h].touched
        BY <1>1, <1>3, <2>1 DEF Job
    <2> QED BY <2>2, IdleUndisturbed DEF Undisturbed
<1>4. CASE ~j.touched /\ j.op = "reactivate"
    <2>1. job'[h] = [j EXCEPT !.pc = "load", !.op = "adopt"]
        BY <1>1, <1>4 DEF Write, Commit, Overtaken
    <2>2. /\ job'[h].pc = "load" /\ job'[h].op = "adopt" /\ job'[h].row = i
          /\ job'[h].event = e
        BY <1>1, <2>1 DEF Job
    <2>3. Edited(j) = [table[i] EXCEPT !.active = TRUE, !.name = e.name]
        BY <1>1, <1>4, WrittenUntouched DEF Edited
    <2>4. table' = [table EXCEPT ![i] = Edited(j)]
        BY <1>1, <1>2, <1>4, WrittenUntouched
    <2>5. /\ table'[i].name = e.name /\ table'[i].active /\ table'[i].email = table[i].email
          /\ \A k \in Present(table) \ {i} : table'[k] = table[k]
        BY <1>1, <2>3, <2>4 DEF Tables, Row, Present
    <2>6. table[i].email = e.email /\ ById(e) = {}
        BY <1>1, <1>4 DEF Undisturbed, FoundByEmail, WithEmail
    <2>7. i \in ByEmail(job[h].event)'
        BY <1>1, <1>2, <2>2, <2>5, <2>6 DEF ByEmail, WithEmail, Active
    <2>8. ById(job[h].event)' \subseteq {i}
        BY <1>1, <1>2, <2>2, <2>5, <2>6 DEF ById, WithStripe, Active
    <2> QED BY <2>2, <2>5, <2>7, <2>8 DEF Undisturbed, FoundById, FoundByEmail
<1>5. CASE /\ ~j.touched /\ j.op = "link"
           /\ job'[h] = [j EXCEPT !.pc = "load", !.op = "rename", !.email = j.seen.email]
    <2>1. /\ job'[h].pc = "load" /\ job'[h].op = "rename" /\ job'[h].row = i
          /\ job'[h].event = e /\ job'[h].email = j.seen.email
        BY <1>1, <1>5 DEF Job
    <2>2. Edited(j) = [table[i] EXCEPT !.stripe = e.id]
        BY <1>1, <1>5, WrittenUntouched DEF Edited
    <2>3. table' = [table EXCEPT ![i] = Edited(j)]
        BY <1>1, <1>2, <1>5, WrittenUntouched
    <2>4. i \in ByEmail(e) /\ j.seen = table[i]
        BY <1>1, <1>5 DEF Undisturbed, FoundByEmail
    <2>5. table[i].email = e.email /\ table[i].active
        BY <2>4 DEF ByEmail, WithEmail, Active
    <2>6. /\ table'[i].stripe = e.id /\ table'[i].active /\ table'[i].email = e.email
        BY <1>1, <2>2, <2>3, <2>5 DEF Tables, Row
    <2>7. i \in ById(job[h].event)'
        BY <1>1, <1>2, <2>1, <2>6 DEF ById, WithStripe, Active
    <2> QED BY <2>1, <2>4, <2>5, <2>6, <2>7 DEF Undisturbed, FoundById, FoundByEmail
<1>6. CASE ~j.touched /\ j.op = "merge"
    BY <1>1, <1>2, <1>6, MergeRefused
<1> QED BY <1>1, <1>3, <1>4, <1>5, <1>6, IdleUndisturbed DEF Write, Commit, Finish, Overtaken

LEMMA WriteCollidesFound ==
    ASSUME TypeInv, FoundInv, NEW h \in Handlers, WriteCollides(h)
    PROVE  Undisturbed(job[h])'
<1> DEFINE j == job[h]
           e == job[h].event
           i == job[h].row
<1>1. /\ j \in Job /\ Shape(j) /\ j.pc = "write" /\ h \in DOMAIN job /\ Undisturbed(j)
      /\ e \in Event /\ i \in Present(table) /\ Sound(table) /\ table[i] \in Row
      /\ table' = table /\ ~IsUnique(Written(h))
    BY PresentRow DEF WriteCollides, Finish, Goto, TypeInv, FoundInv, Shape, Sound
<1>2. CASE j.op \in {"link", "adopt"} /\ job'[h] = [j EXCEPT !.pc = "conflict"]
    <2>1. /\ job'[h].pc = "conflict"
          /\ \A f \in {"op", "event", "touched"} : job'[h][f] = j[f]
        BY <1>1, <1>2 DEF Job
    <2>2. CASE j.touched
        BY <2>1, <2>2 DEF Undisturbed
    <2>3. CASE ~j.touched
        <3>1. Edited(j) = [table[i] EXCEPT !.stripe = e.id]
            BY <1>1, <1>2, <2>3, WrittenUntouched DEF Edited
        <3>2. Edited(j) \in Row /\ Edited(j).email = table[i].email /\ Edited(j).stripe = e.id
            BY <1>1, <3>1, EditedRow DEF Row
        <3>3. Written(h) = [table EXCEPT ![i] = Edited(j)]
            BY <1>1, <2>3, WrittenUntouched
        <3>4. WithStripe(table, e.id) # {} /\ table[i].stripe # e.id
            <4> SUFFICES ASSUME WithStripe(table, e.id) = {} \/ table[i].stripe = e.id
                         PROVE  FALSE
                OBVIOUS
            <4>1. IsUnique([table EXCEPT ![i] = Edited(j)])
                BY <1>1, <3>2, UpdateUnique
            <4> QED BY <1>1, <3>3, <4>1
        <3>5. i \in ByEmail(e) /\ ById(e) \subseteq {i}
            BY <1>1, <1>2, <2>3 DEF Undisturbed, FoundByEmail
        <3>6. ById(e) = {}
            BY <3>4, <3>5 DEF ById, WithStripe
        <3>7. /\ ById(job[h].event)' = {} /\ ByEmail(job[h].event)' # {}
              /\ WithStripe(table, job[h].event.id)' # {}
            BY <1>1, <2>1, <3>4, <3>5, <3>6 DEF ById, ByEmail
        <3> QED BY <1>2, <2>1, <3>7 DEF Undisturbed, FoundById, FoundByEmail
    <2> QED BY <2>2, <2>3
<1> QED BY <1>1, <1>2, IdleUndisturbed DEF WriteCollides, Finish, Goto, Overtaken

LEMMA FoundStep ==
    ASSUME TypeInv, FoundInv, [Next]_vars
    PROVE  FoundInv'
<1>1. CASE Environment
    <2>1. \A q \in Handlers : Left(q)
        BY <1>1, EnvironmentWorld
    <2> QED BY <2>1, LeftUndisturbed DEF FoundInv, TypeInv
<1>2. ASSUME NEW h \in Handlers, Handle(h)
      PROVE  FoundInv'
    <2>1. \A q \in Handlers \ {h} : Undisturbed(job[q])'
        BY <1>2, HandlerLeaves, LeftUndisturbed DEF FoundInv, TypeInv
    <2>2. ASSUME ResolveConflict(h) \/ Fail(h)
          PROVE  job'[h] = Idle
        BY <2>2 DEF ResolveConflict, Fail, Finish, Overtaken, TypeInv
    <2>3. Undisturbed(job[h])'
        BY <1>2, <2>2, IdleUndisturbed, DeliverFound, FindByStripeFound, FindDeletedFound,
           CheckTakenFound, FindByEmailFound, CreateFound, InsertRowFound, LoadFound, WriteFound,
           WriteCollidesFound, CheckConflictFound, RecordConflictFound DEF Handle
    <2> QED BY <2>1, <2>3 DEF FoundInv
<1>3. CASE UNCHANGED vars
    <2>1. \A q \in Handlers : Left(q)
        BY <1>3 DEF Left, vars
    <2> QED BY <2>1, LeftUndisturbed DEF FoundInv, TypeInv
<1> QED BY <1>1, <1>2, <1>3 DEF Next

LEMMA FoundInit == Init => FoundInv
<1> SUFFICES ASSUME Init, NEW h \in Handlers PROVE Undisturbed(job[h])
    BY DEF FoundInv
<1>1. job[h].pc = "idle" /\ job[h].op = "none"
    BY DEF Init, Idle
<1> QED BY <1>1 DEF Undisturbed, FoundById, FoundByEmail

LEMMA FoundInvariant == Spec => [](TypeInv /\ FoundInv)
<1>1. Init => TypeInv /\ FoundInv
    BY TypeInit, FoundInit
<1>2. TypeInv /\ FoundInv /\ [Next]_vars => (TypeInv /\ FoundInv)'
    BY TypeStep, FoundStep
<1> QED BY <1>1, <1>2, PTL DEF Spec

-----------------------------------------------------------------------------
(* What a write does.                                                      *)

\* A step other than the handler's own leaves it at its statement.
LEMMA StepTaken ==
    ASSUME TypeInv, [Next]_vars, NEW h \in Handlers, job'[h].pc # job[h].pc
    PROVE  Handle(h)
<1> SUFFICES ASSUME ~Handle(h) PROVE job'[h].pc = job[h].pc
    OBVIOUS
<1>1. CASE Environment
    <2>1. Left(h) /\ job[h] \in Job
        BY <1>1, EnvironmentWorld DEF TypeInv
    <2> QED BY <2>1 DEF Left, Job
<1>2. ASSUME NEW q \in Handlers, Handle(q)
      PROVE  job'[h].pc = job[h].pc
    <2>1. q # h
        BY <1>2
    <2>2. Left(h) /\ job[h] \in Job
        BY <1>2, <2>1, HandlerLeaves DEF TypeInv
    <2> QED BY <2>2 DEF Left, Job
<1>3. CASE UNCHANGED vars
    BY <1>3 DEF vars
<1> QED BY <1>1, <1>2, <1>3 DEF Next

\* Only an insert and a write change the table.
LEMMA TableKept ==
    ASSUME NEW h \in Handlers, Handle(h), ~InsertRow(h), ~Write(h)
    PROVE  table' = table
BY DEF Handle, Deliver, FindByStripe, FindDeleted, CheckTaken, FindByEmail, Create, Load,
       WriteCollides, CheckConflict, RecordConflict, ResolveConflict, Fail, Finish, Goto

\* When a linking or merging handler that nobody overtook moves on, no link that
\* exists is replaced: the row it writes had none when it looked, and has none still.
THEOREM LinksKept == Spec => LinkKept
<1>1. ASSUME TypeInv, FoundInv, [Next]_vars,
             NEW h \in Handlers, job[h].op \in {"link", "merge"}, ~job[h].touched,
             job'[h].pc # job[h].pc,
             NEW i \in Present(table), table[i].stripe # NoStripe
      PROVE  table'[i].stripe = table[i].stripe
    <2>1. Handle(h)
        BY <1>1, StepTaken
    <2>2. ~InsertRow(h)
        BY <1>1 DEF InsertRow, TypeInv, Shape
    <2>3. CASE Write(h)
        <3>1. job[h].pc = "write" /\ table' = Written(h)
            BY <2>3 DEF Write, Commit, Finish
        <3>2. table[job[h].row].stripe = NoStripe
            BY <1>1, <3>1 DEF FoundInv, Undisturbed, FoundByEmail
        <3>3. i # job[h].row /\ i \in RowIds
            BY <1>1, <3>2 DEF Present
        <3> QED BY <1>1, <3>1, <3>3, WrittenSound
    <2>4. CASE ~Write(h)
        BY <2>1, <2>2, <2>4, TableKept
    <2> QED BY <2>3, <2>4
<1>2. TypeInv /\ FoundInv /\ [Next]_vars =>
          [\A h \in Handlers :
               (job[h].op \in {"link", "merge"} /\ ~job[h].touched /\ job'[h].pc # job[h].pc) =>
                   \A i \in Present(table) :
                       table[i].stripe # NoStripe => table'[i].stripe = table[i].stripe]_vars
    BY <1>1
<1> QED BY <1>2, FoundInvariant, PTL DEF Spec, LinkKept

\* The email a write leaves in a row that nobody else wrote meanwhile is the row's
\* own or the one the event carries, never none.
THEOREM EmailsKept == Spec => EmailKept
<1>1. ASSUME TypeInv, FoundInv, [Next]_vars,
             NEW h \in Handlers, job[h].pc = "write", ~job[h].touched, job'[h].pc # "write",
             NEW i \in Present(table)
      PROVE  \/ table'[i].email = table[i].email
             \/ i = job[h].row /\ table'[i].email \in Emails \cap {job[h].event.email}
    <2> DEFINE j == job[h]
    <2>1. Handle(h)
        BY <1>1, StepTaken
    <2>2. ~InsertRow(h)
        BY <1>1 DEF InsertRow
    <2>3. CASE Write(h)
        <3>1. table' = Written(h)
            BY <2>3 DEF Write, Commit, Finish
        <3>2. CASE i # j.row
            BY <1>1, <3>1, <3>2, WrittenSound DEF Present
        <3>3. CASE i = j.row
            <4>1. /\ j \in Job /\ Shape(j) /\ Undisturbed(j) /\ table \in Tables
                BY <1>1 DEF TypeInv, FoundInv, Sound
            <4>2. /\ Written(h) = [table EXCEPT ![i] = Edited(j)] /\ j.loaded = table[i]
                  /\ table[i] \in Row
                BY <1>1, <3>3, WrittenUntouched
            <4>3. table'[i] = Edited(j)
                BY <1>1, <3>1, <4>1, <4>2 DEF Tables, Present
            <4>4. j.op \in {"update", "link", "rename", "reactivate", "adopt", "deactivate", "merge"}
                BY <1>1, <4>1 DEF Shape, Job
            <4>5. CASE j.op \in {"update", "rename"}
                <5>1. Edited(j) = [table[i] EXCEPT !.name = j.event.name, !.email = j.email]
                    BY <4>2, <4>5 DEF Edited
                <5>2. Edited(j).email = j.email
                    BY <4>2, <5>1 DEF Row
                <5>3. j.email \in Emails
                    BY <4>1, <4>5 DEF Shape
                <5>4. j.email = j.event.email \/ j.email = table[i].email
                    BY <1>1, <3>3, <4>1, <4>5 DEF Undisturbed, FoundById
                <5> QED BY <3>3, <4>3, <5>2, <5>3, <5>4
            <4>6. CASE j.op \notin {"update", "rename"}
                <5>1. Edited(j).email = table[i].email
                    BY <4>2, <4>4, <4>6 DEF Edited, Row
                <5> QED BY <4>3, <5>1
            <4> QED BY <4>5, <4>6
        <3> QED BY <3>2, <3>3
    <2>4. CASE ~Write(h)
        BY <2>1, <2>2, <2>4, TableKept
    <2> QED BY <2>3, <2>4
<1>2. TypeInv /\ FoundInv /\ [Next]_vars =>
          [\A h \in Handlers :
               (job[h].pc = "write" /\ ~job[h].touched /\ job'[h].pc # "write") =>
                   \A i \in Present(table) :
                       \/ table'[i].email = table[i].email
                       \/ /\ i = job[h].row
                          /\ table'[i].email \in Emails \cap {job[h].event.email}]_vars
    BY <1>1
<1> QED BY <1>2, FoundInvariant, PTL DEF Spec, EmailKept

-----------------------------------------------------------------------------
(* An event handled alone is settled.                                      *)

LEMMA IdleIs == Idle.pc = "idle" /\ Idle.op = "none"
BY DEF Idle

\* The handlers that are idle stay so when h takes a step.
LEMMA OthersIdle ==
    ASSUME TypeInv, NEW h \in Handlers, Handle(h), AllIdle(Handlers \ {h})
    PROVE  AllIdle(Handlers \ {h})'
<1>1. \A q \in Handlers \ {h} : Left(q)
    BY HandlerLeaves
<1> QED BY <1>1 DEF AllIdle, Left

\* A handler that goes on with the event, and leaves the table as it is.
LEMMA StableGoes ==
    ASSUME TypeInv, StableOK, NEW h \in Handlers, Handle(h), job[h] # Idle,
           table' = table, stable' \in {stable, NoEvent},
           job'[h].event = job[h].event, job'[h].touched = job[h].touched, job'[h].op # "adopt"
    PROVE  StableOK'
<1> SUFFICES ASSUME stable' # NoEvent PROVE StableOK'
    BY DEF StableOK
<1>1. stable' = stable /\ stable # NoEvent
    OBVIOUS
<1>2. stable.name # NoName \/ stable.type = "deleted" => Settled(stable)
    BY <1>1 DEF StableOK
<1>3. (stable.name # NoName \/ stable.type = "deleted" => Settled(stable))'
    BY <1>1, <1>2 DEF Settled, ById, ByEmail
<1>4. job[h].event = stable /\ ~job[h].touched /\ AllIdle(Handlers \ {h})
    BY <1>1 DEF StableOK
<1>5. AllIdle(Handlers \ {h})'
    BY <1>4, OthersIdle
<1>6. \A q \in Handlers : job'[q] # Idle => q = h
    BY <1>5 DEF AllIdle
<1> QED BY <1>1, <1>3, <1>4, <1>5, <1>6 DEF StableOK

\* A handler that answers, when it was alone with what it had found.
LEMMA StableFinish ==
    ASSUME TypeInv, NEW h \in Handlers, Handle(h), NEW t, Finish(h, t),
           NEW e, e = job[h].event,
           ~job[h].touched /\ (e.name # NoName \/ e.type = "deleted") => Settled(e)'
    PROVE  StableOK'
<1> SUFFICES ASSUME stable' # NoEvent PROVE StableOK'
    BY DEF StableOK
<1>1. AllIdle(Handlers \ {h}) /\ ~job[h].touched /\ stable' = e
    BY DEF Finish
<1>2. (stable.name # NoName \/ stable.type = "deleted" => Settled(stable))'
    BY <1>1 DEF Settled, ById, ByEmail
<1>3. AllIdle(Handlers \ {h})' /\ job'[h] = Idle
    BY <1>1, OthersIdle DEF Finish, Overtaken, TypeInv
<1>4. \A q \in Handlers : job'[q] = Idle
    BY <1>3 DEF AllIdle
<1> QED BY <1>2, <1>4 DEF StableOK

\* The events with an email of their own: the row with the Stripe id, and the one
\* with the email, are each one.
LEMMA OneRow ==
    ASSUME TypeInv, NEW e \in Event
    PROVE  /\ \A i, k \in Present(table) :
                  table[i].stripe = e.id /\ table[k].stripe = e.id => i = k
           /\ \A i, k \in Present(table) : table[i].email = table[k].email => i = k
           /\ \A i \in Present(table) : table[i].email \in Emails
           /\ e.id # NoStripe
           /\ NoEmail \notin Emails
<1>1. e.id # NoStripe
    BY TableAssumption DEF Event
<1>2. \A i \in Present(table) : table[i].email \in Emails
    BY PresentRow DEF TypeInv, Sound, Row
<1> QED BY <1>1, <1>2, WebhookAssumption DEF TypeInv, Sound, IsUnique

\* What the handlers at a conflict have found settles the event.
LEMMA ConflictSettles ==
    ASSUME NEW e, e.type # "deleted", ById(e) = {}, ByEmail(e) # {}, WithStripe(table, e.id) # {},
           table' = table
    PROVE  Settled(e)'
BY DEF Settled, ById, ByEmail

LEMMA FindByStripeStable ==
    ASSUME TypeInv, FoundInv, StableOK, NEW h \in Handlers, FindByStripe(h)
    PROVE  StableOK'
<1>0. Handle(h) /\ job[h] # Idle
    <2>1. job[h].pc # "idle"
        BY DEF FindByStripe
    <2> QED BY <2>1, IdleIs DEF Handle
<1>1. /\ job[h] \in Job /\ Shape(job[h]) /\ job[h].pc = "find" /\ h \in DOMAIN job
      /\ table' = table
    BY DEF FindByStripe, Finish, Goto, TypeInv
<1>2. PICK e : e = job[h].event
    OBVIOUS
<1>3. CASE Linked(h) = {} /\ e.email = NoEmail /\ Finish(h, table)
    <2>1. Settled(e)'
        BY <1>1, <1>2, <1>3 DEF FindByStripe, Settled, ById, Linked
    <2> QED BY <1>0, <1>1, <1>2, <1>3, <2>1, StableFinish
<1>4. CASE Goto(h, [job[h] EXCEPT !.pc = "by email"])
    <2>1. /\ job'[h] = [job[h] EXCEPT !.pc = "by email"] /\ stable' = stable
        BY <1>1, <1>4 DEF Goto
    <2>2. /\ job'[h].event = job[h].event /\ job'[h].touched = job[h].touched
          /\ job'[h].op = job[h].op /\ job[h].op = "none"
        BY <1>1, <2>1 DEF Job, Shape
    <2> QED BY <1>0, <1>1, <2>1, <2>2, StableGoes
<1>5. ASSUME NEW i \in Linked(h),
             Goto(h, [job[h] EXCEPT
                  !.pc = IF e.email \in {NoEmail, table[i].email} THEN "load" ELSE "taken",
                  !.op = "update", !.row = i, !.seen = table[i], !.email = table[i].email])
      PROVE  StableOK'
    <2>1. /\ job'[h].event = job[h].event /\ job'[h].touched = job[h].touched
          /\ job'[h].op = "update" /\ stable' = stable
        BY <1>1, <1>5 DEF Job, Goto
    <2> QED BY <1>0, <1>1, <2>1, StableGoes
<1> QED BY <1>2, <1>3, <1>4, <1>5 DEF FindByStripe

LEMMA FindDeletedStable ==
    ASSUME TypeInv, FoundInv, StableOK, NEW h \in Handlers, FindDeleted(h)
    PROVE  StableOK'
<1>0. Handle(h) /\ job[h] # Idle
    <2>1. job[h].pc # "idle"
        BY DEF FindDeleted
    <2> QED BY <2>1, IdleIs DEF Handle
<1>1. /\ job[h] \in Job /\ job[h].pc = "find" /\ h \in DOMAIN job
      /\ table' = table
    BY DEF FindDeleted, Finish, Goto, TypeInv
<1>2. PICK e : e = job[h].event
    OBVIOUS
<1>3. CASE Linked(h) = {} /\ Finish(h, table)
    <2>1. Settled(e)'
        BY <1>1, <1>2, <1>3 DEF FindDeleted, Settled, ById, Linked
    <2> QED BY <1>0, <1>1, <1>2, <1>3, <2>1, StableFinish
<1>4. ASSUME NEW i \in Linked(h),
             Goto(h, [job[h] EXCEPT !.pc = "load", !.op = "deactivate", !.row = i])
      PROVE  StableOK'
    <2>1. /\ job'[h].event = job[h].event /\ job'[h].touched = job[h].touched
          /\ job'[h].op = "deactivate" /\ stable' = stable
        BY <1>1, <1>4 DEF Job, Goto
    <2> QED BY <1>0, <1>1, <2>1, StableGoes
<1> QED BY <1>3, <1>4 DEF FindDeleted

LEMMA CheckTakenStable ==
    ASSUME TypeInv, StableOK, NEW h \in Handlers, CheckTaken(h)
    PROVE  StableOK'
<1>0. Handle(h) /\ job[h] # Idle
    <2>1. job[h].pc # "idle"
        BY DEF CheckTaken
    <2> QED BY <2>1, IdleIs DEF Handle
<1>1. /\ job[h] \in Job /\ Shape(job[h]) /\ job[h].pc = "taken" /\ job[h].op = "update"
      /\ table' = table /\ stable' = stable
    BY DEF CheckTaken, Goto, TypeInv, Shape
<1>2. PICK m : job'[h] = [job[h] EXCEPT !.pc = "load", !.email = m]
    BY DEF CheckTaken, Goto, TypeInv
<1>3. /\ job'[h].event = job[h].event /\ job'[h].touched = job[h].touched
      /\ job'[h].op = job[h].op
    BY <1>1, <1>2 DEF Job
<1> QED BY <1>0, <1>1, <1>3, StableGoes

LEMMA FindByEmailStable ==
    ASSUME TypeInv, FoundInv, StableOK, NEW h \in Handlers, FindByEmail(h)
    PROVE  StableOK'
<1> DEFINE hits == WithEmail(table, job[h].event.email) \cap Active(table)
           linked == \E i \in hits : table[i].stripe # NoStripe
<1>0. Handle(h) /\ job[h] # Idle
    <2>1. job[h].pc # "idle"
        BY DEF FindByEmail
    <2> QED BY <2>1, IdleIs DEF Handle
<1>1. /\ job[h] \in Job /\ Shape(job[h]) /\ job[h].pc = "by email" /\ job[h].op = "none"
      /\ job[h].event.type # "deleted" /\ Undisturbed(job[h])
      /\ h \in DOMAIN job /\ table' = table
    BY DEF FindByEmail, Finish, Goto, TypeInv, FoundInv, Shape
<1>2. PICK e : e = job[h].event
    OBVIOUS
<1>3. CASE linked /\ Finish(h, table)
    <2>1. ~job[h].touched => ById(e) = {}
        BY <1>1, <1>2 DEF Undisturbed, FoundByEmail
    <2>2. ~job[h].touched => Settled(e)'
        BY <1>1, <1>2, <1>3, <2>1 DEF Settled, ById, ByEmail
    <2> QED BY <1>0, <1>1, <1>2, <1>3, <2>2, StableFinish
<1>4. CASE Goto(h, [job[h] EXCEPT !.pc = "create"])
    <2>1. /\ job'[h].event = job[h].event /\ job'[h].touched = job[h].touched
          /\ job'[h].op = "none" /\ stable' = stable
        BY <1>1, <1>4 DEF Job, Goto
    <2> QED BY <1>0, <1>1, <2>1, StableGoes
<1>5. ASSUME NEW i \in hits,
             Goto(h, [job[h] EXCEPT !.pc = "load", !.op = "link", !.row = i, !.seen = table[i]])
      PROVE  StableOK'
    <2>1. /\ job'[h].event = job[h].event /\ job'[h].touched = job[h].touched
          /\ job'[h].op = "link" /\ stable' = stable
        BY <1>1, <1>5 DEF Job, Goto
    <2> QED BY <1>0, <1>1, <2>1, StableGoes
<1> QED BY <1>3, <1>4, <1>5 DEF FindByEmail

LEMMA CreateStable ==
    ASSUME TypeInv, FoundInv, StableOK, NEW h \in Handlers, Create(h)
    PROVE  StableOK'
<1> DEFINE same == WithEmail(table, job[h].event.email)
<1>0. Handle(h) /\ job[h] # Idle
    <2>1. job[h].pc # "idle"
        BY DEF Create
    <2> QED BY <2>1, IdleIs DEF Handle
<1>1. /\ job[h] \in Job /\ Shape(job[h]) /\ job[h].pc = "create" /\ job[h].op = "none"
      /\ Undisturbed(job[h])
      /\ h \in DOMAIN job /\ table' = table
    BY DEF Create, Finish, Goto, TypeInv, FoundInv, Shape
<1>2. PICK e : e = job[h].event
    OBVIOUS
<1>3. CASE same \cap Active(table) # {} /\ Finish(h, table)
    <2>1. job[h].touched
        BY <1>1, <1>3 DEF Undisturbed, FoundByEmail, ByEmail
    <2> QED BY <1>0, <1>1, <1>2, <1>3, <2>1, StableFinish
<1>4. CASE Goto(h, [job[h] EXCEPT !.pc = "insert"])
    <2>1. /\ job'[h].event = job[h].event /\ job'[h].touched = job[h].touched
          /\ job'[h].op = "none" /\ stable' = stable
        BY <1>1, <1>4 DEF Job, Goto
    <2> QED BY <1>0, <1>1, <2>1, StableGoes
<1>5. ASSUME NEW i \in same,
             Goto(h, [job[h] EXCEPT !.pc = "write", !.op = "reactivate", !.row = i,
                                    !.loaded = table[i]])
      PROVE  StableOK'
    <2>1. /\ job'[h].event = job[h].event /\ job'[h].touched = job[h].touched
          /\ job'[h].op = "reactivate" /\ stable' = stable
        BY <1>1, <1>5 DEF Job, Goto
    <2> QED BY <1>0, <1>1, <2>1, StableGoes
<1> QED BY <1>3, <1>4, <1>5 DEF Create

LEMMA InsertRowStable ==
    ASSUME TypeInv, FoundInv, StableOK, NEW h \in Handlers, InsertRow(h)
    PROVE  StableOK'
<1> DEFINE new == [name |-> job[h].event.name, email |-> job[h].event.email,
                   stripe |-> NoStripe, active |-> TRUE]
<1>0. Handle(h) /\ job[h] # Idle
    <2>1. job[h].pc # "idle"
        BY DEF InsertRow
    <2> QED BY <2>1, IdleIs DEF Handle
<1>1. /\ job[h] \in Job /\ Shape(job[h]) /\ job[h].pc = "insert" /\ Undisturbed(job[h])
      /\ job[h].event \in Event /\ job[h].event.email \in Emails /\ Sound(table)
    BY DEF InsertRow, TypeInv, FoundInv, Shape
<1>2. PICK e : e = job[h].event
    OBVIOUS
<1>3. CASE Collides(table, new) /\ Finish(h, table)
    <2>1. job[h].touched
        BY <1>1, <1>3 DEF Undisturbed, FoundByEmail, Collides
    <2> QED BY <1>0, <1>1, <1>2, <1>3, <2>1, StableFinish
<1>4. CASE /\ ~Collides(table, new)
           /\ table' = Insert(table, new)
           /\ stable' = IF Insert(table, new) = table THEN stable ELSE NoEvent
    <2>1. new \in Row
        BY <1>1 DEF Row, Event
    <2> HIDE DEF new
    <2>2. Present(Insert(table, new)) # Present(table)
        BY <1>1, <1>4, <2>1, InsertSound
    <2>3. stable' = NoEvent
        BY <1>4, <2>2
    <2> QED BY <2>3 DEF StableOK
<1> QED BY <1>3, <1>4 DEF InsertRow, Commit

LEMMA LoadStable ==
    ASSUME TypeInv, FoundInv, StableOK, NEW h \in Handlers, Load(h)
    PROVE  StableOK'
<1>0. Handle(h) /\ job[h] # Idle
    <2>1. job[h].pc # "idle"
        BY DEF Load
    <2> QED BY <2>1, IdleIs DEF Handle
<1>1. /\ job[h] \in Job /\ job[h].pc = "load" /\ Undisturbed(job[h])
      /\ h \in DOMAIN job /\ table' = table
    BY DEF Load, Finish, Goto, TypeInv, FoundInv
<1>2. PICK e : e = job[h].event
    OBVIOUS
<1>3. CASE /\ job[h].op \in {"update", "rename"} /\ ~table[job[h].row].active
           /\ Finish(h, table)
    <2>1. job[h].touched
        BY <1>1, <1>3 DEF Undisturbed, FoundById, ById, Active
    <2> QED BY <1>0, <1>2, <1>3, <2>1, StableFinish
<1>4. CASE Goto(h, [job[h] EXCEPT !.pc = "write", !.loaded = table[job[h].row]])
    <2>1. /\ job'[h].event = job[h].event /\ job'[h].touched = job[h].touched
          /\ job'[h].op = job[h].op /\ stable' = stable
        BY <1>1, <1>4 DEF Job, Goto
    <2>2. stable # NoEvent => job[h].op # "adopt"
        BY <1>0 DEF StableOK
    <2>3. CASE stable = NoEvent
        BY <2>1, <2>3 DEF StableOK
    <2>4. CASE stable # NoEvent
        BY <1>0, <1>1, <2>1, <2>2, <2>4, StableGoes
    <2> QED BY <2>3, <2>4
<1> QED BY <1>3, <1>4 DEF Load

\* A write that is the handler's last, if nobody overtook it.
LEMMA WriteSettles ==
    ASSUME TypeInv, FoundInv, NEW h \in Handlers, Write(h), Finish(h, Written(h)),
           job[h].op # "reactivate", job[h].op # "merge",
           NEW e, e = job[h].event, e.name # NoName \/ e.type = "deleted", ~job[h].touched,
           job[h].op = "link" => e.name \in {NoName, job[h].seen.name}
    PROVE  Settled(e)'
<1> DEFINE j == job[h]
           i == job[h].row
<1>1. /\ j \in Job /\ Shape(j) /\ j.pc = "write" /\ Undisturbed(j) /\ table \in Tables
      /\ e \in Event /\ i \in Present(table) /\ i \in RowIds /\ table[i] \in Row
    BY PresentRow DEF Write, TypeInv, FoundInv, Shape, Sound
<1>2. /\ table' = Written(h) /\ Present(table') = Present(table)
    BY <1>1, WrittenSound DEF Finish
<1>3. /\ Written(h) = [table EXCEPT ![i] = Edited(j)] /\ j.loaded = table[i]
    BY <1>1, WrittenUntouched
<1>4. table'[i] = Edited(j) /\ \A k \in Present(table) \ {i} : table'[k] = table[k]
    BY <1>1, <1>2, <1>3 DEF Tables, Present
<1>5. PICK n : n = i
    OBVIOUS
<1>6. /\ n \in Present(table) /\ Present(table') = Present(table)
      /\ table'[n] = Edited(j) /\ \A k \in Present(table) \ {n} : table'[k] = table[k]
    BY <1>1, <1>2, <1>4, <1>5
<1>7. CASE j.op = "deactivate"
    <2>1. e.type = "deleted" /\ n \in ById(e)
        BY <1>1, <1>5, <1>7 DEF Shape, Undisturbed, FoundById
    <2>2. Edited(j).active = FALSE
        BY <1>1, <1>3, <1>7 DEF Edited, Row
    <2>3. \A k \in ById(e) : k = n
        BY <1>1, <2>1, OneRow DEF ById, WithStripe
    <2>4. ById(e)' = {}
        BY <1>6, <2>2, <2>3 DEF ById, WithStripe, Active
    <2> QED BY <2>1, <2>4 DEF Settled
<1>8. CASE j.op \in {"update", "rename"}
    <2>1. /\ e.type # "deleted" /\ n \in ById(e)
          /\ \/ j.email = e.email
             \/ e.email = NoEmail \/ ByEmail(e) \ {n} # {}
        BY <1>1, <1>5, <1>8 DEF Shape, Undisturbed, FoundById
    <2>2. Edited(j) = [table[n] EXCEPT !.name = e.name, !.email = j.email]
        BY <1>3, <1>5, <1>8 DEF Edited
    <2>3. /\ Edited(j).name = e.name /\ Edited(j).email = j.email
          /\ Edited(j).stripe = table[n].stripe /\ Edited(j).active = table[n].active
        BY <1>1, <1>5, <2>2 DEF Row
    <2>4. n \in ById(e)'
        BY <1>6, <2>1, <2>3 DEF ById, WithStripe, Active
    <2>5. \/ e.email \in {NoEmail, table'[n].email}
          \/ ByEmail(e)' \ {n} # {}
        BY <1>6, <2>1, <2>3 DEF ByEmail, WithEmail, Active
    <2> QED BY <1>6, <2>1, <2>3, <2>4, <2>5 DEF Settled
<1>9. CASE j.op \in {"link", "adopt"}
    <2>1. /\ e.type # "deleted" /\ n \in ByEmail(e) /\ table[n].name = e.name
        BY <1>1, <1>5, <1>9 DEF Shape, Undisturbed, FoundByEmail
    <2>2. Edited(j) = [table[n] EXCEPT !.stripe = e.id]
        BY <1>3, <1>5, <1>9 DEF Edited
    <2>3. /\ Edited(j).name = e.name /\ Edited(j).email = table[n].email
          /\ Edited(j).stripe = e.id /\ Edited(j).active = table[n].active
        BY <1>1, <1>5, <2>1, <2>2 DEF Row
    <2>4. n \in ById(e)' /\ table'[n].email = e.email
        BY <1>6, <2>1, <2>3 DEF ById, ByEmail, WithStripe, WithEmail, Active
    <2> QED BY <1>6, <2>1, <2>3, <2>4 DEF Settled
<1>10. j.op \in {"update", "rename", "link", "adopt", "deactivate"}
    BY <1>1 DEF Shape, Job
<1> QED BY <1>7, <1>8, <1>9, <1>10

LEMMA WriteStable ==
    ASSUME TypeInv, FoundInv, StableOK, NEW h \in Handlers, Write(h)
    PROVE  StableOK'
<1> DEFINE j == job[h]
<1>0. Handle(h) /\ job[h] # Idle
    <2>1. job[h].pc # "idle"
        BY DEF Write
    <2> QED BY <2>1, IdleIs DEF Handle
<1>1. /\ j \in Job /\ Shape(j) /\ j.pc = "write" /\ h \in DOMAIN job /\ Undisturbed(j)
      /\ table' = Written(h) /\ IsUnique(Written(h)) /\ table \in Tables
      /\ j.row \in Present(table) /\ j.row \in RowIds /\ table[j.row] \in Row
    BY PresentRow DEF Write, Commit, Finish, TypeInv, FoundInv, Shape, Sound
<1>2. PICK e : e = job[h].event
    OBVIOUS
<1>3. CASE stable' # NoEvent /\ Commit(h, Written(h), job'[h])
    <2>1. Written(h) = table /\ stable' = stable
        BY <1>3 DEF Commit
    <2>2. ~j.touched
        BY <1>0, <1>3, <2>1 DEF StableOK
    <2>3. j.op # "reactivate"
        <3>1. SUFFICES ASSUME j.op = "reactivate" PROVE FALSE
            OBVIOUS
        <3>2. ~table[j.row].active
            BY <1>1, <2>2, <3>1 DEF Undisturbed, FoundByEmail, Active
        <3>3. Edited(j).active
            BY <1>1, <2>2, <3>1, WrittenUntouched DEF Edited, Row
        <3>4. Written(h)[j.row] = Edited(j)
            BY <1>1, <2>2, WrittenUntouched DEF Tables
        <3> QED BY <2>1, <3>2, <3>3, <3>4
    <2>4. j.op # "adopt"
        BY <1>0, <1>3, <2>1 DEF StableOK
    <2>5. \/ job'[h] = [j EXCEPT !.pc = "load", !.op = "rename", !.email = j.seen.email]
          \/ job'[h] = [j EXCEPT !.pc = "resolve"]
          \/ Finish(h, Written(h))
        BY <1>1, <2>3 DEF Write, Commit, Overtaken
    <2>6. CASE ~Finish(h, Written(h))
        <3>1. /\ job'[h].event = j.event /\ job'[h].touched = j.touched /\ job'[h].op # "adopt"
            BY <1>1, <2>4, <2>5, <2>6 DEF Job
        <3> QED BY <1>0, <1>1, <2>1, <3>1, StableGoes
    <2>7. CASE Finish(h, Written(h))
        <3>1. job'[h] = Idle
            BY <1>1, <2>7 DEF Finish, Overtaken
        <3>2. AllIdle(Handlers \ {h})
            BY <1>0, <1>3, <2>1 DEF StableOK
        <3>3. AllIdle(Handlers \ {h})'
            BY <1>0, <3>2, OthersIdle
        <3>4. \A q \in Handlers : job'[q] = Idle
            BY <3>1, <3>3 DEF AllIdle
        <3>5. (stable.name # NoName \/ stable.type = "deleted" => Settled(stable))'
            BY <1>1, <1>3, <2>1 DEF StableOK, Settled, ById, ByEmail
        <3> QED BY <3>4, <3>5 DEF StableOK
    <2> QED BY <2>6, <2>7
<1>4. CASE stable' = NoEvent
    BY <1>4 DEF StableOK
<1>5. CASE /\ Finish(h, Written(h)) /\ j.op # "reactivate" /\ j.op # "merge"
           /\ j.op = "link" => j.event.name \in {NoName, j.seen.name}
    <2>1. ~job[h].touched /\ (e.name # NoName \/ e.type = "deleted") => Settled(e)'
        BY <1>2, <1>5, WriteSettles
    <2> QED BY <1>0, <1>2, <1>5, <2>1, StableFinish
<1>6. ASSUME NEW k, Commit(h, Written(h), k)
      PROVE  Commit(h, Written(h), job'[h])
    BY <1>1, <1>6 DEF Commit, Overtaken
<1> QED BY <1>3, <1>4, <1>5, <1>6 DEF Write

\* A write that is refused, if nobody overtook the handler, is refused again.
LEMMA CollisionSettles ==
    ASSUME TypeInv, FoundInv, NEW h \in Handlers, WriteCollides(h), Finish(h, table),
           job[h].op \notin {"link", "adopt"},
           NEW e, e = job[h].event, ~job[h].touched
    PROVE  Settled(e)'
<1> DEFINE j == job[h]
<1>1. PICK n : n = job[h].row
    OBVIOUS
<1>2. /\ j \in Job /\ Shape(j) /\ j.pc = "write" /\ Undisturbed(j) /\ Sound(table)
      /\ e \in Event /\ n \in Present(table) /\ table[n] \in Row
      /\ ~IsUnique(Written(h)) /\ table' = table
    BY <1>1, PresentRow DEF WriteCollides, Finish, TypeInv, FoundInv, Shape, Sound
<1>3. Written(h) = [table EXCEPT ![n] = Edited(j)] /\ j.loaded = table[n] /\ Edited(j) \in Row
    BY <1>1, <1>2, WrittenUntouched, EditedRow
<1>4. Edited(j).email = table[n].email => Edited(j).stripe \notin {table[n].stripe, NoStripe}
    <2> SUFFICES ASSUME Edited(j).email = table[n].email,
                        Edited(j).stripe \in {table[n].stripe, NoStripe}
                 PROVE  FALSE
        OBVIOUS
    <2>1. IsUnique([table EXCEPT ![n] = Edited(j)])
        BY <1>2, <1>3, UpdateUnique
    <2> QED BY <1>2, <1>3, <2>1
<1>5. CASE j.op \in {"reactivate", "deactivate"}
    <2>1. Edited(j).email = table[n].email /\ Edited(j).stripe = table[n].stripe
        BY <1>2, <1>3, <1>5 DEF Edited, Row
    <2> QED BY <1>4, <2>1
<1>6. CASE j.op \in {"update", "rename"}
    <2>1. Edited(j) = [table[n] EXCEPT !.name = e.name, !.email = j.email]
        BY <1>3, <1>6 DEF Edited
    <2>2. Edited(j).email = j.email /\ Edited(j).stripe = table[n].stripe
        BY <1>2, <2>1 DEF Row
    <2>3. j.email # table[n].email
        BY <1>4, <2>2
    <2>4. /\ e.type # "deleted" /\ n \in ById(e) /\ j.email = e.email /\ ByEmail(e) \ {n} = {}
        BY <1>1, <1>2, <1>6, <2>3 DEF Shape, Undisturbed, FoundById
    <2>5. ~(WithEmail(table, e.email) \subseteq {n})
        <3> SUFFICES ASSUME WithEmail(table, e.email) \subseteq {n} PROVE FALSE
            OBVIOUS
        <3>1. IsUnique([table EXCEPT ![n] = Edited(j)])
            BY <1>2, <1>3, <2>2, <2>4, UpdateEmail
        <3> QED BY <1>2, <1>3, <3>1
    <2> QED BY <1>2, <2>4, <2>5 DEF Settled, ById, ByEmail
<1>7. CASE j.op = "merge"
    <2>1. /\ e.type # "deleted" /\ ById(e) = {} /\ ByEmail(e) # {} /\ WithStripe(table, e.id) # {}
        BY <1>2, <1>7 DEF Shape, Undisturbed, FoundByEmail
    <2> QED BY <1>2, <2>1, ConflictSettles
<1>8. j.op \in {"update", "rename", "reactivate", "deactivate", "merge"}
    BY <1>2 DEF Shape, Job
<1> QED BY <1>5, <1>6, <1>7, <1>8

LEMMA WriteCollidesStable ==
    ASSUME TypeInv, FoundInv, StableOK, NEW h \in Handlers, WriteCollides(h)
    PROVE  StableOK'
<1>0. Handle(h) /\ job[h] # Idle
    <2>1. job[h].pc # "idle"
        BY DEF WriteCollides
    <2> QED BY <2>1, IdleIs DEF Handle
<1>1. /\ job[h] \in Job /\ h \in DOMAIN job /\ table' = table
    BY DEF WriteCollides, Finish, Goto, TypeInv
<1>2. PICK e : e = job[h].event
    OBVIOUS
<1>3. CASE job[h].op \notin {"link", "adopt"} /\ Finish(h, table)
    <2>1. ~job[h].touched => Settled(e)'
        BY <1>2, <1>3, CollisionSettles
    <2> QED BY <1>0, <1>2, <1>3, <2>1, StableFinish
<1>4. CASE Goto(h, [job[h] EXCEPT !.pc = "conflict"])
    <2>1. /\ job'[h].event = job[h].event /\ job'[h].touched = job[h].touched
          /\ job'[h].op = job[h].op /\ stable' = stable
        BY <1>1, <1>4 DEF Job, Goto
    <2>2. CASE stable = NoEvent
        BY <2>1, <2>2 DEF StableOK
    <2>3. CASE stable # NoEvent
        <3>1. job[h].op # "adopt"
            BY <1>0, <2>3 DEF StableOK
        <3> QED BY <1>0, <1>1, <2>1, <3>1, StableGoes
    <2> QED BY <2>2, <2>3
<1> QED BY <1>3, <1>4 DEF WriteCollides

\* A handler at a conflict answers.
LEMMA ConflictStable ==
    ASSUME TypeInv, FoundInv, NEW h \in Handlers, Handle(h), Finish(h, table),
           job[h].pc \in {"conflict", "record", "resolve"}
    PROVE  StableOK'
<1>1. PICK e : e = job[h].event
    OBVIOUS
<1>2. Shape(job[h]) /\ Undisturbed(job[h]) /\ table' = table /\ job[h] \in Job
    BY DEF TypeInv, FoundInv, Finish
<1>3. ~job[h].touched =>
          /\ ById(e) = {} /\ ByEmail(e) # {} /\ WithStripe(table, e.id) # {}
    BY <1>1, <1>2 DEF Undisturbed, FoundByEmail
<1>4. CASE e.type # "deleted"
    <2>1. ~job[h].touched => Settled(e)'
        BY <1>2, <1>3, <1>4, ConflictSettles
    <2> QED BY <1>1, <2>1, StableFinish
<1>5. CASE e.type = "deleted"
    <2>1. ~job[h].touched => Settled(e)'
        BY <1>2, <1>3, <1>5 DEF Settled, ById
    <2> QED BY <1>1, <2>1, StableFinish
<1> QED BY <1>4, <1>5

LEMMA CheckConflictStable ==
    ASSUME TypeInv, FoundInv, StableOK, NEW h \in Handlers, CheckConflict(h)
    PROVE  StableOK'
<1>0. Handle(h) /\ job[h] # Idle
    <2>1. job[h].pc # "idle"
        BY DEF CheckConflict
    <2> QED BY <2>1, IdleIs DEF Handle
<1>1. /\ job[h] \in Job /\ job[h].pc = "conflict" /\ h \in DOMAIN job /\ table' = table
    BY DEF CheckConflict, Finish, Goto, TypeInv
<1>2. ASSUME NEW i, NEW r, Goto(h, [job[h] EXCEPT !.pc = "record", !.row = i, !.seen = r])
      PROVE  StableOK'
    <2>1. /\ job'[h].event = job[h].event /\ job'[h].touched = job[h].touched
          /\ job'[h].op = job[h].op /\ stable' = stable
        BY <1>1, <1>2 DEF Job, Goto
    <2>2. CASE stable = NoEvent
        BY <2>1, <2>2 DEF StableOK
    <2>3. CASE stable # NoEvent
        <3>1. job[h].op # "adopt"
            BY <1>0, <2>3 DEF StableOK
        <3> QED BY <1>0, <1>1, <2>1, <3>1, StableGoes
    <2> QED BY <2>2, <2>3
<1> QED BY <1>0, <1>1, <1>2, ConflictStable DEF CheckConflict

LEMMA RecordConflictStable ==
    ASSUME TypeInv, FoundInv, StableOK, NEW h \in Handlers, NEW strategy \in Strategies,
           RecordConflict(h, strategy)
    PROVE  StableOK'
<1>0. Handle(h) /\ job[h] # Idle
    <2>1. job[h].pc # "idle"
        BY DEF RecordConflict
    <2> QED BY <2>1, IdleIs DEF Handle
<1>1. /\ job[h] \in Job /\ job[h].pc = "record" /\ h \in DOMAIN job /\ table' = table
    BY DEF RecordConflict, Finish, Goto, TypeInv
<1>2. CASE \/ Goto(h, [job[h] EXCEPT !.pc = "resolve"])
           \/ Goto(h, [job[h] EXCEPT !.pc = "load", !.op = "merge"])
    <2>1. /\ job'[h].event = job[h].event /\ job'[h].touched = job[h].touched
          /\ job'[h].op \in {job[h].op, "merge"} /\ stable' = stable
        <3>1. CASE Goto(h, [job[h] EXCEPT !.pc = "resolve"])
            BY <1>1, <3>1 DEF Job, Goto
        <3>2. CASE Goto(h, [job[h] EXCEPT !.pc = "load", !.op = "merge"])
            BY <1>1, <3>2 DEF Job, Goto
        <3> QED BY <1>2, <3>1, <3>2
    <2>2. CASE stable = NoEvent
        BY <2>1, <2>2 DEF StableOK
    <2>3. CASE stable # NoEvent
        <3>1. job[h].op # "adopt"
            BY <1>0, <2>3 DEF StableOK
        <3> QED BY <1>0, <1>1, <2>1, <3>1, StableGoes
    <2> QED BY <2>2, <2>3
<1> QED BY <1>0, <1>1, <1>2, ConflictStable DEF RecordConflict

LEMMA DeliverStable ==
    ASSUME TypeInv, StableOK, NEW h \in Handlers, NEW k \in 1..Len(sent), Deliver(h, k)
    PROVE  StableOK'
<1> SUFFICES ASSUME stable' # NoEvent PROVE StableOK'
    BY DEF StableOK
<1>1. sent[k] = stable /\ AllIdle(Handlers) /\ stable' = stable /\ table' = table
    BY DEF Deliver
<1>2. (stable.name # NoName \/ stable.type = "deleted" => Settled(stable))'
    BY <1>1 DEF StableOK, Settled, ById, ByEmail
<1>3. job' = [job EXCEPT ![h] = [Idle EXCEPT !.pc = "find", !.event = sent[k]]]
    BY DEF Deliver
<1>4. /\ job'[h].event = stable /\ job'[h].touched = FALSE /\ job'[h].op = "none"
    BY <1>1, <1>3 DEF Idle, TypeInv
<1>5. \A q \in Handlers \ {h} : job'[q] = Idle
    BY <1>1, <1>3 DEF AllIdle
<1> QED BY <1>1, <1>2, <1>4, <1>5 DEF StableOK, AllIdle

LEMMA StableStep ==
    ASSUME TypeInv, FoundInv, StableOK, [Next]_vars
    PROVE  StableOK'
<1>1. CASE Environment
    <2> DEFINE Q == stable' = NoEvent \/ (stable' = stable /\ table' = table /\ job' = job)
    <2>1. Q
        <3>1. ASSUME NEW t, NEW bad, Elsewhere(t, bad) PROVE Q
            BY <3>1 DEF Elsewhere
        <3>2. ASSUME NEW event, Emit(event) PROVE Q
            BY <3>2 DEF Emit, histories
        <3> HIDE DEF Q
        <3> QED BY <1>1, <3>1, <3>2, EnvironmentWrites
    <2> QED BY <2>1 DEF StableOK, Settled, ById, ByEmail, AllIdle
<1>2. ASSUME NEW h \in Handlers, Handle(h)
      PROVE  StableOK'
    <2>1. CASE ResolveConflict(h)
        BY <1>2, <2>1, ConflictStable DEF ResolveConflict
    <2>2. CASE Fail(h)
        BY <2>2 DEF Fail, StableOK
    <2> QED BY <1>2, <2>1, <2>2, DeliverStable, FindByStripeStable, FindDeletedStable,
            CheckTakenStable, FindByEmailStable, CreateStable, InsertRowStable, LoadStable,
            WriteStable, WriteCollidesStable, CheckConflictStable, RecordConflictStable DEF Handle
<1>3. CASE UNCHANGED vars
    BY <1>3 DEF StableOK, Settled, ById, ByEmail, AllIdle, vars, histories
<1> QED BY <1>1, <1>2, <1>3 DEF Next

IInv == TypeInv /\ FoundInv /\ StableOK

LEMMA StableInvariant == Spec => []IInv
<1>1. Init => IInv
    BY TypeInit, FoundInit DEF Init, StableOK, IInv
<1>2. IInv /\ [Next]_vars => IInv'
    BY TypeStep, FoundStep, StableStep DEF IInv
<1> QED BY <1>1, <1>2, PTL DEF Spec

\* A handler of a settled event inserts no row.
LEMMA SettledNoInsert ==
    ASSUME TypeInv, FoundInv, NEW h \in Handlers, NEW e, e = job[h].event,
           Settled(e), ~job[h].touched
    PROVE  ~InsertRow(h)
<1> SUFFICES ASSUME InsertRow(h) PROVE FALSE
    OBVIOUS
<1>1. /\ Shape(job[h]) /\ job[h].pc = "insert" /\ Undisturbed(job[h]) /\ job[h].op = "none"
      /\ e \in Event /\ e.email \in Emails /\ e.type # "deleted"
    BY DEF InsertRow, TypeInv, FoundInv, Shape
<1>2. ById(e) = {} /\ WithEmail(table, e.email) = {}
    BY <1>1 DEF Undisturbed, FoundByEmail
<1>3. e.email # NoEmail
    BY <1>1, WebhookAssumption
<1> QED BY <1>1, <1>2, <1>3 DEF Settled, ByEmail

\* What a handler of a settled event writes is there already.
LEMMA SettledSame ==
    ASSUME TypeInv, FoundInv, NEW h \in Handlers, Write(h), NEW e, e = job[h].event,
           Settled(e), ~job[h].touched, job[h].op # "adopt"
    PROVE  Written(h) = table
<1> DEFINE j == job[h]
<1>1. PICK n : n = job[h].row
    OBVIOUS
<1>2. /\ j \in Job /\ Shape(j) /\ j.pc = "write" /\ Undisturbed(j) /\ table \in Tables
      /\ e \in Event /\ n \in Present(table) /\ n \in RowIds /\ table[n] \in Row
      /\ IsUnique(Written(h))
    BY <1>1, PresentRow DEF Write, TypeInv, FoundInv, Shape, Sound
<1>3. Written(h) = [table EXCEPT ![n] = Edited(j)] /\ j.loaded = table[n]
      /\ Present(Written(h)) = Present(table)
    BY <1>1, <1>2, WrittenUntouched, WrittenSound
<1>4. /\ Written(h)[n] = Edited(j)
      /\ \A k \in Present(table) \ {n} : Written(h)[k] = table[k]
    BY <1>2, <1>3 DEF Tables, Present
<1>5. \A k \in Present(table) \ {n} :
          /\ table[k].email # Edited(j).email
          /\ Edited(j).stripe # NoStripe => table[k].stripe # Edited(j).stripe
    <2> SUFFICES ASSUME NEW k \in Present(table) \ {n}
                 PROVE  /\ table[k].email # Edited(j).email
                        /\ Edited(j).stripe # NoStripe => table[k].stripe # Edited(j).stripe
        OBVIOUS
    <2>1. /\ n \in Present(Written(h)) /\ k \in Present(Written(h)) /\ n # k
          /\ Written(h)[n] = Edited(j) /\ Written(h)[k] = table[k]
        BY <1>2, <1>3, <1>4
    <2> QED BY <1>2, <2>1 DEF IsUnique
<1>6. /\ \A i, k \in Present(table) :
             table[i].stripe = e.id /\ table[k].stripe = e.id => i = k
      /\ \A i, k \in Present(table) : table[i].email = table[k].email => i = k
      /\ \A i \in Present(table) : table[i].email \in Emails
      /\ e.id # NoStripe /\ NoEmail \notin Emails
    BY <1>2, OneRow
<1>7. CASE j.op = "deactivate"
    BY <1>1, <1>2, <1>7 DEF Shape, Undisturbed, FoundById, Settled
<1>8. CASE j.op \in {"update", "rename"}
    <2>1. /\ e.type # "deleted" /\ n \in ById(e) /\ n \in WithStripe(table, e.id)
          /\ \/ /\ j.email = e.email
                /\ j.email = table[n].email \/ ByEmail(e) \ {n} = {}
             \/ /\ j.email = table[n].email
                /\ e.email = NoEmail \/ ByEmail(e) \ {n} # {}
        BY <1>1, <1>2, <1>8 DEF Shape, Undisturbed, FoundById, ById
    <2>2. j.email \in Emails
        BY <1>2, <1>8 DEF Shape
    <2>3. \A i \in ById(e) : i = n
        BY <1>6, <2>1 DEF ById, WithStripe
    <2>4. Edited(j) = [table[n] EXCEPT !.name = e.name, !.email = j.email]
        BY <1>1, <1>3, <1>8 DEF Edited
    <2>5. Edited(j).email = j.email
        BY <1>2, <2>4 DEF Row
    <2>6. \/ /\ table[n].name = e.name
             /\ e.email \in {NoEmail, table[n].email} \/ ByEmail(e) \ {n} # {}
          \/ WithEmail(table, e.email) \ {n} # {} /\ ByEmail(e) \ {n} = {}
        BY <2>1, <2>3 DEF Settled
    <2>7. WithEmail(table, e.email) \ {n} # {} => j.email # e.email /\ e.email # NoEmail
        BY <1>5, <1>6, <2>5 DEF WithEmail
    <2>8. table[n].name = e.name /\ j.email = table[n].email
        BY <1>6, <2>1, <2>2, <2>6, <2>7
    <2>9. table[n] \in Row
        BY <1>2
    <2>10. Edited(j) = table[n]
        BY <2>4, <2>8, <2>9 DEF Row
    <2> QED BY <1>2, <1>3, <2>10 DEF Tables
<1>9. CASE j.op = "link"
    <2>1. /\ e.type # "deleted" /\ ById(e) = {} /\ n \in ByEmail(e) /\ table[n].stripe = NoStripe
        BY <1>1, <1>2, <1>9 DEF Shape, Undisturbed, FoundByEmail
    <2>2. Edited(j).stripe = e.id
        BY <1>1, <1>2, <1>3, <1>9 DEF Edited, Row
    <2>3. WithStripe(table, e.id) = {}
        BY <1>5, <1>6, <2>1, <2>2 DEF WithStripe
    <2>4. e.email # NoEmail /\ \A i \in ByEmail(e) : i = n
        BY <1>6, <2>1 DEF ByEmail, WithEmail
    <2> QED BY <2>1, <2>3, <2>4 DEF Settled
<1>10. CASE j.op = "reactivate"
    <2>1. /\ e.type # "deleted" /\ ById(e) = {}
          /\ n \in WithEmail(table, e.email) \ Active(table)
        BY <1>1, <1>2, <1>10 DEF Shape, Undisturbed, FoundByEmail
    <2>2. e.email # NoEmail /\ ByEmail(e) = {}
        BY <1>6, <2>1 DEF ByEmail, WithEmail
    <2> QED BY <2>1, <2>2 DEF Settled
<1>11. CASE j.op = "merge"
    BY <1>2, <1>11, MergeRefused
<1>12. j.op \in {"update", "rename", "link", "reactivate", "deactivate", "merge"}
    BY <1>2 DEF Shape, Job
<1> QED BY <1>7, <1>8, <1>9, <1>10, <1>11, <1>12

\* Handling an event with a name a second time, with nothing written in between,
\* changes no row, however the first delivery ended.
THEOREM NamedRepeats == Spec => NamedRepeatsNothing
<1>1. ASSUME IInv, [Next]_vars, NEW h \in Handlers,
             job[h].event # NoEvent, job[h].event.name # NoName,
             job[h] # Idle, job[h].event = stable, job'[h].pc # job[h].pc
      PROVE  table' = table
    <2>1. TypeInv /\ FoundInv /\ StableOK
        BY <1>1 DEF IInv
    <2>2. Handle(h)
        BY <1>1, <2>1, StepTaken
    <2>3. PICK e : e = stable
        OBVIOUS
    <2>4. Settled(e) /\ e = job[h].event /\ ~job[h].touched /\ job[h].op # "adopt"
        BY <1>1, <2>1, <2>3 DEF StableOK
    <2>5. ~InsertRow(h)
        BY <2>1, <2>4, SettledNoInsert
    <2>6. CASE Write(h)
        <3>1. table' = Written(h)
            BY <2>6 DEF Write, Commit, Finish
        <3> QED BY <2>1, <2>4, <2>6, <3>1, SettledSame
    <2>7. CASE ~Write(h)
        BY <2>2, <2>5, <2>7, TableKept
    <2> QED BY <2>6, <2>7
<1>2. IInv /\ [Next]_vars =>
          [\A h \in Handlers : job[h].event # NoEvent /\ job[h].event.name # NoName =>
                                   RepeatsNothing(h)]_vars
    BY <1>1 DEF RepeatsNothing
<1> QED BY <1>2, StableInvariant, PTL DEF Spec, NamedRepeatsNothing
-----------------------------------------------------------------------------
(* While everything is in order, Stripe's events are handled one after the     *)
(* other, so what is known of a customer is what the newest event delivered of  *)
(* it said, and only the row in hand may be behind.                            *)

\* Among the first n events of lg, there is one of s, and s was deleted.
Told(lg, s, n) == \E k \in 1..n : lg[k].id = s

Gone(lg, s, n) == \E k \in 1..n : lg[k].id = s /\ lg[k].type = "deleted"

\* Event k is the first of s, and the last of its customer among the first n.
First(lg, k, s) == lg[k].id = s /\ \A l \in 1..(k - 1) : lg[l].id # s

Newest(lg, k, n) == \A l \in (k + 1)..n : lg[l].id # lg[k].id

\* Stripe says nothing of a customer after its deletion, and has a last word.
Final(lg) == \A k, l \in 1..Len(lg) : k < l /\ lg[k].id = lg[l].id => lg[k].type # "deleted"

SentOK ==
    /\ Final(sent)
    /\ \A s \in StripeIds : Of(s) # {} => \E k \in Of(s) : \A l \in Of(s) : l <= k

\* The table has what e says, but for a row that j is to give another customer.
Shows(t, e, j) ==
    LET rows == WithStripe(t, e.id) \cap Active(t)
    IN  IF e.type = "deleted" THEN \A i \in rows : j.op = "adopt" /\ i = j.row
        ELSE e.email # NoEmail =>
                 \E i \in rows : t[i].email = e.email /\ (t[i].name = e.name \/ e.name = NoName)

\* A row with the Stripe id s may be given to the customer of e.
Free(lg, s, e, n) == s \in {NoStripe, e.id} \/ ~Told(lg, s, n) \/ Gone(lg, s, n)

\* What the handler of event n knows.
Knows(t, j, lg, n) ==
    LET e == j.event
        row == t[j.row]
    IN  /\ n >= 1 /\ e = lg[n]
        /\ j.op # "merge" /\ j.pc \notin {"conflict", "record", "resolve"}
        /\ j.op \in {"update", "rename", "deactivate"} =>
               j.row \in Active(t) /\ row.stripe = e.id
        /\ j.op \in {"update", "rename"} /\ j.pc # "taken" => e.email \in {NoEmail, j.email}
        /\ j.pc = "create" => WithEmail(t, e.email) \cap Active(t) = {}
        /\ j.pc = "insert" => WithEmail(t, e.email) = {}
        /\ j.op \in {"link", "adopt"} =>
               /\ j.row \in Active(t) /\ row.email = e.email /\ Free(lg, row.stripe, e, n)
               /\ j.op = "link" => j.seen.name = row.name /\ j.seen.email = row.email
               /\ j.op = "adopt" => row.name = e.name
        /\ j.op = "reactivate" => j.row \in WithEmail(t, e.email) \ Active(t)
        /\ j.pc = "write" =>
               /\ j.loaded.name = row.name /\ j.loaded.email = row.email
               /\ j.loaded.active = row.active /\ j.loaded.stripe \in {NoStripe, row.stripe}

\* Handler job j will still come to row i, with the email of its event.
Coming(j, i) == j.pc \in {"find", "by email"} \/ (j.op = "link" /\ j.row = i)

\* Row i waits for customer s of Stripe, of which nobody has heard yet but perhaps j.
Awaits(t, j, lg, n, s, i) ==
    /\ i \in Active(t) /\ WithStripe(t, s) = {}
    /\ \E k \in 1..Len(lg) :
           /\ First(lg, k, s) /\ lg[k].type = "created" /\ lg[k].email = t[i].email
           /\ k > n \/ (k = n /\ Coming(j, i))

\* Rows have only ids that Stripe has given; inactive ones those of deleted customers.
RowsTold(t, lg, n) ==
    \A i \in Present(t) :
        /\ t[i].stripe # NoStripe => Told(lg, t[i].stripe, Len(lg))
        /\ ~t[i].active => Gone(lg, t[i].stripe, n)

\* Rows that the worker has still to create customers for, or to link to them.
Waiting(t, j, lg, n, ann, cre) ==
    /\ \A a \in ann : t[a.row].stripe = NoStripe =>
           a.row \in Active(t) /\ t[a.row].email = a.email
    /\ \A s \in StripeIds, i \in RowIds :
           <<s, i>> \in cre /\ t[i].stripe = NoStripe => Awaits(t, j, lg, n, s, i)

\* j is at work, or nobody if it is idle, and the first n events were delivered.
InTurn(t, j, lg, n, ann, cre) ==
    /\ j # Idle => Knows(t, j, lg, n)
    /\ RowsTold(t, lg, n)
    /\ Waiting(t, j, lg, n, ann, cre)
    /\ \A k \in 1..n : Newest(lg, k, n) /\ (k = n => j = Idle) => Shows(t, lg[k], j)

\* At most one handler is at work, with job j.
Alone(j) ==
    \/ j = Idle /\ AllIdle(Handlers)
    \/ \E h \in Handlers : job[h] = j /\ AllIdle(Handlers \ {h})

OrderInv ==
    /\ SentOK
    /\ orderly => \E j : Alone(j) /\ InTurn(table, j, sent, done, announced, creating)

\* What surrounds the handlers: the table, the first n of the events lg, and the
\* worker's rows.
Setting(t, lg, n, ann, cre) ==
    /\ Sound(t) /\ lg \in Seq(Event) /\ Final(lg) /\ n \in 0..Len(lg)
    /\ ann \subseteq [row : Present(t), name : Names, email : Emails]
    /\ cre \subseteq StripeIds \X Present(t)

\* Every event is about a Stripe id, which no unlinked row has.
LEMMA EventsOf ==
    ASSUME NEW lg \in Seq(Event), NEW k \in 1..Len(lg)
    PROVE  lg[k] \in Event /\ lg[k].id \in StripeIds /\ lg[k].id # NoStripe
<1>1. lg[k] \in Event
    OBVIOUS
<1> QED BY <1>1, TableAssumption DEF Event

\* An idle handler comes to no row.
LEMMA IdleComes == Idle.op = "none" /\ \A i : ~Coming(Idle, i)
BY DEF Idle, Coming

\* A handler that goes on with what it knows, while the table stays as it is.
LEMMA ReadOn ==
    ASSUME NEW t, NEW j, NEW j2, NEW lg, NEW n, NEW ann, NEW cre,
           Setting(t, lg, n, ann, cre), InTurn(t, j, lg, n, ann, cre), j # Idle, j2 # Idle,
           Knows(t, j2, lg, n),
           j.op = "adopt" => j2.op = "adopt" /\ j2.row = j.row,
           \A i \in Active(t) :
               /\ lg[n].type = "created" /\ lg[n].email = t[i].email
               /\ WithStripe(t, lg[n].id) = {} /\ Coming(j, i)
               => Coming(j2, i)
    PROVE  InTurn(t, j2, lg, n, ann, cre)
<1>1. RowsTold(t, lg, n)
    BY DEF InTurn
<1>2. \A s, i : Awaits(t, j, lg, n, s, i) => Awaits(t, j2, lg, n, s, i)
    BY DEF Awaits, First
<1>3. Waiting(t, j2, lg, n, ann, cre)
    BY <1>2 DEF InTurn, Waiting
<1>4. ASSUME NEW k \in 1..n, Newest(lg, k, n), k = n => j2 = Idle
      PROVE  Shows(t, lg[k], j2)
    <2>1. Shows(t, lg[k], j)
        BY <1>4 DEF InTurn
    <2> QED BY <2>1 DEF Shows
<1> QED BY <1>1, <1>3, <1>4 DEF InTurn

\* A handler that answers, having nothing to write.
LEMMA ReadOver ==
    ASSUME NEW t, NEW j, NEW lg, NEW n, NEW ann, NEW cre,
           Setting(t, lg, n, ann, cre), InTurn(t, j, lg, n, ann, cre), j # Idle,
           j.op # "adopt", Shows(t, lg[n], Idle),
           \A i \in Active(t) :
               /\ lg[n].type = "created" /\ lg[n].email = t[i].email
               /\ WithStripe(t, lg[n].id) = {}
               => ~Coming(j, i)
    PROVE  InTurn(t, Idle, lg, n, ann, cre)
<1>1. RowsTold(t, lg, n)
    BY DEF InTurn
<1>2. \A s, i : Awaits(t, j, lg, n, s, i) => Awaits(t, Idle, lg, n, s, i)
    BY DEF Awaits, First
<1>3. Waiting(t, Idle, lg, n, ann, cre)
    BY <1>2 DEF InTurn, Waiting
<1>4. ASSUME NEW k \in 1..n, Newest(lg, k, n)
      PROVE  Shows(t, lg[k], Idle)
    <2>1. CASE k = n
        BY <2>1
    <2>2. CASE k # n
        <3>1. Shows(t, lg[k], j)
            BY <1>4, <2>2 DEF InTurn
        <3> QED BY <3>1 DEF Shows
    <2> QED BY <2>1, <2>2
<1> QED BY <1>1, <1>3, <1>4 DEF InTurn

\* The next event is delivered to a handler, all of them being idle.
LEMMA NextDelivery ==
    ASSUME NEW t, NEW j, NEW lg, NEW n, NEW ann, NEW cre,
           Setting(t, lg, n, ann, cre), InTurn(t, Idle, lg, n, ann, cre), n + 1 <= Len(lg),
           j = [Idle EXCEPT !.pc = "find", !.event = lg[n + 1]]
    PROVE  InTurn(t, j, lg, n + 1, ann, cre)
<1>1. /\ j.pc = "find" /\ j.op = "none" /\ j.event = lg[n + 1] /\ j # Idle
      /\ n \in Nat /\ Len(lg) \in Nat
    <2>1. n \in Nat /\ Len(lg) \in Nat
        BY DEF Setting
    <2>2. j.pc = "find" /\ j.op = "none" /\ j.event = lg[n + 1] /\ Idle.pc = "idle"
        BY DEF Idle
    <2> QED BY <2>1, <2>2
<1>2. Knows(t, j, lg, n + 1)
    BY <1>1 DEF Knows
<1>3. RowsTold(t, lg, n + 1)
    BY <1>1 DEF InTurn, RowsTold, Gone
<1>4. ASSUME NEW s, NEW i, Awaits(t, Idle, lg, n, s, i)
      PROVE  Awaits(t, j, lg, n + 1, s, i)
    <2>1. PICK k \in 1..Len(lg) :
              /\ First(lg, k, s) /\ lg[k].type = "created" /\ lg[k].email = t[i].email
              /\ k > n \/ (k = n /\ Coming(Idle, i))
        BY <1>4 DEF Awaits
    <2>2. k > n + 1 \/ (k = n + 1 /\ Coming(j, i))
        <3>1. Coming(j, i) /\ ~Coming(Idle, i)
            BY <1>1, IdleComes DEF Coming
        <3>2. k \in Nat /\ k > n
            BY <2>1, <3>1
        <3> QED BY <1>1, <3>1, <3>2
    <2> QED BY <1>4, <2>1, <2>2 DEF Awaits
<1>5. Waiting(t, j, lg, n + 1, ann, cre)
    BY <1>4 DEF InTurn, Waiting
<1>6. ASSUME NEW k \in 1..(n + 1), Newest(lg, k, n + 1), k = n + 1 => j = Idle
      PROVE  Shows(t, lg[k], j)
    <2>1. k \in 1..n /\ Newest(lg, k, n)
        BY <1>1, <1>6 DEF Newest
    <2>2. Shows(t, lg[k], Idle)
        BY <2>1 DEF InTurn
    <2> QED BY <2>2, IdleComes DEF Shows
<1> QED BY <1>2, <1>3, <1>5, <1>6 DEF InTurn

\* A new row is inserted, active and not linked: the others stay.
LEMMA Inserted ==
    ASSUME NEW t, Sound(t), NEW new \in Row, ~Collides(t, new), new.stripe = NoStripe, new.active,
           NEW u, u = Insert(t, new)
    PROVE  /\ Sound(u) /\ Present(u) = Present(t) \cup {NextRow(t)}
           /\ NextRow(t) \in RowIds \ Present(t) /\ u[NextRow(t)] = new
           /\ \A i \in Present(t) : u[i] = t[i]
           /\ Active(u) = Active(t) \cup {NextRow(t)}
           /\ \A s \in StripeIds : WithStripe(u, s) = WithStripe(t, s)
<1>1. /\ Sound(u) /\ Present(u) = Present(t) \cup {NextRow(t)}
      /\ NextRow(t) \in RowIds \ Present(t)
    BY InsertSound
<1>2. u[NextRow(t)] = new /\ \A i \in Present(t) : u[i] = t[i]
    BY <1>1 DEF Insert, Sound, Tables, Present
<1>3. Active(u) = Active(t) \cup {NextRow(t)}
    BY <1>1, <1>2 DEF Active
<1>4. \A s \in StripeIds : WithStripe(u, s) = WithStripe(t, s)
    BY <1>1, <1>2, TableAssumption DEF WithStripe
<1> QED BY <1>1, <1>2, <1>3, <1>4

\* So does an insert keep everything in order, if whoever does it knows what it
\* needs about its own row.
LEMMA InsertInTurn ==
    ASSUME NEW t, NEW j, NEW j2, NEW lg, NEW n, NEW ann, NEW cre, NEW a2,
           Setting(t, lg, n, ann, cre), InTurn(t, j, lg, n, ann, cre),
           NEW new \in Row, ~Collides(t, new), new.stripe = NoStripe, new.active,
           NEW u, u = Insert(t, new),
           j.op # "adopt", \A i : ~Coming(j, i), j2 = Idle <=> j = Idle,
           j2 # Idle => Knows(u, j2, lg, n),
           a2 \in {ann, ann \cup {[row |-> NextRow(t), name |-> new.name, email |-> new.email]}}
    PROVE  InTurn(u, j2, lg, n, a2, cre)
<1> DEFINE r == NextRow(t)
<1>1. /\ Sound(t) /\ Sound(u) /\ Present(u) = Present(t) \cup {r} /\ r \in RowIds \ Present(t)
      /\ u[r] = new /\ \A i \in Present(t) : u[i] = t[i]
      /\ Active(u) = Active(t) \cup {r}
    BY Inserted DEF Setting
<1>2. \A s \in StripeIds : WithStripe(u, s) = WithStripe(t, s)
    BY Inserted DEF Setting
<1> HIDE DEF r
<1>3. RowsTold(u, lg, n)
    BY <1>1 DEF InTurn, RowsTold
<1>4. ASSUME NEW s \in StripeIds, NEW i \in Present(t), Awaits(t, j, lg, n, s, i)
      PROVE  Awaits(u, j2, lg, n, s, i)
    BY <1>1, <1>2, <1>4 DEF Awaits
<1>5. /\ \A a \in ann : a.row \in Present(t)
      /\ \A s, i : <<s, i>> \in cre => i \in Present(t) /\ i \in RowIds /\ s \in StripeIds
    BY DEF Setting, Present
<1>6. Waiting(u, j2, lg, n, a2, cre)
    <2>1. ASSUME NEW a \in a2, u[a.row].stripe = NoStripe
          PROVE  a.row \in Active(u) /\ u[a.row].email = a.email
        <3>1. CASE a \in ann
            BY <1>1, <1>5, <2>1, <3>1 DEF InTurn, Waiting
        <3>2. CASE a = [row |-> r, name |-> new.name, email |-> new.email]
            BY <1>1, <3>2
        <3> QED BY <3>1, <3>2 DEF r
    <2>2. ASSUME NEW s \in StripeIds, NEW i \in RowIds, <<s, i>> \in cre, u[i].stripe = NoStripe
          PROVE  Awaits(u, j2, lg, n, s, i)
        BY <1>1, <1>4, <1>5, <2>2 DEF InTurn, Waiting
    <2> QED BY <2>1, <2>2 DEF Waiting
<1>7. ASSUME NEW k \in 1..n, Newest(lg, k, n), k = n => j2 = Idle
      PROVE  Shows(u, lg[k], j2)
    <2>1. Shows(t, lg[k], j)
        BY <1>7 DEF InTurn
    <2>2. lg[k].id \in StripeIds
        BY EventsOf DEF Setting
    <2>3. /\ WithStripe(u, lg[k].id) = WithStripe(t, lg[k].id)
          /\ WithStripe(u, lg[k].id) \subseteq Present(t)
        BY <1>2, <2>2 DEF WithStripe
    <2>4. WithStripe(u, lg[k].id) \cap Active(u) = WithStripe(t, lg[k].id) \cap Active(t)
        BY <1>1, <2>3
    <2>5. \A i \in WithStripe(t, lg[k].id) : u[i] = t[i]
        BY <1>1, <2>3
    <2> QED BY <2>1, <2>4, <2>5 DEF Shows
<1>8. j2 # Idle => Knows(u, j2, lg, n)
    OBVIOUS
<1> QED BY <1>3, <1>6, <1>7, <1>8 DEF InTurn

\* The worker links row i to the customer s it created for it.
LEMMA LinkInTurn ==
    ASSUME NEW t, NEW j, NEW lg, NEW n, NEW ann, NEW cre,
           Setting(t, lg, n, ann, cre), InTurn(t, j, lg, n, ann, cre),
           NEW s, NEW i, <<s, i>> \in cre, t[i].stripe = NoStripe,
           NEW u, u = [t EXCEPT ![i].stripe = s]
    PROVE  InTurn(u, j, lg, n, ann, cre \ {<<s, i>>})
<1>1. s \in StripeIds /\ i \in Present(t) /\ i \in RowIds /\ t \in Tables /\ t[i] \in Row
    BY PresentRow DEF Setting, Sound, Present
<1>2. s # NoStripe /\ n \in Nat /\ Len(lg) \in Nat /\ n <= Len(lg)
    BY <1>1, TableAssumption DEF Setting
<1>3. Awaits(t, j, lg, n, s, i)
    BY <1>1 DEF InTurn, Waiting
<1>4. PICK k \in 1..Len(lg) :
          /\ First(lg, k, s) /\ lg[k].type = "created" /\ lg[k].email = t[i].email
          /\ k > n \/ (k = n /\ Coming(j, i))
    BY <1>3 DEF Awaits
<1>5. k \in Nat /\ lg[k].id = s /\ \A l \in 1..(k - 1) : lg[l].id # s
    BY <1>4 DEF First
<1>6. /\ u[i] = [t[i] EXCEPT !.stripe = s] /\ \A m \in RowIds : m # i => u[m] = t[m]
    BY <1>1 DEF Tables
<1>7. /\ u[i].name = t[i].name /\ u[i].email = t[i].email /\ u[i].active = t[i].active
      /\ u[i].stripe = s /\ u[i] # NoRow
    <2>1. u[i] \in Row
        BY <1>1, <1>6 DEF Row
    <2> QED BY <1>1, <1>6, <2>1, NoRowAssumption DEF Row
<1>8. Present(u) = Present(t)
    BY <1>1, <1>6, <1>7 DEF Present
<1>9. Active(u) = Active(t) /\ i \in Active(t)
    BY <1>1, <1>3, <1>6, <1>7, <1>8 DEF Active, Awaits, Present
<1>10. \A email : WithEmail(u, email) = WithEmail(t, email)
    BY <1>1, <1>6, <1>7, <1>8 DEF WithEmail, Present
<1>11. WithStripe(t, s) = {}
    BY <1>3 DEF Awaits
<1>12. \A v : v \notin {s, NoStripe} => WithStripe(u, v) = WithStripe(t, v)
    BY <1>1, <1>6, <1>7, <1>8 DEF WithStripe, Present
<1>13. ASSUME NEW l \in 1..n, lg[l].id = s
       PROVE  k = n /\ l = n /\ Coming(j, i)
    <2>1. l \in Nat /\ ~(l \in 1..(k - 1))
        BY <1>5, <1>13
    <2>2. k <= l /\ l <= n
        BY <1>2, <1>5, <1>13, <2>1
    <2>3. k = n /\ l = n
        BY <1>2, <1>4, <1>5, <2>1, <2>2
    <2> QED BY <1>2, <1>4, <2>3
<1>14. n >= 1 => n \in 1..n
    BY <1>2
<1>15. j # Idle => Knows(u, j, lg, n)
    <2> SUFFICES ASSUME j # Idle PROVE Knows(u, j, lg, n)
        OBVIOUS
    <2>1. Knows(t, j, lg, n)
        BY DEF InTurn
    <2> DEFINE e == j.event
    <2>2. n >= 1 /\ e = lg[n] /\ j.op # "merge" /\ j.pc \notin {"conflict", "record", "resolve"}
        BY <2>1 DEF Knows
    <2>3. /\ u[j.row].name = t[j.row].name /\ u[j.row].email = t[j.row].email
          /\ u[j.row].active = t[j.row].active
          /\ j.row # i => u[j.row] = t[j.row]
        <3>1. CASE j.row \in RowIds
            BY <1>6, <1>7, <3>1
        <3>2. CASE j.row \notin RowIds
            BY <1>1, <1>6, <3>2 DEF Tables
        <3> QED BY <3>1, <3>2
    <2>4. j.op \in {"update", "rename", "deactivate"} => j.row \in Active(u) /\ u[j.row].stripe = e.id
        <3>1. e.id # NoStripe
            BY <1>14, <2>2, EventsOf DEF Setting
        <3> QED BY <1>9, <2>1, <2>3, <3>1 DEF Knows
    <2>5. /\ j.op \in {"update", "rename"} /\ j.pc # "taken" => e.email \in {NoEmail, j.email}
          /\ j.pc = "create" => WithEmail(u, e.email) \cap Active(u) = {}
          /\ j.pc = "insert" => WithEmail(u, e.email) = {}
          /\ j.op = "reactivate" => j.row \in WithEmail(u, e.email) \ Active(u)
        BY <1>9, <1>10, <2>1 DEF Knows
    <2>6. Free(lg, s, e, n)
        BY <1>13, <2>2 DEF Free, Told
    <2>7. j.op \in {"link", "adopt"} =>
               /\ j.row \in Active(u) /\ u[j.row].email = e.email /\ Free(lg, u[j.row].stripe, e, n)
               /\ j.op = "link" => j.seen.name = u[j.row].name /\ j.seen.email = u[j.row].email
               /\ j.op = "adopt" => u[j.row].name = e.name
        BY <1>7, <1>9, <2>1, <2>3, <2>6 DEF Knows
    <2>8. j.pc = "write" =>
               /\ j.loaded.name = u[j.row].name /\ j.loaded.email = u[j.row].email
               /\ j.loaded.active = u[j.row].active /\ j.loaded.stripe \in {NoStripe, u[j.row].stripe}
        BY <2>1, <2>3 DEF Knows
    <2> HIDE DEF e
    <2> QED BY <2>2, <2>4, <2>5, <2>7, <2>8 DEF Knows, e
<1>16. RowsTold(u, lg, n)
    <2> SUFFICES ASSUME NEW m \in Present(u)
                 PROVE  /\ u[m].stripe # NoStripe => Told(lg, u[m].stripe, Len(lg))
                        /\ ~u[m].active => Gone(lg, u[m].stripe, n)
        BY DEF RowsTold
    <2>1. CASE m = i
        BY <1>4, <1>5, <1>7, <1>9, <2>1 DEF Told, Active
    <2>2. CASE m # i
        BY <1>6, <1>8, <2>2 DEF InTurn, RowsTold, Present
    <2> QED BY <2>1, <2>2
<1>17. ASSUME NEW s2 \in StripeIds, NEW i2 \in RowIds,
              <<s2, i2>> \in cre \ {<<s, i>>}, u[i2].stripe = NoStripe
       PROVE  Awaits(u, j, lg, n, s2, i2)
    <2>1. i2 # i /\ u[i2] = t[i2]
        BY <1>2, <1>6, <1>7, <1>17
    <2>2. Awaits(t, j, lg, n, s2, i2)
        BY <1>17, <2>1 DEF InTurn, Waiting
    <2>3. s2 # s
        <3> SUFFICES ASSUME s2 = s PROVE FALSE
            OBVIOUS
        <3>1. PICK k2 \in 1..Len(lg) : First(lg, k2, s) /\ lg[k2].email = t[i2].email
            BY <2>2 DEF Awaits
        <3>2. k2 = k
            <4>1. k2 \in Nat /\ lg[k2].id = s /\ \A l \in 1..(k2 - 1) : lg[l].id # s
                BY <3>1 DEF First
            <4>2. ~(k2 \in 1..(k - 1)) /\ ~(k \in 1..(k2 - 1))
                BY <1>5, <4>1
            <4> QED BY <1>4, <1>5, <3>1, <4>1, <4>2
        <3>3. t[i2].email = t[i].email /\ i2 \in Present(t)
            BY <1>4, <2>2, <3>1, <3>2 DEF Awaits, Active
        <3> QED BY <1>1, <2>1, <3>3 DEF Setting, Sound, IsUnique
    <2>4. s2 # NoStripe
        BY <1>17, TableAssumption
    <2> QED BY <1>9, <1>12, <2>1, <2>2, <2>3, <2>4 DEF Awaits
<1>18. Waiting(u, j, lg, n, ann, cre \ {<<s, i>>})
    <2>1. ASSUME NEW a \in ann, u[a.row].stripe = NoStripe
          PROVE  a.row \in Active(u) /\ u[a.row].email = a.email
        <3>1. a.row \in RowIds /\ a.row # i
            BY <1>2, <1>7, <2>1 DEF Setting, Present
        <3> QED BY <1>6, <1>9, <2>1, <3>1 DEF InTurn, Waiting
    <2> QED BY <1>17, <2>1 DEF Waiting
<1>19. ASSUME NEW l \in 1..n, Newest(lg, l, n), l = n => j = Idle
       PROVE  Shows(u, lg[l], j)
    <2>1. Shows(t, lg[l], j)
        BY <1>19 DEF InTurn
    <2>2. lg[l].id # s
        BY <1>13, <1>19, IdleComes
    <2>3. l \in 1..Len(lg)
        BY <1>2
    <2>4. lg[l].id # NoStripe
        BY <2>3, EventsOf DEF Setting
    <2>5. /\ WithStripe(u, lg[l].id) \cap Active(u) = WithStripe(t, lg[l].id) \cap Active(t)
          /\ WithStripe(t, lg[l].id) \cap Active(t) \subseteq RowIds
        BY <1>9, <1>12, <2>2, <2>4 DEF WithStripe, Present
    <2>6. \A m \in RowIds : u[m].email = t[m].email /\ u[m].name = t[m].name
        BY <1>6, <1>7
    <2> QED BY <2>1, <2>5, <2>6 DEF Shows
<1> QED BY <1>15, <1>16, <1>18, <1>19 DEF InTurn

\* What was said among the first events is not changed by a new one.
LEMMA Appended ==
    ASSUME NEW lg \in Seq(Event), NEW e \in Event, NEW lg2, lg2 = Append(lg, e)
    PROVE  /\ lg2 \in Seq(Event) /\ Len(lg) \in Nat /\ Len(lg2) = Len(lg) + 1
           /\ \A k \in 1..Len(lg) : lg2[k] = lg[k]
           /\ lg2[Len(lg) + 1] = e
OBVIOUS

\* Event e is the worker's if it awaits a link: it created a customer for an
\* announced row.
Reported(lg, e, ann, cre, c2) ==
    \/ c2 = cre
    \/ \E a \in ann : /\ c2 = cre \cup {<<e.id, a.row>>}
                      /\ e.type = "created" /\ e.email = a.email
                      /\ \A k \in 1..Len(lg) : lg[k].id # e.id

\* Something happens in Stripe, by its own doing or the worker's.
LEMMA AppendInTurn ==
    ASSUME NEW t, NEW j, NEW lg, NEW n, NEW ann, NEW cre, NEW a2, NEW c2,
           Setting(t, lg, n, ann, cre), InTurn(t, j, lg, n, ann, cre),
           NEW e \in Event, NEW lg2, lg2 = Append(lg, e),
           a2 \subseteq ann, Reported(lg, e, ann, cre, c2)
    PROVE  InTurn(t, j, lg2, n, a2, c2)
<1>1. /\ lg \in Seq(Event) /\ Len(lg) \in Nat /\ Len(lg2) = Len(lg) + 1
      /\ \A k \in 1..Len(lg) : lg2[k] = lg[k]
      /\ lg2[Len(lg) + 1] = e
    BY Appended DEF Setting
<1>2. n \in Nat /\ n <= Len(lg)
    BY <1>1 DEF Setting
<1>3. \A k \in 1..n : k \in 1..Len(lg) /\ lg2[k] = lg[k]
    BY <1>1, <1>2
<1>4. /\ \A s : Told(lg2, s, n) <=> Told(lg, s, n)
      /\ \A s : Gone(lg2, s, n) <=> Gone(lg, s, n)
    BY <1>3 DEF Told, Gone
<1>5. \A s : Told(lg, s, Len(lg)) => Told(lg2, s, Len(lg2))
    <2>1. \A k \in 1..Len(lg) : k \in 1..Len(lg2)
        BY <1>1
    <2> QED BY <1>1, <2>1 DEF Told
<1>6. ASSUME NEW k \in 1..Len(lg), NEW s, First(lg, k, s)
      PROVE  First(lg2, k, s) /\ k \in 1..Len(lg2) /\ lg2[k] = lg[k]
    <2>1. \A l \in 1..(k - 1) : l \in 1..Len(lg)
        BY <1>1
    <2>2. k \in 1..Len(lg2)
        BY <1>1
    <2> QED BY <1>1, <1>6, <2>1, <2>2 DEF First
<1>7. j # Idle => Knows(t, j, lg2, n)
    <2> SUFFICES ASSUME j # Idle PROVE Knows(t, j, lg2, n)
        OBVIOUS
    <2>1. Knows(t, j, lg, n)
        BY DEF InTurn
    <2>2. n >= 1 /\ lg2[n] = lg[n]
        BY <1>2, <1>3, <2>1 DEF Knows
    <2>3. \A s, d : Free(lg2, s, d, n) <=> Free(lg, s, d, n)
        BY <1>4 DEF Free
    <2> QED BY <2>1, <2>2, <2>3 DEF Knows
<1>8. RowsTold(t, lg2, n)
    BY <1>4, <1>5 DEF InTurn, RowsTold
<1>9. ASSUME NEW s, NEW i, Awaits(t, j, lg, n, s, i)
      PROVE  Awaits(t, j, lg2, n, s, i)
    <2>1. PICK k \in 1..Len(lg) :
              /\ First(lg, k, s) /\ lg[k].type = "created" /\ lg[k].email = t[i].email
              /\ k > n \/ (k = n /\ Coming(j, i))
        BY <1>9 DEF Awaits
    <2>2. First(lg2, k, s) /\ k \in 1..Len(lg2) /\ lg2[k] = lg[k]
        BY <1>6, <2>1
    <2> QED BY <1>9, <2>1, <2>2 DEF Awaits
<1>10. ASSUME NEW s \in StripeIds, NEW i \in RowIds, <<s, i>> \in c2, t[i].stripe = NoStripe
       PROVE  Awaits(t, j, lg2, n, s, i)
    <2>1. CASE <<s, i>> \in cre
        BY <1>9, <1>10, <2>1 DEF InTurn, Waiting
    <2>2. CASE <<s, i>> \notin cre
        <3>1. PICK a \in ann : /\ <<s, i>> = <<e.id, a.row>>
                               /\ e.type = "created" /\ e.email = a.email
                               /\ \A k \in 1..Len(lg) : lg[k].id # e.id
            BY <1>10, <2>2 DEF Reported
        <3>2. i \in Active(t) /\ t[i].email = e.email
            BY <1>10, <3>1 DEF InTurn, Waiting
        <3>3. ~Told(lg, s, Len(lg))
            BY <3>1 DEF Told
        <3>4. WithStripe(t, s) = {}
            <4>1. s # NoStripe
                BY <1>10, TableAssumption
            <4> QED BY <3>3, <4>1 DEF InTurn, RowsTold, WithStripe
        <3> DEFINE m == Len(lg) + 1
        <3>5. First(lg2, m, s)
            <4>1. \A l \in 1..(m - 1) : l \in 1..Len(lg)
                BY <1>1
            <4> QED BY <1>1, <3>1, <4>1 DEF First
        <3>6. m \in 1..Len(lg2) /\ m > n /\ lg2[m] = e
            BY <1>1, <1>2
        <3> HIDE DEF m
        <3> QED BY <3>1, <3>2, <3>4, <3>5, <3>6 DEF Awaits
    <2> QED BY <2>1, <2>2
<1>11. Waiting(t, j, lg2, n, a2, c2)
    BY <1>10 DEF InTurn, Waiting
<1>12. ASSUME NEW k \in 1..n, Newest(lg2, k, n), k = n => j = Idle
       PROVE  Shows(t, lg2[k], j)
    <2>1. \A l \in (k + 1)..n : l \in 1..n
        BY <1>2
    <2>2. Newest(lg, k, n) /\ lg2[k] = lg[k]
        BY <1>3, <1>12, <2>1 DEF Newest
    <2> QED BY <1>12, <2>2 DEF InTurn
<1> QED BY <1>7, <1>8, <1>11, <1>12 DEF InTurn

\* Stripe goes on to have a last word on every customer, and none after a deletion.
LEMMA AppendSent ==
    ASSUME TypeInv, SentOK, NEW e \in Event, sent' = Append(sent, e),
           Of(e.id) # {} => Latest(e.id).type # "deleted"
    PROVE  SentOK'
<1>1. /\ sent \in Seq(Event) /\ Len(sent) \in Nat /\ Len(sent') = Len(sent) + 1
      /\ \A k \in 1..Len(sent) : sent'[k] = sent[k]
      /\ sent'[Len(sent) + 1] = e
    BY Appended DEF TypeInv, WorldOK
<1> DEFINE m == Len(sent) + 1
<1>2. \A k \in 1..Len(sent') : k \in 1..Len(sent) \/ k = m
    BY <1>1
<1>3. ASSUME NEW k \in 1..Len(sent'), NEW l \in 1..Len(sent'), k < l,
             sent'[k].id = sent'[l].id
      PROVE  sent'[k].type # "deleted"
    <2>1. CASE l \in 1..Len(sent)
        <3>1. k \in 1..Len(sent)
            BY <1>1, <1>3, <2>1
        <3> QED BY <1>1, <1>3, <2>1, <3>1 DEF SentOK, Final
    <2>2. CASE l = m
        <3>1. k \in 1..Len(sent)
            BY <1>1, <1>3, <2>2
        <3>2. sent[k].id = e.id /\ k \in Of(e.id)
            BY <1>1, <1>3, <2>2, <3>1 DEF Of
        <3>3. PICK o \in Of(e.id) : \A x \in Of(e.id) : x <= o
            BY <3>2 DEF SentOK, Event
        <3>4. o \in 1..Len(sent) /\ sent[o].id = e.id /\ k <= o
            BY <3>2, <3>3 DEF Of
        <3>5. \A x \in Of(e.id) : (\A y \in Of(e.id) : y <= x) => x = o
            <4> SUFFICES ASSUME NEW x \in Of(e.id), \A y \in Of(e.id) : y <= x PROVE x = o
                OBVIOUS
            <4>1. x \in Nat /\ o \in Nat /\ x <= o /\ o <= x
                BY <1>1, <3>3 DEF Of
            <4> QED BY <4>1
        <3>6. Latest(e.id) = sent[o]
            BY <3>3, <3>5 DEF Latest
        <3>7. sent[o].type # "deleted"
            BY <3>2, <3>6
        <3>8. k < o => sent[k].type # "deleted"
            BY <3>1, <3>2, <3>4 DEF SentOK, Final
        <3>9. k \in Nat /\ o \in Nat /\ (k < o \/ k = o)
            BY <1>1, <3>1, <3>4
        <3> QED BY <1>1, <3>1, <3>7, <3>8, <3>9
    <2> QED BY <1>2, <2>1, <2>2
<1>4. Final(sent)'
    BY <1>3 DEF Final
<1>5. ASSUME NEW s \in StripeIds, Of(s)' # {}
      PROVE  \E k \in Of(s)' : \A l \in Of(s)' : l <= k
    <2>1. CASE s = e.id
        <3>1. m \in Of(s)' /\ \A l \in Of(s)' : l <= m
            BY <1>1, <2>1 DEF Of
        <3> QED BY <3>1
    <2>2. CASE s # e.id
        <3>1. Of(s)' = Of(s)
            <4>1. \A k \in 1..Len(sent) : k \in 1..Len(sent')
                BY <1>1
            <4> QED BY <1>1, <1>2, <2>2, <4>1 DEF Of
        <3> QED BY <1>5, <3>1 DEF SentOK
    <2> QED BY <2>1, <2>2
<1> QED BY <1>4, <1>5 DEF SentOK

\* Handler job j writes its row, which makes u of table t.
Writes(t, u, j) ==
    /\ u \in Tables /\ Present(u) = Present(t) /\ j.row \in Present(t)
    /\ \A i \in RowIds \ {j.row} : u[i] = t[i]
    /\ u[j.row].name = IF j.op \in {"update", "rename", "reactivate"}
                       THEN j.event.name ELSE t[j.row].name
    /\ u[j.row].email = IF j.op \in {"update", "rename"} THEN j.email ELSE t[j.row].email
    /\ u[j.row].stripe = IF j.op \in {"link", "adopt"} THEN j.event.id ELSE t[j.row].stripe
    /\ u[j.row].active = IF j.op = "reactivate" THEN TRUE
                         ELSE IF j.op = "deactivate" THEN FALSE ELSE t[j.row].active
    /\ j.op \in {"update", "link", "rename", "reactivate", "adopt", "deactivate"}

LEMMA WrittenFields ==
    ASSUME TypeInv, NEW h \in Handlers, NEW j, j = job[h], j.pc = "write",
           NEW lg, NEW n, Knows(table, j, lg, n), NEW u, u = Written(h)
    PROVE  Writes(table, u, j)
<1>1. j \in Job /\ Shape(j) /\ table \in Tables
    BY DEF TypeInv, Sound
<1>2. /\ Edited(j) \in Row /\ j.loaded \in Row /\ j.row \in Present(table)
      /\ j.event \in Event
    BY <1>1, EditedRow
<1> DEFINE l == j.loaded
           d == Edited(j)
           i == j.row
           row == table[i]
<1>3. u = Flush(table, i, l, d)
    BY DEF Written
<1>4. /\ l.name = row.name /\ l.email = row.email /\ l.active = row.active
      /\ l.stripe \in {NoStripe, row.stripe}
    BY DEF Knows
<1>5. j.op \in {"update", "link", "rename", "reactivate", "adopt", "deactivate"}
    BY <1>1 DEF Shape, Job, Knows
<1>6. j.event.id # NoStripe
    BY <1>2, TableAssumption DEF Event
<1> HIDE DEF l, d, i, row
<1>7. /\ u \in Tables /\ Present(u) = Present(table) /\ u[i] \in Row
      /\ u[i].name = IF d.name # l.name THEN d.name ELSE row.name
      /\ u[i].email = IF d.email # l.email THEN d.email ELSE row.email
      /\ u[i].stripe = IF d.stripe # l.stripe THEN d.stripe ELSE row.stripe
      /\ u[i].active = IF d.active # l.active THEN d.active ELSE row.active
      /\ \A m \in RowIds : m # i => u[m] = table[m]
    BY <1>1, <1>2, <1>3, FlushRow DEF l, d, i, row
<1>8. d.name = IF j.op \in {"update", "rename", "reactivate"} THEN j.event.name ELSE l.name
    BY <1>2, <1>5 DEF Edited, Row, d, l
<1>9. d.email = IF j.op \in {"update", "rename"} THEN j.email ELSE l.email
    BY <1>2, <1>5 DEF Edited, Row, d, l
<1>10. d.stripe = IF j.op \in {"link", "adopt"} THEN j.event.id ELSE l.stripe
    BY <1>2, <1>5 DEF Edited, Row, d, l
<1>11. d.active = IF j.op = "reactivate" THEN TRUE
                  ELSE IF j.op = "deactivate" THEN FALSE ELSE l.active
    BY <1>2, <1>5 DEF Edited, Row, d, l
<1>12. u[i].name = IF j.op \in {"update", "rename", "reactivate"} THEN j.event.name ELSE row.name
    BY <1>4, <1>7, <1>8
<1>13. u[i].email = IF j.op \in {"update", "rename"} THEN j.email ELSE row.email
    BY <1>4, <1>7, <1>9
<1>14. u[i].stripe = IF j.op \in {"link", "adopt"} THEN j.event.id ELSE row.stripe
    BY <1>4, <1>6, <1>7, <1>10
<1>15. u[i].active = IF j.op = "reactivate" THEN TRUE
                     ELSE IF j.op = "deactivate" THEN FALSE ELSE row.active
    BY <1>4, <1>7, <1>11
<1>16. \A m \in RowIds \ {i} : u[m] = table[m]
    BY <1>7
<1> QED BY <1>2, <1>5, <1>7, <1>12, <1>13, <1>14, <1>15, <1>16 DEF Writes, i, row

\* What a handler knows of the row it writes.
LEMMA WriterKnows ==
    ASSUME NEW t, NEW j, NEW lg, NEW n, NEW ann, NEW cre,
           Setting(t, lg, n, ann, cre), Knows(t, j, lg, n), j.pc = "write",
           j.op \in {"update", "link", "rename", "reactivate", "adopt", "deactivate"},
           NEW e, e = lg[n], NEW row, row = t[j.row]
    PROVE  /\ n \in 1..n /\ n \in 1..Len(lg) /\ n \in Nat /\ e = j.event
           /\ e.id \in StripeIds /\ e.id # NoStripe
           /\ j.op \in {"update", "rename", "deactivate"} => row.stripe = e.id
           /\ j.op \in {"link", "adopt"} => Free(lg, row.stripe, e, n)
           /\ j.op = "reactivate" <=> j.row \notin Active(t)
<1>1. n \in 1..n /\ n \in 1..Len(lg) /\ n \in Nat
    BY DEF Setting, Knows
<1>2. e.id \in StripeIds /\ e.id # NoStripe
    BY <1>1, EventsOf DEF Setting
<1> QED BY <1>1, <1>2 DEF Knows

\* Where the table differs after a write.
LEMMA WriteSets ==
    ASSUME NEW t, Sound(t), NEW u, NEW j, Writes(t, u, j), NEW i, i = j.row
    PROVE  /\ i \in RowIds /\ \A m \in Present(t) : m # i => u[m] = t[m]
           /\ \A m : m # i => (m \in Active(u) <=> m \in Active(t))
           /\ \A m, s : m # i => (m \in WithStripe(u, s) <=> m \in WithStripe(t, s))
           /\ i \in Active(u) <=> u[i].active
           /\ i \in Active(t) <=> t[i].active
           /\ \A s : i \in WithStripe(u, s) <=> u[i].stripe = s
           /\ \A s : i \in WithStripe(t, s) <=> t[i].stripe = s
<1>1. i \in RowIds /\ Present(u) = Present(t) /\ i \in Present(t)
    BY DEF Writes, Present
<1>2. \A m \in Present(t) : m # i => u[m] = t[m]
    BY DEF Writes, Present
<1> QED BY <1>1, <1>2 DEF Active, WithStripe

\* The rows the worker has still to link keep waiting.
LEMMA WriteWaits ==
    ASSUME NEW t, NEW j, NEW j2, NEW lg, NEW n, NEW ann, NEW cre,
           Setting(t, lg, n, ann, cre), InTurn(t, j, lg, n, ann, cre), j # Idle, j.pc = "write",
           NEW u, Writes(t, u, j)
    PROVE  Waiting(u, j2, lg, n, ann, cre)
<1>1. Knows(t, j, lg, n)
    BY DEF InTurn
<1>2. PICK e : e = lg[n]
    OBVIOUS
<1>3. PICK i : i = j.row
    OBVIOUS
<1>4. j.op \in {"update", "link", "rename", "reactivate", "adopt", "deactivate"}
    BY DEF Writes
<1>5. /\ n \in 1..n /\ n \in 1..Len(lg) /\ n \in Nat /\ e = j.event
      /\ e.id \in StripeIds /\ e.id # NoStripe
      /\ j.op \in {"update", "rename", "deactivate"} => t[i].stripe = e.id
      /\ j.op = "reactivate" <=> i \notin Active(t)
    BY <1>1, <1>2, <1>3, <1>4, WriterKnows
<1>6. Sound(t)
    BY DEF Setting
<1>7. /\ i \in RowIds /\ \A m \in Present(t) : m # i => u[m] = t[m]
      /\ \A m : m # i => (m \in Active(u) <=> m \in Active(t))
      /\ \A m, s : m # i => (m \in WithStripe(u, s) <=> m \in WithStripe(t, s))
      /\ \A s : i \in WithStripe(u, s) <=> u[i].stripe = s
      /\ \A s : i \in WithStripe(t, s) <=> t[i].stripe = s
    BY <1>3, <1>6, WriteSets
<1>8. u[i].stripe = IF j.op \in {"link", "adopt"} THEN e.id ELSE t[i].stripe
    BY <1>3, <1>5 DEF Writes
<1>9. u[i].stripe = NoStripe => t[i].stripe = NoStripe /\ i \notin Active(t)
    BY <1>4, <1>5, <1>8
<1>10. ASSUME NEW a \in ann, u[a.row].stripe = NoStripe
       PROVE  a.row \in Active(u) /\ u[a.row].email = a.email
    <2>1. a.row \in Present(t)
        BY DEF Setting
    <2>2. CASE a.row = i
        BY <1>9, <1>10, <2>2 DEF InTurn, Waiting
    <2>3. CASE a.row # i
        <3>1. u[a.row] = t[a.row]
            BY <1>7, <2>1, <2>3
        <3> QED BY <1>7, <1>10, <2>3, <3>1 DEF InTurn, Waiting
    <2> QED BY <2>2, <2>3
<1>11. ASSUME NEW s \in StripeIds, NEW m \in RowIds, <<s, m>> \in cre, u[m].stripe = NoStripe
       PROVE  Awaits(u, j2, lg, n, s, m)
    <2>1. m \in Present(t)
        BY <1>11 DEF Setting
    <2>2. CASE m = i
        BY <1>9, <1>11, <2>2 DEF InTurn, Waiting, Awaits
    <2>3. CASE m # i
        <3>1. u[m] = t[m] /\ (m \in Active(u) <=> m \in Active(t))
            BY <1>7, <2>1, <2>3
        <3>2. Awaits(t, j, lg, n, s, m)
            BY <1>11, <3>1 DEF InTurn, Waiting
        <3>3. PICK k \in 1..Len(lg) :
                  /\ First(lg, k, s) /\ lg[k].type = "created" /\ lg[k].email = t[m].email
                  /\ k > n \/ (k = n /\ Coming(j, m))
            BY <3>2 DEF Awaits
        <3>4. ~Coming(j, m)
            BY <1>3, <2>3 DEF Coming
        <3>5. k > n /\ k \in Nat /\ n \in 1..(k - 1)
            <4>1. k > n
                BY <3>3, <3>4
            <4> QED BY <1>5, <3>3, <4>1
        <3>6. e.id # s
            BY <1>2, <3>3, <3>5 DEF First
        <3>7. u[i].stripe # s
            BY <1>7, <1>8, <3>2, <3>6 DEF Awaits
        <3>8. WithStripe(u, s) = {}
            <4> SUFFICES ASSUME NEW q, q \in WithStripe(u, s) PROVE FALSE
                OBVIOUS
            <4> QED BY <1>7, <3>2, <3>7 DEF Awaits
        <3> QED BY <3>1, <3>2, <3>3, <3>5, <3>8 DEF Awaits
    <2> QED BY <2>2, <2>3
<1> QED BY <1>10, <1>11 DEF Waiting

\* A row that handler job j has brought back is linked by j2.
LinksNext(j, j2) == j.op = "reactivate" => j2.op = "adopt" /\ j2.row = j.row

\* What earlier events said of other customers still shows.
LEMMA WriteShows ==
    ASSUME NEW t, NEW j, NEW j2, NEW lg, NEW n, NEW ann, NEW cre,
           Setting(t, lg, n, ann, cre), InTurn(t, j, lg, n, ann, cre), j # Idle, j.pc = "write",
           NEW u, Writes(t, u, j),
           LinksNext(j, j2),
           NEW k, k \in 1..n, k # n, Newest(lg, k, n)
    PROVE  Shows(u, lg[k], j2)
<1>1. Knows(t, j, lg, n)
    BY DEF InTurn
<1>2. PICK e : e = lg[n]
    OBVIOUS
<1>3. PICK i : i = j.row
    OBVIOUS
<1>4. j.op \in {"update", "link", "rename", "reactivate", "adopt", "deactivate"}
    BY DEF Writes
<1>5. /\ n \in 1..n /\ n \in 1..Len(lg) /\ n \in Nat /\ e = j.event
      /\ e.id \in StripeIds /\ e.id # NoStripe
      /\ j.op \in {"update", "rename", "deactivate"} => t[i].stripe = e.id
      /\ j.op \in {"link", "adopt"} => Free(lg, t[i].stripe, e, n)
      /\ j.op = "reactivate" <=> i \notin Active(t)
    BY <1>1, <1>2, <1>3, <1>4, WriterKnows
<1>6. Sound(t) /\ lg \in Seq(Event) /\ Final(lg) /\ n <= Len(lg) /\ Len(lg) \in Nat
    BY DEF Setting
<1>7. /\ i \in RowIds /\ \A m \in Present(t) : m # i => u[m] = t[m]
      /\ \A m : m # i => (m \in Active(u) <=> m \in Active(t))
      /\ \A m, s : m # i => (m \in WithStripe(u, s) <=> m \in WithStripe(t, s))
      /\ \A s : i \in WithStripe(u, s) <=> u[i].stripe = s
      /\ \A s : i \in WithStripe(t, s) <=> t[i].stripe = s
    BY <1>3, <1>6, WriteSets
<1>8. u[i].stripe = IF j.op \in {"link", "adopt"} THEN e.id ELSE t[i].stripe
    BY <1>3, <1>5 DEF Writes
<1>9. PICK d : d = lg[k]
    OBVIOUS
<1>10. k \in 1..Len(lg) /\ k \in Nat /\ k < n /\ n \in (k + 1)..n
    BY <1>5, <1>6
<1>11. d.id # e.id /\ d.id # NoStripe
    BY <1>2, <1>6, <1>9, <1>10, EventsOf DEF Newest
<1>12. Shows(t, d, j)
    BY <1>9, <1>10 DEF InTurn
<1>13. CASE d.type = "deleted"
    <2> SUFFICES ASSUME NEW m, m \in WithStripe(u, d.id) \cap Active(u)
                 PROVE  j2.op = "adopt" /\ m = j2.row
        BY <1>9, <1>13 DEF Shows
    <2>1. CASE m = i
        <3>1. u[i].stripe = d.id
            BY <1>7, <2>1
        <3>2. j.op = "reactivate"
            BY <1>4, <1>5, <1>8, <1>11, <3>1
        <3> QED BY <1>3, <2>1, <3>2 DEF LinksNext
    <2>2. CASE m # i
        BY <1>3, <1>7, <1>12, <1>13, <2>2 DEF Shows
    <2> QED BY <2>1, <2>2
<1>14. CASE d.type # "deleted" /\ d.email # NoEmail
    <2>1. PICK m \in WithStripe(t, d.id) \cap Active(t) :
              t[m].email = d.email /\ (t[m].name = d.name \/ d.name = NoName)
        BY <1>12, <1>14 DEF Shows
    <2>2. m # i
        <3> SUFFICES ASSUME m = i PROVE FALSE
            OBVIOUS
        <3>1. t[i].stripe = d.id /\ i \in Active(t)
            BY <1>7, <2>1
        <3>2. j.op \in {"link", "adopt"} /\ Free(lg, d.id, e, n)
            BY <1>4, <1>5, <1>11, <3>1
        <3>3. Told(lg, d.id, n)
            BY <1>9 DEF Told
        <3>4. PICK l \in 1..n : lg[l].id = d.id /\ lg[l].type = "deleted"
            BY <1>11, <3>2, <3>3 DEF Free, Gone
        <3>5. l \in Nat /\ l \in 1..Len(lg)
            BY <1>5, <1>6
        <3>6. l # k
            BY <1>9, <1>14, <3>4
        <3>7. ~(l < k)
            BY <1>6, <1>9, <1>10, <3>4, <3>5 DEF Final
        <3>8. ~(l \in (k + 1)..n)
            BY <1>9, <3>4 DEF Newest
        <3> QED BY <1>5, <1>10, <3>4, <3>5, <3>6, <3>7, <3>8
    <2>3. m \in Present(t)
        BY <2>1 DEF Active
    <2>4. u[m] = t[m] /\ m \in WithStripe(u, d.id) \cap Active(u)
        BY <1>7, <2>1, <2>2, <2>3
    <2> QED BY <1>9, <1>14, <2>1, <2>4 DEF Shows
<1> QED BY <1>9, <1>13, <1>14 DEF Shows

\* The ids are still those of customers that Stripe has told of.
LEMMA WriteTold ==
    ASSUME NEW t, NEW j, NEW lg, NEW n, NEW ann, NEW cre,
           Setting(t, lg, n, ann, cre), InTurn(t, j, lg, n, ann, cre), j # Idle, j.pc = "write",
           NEW u, Writes(t, u, j), j.event.type = "deleted" <=> j.op = "deactivate"
    PROVE  RowsTold(u, lg, n)
<1>1. Knows(t, j, lg, n) /\ RowsTold(t, lg, n)
    BY DEF InTurn
<1>2. PICK e : e = lg[n]
    OBVIOUS
<1>3. PICK i : i = j.row
    OBVIOUS
<1>4. j.op \in {"update", "link", "rename", "reactivate", "adopt", "deactivate"}
    BY DEF Writes
<1>5. /\ n \in 1..n /\ n \in 1..Len(lg) /\ n \in Nat /\ e = j.event
      /\ e.id \in StripeIds /\ e.id # NoStripe
      /\ j.op \in {"update", "rename", "deactivate"} => t[i].stripe = e.id
      /\ j.op = "reactivate" <=> i \notin Active(t)
    BY <1>1, <1>2, <1>3, <1>4, WriterKnows
<1>6. Sound(t)
    BY DEF Setting
<1>7. /\ \A m \in Present(t) : m # i => u[m] = t[m]
      /\ i \in Active(t) <=> t[i].active
    BY <1>3, <1>6, WriteSets
<1>8. /\ u[i].stripe = IF j.op \in {"link", "adopt"} THEN e.id ELSE t[i].stripe
      /\ u[i].active = IF j.op = "reactivate" THEN TRUE
                       ELSE IF j.op = "deactivate" THEN FALSE ELSE t[i].active
      /\ Present(u) = Present(t) /\ i \in Present(t)
    BY <1>3, <1>5 DEF Writes
<1>9. Told(lg, e.id, Len(lg))
    BY <1>2, <1>5 DEF Told
<1>10. e.type = "deleted" => Gone(lg, e.id, n)
    BY <1>2, <1>5 DEF Gone
<1>11. u[i].stripe # NoStripe => Told(lg, u[i].stripe, Len(lg))
    BY <1>1, <1>8, <1>9 DEF RowsTold
<1>12. ~u[i].active => Gone(lg, u[i].stripe, n)
    <2> SUFFICES ASSUME ~u[i].active PROVE Gone(lg, u[i].stripe, n)
        OBVIOUS
    <2>1. j.op = "deactivate"
        BY <1>5, <1>7, <1>8
    <2> QED BY <1>5, <1>8, <1>10, <2>1
<1>13. ASSUME NEW m \in Present(u)
       PROVE  /\ u[m].stripe # NoStripe => Told(lg, u[m].stripe, Len(lg))
              /\ ~u[m].active => Gone(lg, u[m].stripe, n)
    <2>1. CASE m = i
        BY <1>11, <1>12, <2>1
    <2>2. CASE m # i
        <3>1. u[m] = t[m] /\ m \in Present(t)
            BY <1>7, <1>8, <2>2
        <3> QED BY <1>1, <3>1 DEF RowsTold
    <2> QED BY <2>1, <2>2
<1> QED BY <1>13 DEF RowsTold

\* A handler that has written and answers: what its event says shows.
LEMMA WriteOver ==
    ASSUME NEW t, NEW j, NEW lg, NEW n, NEW ann, NEW cre,
           Setting(t, lg, n, ann, cre), InTurn(t, j, lg, n, ann, cre), j # Idle, j.pc = "write",
           NEW u, Writes(t, u, j), j.event.type = "deleted" <=> j.op = "deactivate",
           j.op # "reactivate",
           j.op = "link" => j.event.name \in {NoName, j.seen.name}
    PROVE  InTurn(u, Idle, lg, n, ann, cre)
<1>1. Knows(t, j, lg, n)
    BY DEF InTurn
<1>2. PICK e : e = lg[n]
    OBVIOUS
<1>3. PICK i : i = j.row
    OBVIOUS
<1>4. j.op \in {"update", "link", "rename", "adopt", "deactivate"}
    BY DEF Writes
<1>5. /\ e = j.event /\ e.id # NoStripe
      /\ j.op \in {"update", "rename", "deactivate"} => t[i].stripe = e.id
      /\ i \in Active(t)
    BY <1>1, <1>2, <1>3, <1>4, WriterKnows
<1>6. Sound(t)
    BY DEF Setting
<1>7. /\ \A m : m # i => (m \in Active(u) <=> m \in Active(t))
      /\ \A m, s : m # i => (m \in WithStripe(u, s) <=> m \in WithStripe(t, s))
      /\ i \in Active(u) <=> u[i].active
      /\ i \in Active(t) <=> t[i].active
      /\ \A s : i \in WithStripe(u, s) <=> u[i].stripe = s
      /\ \A s : i \in WithStripe(t, s) <=> t[i].stripe = s
    BY <1>3, <1>6, WriteSets
<1>8. /\ u[i].name = IF j.op \in {"update", "rename"} THEN e.name ELSE t[i].name
      /\ u[i].email = IF j.op \in {"update", "rename"} THEN j.email ELSE t[i].email
      /\ u[i].stripe = IF j.op \in {"link", "adopt"} THEN e.id ELSE t[i].stripe
      /\ u[i].active = IF j.op = "deactivate" THEN FALSE ELSE t[i].active
    BY <1>3, <1>4, <1>5 DEF Writes
<1>9. ASSUME j.op = "deactivate" PROVE Shows(u, e, Idle)
    <2>1. e.type = "deleted"
        BY <1>5, <1>9
    <2>2. ASSUME NEW m \in WithStripe(u, e.id) \cap Active(u)
          PROVE  FALSE
        <3>1. m # i
            BY <1>7, <1>8, <1>9, <2>2
        <3>2. m \in WithStripe(t, e.id) /\ i \in WithStripe(t, e.id)
            BY <1>5, <1>7, <1>9, <2>2, <3>1
        <3> QED BY <1>5, <1>6, <3>1, <3>2 DEF Sound, IsUnique, WithStripe
    <2> QED BY <2>1, <2>2 DEF Shows
<1>10. ASSUME j.op # "deactivate" PROVE Shows(u, e, Idle)
    <2>1. e.type # "deleted"
        BY <1>5, <1>10
    <2>2. i \in WithStripe(u, e.id) \cap Active(u)
        BY <1>4, <1>5, <1>7, <1>8, <1>10
    <2>3. e.email # NoEmail => u[i].email = e.email /\ (u[i].name = e.name \/ e.name = NoName)
        <3>1. CASE j.op \in {"update", "rename"}
            BY <1>1, <1>5, <1>8, <3>1 DEF Knows
        <3>2. CASE j.op = "link"
            BY <1>1, <1>3, <1>5, <1>8, <3>2 DEF Knows
        <3>3. CASE j.op = "adopt"
            BY <1>1, <1>3, <1>5, <1>8, <3>3 DEF Knows
        <3> QED BY <1>4, <1>10, <3>1, <3>2, <3>3
    <2> QED BY <2>1, <2>2, <2>3 DEF Shows
<1>11. Shows(u, e, Idle)
    BY <1>9, <1>10
<1>12. RowsTold(u, lg, n)
    BY WriteTold
<1>13. Waiting(u, Idle, lg, n, ann, cre)
    BY WriteWaits
<1>14. LinksNext(j, Idle)
    BY DEF LinksNext
<1>15. ASSUME NEW k \in 1..n, k # n, Newest(lg, k, n) PROVE Shows(u, lg[k], Idle)
    BY <1>14, <1>15, WriteShows
<1> QED BY <1>2, <1>11, <1>12, <1>13, <1>15 DEF InTurn

\* A handler that has written and has more to write: a row that it has brought
\* back is still to be linked, or the one it has linked still to be renamed.
LEMMA WriteOn ==
    ASSUME NEW t, NEW j, NEW j2, NEW lg, NEW n, NEW ann, NEW cre,
           Setting(t, lg, n, ann, cre), InTurn(t, j, lg, n, ann, cre), j # Idle, j.pc = "write",
           NEW u, Writes(t, u, j), j.event.type = "deleted" <=> j.op = "deactivate",
           j2 # Idle, j2.pc = "load", j2.row = j.row, j2.event = j.event,
           \/ j.op = "reactivate" /\ j2.op = "adopt"
           \/ j.op = "link" /\ j2.op = "rename" /\ j2.email = j.seen.email
    PROVE  InTurn(u, j2, lg, n, ann, cre)
<1>1. Knows(t, j, lg, n) /\ RowsTold(t, lg, n)
    BY DEF InTurn
<1>2. PICK e : e = lg[n]
    OBVIOUS
<1>3. PICK i : i = j.row
    OBVIOUS
<1>4. j.op \in {"link", "reactivate"}
    OBVIOUS
<1>5. e = j.event /\ (j.op = "reactivate" <=> i \notin Active(t))
    BY <1>1, <1>2, <1>3, <1>4, WriterKnows
<1>6. Sound(t)
    BY DEF Setting
<1>7. /\ i \in Active(u) <=> u[i].active
      /\ i \in Active(t) <=> t[i].active
    BY <1>3, <1>6, WriteSets
<1>8. /\ u[i].name = IF j.op = "reactivate" THEN e.name ELSE t[i].name
      /\ u[i].email = t[i].email
      /\ u[i].stripe = IF j.op = "link" THEN e.id ELSE t[i].stripe
      /\ u[i].active = IF j.op = "reactivate" THEN TRUE ELSE t[i].active
      /\ i \in Present(t)
    BY <1>3, <1>4, <1>5 DEF Writes
<1>9. n >= 1 /\ j.event = lg[n]
    BY <1>1 DEF Knows
<1>10. ASSUME j.op = "reactivate" PROVE Knows(u, j2, lg, n)
    <2>1. i \in Active(u) /\ u[i].name = e.name /\ j2.op = "adopt"
        BY <1>7, <1>8, <1>10
    <2>2. u[i].email = e.email /\ t[i].email = e.email
        BY <1>1, <1>3, <1>5, <1>8, <1>10 DEF Knows, WithEmail
    <2>3. Free(lg, u[i].stripe, e, n)
        BY <1>1, <1>5, <1>7, <1>8, <1>10 DEF RowsTold, Free
    <2> QED BY <1>3, <1>5, <1>9, <2>1, <2>2, <2>3 DEF Knows
<1>11. ASSUME j.op = "link" PROVE Knows(u, j2, lg, n)
    <2>1. i \in Active(u) /\ u[i].stripe = e.id /\ j2.op = "rename"
        BY <1>5, <1>7, <1>8, <1>11
    <2>2. j2.email = e.email
        BY <1>1, <1>3, <1>5, <1>11 DEF Knows
    <2> QED BY <1>3, <1>5, <1>9, <2>1, <2>2 DEF Knows
<1>12. RowsTold(u, lg, n)
    BY WriteTold
<1>13. Waiting(u, j2, lg, n, ann, cre)
    BY WriteWaits
<1>14. LinksNext(j, j2)
    BY DEF LinksNext
<1>15. ASSUME NEW k \in 1..n, k # n, Newest(lg, k, n) PROVE Shows(u, lg[k], j2)
    BY <1>14, <1>15, WriteShows
<1> QED BY <1>4, <1>10, <1>11, <1>12, <1>13, <1>15 DEF InTurn

-----------------------------------------------------------------------------
(* The handler at work, step by step.                                      *)

\* It is handler h's turn.
Turn(h) == InTurn(table, job[h], sent, done, announced, creating)

\* What h meets when it goes on.
LEMMA TurnSetting ==
    ASSUME TypeInv, SentOK
    PROVE  Setting(table, sent, done, announced, creating)
BY DEF TypeInv, WorldOK, SentOK, Setting

LEMMA TurnKnows ==
    ASSUME TypeInv, SentOK, NEW h \in Handlers, Turn(h), job[h] # Idle
    PROVE  /\ Knows(table, job[h], sent, done) /\ job[h] \in Job /\ Shape(job[h])
           /\ job[h].event = sent[done] /\ job[h].event \in Event
           /\ job[h].event.id \in StripeIds /\ job[h].event.id # NoStripe
           /\ job[h].pc \notin {"idle", "conflict", "record", "resolve"} /\ job[h].op # "merge"
           /\ h \in DOMAIN job
<1>1. /\ Knows(table, job[h], sent, done) /\ job[h] \in Job /\ Shape(job[h])
      /\ h \in DOMAIN job
    BY DEF Turn, InTurn, TypeInv
<1>2. /\ job[h].event = sent[done]
      /\ job[h].pc \notin {"conflict", "record", "resolve"} /\ job[h].op # "merge"
    BY <1>1 DEF Knows
<1>3. job[h].pc # "idle" /\ job[h].event \in Event
    BY <1>1 DEF Shape
<1>4. job[h].event.id \in StripeIds /\ job[h].event.id # NoStripe
    BY <1>3, TableAssumption DEF Event
<1> QED BY <1>1, <1>2, <1>3, <1>4

\* A step of h that leaves all but its job as it is.
LEMMA TurnGoesOn ==
    ASSUME TypeInv, SentOK, NEW h \in Handlers, Turn(h), job[h] # Idle,
           UNCHANGED <<table, sent, done, announced, creating>>,
           job'[h] # Idle, Knows(table, job'[h], sent, done),
           job[h].op = "adopt" => job'[h].op = "adopt" /\ job'[h].row = job[h].row,
           \A i \in Active(table) :
               /\ job[h].event.type = "created" /\ job[h].event.email = table[i].email
               /\ WithStripe(table, job[h].event.id) = {} /\ Coming(job[h], i)
               => Coming(job'[h], i)
    PROVE  Turn(h)'
<1>1. PICK j, j2, e : j = job[h] /\ j2 = job'[h] /\ e = sent[done]
    OBVIOUS
<1>2. InTurn(table, j2, sent, done, announced, creating)
    <2>1. Setting(table, sent, done, announced, creating)
        BY TurnSetting
    <2>2. \A i \in Active(table) :
              /\ e.type = "created" /\ e.email = table[i].email
              /\ WithStripe(table, e.id) = {} /\ Coming(j, i)
              => Coming(j2, i)
        BY <1>1, TurnKnows
    <2> QED BY <1>1, <2>1, <2>2, ReadOn DEF Turn
<1> QED BY <1>1, <1>2 DEF Turn

\* h answers, having nothing to write.
LEMMA TurnAnswers ==
    ASSUME TypeInv, SentOK, NEW h \in Handlers, Turn(h), job[h] # Idle,
           UNCHANGED <<table, sent, done, announced, creating>>,
           job'[h] = Idle, job[h].op # "adopt", Shows(table, job[h].event, Idle),
           \A i \in Active(table) :
               /\ job[h].event.type = "created" /\ job[h].event.email = table[i].email
               /\ WithStripe(table, job[h].event.id) = {}
               => ~Coming(job[h], i)
    PROVE  Turn(h)'
<1>1. PICK j, e : j = job[h] /\ e = sent[done]
    OBVIOUS
<1>2. InTurn(table, Idle, sent, done, announced, creating)
    <2>1. Setting(table, sent, done, announced, creating)
        BY TurnSetting
    <2>2. e = j.event
        BY <1>1, TurnKnows
    <2> QED BY <1>1, <2>1, <2>2, ReadOver DEF Turn
<1> QED BY <1>2 DEF Turn

\* Emails of rows are emails.
LEMMA RowEmails ==
    ASSUME TypeInv, NEW i \in Active(table)
    PROVE  i \in Present(table) /\ table[i] \in Row /\ table[i].email # NoEmail
BY PresentRow, WebhookAssumption DEF TypeInv, Sound, Active, Row

LEMMA FindByStripeTurn ==
    ASSUME TypeInv, SentOK, NEW h \in Handlers, Turn(h), job[h] # Idle, FindByStripe(h)
    PROVE  Turn(h)'
<1>1. /\ Knows(table, job[h], sent, done) /\ job[h] \in Job /\ Shape(job[h])
      /\ job[h].pc # "idle" /\ h \in DOMAIN job
    BY TurnKnows
<1>2. PICK e : e = job[h].event
    OBVIOUS
<1>3. /\ job[h].pc = "find" /\ job[h].op = "none" /\ e.type # "deleted"
      /\ UNCHANGED <<table, sent, done, announced, creating>>
    BY <1>1, <1>2 DEF FindByStripe, Shape, Finish, Goto, outside
<1>4. CASE Linked(h) = {} /\ e.email = NoEmail /\ Finish(h, table)
    <2>1. job'[h] = Idle
        BY <1>1, <1>4 DEF Finish, Overtaken
    <2>2. Shows(table, e, Idle)
        BY <1>3, <1>4 DEF Shows
    <2>3. \A i \in Active(table) : e.email # table[i].email
        BY <1>4, RowEmails
    <2> QED BY <1>2, <1>3, <2>1, <2>2, <2>3, TurnAnswers
<1>5. CASE Goto(h, [job[h] EXCEPT !.pc = "by email"])
    <2>1. job'[h] = [job[h] EXCEPT !.pc = "by email"]
        BY <1>1, <1>5 DEF Goto
    <2>2. /\ job'[h].pc = "by email" /\ job'[h].op = "none" /\ job'[h].event = job[h].event
        BY <1>1, <1>3, <2>1 DEF Job
    <2>3. job'[h] # Idle
        BY <2>2, IdleIs
    <2>4. Knows(table, job'[h], sent, done)
        BY <1>1, <2>2 DEF Knows
    <2>5. \A i : Coming(job'[h], i)
        BY <2>2 DEF Coming
    <2> QED BY <1>3, <2>3, <2>4, <2>5, TurnGoesOn
<1>6. ASSUME NEW i \in Linked(h),
             Goto(h, [job[h] EXCEPT
                 !.pc = IF e.email \in {NoEmail, table[i].email} THEN "load" ELSE "taken",
                 !.op = "update", !.row = i, !.seen = table[i], !.email = table[i].email])
      PROVE  Turn(h)'
    <2>1. job'[h] = [job[h] EXCEPT
                 !.pc = IF e.email \in {NoEmail, table[i].email} THEN "load" ELSE "taken",
                 !.op = "update", !.row = i, !.seen = table[i], !.email = table[i].email]
        BY <1>1, <1>6 DEF Goto
    <2>2. /\ job'[h].pc = IF e.email \in {NoEmail, table[i].email} THEN "load" ELSE "taken"
          /\ job'[h].op = "update" /\ job'[h].row = i /\ job'[h].email = table[i].email
          /\ job'[h].event = job[h].event
        BY <1>1, <2>1 DEF Job
    <2>3. job'[h] # Idle
        BY <2>2, IdleIs
    <2>4. i \in Active(table) /\ table[i].stripe = e.id /\ i \in WithStripe(table, e.id)
        BY <1>2, <1>6 DEF Linked, WithStripe
    <2>5. Knows(table, job'[h], sent, done)
        BY <1>1, <1>2, <2>2, <2>4 DEF Knows
    <2> QED BY <1>2, <1>3, <2>3, <2>4, <2>5, TurnGoesOn
<1> QED BY <1>2, <1>4, <1>5, <1>6 DEF FindByStripe

LEMMA FindDeletedTurn ==
    ASSUME TypeInv, SentOK, NEW h \in Handlers, Turn(h), job[h] # Idle, FindDeleted(h)
    PROVE  Turn(h)'
<1>1. /\ Knows(table, job[h], sent, done) /\ job[h] \in Job /\ Shape(job[h])
      /\ job[h].pc # "idle" /\ h \in DOMAIN job
    BY TurnKnows
<1>2. PICK e : e = job[h].event
    OBVIOUS
<1>3. /\ job[h].pc = "find" /\ job[h].op = "none" /\ e.type = "deleted"
      /\ UNCHANGED <<table, sent, done, announced, creating>>
    BY <1>1, <1>2 DEF FindDeleted, Shape, Finish, Goto, outside
<1>4. CASE Linked(h) = {} /\ Finish(h, table)
    <2>1. job'[h] = Idle
        BY <1>1, <1>4 DEF Finish, Overtaken
    <2>2. Shows(table, e, Idle)
        BY <1>2, <1>3, <1>4 DEF Shows, Linked
    <2> QED BY <1>2, <1>3, <2>1, <2>2, TurnAnswers
<1>5. ASSUME NEW i \in Linked(h),
             Goto(h, [job[h] EXCEPT !.pc = "load", !.op = "deactivate", !.row = i])
      PROVE  Turn(h)'
    <2>1. job'[h] = [job[h] EXCEPT !.pc = "load", !.op = "deactivate", !.row = i]
        BY <1>1, <1>5 DEF Goto
    <2>2. /\ job'[h].pc = "load" /\ job'[h].op = "deactivate" /\ job'[h].row = i
          /\ job'[h].event = job[h].event
        BY <1>1, <2>1 DEF Job
    <2>3. job'[h] # Idle
        BY <2>2, IdleIs
    <2>4. i \in Active(table) /\ table[i].stripe = e.id
        BY <1>2, <1>5 DEF Linked, WithStripe
    <2>5. Knows(table, job'[h], sent, done)
        BY <1>1, <1>2, <2>2, <2>4 DEF Knows
    <2> QED BY <1>2, <1>3, <2>3, <2>5, TurnGoesOn
<1> QED BY <1>4, <1>5 DEF FindDeleted

LEMMA CheckTakenTurn ==
    ASSUME TypeInv, SentOK, NEW h \in Handlers, Turn(h), job[h] # Idle, CheckTaken(h), orderly'
    PROVE  Turn(h)'
<1>1. /\ Knows(table, job[h], sent, done) /\ job[h] \in Job /\ Shape(job[h])
      /\ h \in DOMAIN job
    BY TurnKnows
<1>2. PICK e : e = job[h].event
    OBVIOUS
<1>3. /\ job[h].pc = "taken" /\ job[h].op = "update"
      /\ UNCHANGED <<table, sent, done, announced, creating>>
    BY <1>1 DEF CheckTaken, Shape, Goto, Note, outside
<1>4. job'[h] = [job[h] EXCEPT !.pc = "load", !.email = e.email]
    BY <1>1, <1>2 DEF CheckTaken, Goto, Note
<1>5. /\ job'[h].pc = "load" /\ job'[h].op = "update" /\ job'[h].row = job[h].row
      /\ job'[h].email = e.email /\ job'[h].event = e
    BY <1>1, <1>2, <1>3, <1>4 DEF Job
<1>6. job'[h] # Idle
    BY <1>5, IdleIs
<1>7. Knows(table, job'[h], sent, done)
    BY <1>1, <1>2, <1>3, <1>5 DEF Knows
<1>8. \A i : ~Coming(job[h], i)
    BY <1>3 DEF Coming
<1> QED BY <1>3, <1>6, <1>7, <1>8, TurnGoesOn

LEMMA FindByEmailTurn ==
    ASSUME TypeInv, SentOK, NEW h \in Handlers, Turn(h), job[h] # Idle, FindByEmail(h), orderly'
    PROVE  Turn(h)'
<1>1. /\ Knows(table, job[h], sent, done) /\ job[h] \in Job /\ Shape(job[h])
      /\ h \in DOMAIN job
    BY TurnKnows
<1>2. PICK e : e = job[h].event
    OBVIOUS
<1>3. /\ job[h].pc = "by email" /\ job[h].op = "none"
      /\ UNCHANGED <<table, sent, done, announced, creating>>
    BY <1>1 DEF FindByEmail, Shape, Finish, Goto, Note, outside
<1>4. PICK hits : hits = WithEmail(table, e.email) \cap Active(table)
    OBVIOUS
<1>5. \A i \in Active(table) : e.email = table[i].email => i \in hits
    BY <1>4 DEF WithEmail, Active
<1>6. \A i \in hits : i \in Active(table) /\ table[i].email = e.email /\ table[i].stripe = NoStripe
    BY <1>2, <1>4 DEF FindByEmail, Note, WithEmail
<1>7. CASE hits = {} /\ Goto(h, [job[h] EXCEPT !.pc = "create"])
    <2>1. job'[h] = [job[h] EXCEPT !.pc = "create"]
        BY <1>1, <1>7 DEF Goto
    <2>2. /\ job'[h].pc = "create" /\ job'[h].op = "none" /\ job'[h].event = e
        BY <1>1, <1>2, <1>3, <2>1 DEF Job
    <2>3. job'[h] # Idle
        BY <2>2, IdleIs
    <2>4. Knows(table, job'[h], sent, done)
        BY <1>1, <1>2, <1>4, <1>7, <2>2 DEF Knows
    <2> QED BY <1>2, <1>3, <1>5, <1>7, <2>3, <2>4, TurnGoesOn
<1>8. ASSUME NEW i \in hits,
             Goto(h, [job[h] EXCEPT !.pc = "load", !.op = "link", !.row = i, !.seen = table[i]])
      PROVE  Turn(h)'
    <2>1. job'[h] = [job[h] EXCEPT !.pc = "load", !.op = "link", !.row = i, !.seen = table[i]]
        BY <1>1, <1>8 DEF Goto
    <2>2. /\ job'[h].pc = "load" /\ job'[h].op = "link" /\ job'[h].row = i
          /\ job'[h].seen = table[i] /\ job'[h].event = e
        BY <1>1, <1>2, <2>1 DEF Job
    <2>3. job'[h] # Idle
        BY <2>2, IdleIs
    <2>4. Free(sent, table[i].stripe, e, done)
        BY <1>6 DEF Free
    <2>5. Knows(table, job'[h], sent, done)
        BY <1>1, <1>2, <1>6, <2>2, <2>4 DEF Knows
    <2>6. \A m \in hits : m = i
        <3>1. \A m \in hits : m \in Present(table) /\ table[m].email = e.email
            BY <1>6 DEF Active
        <3> QED BY <3>1 DEF TypeInv, Sound, IsUnique
    <2>7. Coming(job'[h], i)
        BY <2>2 DEF Coming
    <2>8. \A m \in Active(table) : e.email = table[m].email => Coming(job'[h], m)
        BY <1>5, <2>6, <2>7
    <2> QED BY <1>2, <1>3, <2>3, <2>5, <2>8, TurnGoesOn
<1>9. \/ hits = {} /\ Goto(h, [job[h] EXCEPT !.pc = "create"])
      \/ \E i \in hits :
             Goto(h, [job[h] EXCEPT !.pc = "load", !.op = "link", !.row = i, !.seen = table[i]])
    BY <1>2, <1>4 DEF FindByEmail, Note
<1> QED BY <1>7, <1>8, <1>9

LEMMA CreateTurn ==
    ASSUME TypeInv, SentOK, NEW h \in Handlers, Turn(h), job[h] # Idle, Create(h)
    PROVE  Turn(h)'
<1>1. /\ Knows(table, job[h], sent, done) /\ job[h] \in Job /\ Shape(job[h])
      /\ h \in DOMAIN job
    BY TurnKnows
<1>2. PICK e : e = job[h].event
    OBVIOUS
<1>3. /\ job[h].pc = "create" /\ job[h].op = "none"
      /\ UNCHANGED <<table, sent, done, announced, creating>>
    BY <1>1 DEF Create, Shape, Finish, Goto, outside
<1>4. PICK same : same = WithEmail(table, e.email)
    OBVIOUS
<1>5. same \cap Active(table) = {}
    BY <1>1, <1>2, <1>3, <1>4 DEF Knows
<1>6. \A i : ~Coming(job[h], i)
    BY <1>3 DEF Coming
<1>7. CASE same = {} /\ Goto(h, [job[h] EXCEPT !.pc = "insert"])
    <2>1. job'[h] = [job[h] EXCEPT !.pc = "insert"]
        BY <1>1, <1>7 DEF Goto
    <2>2. /\ job'[h].pc = "insert" /\ job'[h].op = "none" /\ job'[h].event = e
        BY <1>1, <1>2, <1>3, <2>1 DEF Job
    <2>3. job'[h] # Idle
        BY <2>2, IdleIs
    <2>4. Knows(table, job'[h], sent, done)
        BY <1>1, <1>2, <1>4, <1>7, <2>2 DEF Knows
    <2> QED BY <1>3, <1>6, <2>3, <2>4, TurnGoesOn
<1>8. ASSUME NEW i \in same \ Active(table),
             Goto(h, [job[h] EXCEPT !.pc = "write", !.op = "reactivate", !.row = i,
                                    !.loaded = table[i]])
      PROVE  Turn(h)'
    <2>1. job'[h] = [job[h] EXCEPT !.pc = "write", !.op = "reactivate", !.row = i,
                                   !.loaded = table[i]]
        BY <1>1, <1>8 DEF Goto
    <2>2. /\ job'[h].pc = "write" /\ job'[h].op = "reactivate" /\ job'[h].row = i
          /\ job'[h].loaded = table[i] /\ job'[h].event = e
        BY <1>1, <1>2, <2>1 DEF Job
    <2>3. job'[h] # Idle
        BY <2>2, IdleIs
    <2>4. Knows(table, job'[h], sent, done)
        BY <1>1, <1>2, <1>4, <1>8, <2>2 DEF Knows
    <2> QED BY <1>3, <1>6, <2>3, <2>4, TurnGoesOn
<1>9. \/ same = {} /\ Goto(h, [job[h] EXCEPT !.pc = "insert"])
      \/ \E i \in same \ Active(table) :
             Goto(h, [job[h] EXCEPT !.pc = "write", !.op = "reactivate", !.row = i,
                                    !.loaded = table[i]])
    BY <1>2, <1>4, <1>5 DEF Create
<1> QED BY <1>7, <1>8, <1>9

LEMMA LoadTurn ==
    ASSUME TypeInv, SentOK, NEW h \in Handlers, Turn(h), job[h] # Idle, Load(h)
    PROVE  Turn(h)'
<1>1. /\ Knows(table, job[h], sent, done) /\ job[h] \in Job /\ Shape(job[h])
      /\ h \in DOMAIN job
    BY TurnKnows
<1>2. job[h].pc = "load" /\ UNCHANGED <<table, sent, done, announced, creating>>
    BY DEF Load, Finish, Goto, outside
<1>3. job[h].op \in {"update", "rename"} => table[job[h].row].active
    BY <1>1 DEF Knows, Active
<1>4. job'[h] = [job[h] EXCEPT !.pc = "write", !.loaded = table[job[h].row]]
    BY <1>1, <1>3 DEF Load, Goto
<1>5. /\ job'[h].pc = "write" /\ job'[h].op = job[h].op /\ job'[h].row = job[h].row
      /\ job'[h].loaded = table[job[h].row] /\ job'[h].event = job[h].event
      /\ job'[h].email = job[h].email /\ job'[h].seen = job[h].seen
    BY <1>1, <1>4 DEF Job
<1>6. job'[h] # Idle
    BY <1>5, IdleIs
<1>7. Knows(table, job'[h], sent, done)
    BY <1>1, <1>2, <1>5 DEF Knows
<1>8. \A i : Coming(job[h], i) => Coming(job'[h], i)
    BY <1>2, <1>5 DEF Coming
<1> QED BY <1>2, <1>5, <1>6, <1>7, <1>8, TurnGoesOn

LEMMA InsertRowTurn ==
    ASSUME TypeInv, SentOK, NEW h \in Handlers, Turn(h), job[h] # Idle, InsertRow(h)
    PROVE  Turn(h)'
<1>1. /\ Knows(table, job[h], sent, done) /\ job[h] \in Job /\ Shape(job[h])
      /\ job[h].event \in Event /\ h \in DOMAIN job
    BY TurnKnows
<1>2. PICK e, j : e = job[h].event /\ j = job[h]
    OBVIOUS
<1>3. /\ j.pc = "insert" /\ j.op = "none" /\ e.email \in Emails /\ e.name \in Names
      /\ UNCHANGED <<sent, done, announced, creating>>
    BY <1>1, <1>2 DEF InsertRow, Shape, outside, Event
<1>4. PICK new : new = [name |-> e.name, email |-> e.email, stripe |-> NoStripe, active |-> TRUE]
    OBVIOUS
<1>5. /\ new \in Row /\ new.stripe = NoStripe /\ new.active /\ new.email = e.email
      /\ new.name = e.name
    BY <1>3, <1>4 DEF Row
<1>6. ~Collides(table, new)
    BY <1>1, <1>2, <1>3, <1>5 DEF Knows, Collides
<1>7. PICK r, u : r = NextRow(table) /\ u = Insert(table, new)
    OBVIOUS
<1>8. Commit(h, u, [j EXCEPT !.pc = "load", !.op = "adopt", !.row = r])
    BY <1>2, <1>4, <1>6, <1>7 DEF InsertRow
<1>9. PICK j2 : j2 = [j EXCEPT !.pc = "load", !.op = "adopt", !.row = r]
    OBVIOUS
<1>10. table' = u /\ job'[h] = j2
    BY <1>1, <1>8, <1>9, HandlerLeaves DEF Commit, Overtaken, TypeInv
<1>11. j2.pc = "load" /\ j2.op = "adopt" /\ j2.row = r /\ j2.event = e
    BY <1>1, <1>2, <1>9 DEF Job
<1>12. j2 # Idle
    BY <1>11, IdleIs
<1>13. r \in Active(u) /\ u[r] = new
    BY <1>5, <1>6, <1>7, Inserted DEF TypeInv
<1>14. Knows(u, j2, sent, done)
    BY <1>1, <1>2, <1>5, <1>11, <1>13 DEF Knows, Free
<1>15. \A i : ~Coming(j, i)
    BY <1>3 DEF Coming
<1>16. Setting(table, sent, done, announced, creating)
    BY TurnSetting
<1>17. InTurn(u, j2, sent, done, announced, creating)
    BY <1>2, <1>3, <1>5, <1>6, <1>7, <1>12, <1>14, <1>15, <1>16, InsertInTurn DEF Turn
<1> QED BY <1>3, <1>10, <1>17 DEF Turn

LEMMA WriteTurn ==
    ASSUME TypeInv, SentOK, NEW h \in Handlers, Turn(h), job[h] # Idle, Write(h)
    PROVE  Turn(h)'
<1>1. /\ Knows(table, job[h], sent, done) /\ job[h] \in Job /\ Shape(job[h])
      /\ job[h].op # "merge" /\ h \in DOMAIN job
    BY TurnKnows
<1>2. PICK j, u : j = job[h] /\ u = Written(h)
    OBVIOUS
<1>3. /\ j.pc = "write" /\ (j.event.type = "deleted" <=> j.op = "deactivate")
      /\ UNCHANGED <<sent, done, announced, creating>>
    BY <1>1, <1>2 DEF Write, Shape, outside
<1>4. Writes(table, u, j)
    BY <1>1, <1>2, <1>3, WrittenFields
<1>5. Setting(table, sent, done, announced, creating)
      /\ InTurn(table, j, sent, done, announced, creating)
    BY <1>2, TurnSetting DEF Turn
<1>6. CASE Finish(h, u) /\ j.op # "reactivate" /\ (j.op = "link" => j.event.name \in {NoName, j.seen.name})
    <2>1. table' = u /\ job'[h] = Idle
        BY <1>1, <1>6 DEF Finish, Overtaken, TypeInv
    <2>2. InTurn(u, Idle, sent, done, announced, creating)
        BY <1>2, <1>3, <1>4, <1>5, <1>6, WriteOver
    <2> QED BY <1>3, <2>1, <2>2 DEF Turn
<1>7. ASSUME NEW j2, j2 # Idle, j2.pc = "load", j2.row = j.row, j2.event = j.event,
             \/ j.op = "reactivate" /\ j2.op = "adopt"
             \/ j.op = "link" /\ j2.op = "rename" /\ j2.email = j.seen.email,
             Commit(h, u, j2)
      PROVE  Turn(h)'
    <2>1. table' = u /\ job'[h] = j2
        BY <1>1, <1>7 DEF Commit, Overtaken, TypeInv
    <2>2. InTurn(u, j2, sent, done, announced, creating)
        BY <1>2, <1>3, <1>4, <1>5, <1>7, WriteOn
    <2> QED BY <1>3, <2>1, <2>2 DEF Turn
<1>8. CASE j.op = "reactivate" /\ Commit(h, u, [j EXCEPT !.pc = "load", !.op = "adopt"])
    <2>1. PICK j2 : j2 = [j EXCEPT !.pc = "load", !.op = "adopt"]
        OBVIOUS
    <2>2. j2.pc = "load" /\ j2.op = "adopt" /\ j2.row = j.row /\ j2.event = j.event
        BY <1>1, <1>2, <2>1 DEF Job
    <2> QED BY <1>7, <1>8, <2>1, <2>2, IdleIs
<1>9. CASE j.op = "link" /\ Commit(h, u, [j EXCEPT !.pc = "load", !.op = "rename",
                                                  !.email = j.seen.email])
    <2>1. PICK j2 : j2 = [j EXCEPT !.pc = "load", !.op = "rename", !.email = j.seen.email]
        OBVIOUS
    <2>2. j2.pc = "load" /\ j2.op = "rename" /\ j2.row = j.row /\ j2.event = j.event
          /\ j2.email = j.seen.email
        BY <1>1, <1>2, <2>1 DEF Job
    <2> QED BY <1>7, <1>9, <2>1, <2>2, IdleIs
<1> QED BY <1>1, <1>2, <1>6, <1>8, <1>9 DEF Write

\* The next event is delivered to h.
LEMMA DeliverTurn ==
    ASSUME TypeInv, SentOK, NEW h \in Handlers, NEW k \in 1..Len(sent), Deliver(h, k), orderly',
           InTurn(table, Idle, sent, done, announced, creating)
    PROVE  Turn(h)'
<1>1. k = done + 1 /\ done' = k /\ UNCHANGED <<table, sent, announced, creating>>
    BY DEF Deliver, outside
<1>2. PICK j : j = [Idle EXCEPT !.pc = "find", !.event = sent[k]]
    OBVIOUS
<1>3. job'[h] = j
    BY <1>2 DEF Deliver, TypeInv
<1>4. Setting(table, sent, done, announced, creating)
    BY TurnSetting
<1>5. done + 1 <= Len(sent) /\ j = [Idle EXCEPT !.pc = "find", !.event = sent[done + 1]]
    BY <1>1, <1>2
<1>6. InTurn(table, j, sent, done + 1, announced, creating)
    BY <1>4, <1>5, NextDelivery
<1> QED BY <1>1, <1>3, <1>6 DEF Turn

\* Whatever step a handler takes, it knows what it needs for the next, or what its
\* event says shows.
LEMMA HandlerTurn ==
    ASSUME TypeInv, SentOK, NEW h \in Handlers, Handle(h), Turn(h), job[h] # Idle, orderly'
    PROVE  Turn(h)'
<1>1. ASSUME NEW k \in 1..Len(sent), Deliver(h, k) PROVE FALSE
    BY <1>1 DEF Deliver
<1>2. job[h].pc \notin {"conflict", "record", "resolve"}
    BY TurnKnows
<1>3. ~WriteCollides(h) /\ ~Fail(h)
    BY DEF WriteCollides, Fail, Note
<1>4. ~CheckConflict(h) /\ ~ResolveConflict(h)
      /\ \A strategy \in Strategies : ~RecordConflict(h, strategy)
    BY <1>2 DEF CheckConflict, ResolveConflict, RecordConflict
<1> QED BY <1>1, <1>3, <1>4, FindByStripeTurn, FindDeletedTurn, CheckTakenTurn, FindByEmailTurn,
           CreateTurn, InsertRowTurn, LoadTurn, WriteTurn DEF Handle

-----------------------------------------------------------------------------
(* The world around the handler at work.                                   *)

\* A handler that others have overtaken is at work as before.
LEMMA TouchedInTurn ==
    ASSUME NEW t, NEW j \in Job, NEW lg, NEW n, NEW ann, NEW cre, InTurn(t, j, lg, n, ann, cre),
           j # Idle, NEW j2, j2 = [j EXCEPT !.touched = TRUE], j2 # Idle
    PROVE  InTurn(t, j2, lg, n, ann, cre)
<1>1. /\ j2.pc = j.pc /\ j2.op = j.op /\ j2.event = j.event /\ j2.row = j.row
      /\ j2.seen = j.seen /\ j2.loaded = j.loaded /\ j2.email = j.email
    BY DEF Job
<1>2. Knows(t, j2, lg, n)
    BY <1>1 DEF InTurn, Knows
<1>3. \A i : Coming(j2, i) <=> Coming(j, i)
    BY <1>1 DEF Coming
<1>4. Waiting(t, j2, lg, n, ann, cre)
    BY <1>3 DEF InTurn, Waiting, Awaits
<1>5. ASSUME NEW k \in 1..n, Newest(lg, k, n), k = n => j2 = Idle PROVE Shows(t, lg[k], j2)
    BY <1>1, <1>5 DEF InTurn, Shows
<1> QED BY <1>2, <1>4, <1>5 DEF InTurn

\* Who was at work is at work.
LEMMA StillAlone ==
    ASSUME TypeInv, \A q \in Handlers : Left(q), NEW j, Alone(j),
           InTurn(table', j, sent', done', announced', creating')
    PROVE  \E j2 : Alone(j2)' /\ InTurn(table', j2, sent', done', announced', creating')
<1>1. CASE AllIdle(Handlers)
    <2>1. j = Idle
        BY <1>1 DEF Alone, AllIdle
    <2>2. AllIdle(Handlers)'
        BY <1>1 DEF AllIdle, Left
    <2> QED BY <2>1, <2>2 DEF Alone
<1>2. CASE ~AllIdle(Handlers)
    <2>1. PICK h \in Handlers : job[h] = j /\ AllIdle(Handlers \ {h})
        BY <1>2 DEF Alone
    <2>2. j # Idle /\ j \in Job
        BY <1>2, <2>1 DEF AllIdle, TypeInv
    <2>3. AllIdle(Handlers \ {h})'
        BY <2>1 DEF AllIdle, Left
    <2>4. Alone(job[h])'
        BY <2>3 DEF Alone
    <2>5. CASE job'[h] = j
        BY <2>4, <2>5
    <2>6. CASE job'[h] # j
        <3>1. PICK j2 : j2 = [j EXCEPT !.touched = TRUE]
            OBVIOUS
        <3>2. job'[h] = j2
            BY <2>1, <2>6, <3>1 DEF Left
        <3>3. j2.pc = j.pc /\ j.pc # "idle"
            BY <2>1, <2>2, <3>1 DEF Job, TypeInv, Shape
        <3>4. j2 # Idle
            BY <3>3, IdleIs
        <3>5. InTurn(table', j2, sent', done', announced', creating')
            BY <2>2, <3>1, <3>4, TouchedInTurn
        <3> QED BY <2>4, <3>2, <3>5
    <2> QED BY <2>5, <2>6
<1> QED BY <1>1, <1>2

LEMMA StripeChangeTurn ==
    ASSUME TypeInv, OrderInv, NEW s \in StripeIds, NEW name \in Names,
           NEW email \in Emails \cup {NoEmail}, NEW type \in {"created", "updated", "deleted"},
           StripeChange(s, type, name, email), NEW j
    PROVE  /\ SentOK'
           /\ InTurn(table, j, sent, done, announced, creating) =>
                  InTurn(table', j, sent', done', announced', creating')
<1>1. PICK e : e = [type |-> type, id |-> s, name |-> name, email |-> email]
    OBVIOUS
<1>2. e \in Event /\ e.id = s
    BY <1>1 DEF Event
<1>3. /\ sent' = Append(sent, e) /\ UNCHANGED <<table, done, announced, creating>>
      /\ Of(s) # {} => Latest(s).type # "deleted"
    BY <1>1 DEF StripeChange, Emit, histories
<1>4. SentOK'
    BY <1>2, <1>3, AppendSent DEF OrderInv
<1>5. ASSUME InTurn(table, j, sent, done, announced, creating)
      PROVE  InTurn(table, j, sent', done, announced, creating)
    <2>1. Setting(table, sent, done, announced, creating)
        BY TurnSetting DEF OrderInv
    <2>2. Reported(sent, e, announced, creating, creating)
        BY DEF Reported
    <2> QED BY <1>2, <1>3, <1>5, <2>1, <2>2, AppendInTurn
<1> QED BY <1>3, <1>4, <1>5

LEMMA WorkerCreateTurn ==
    ASSUME TypeInv, OrderInv, NEW s \in StripeIds, NEW a \in announced, WorkerCreate(s, a), NEW j
    PROVE  /\ SentOK'
           /\ InTurn(table, j, sent, done, announced, creating) =>
                  InTurn(table', j, sent', done', announced', creating')
<1>1. PICK e : e = [type |-> "created", id |-> s, name |-> a.name, email |-> a.email]
    OBVIOUS
<1>2. a \in [row : Present(table), name : Names, email : Emails]
    BY DEF TypeInv, WorldOK
<1>3. e \in Event /\ e.id = s /\ e.type = "created" /\ e.email = a.email
    BY <1>1, <1>2 DEF Event
<1>4. /\ sent' = Append(sent, e) /\ UNCHANGED <<table, done>>
      /\ announced' \subseteq announced /\ creating' = creating \cup {<<e.id, a.row>>}
      /\ Of(e.id) = {}
    BY <1>1, <1>3 DEF WorkerCreate, Emit, histories
<1>5. SentOK'
    BY <1>3, <1>4, AppendSent DEF OrderInv
<1>6. ASSUME InTurn(table, j, sent, done, announced, creating)
      PROVE  InTurn(table, j, sent', done, announced', creating')
    <2>1. Setting(table, sent, done, announced, creating)
        BY TurnSetting DEF OrderInv
    <2>2. \A k \in 1..Len(sent) : sent[k].id # e.id
        BY <1>4 DEF Of
    <2>3. Reported(sent, e, announced, creating, creating')
        BY <1>3, <1>4, <2>2 DEF Reported
    <2>4. e \in Event /\ sent' = Append(sent, e) /\ announced' \subseteq announced
        BY <1>3, <1>4
    <2> QED BY <1>6, <2>1, <2>3, <2>4, AppendInTurn
<1> QED BY <1>4, <1>5, <1>6

LEMMA WorkerLinkTurn ==
    ASSUME TypeInv, OrderInv, NEW s \in StripeIds, NEW i \in RowIds, WorkerLink(s, i), orderly',
           NEW j, InTurn(table, j, sent, done, announced, creating)
    PROVE  InTurn(table', j, sent', done', announced', creating')
<1>1. PICK u : u = [table EXCEPT ![i].stripe = s]
    OBVIOUS
<1>2. /\ <<s, i>> \in creating /\ creating' = creating \ {<<s, i>>}
      /\ table' \in {u, table} /\ table[i].stripe \in {NoStripe, s}
      /\ UNCHANGED <<sent, done, announced>>
    BY <1>1 DEF WorkerLink, Elsewhere, Note
<1>3. CASE table' = table
    <2>1. Waiting(table, j, sent, done, announced, creating \ {<<s, i>>})
        BY DEF InTurn, Waiting
    <2> QED BY <1>2, <1>3, <2>1 DEF InTurn
<1>4. CASE table' = u /\ table' # table
    <2>1. table[i].stripe # s
        <3> SUFFICES ASSUME table[i].stripe = s PROVE u = table
            BY <1>4
        <3>1. table \in Tables /\ i \in Present(table)
            BY <1>2 DEF TypeInv, WorldOK, Sound
        <3>2. table[i] \in Row
            BY <3>1, PresentRow
        <3>3. [table[i] EXCEPT !.stripe = s] = table[i]
            BY <3>2 DEF Row
        <3> QED BY <1>1, <3>1, <3>3 DEF Tables
    <2>2. table[i].stripe = NoStripe
        BY <1>2, <2>1
    <2>3. Setting(table, sent, done, announced, creating)
        BY TurnSetting DEF OrderInv
    <2>4. InTurn(u, j, sent, done, announced, creating \ {<<s, i>>})
        BY <1>1, <1>2, <2>2, <2>3, LinkInTurn
    <2> QED BY <1>2, <1>4, <2>4
<1> QED BY <1>2, <1>3, <1>4

LEMMA ApiCreateTurn ==
    ASSUME TypeInv, OrderInv, NEW name \in Names, NEW email \in Emails,
           NEW given \in StripeIds \cup {NoStripe}, ApiCreate(name, email, given),
           orderly', NEW j, Alone(j), InTurn(table, j, sent, done, announced, creating)
    PROVE  InTurn(table', j, sent', done', announced', creating')
<1>1. PICK new : new = [name |-> name, email |-> email, stripe |-> NoStripe, active |-> TRUE]
    OBVIOUS
<1>2. /\ new \in Row /\ new.stripe = NoStripe /\ new.active /\ new.email = email
      /\ new.name = name
    BY <1>1 DEF Row
<1>3. \A t, bad : Request(t, bad) => ~bad /\ table' = t /\ UNCHANGED <<sent, done, creating>>
    BY DEF Request, Elsewhere, Note
<1>4. /\ given = NoStripe /\ AllIdle(Handlers)
      /\ table' = Insert(table, new) /\ ~Collides(table, new)
      /\ announced' = announced \cup {[row |-> NextRow(table), name |-> name, email |-> email]}
      /\ UNCHANGED <<sent, done, creating>>
    BY <1>1, <1>3 DEF ApiCreate
<1>5. j = Idle
    BY <1>4 DEF Alone, AllIdle
<1>6. Setting(table, sent, done, announced, creating)
    BY TurnSetting DEF OrderInv
<1>7. j.op # "adopt" /\ \A i : ~Coming(j, i)
    BY <1>5, IdleComes
<1>8. InTurn(table', j, sent, done, announced', creating)
    BY <1>2, <1>4, <1>5, <1>6, <1>7, InsertInTurn
<1> QED BY <1>4, <1>8

-----------------------------------------------------------------------------
(* The mirror.                                                             *)

\* In order, whoever takes a step that leaves it so was in order before.
LEMMA EnvironmentOrder ==
    ASSUME TypeInv, OrderInv, Environment
    PROVE  OrderInv'
<1>1. \A q \in Handlers : Left(q)
    BY EnvironmentWorld
<1>2. ASSUME SentOK', orderly' => orderly,
             orderly' => \A j : Alone(j) /\ InTurn(table, j, sent, done, announced, creating) =>
                             InTurn(table', j, sent', done', announced', creating')
      PROVE  OrderInv'
    <2>1. ASSUME orderly'
          PROVE  \E j : Alone(j)' /\ InTurn(table', j, sent', done', announced', creating')
        <3>1. PICK j : Alone(j) /\ InTurn(table, j, sent, done, announced, creating)
            BY <1>2, <2>1 DEF OrderInv
        <3>2. InTurn(table', j, sent', done', announced', creating')
            BY <1>2, <2>1, <3>1
        <3> QED BY <1>1, <3>1, <3>2, StillAlone
    <2> QED BY <1>2, <2>1 DEF OrderInv
<1>3. ASSUME NEW t, NEW bad, Elsewhere(t, bad)
      PROVE  SentOK' /\ (orderly' => orderly /\ ~bad)
    BY <1>3 DEF Elsewhere, Note, OrderInv, SentOK, Of
<1>4. ASSUME NEW s \in StripeIds, NEW name \in Names, NEW email \in Emails \cup {NoEmail},
             NEW type \in {"created", "updated", "deleted"}, StripeChange(s, type, name, email)
      PROVE  OrderInv'
    <2>1. orderly' = orderly
        BY <1>4 DEF StripeChange, Emit, histories
    <2> QED BY <1>2, <1>4, <2>1, StripeChangeTurn
<1>5. ASSUME NEW s \in StripeIds, NEW a \in announced, WorkerCreate(s, a)
      PROVE  OrderInv'
    <2>1. orderly' = orderly
        BY <1>5 DEF WorkerCreate, Emit, histories
    <2> QED BY <1>2, <1>5, <2>1, WorkerCreateTurn
<1>6. ASSUME NEW s \in StripeIds, NEW i \in RowIds, WorkerLink(s, i)
      PROVE  OrderInv'
    <2>1. SentOK' /\ (orderly' => orderly)
        BY <1>3, <1>6 DEF WorkerLink
    <2> QED BY <1>2, <1>6, <2>1, WorkerLinkTurn
<1>7. ASSUME NEW name \in Names, NEW email \in Emails,
             NEW given \in StripeIds \cup {NoStripe}, ApiCreate(name, email, given)
      PROVE  OrderInv'
    <2>1. SentOK' /\ (orderly' => orderly)
        BY <1>3, <1>7 DEF ApiCreate, Request
    <2> QED BY <1>2, <1>7, <2>1, ApiCreateTurn
<1>8. ASSUME NEW i \in RowIds, NEW name \in Names, NEW email \in Emails,
             ApiUpdate(i, name, email)
      PROVE  OrderInv'
    <2>1. SentOK' /\ ~orderly'
        BY <1>3, <1>8 DEF ApiUpdate, Request
    <2> QED BY <2>1 DEF OrderInv
<1>9. ASSUME NEW i \in RowIds, ApiDelete(i)
      PROVE  OrderInv'
    <2>1. SentOK' /\ ~orderly'
        BY <1>3, <1>9 DEF ApiDelete, Request
    <2> QED BY <2>1 DEF OrderInv
<1> QED BY <1>4, <1>5, <1>6, <1>7, <1>8, <1>9 DEF Environment

LEMMA NoteBreaks ==
    ASSUME NEW bad, Note(bad)
    PROVE  orderly' => orderly
    BY Zenon DEF Note

LEMMA HandlerOrder ==
    ASSUME TypeInv, OrderInv, NEW h \in Handlers, Handle(h)
    PROVE  OrderInv'
<1>1. sent' = sent /\ (orderly' => orderly)
    <2> DEFINE Q == sent' = sent /\ (orderly' => orderly)
    <2>1. ASSUME NEW k \in 1..Len(sent), Deliver(h, k) PROVE Q
        BY <2>1 DEF Deliver, outside
    <2>2. ASSUME FindByStripe(h) \/ FindDeleted(h) \/ Create(h)
          PROVE  UNCHANGED <<sent, orderly>>
        BY <2>2 DEF FindByStripe, FindDeleted, Create, outside
    <2>3. ASSUME InsertRow(h) \/ Load(h)
          PROVE  UNCHANGED <<sent, orderly>>
        BY <2>3 DEF InsertRow, Load, outside
    <2>4. ASSUME Write(h)
          PROVE  UNCHANGED <<sent, orderly>>
        BY <2>4 DEF Write, outside
    <2>5. ASSUME CheckConflict(h) \/ ResolveConflict(h)
          PROVE  UNCHANGED <<sent, orderly>>
        BY <2>5 DEF CheckConflict, ResolveConflict, outside
    <2>6. ASSUME CheckTaken(h)
          PROVE  Q
        <3>1. sent' = sent /\ \E bad : Note(bad)
            BY <2>6 DEF CheckTaken, outside
        <3> QED BY <3>1, NoteBreaks
    <2>7. ASSUME FindByEmail(h)
          PROVE  Q
        <3>1. sent' = sent /\ \E bad : Note(bad)
            BY <2>7 DEF FindByEmail, outside
        <3> QED BY <3>1, NoteBreaks
    <2>8. ASSUME WriteCollides(h) \/ Fail(h)
          PROVE  Q
        <3>1. sent' = sent /\ \E bad : Note(bad)
            BY <2>8 DEF WriteCollides, Fail, outside
        <3> QED BY <3>1, NoteBreaks
    <2>9. ASSUME NEW strategy \in Strategies, RecordConflict(h, strategy) PROVE Q
        BY <2>9 DEF RecordConflict, outside
    <2> QED BY <2>1, <2>2, <2>3, <2>4, <2>5, <2>6, <2>7, <2>8, <2>9 DEF Handle
<1>2. SentOK'
    BY <1>1 DEF OrderInv, SentOK, Of
<1>3. ASSUME orderly'
      PROVE  \E j : Alone(j)' /\ InTurn(table', j, sent', done', announced', creating')
    <2>1. PICK j : Alone(j) /\ InTurn(table, j, sent, done, announced, creating)
        BY <1>1, <1>3 DEF OrderInv
    <2>2. AllIdle(Handlers \ {h}) /\ (job[h] # Idle => Turn(h))
        <3>1. CASE job[h] # Idle
            BY <2>1, <3>1 DEF Alone, AllIdle, Turn
        <3>2. CASE job[h] = Idle
            <4>1. PICK k \in 1..Len(sent) : Deliver(h, k)
                <5>1. job[h].pc = "idle"
                    BY <3>2, IdleIs
                <5> QED BY <3>2, <5>1 DEF Handle, FindByStripe, FindDeleted, CheckTaken, FindByEmail,
                        Create, InsertRow, Load, Write, WriteCollides, CheckConflict,
                        ResolveConflict, RecordConflict, Fail
            <4> QED BY <1>3, <3>2, <4>1 DEF Deliver, AllIdle
        <3> QED BY <3>1, <3>2
    <2>3. AllIdle(Handlers \ {h})'
        BY <2>2, OthersIdle
    <2>4. Turn(h)'
        <3>1. CASE job[h] # Idle
            BY <1>3, <2>2, <3>1, HandlerTurn DEF OrderInv
        <3>2. CASE job[h] = Idle
            <4>1. PICK k \in 1..Len(sent) : Deliver(h, k)
                <5>1. job[h].pc = "idle"
                    BY <3>2, IdleIs
                <5> QED BY <3>2, <5>1 DEF Handle, FindByStripe, FindDeleted, CheckTaken, FindByEmail,
                        Create, InsertRow, Load, Write, WriteCollides, CheckConflict,
                        ResolveConflict, RecordConflict, Fail
            <4>2. j = Idle
                BY <2>1, <2>2, <3>2 DEF Alone, AllIdle
            <4> QED BY <1>3, <2>1, <4>1, <4>2, DeliverTurn DEF OrderInv
        <3> QED BY <3>1, <3>2
    <2> QED BY <2>3, <2>4 DEF Alone, Turn
<1> QED BY <1>2, <1>3 DEF OrderInv

LEMMA OrderStep ==
    ASSUME TypeInv, OrderInv, [Next]_vars
    PROVE  OrderInv'
<1>1. CASE UNCHANGED vars
    BY <1>1 DEF vars, histories, OrderInv, SentOK, Of, Alone, AllIdle
<1> QED BY <1>1, EnvironmentOrder, HandlerOrder DEF Next

LEMMA OrderInit == Init => OrderInv
<1> SUFFICES ASSUME Init PROVE OrderInv
    OBVIOUS
<1>1. sent = <<>> /\ Len(sent) = 0 /\ done = 0 /\ announced = {} /\ creating = {}
    BY DEF Init
<1>2. 1..Len(sent) = {} /\ 1..done = {}
    BY <1>1
<1>3. SentOK
    BY <1>2 DEF SentOK, Final, Of
<1>4. AllIdle(Handlers)
    BY DEF Init, AllIdle
<1>5. Present(table) = {}
    BY DEF Init, EmptyTable, Present
<1>6. InTurn(table, Idle, sent, done, announced, creating)
    BY <1>1, <1>2, <1>5 DEF InTurn, RowsTold, Waiting
<1> QED BY <1>3, <1>4, <1>6 DEF OrderInv, Alone

LEMMA OrderInvariant == Spec => [](TypeInv /\ OrderInv)
<1>1. Init => TypeInv /\ OrderInv
    BY TypeInit, OrderInit
<1>2. TypeInv /\ OrderInv /\ [Next]_vars => (TypeInv /\ OrderInv)'
    BY TypeStep, OrderStep
<1> QED BY <1>1, <1>2, PTL DEF Spec

\* However many events, replicas and requests there are: once every webhook has come
\* in order, one after the other, and none met a conflict, the table mirrors what
\* Stripe last said of every customer (handle_webhook_event, for rows that are
\* found by Stripe id or by email, linked, created or brought back).
THEOREM MirroredInOrder == Spec => []OrderlyMirror
<1>1. TypeInv /\ OrderInv => OrderlyMirror
    <2> SUFFICES ASSUME TypeInv, OrderInv, orderly, done = Len(sent), AllIdle(Handlers),
                        NEW k0 \in 1..Len(sent)
                 PROVE  Mirrors(sent[k0].id)
        BY DEF OrderlyMirror
    <2>1. InTurn(table, Idle, sent, done, announced, creating)
        BY DEF OrderInv, Alone, AllIdle
    <2>2. PICK s : s = sent[k0].id
        OBVIOUS
    <2>3. s \in StripeIds /\ Len(sent) \in Nat
        BY <2>2, EventsOf DEF TypeInv, WorldOK
    <2>4. PICK k \in Of(s) : \A l \in Of(s) : l <= k
        BY <2>2, <2>3 DEF OrderInv, SentOK, Of
    <2>5. k \in 1..Len(sent) /\ k \in Nat /\ sent[k].id = s
        BY <2>4 DEF Of
    <2>6. \A x \in Of(s) : (\A y \in Of(s) : y <= x) => x = k
        <3> SUFFICES ASSUME NEW x \in Of(s), \A y \in Of(s) : y <= x PROVE x = k
            OBVIOUS
        <3>1. x \in Nat /\ x <= k /\ k <= x
            BY <2>4 DEF Of
        <3> QED BY <2>5, <3>1
    <2>7. Latest(s) = sent[k]
        BY <2>4, <2>6 DEF Latest
    <2>8. Newest(sent, k, done)
        <3> SUFFICES ASSUME NEW l \in (k + 1)..Len(sent), sent[l].id = s PROVE FALSE
            BY <2>5 DEF Newest
        <3>1. l \in 1..Len(sent) /\ l \in Nat /\ l > k
            BY <2>3, <2>5
        <3>2. l <= k
            BY <2>4, <3>1 DEF Of
        <3> QED BY <2>5, <3>1, <3>2
    <2>9. Shows(table, sent[k], Idle)
        BY <2>1, <2>5, <2>8 DEF InTurn
    <2>10. Mirrors(s)
        BY <2>5, <2>7, <2>9, IdleIs DEF Mirrors, Shows
    <2> QED BY <2>2, <2>10
<1> QED BY <1>1, OrderInvariant, PTL
=============================================================================
