--------------------------- MODULE Reconciliation ---------------------------
(***************************************************************************)
(* Reconciliation runs (app/services/reconciliation_service.py over        *)
(* app/repos/reconciliation_repo.py): a run lists both sides, compares the *)
(* lists, records each difference as a mismatch and, if told to, links     *)
(* rows and creates missing ones on the way.  What a run leaves pending, an *)
(* admin resolves by hand, one request for one mismatch.                   *)
(*                                                                         *)
(* A step is one commit or one read; runs of different replicas, requests  *)
(* of admins, and whatever else changes customers, interleave.  A session  *)
(* is unusable after a commit that failed, unless customer_repo.create has *)
(* rolled it back.                                                         *)
(***************************************************************************)
EXTENDS CustomerTable, Sequences

CONSTANTS
    Runs,       \* calls of run_reconciliation
    Admins,     \* calls of resolve_mismatch
    Unknown,    \* the name resolve_mismatch gives a customer that has none
    NoName,     \* a Stripe customer without a name
    NoEmail,    \* a Stripe customer without an email
    NoCustomer, \* a Stripe id that is not in use
    OptionSets, \* the sets of options a run may be called with
    ListLimits, \* how many rows the local list may hold: {10000} in the code
    MaxWrites   \* bound: changes from outside, requests beside a run

ASSUME ReconciliationAssumption ==
    /\ NoName \notin Names /\ NoEmail \notin Emails
    /\ Runs \cap Admins = {} /\ Unknown \in Names
    /\ OptionSets \subseteq SUBSET {"auto_resolve", "auto_sync_to_stripe", "auto_sync_to_local"}
    /\ ListLimits \subseteq Nat
    /\ MaxWrites \in Nat

VARIABLES
    table,      \* the customers table
    stripe,     \* [StripeIds -> StripeCustomer \cup {NoCustomer}]
    mismatches, \* Seq(Mismatch): data_mismatches
    report,     \* [Runs -> Report]: reconciliation_reports
    job,        \* [Procs -> Job]: where each run and each request is
    writes      \* bounds MaxWrites

vars == <<table, stripe, mismatches, report, job, writes>>

Procs == Runs \cup Admins

StripeCustomer == [name : Names \cup {NoName}, email : Emails \cup {NoEmail}]

Mismatch ==
    [run : Runs, kind : {"missing in stripe", "missing in local", "link", "field"},
     row : 0..MaxRows, id : StripeIds \cup {NoStripe}, email : Emails \cup {NoEmail},
     status : {"pending", "auto_resolved", "manual_resolved", "failed"},
     resolved : BOOLEAN]        \* resolved_at is set

Report == [status : {"none", "running", "completed", "failed"},
           found : Nat, auto : Nat, manual : Nat]

Job == [pc : {"ready", "list local", "list stripe", "check", "create in stripe",
              "load", "link", "retrieve", "find", "insert", "reactivate", "resolve",
               "failing", "over"},
        options : SUBSET {"auto_resolve",           \* of a request: it is to link
                          "auto_sync_to_stripe",
                          "auto_sync_to_local"},    \* of a request: it is to create
        rows : SUBSET RowIds,           \* local customers still to be checked
        ids : SUBSET StripeIds,         \* Stripe customers still to be checked
        local : Tables,                 \* the local list: active rows
        remote : [StripeIds -> StripeCustomer \cup {NoCustomer}],
        mine : SUBSET Nat,              \* the mismatches listed in this run
        cur : Nat,                      \* the one being resolved
        row : 0..MaxRows,               \* the row being written
        loaded : Row \cup {NoRow},      \* the row as read to be written
        broken : BOOLEAN,               \* does the session need a rollback?
        disturbed : BOOLEAN]            \* history: did others write since the start?

Ready == [pc |-> "ready",
          options |-> {}, rows |-> {}, ids |-> {}, local |-> EmptyTable,
          remote |-> [s \in StripeIds |-> NoCustomer],
          mine |-> {}, cur |-> 0, row |-> 0, loaded |-> NoRow, broken |-> FALSE,
          disturbed |-> FALSE]

\* What has ended has nothing left to remember.
Over == [Ready EXCEPT !.pc = "over"]

UnderWay == {p \in Procs : job[p].pc \notin {"ready", "over"}}

InUse(f) == {s \in StripeIds : f[s] # NoCustomer}

\* Both sides as anything could have left them; rows are numbered from 1.
Init ==
    /\ table \in {t \in Tables : IsUnique(t) /\ Present(t) = 1..Cardinality(Present(t))}
    /\ stripe \in [StripeIds -> StripeCustomer \cup {NoCustomer}]
    /\ mismatches = <<>>
    /\ report = [r \in Runs |-> [status |-> "none", found |-> 0, auto |-> 0, manual |-> 0]]
    /\ job = [p \in Procs |-> Ready]
    /\ writes = 0

-----------------------------------------------------------------------------
(* How a step ends.                                                        *)

\* Run r goes on as j, having written nothing the others can see.
Goto(r, j) == job' = [job EXCEPT ![r] = j] /\ UNCHANGED <<table, stripe, writes>>

\* Customers change: what is under way is disturbed.
Disturbed == [p \in Procs |-> [job[p] EXCEPT !.disturbed = @ \/ p \in UnderWay]]

\* The table becomes t; r goes on as j and the others are disturbed.
Commit(r, t, j) ==
    /\ table' = t
    /\ job' = [(IF t = table THEN job ELSE Disturbed) EXCEPT ![r] = j]
    /\ UNCHANGED <<stripe, writes>>

\* A commit that violates a unique index; run_reconciliation and
\* resolve_mismatch catch the error.
Break(r) ==
    /\ Goto(r, [job[r] EXCEPT !.pc = "failing", !.broken = TRUE])
    /\ UNCHANGED <<mismatches, report>>

\* Run r records mismatches ms and goes on as j.
Record(r, ms, j) ==
    /\ mismatches' = mismatches \o ms
    /\ Goto(r, [j EXCEPT !.mine = @ \cup (Len(mismatches) + 1)..(Len(mismatches) + Len(ms)),
                         !.cur = Len(mismatches) + Len(ms)])
    /\ UNCHANGED report

Difference(r, kind, i, s, email, auto) ==
    [run |-> r, kind |-> kind, row |-> i, id |-> s, email |-> email,
     status |-> IF auto THEN "auto_resolved" ELSE "pending", resolved |-> FALSE]

-----------------------------------------------------------------------------
(* run_reconciliation.                                                     *)

\* The report is created with status running.
Start(r, options) ==
    /\ job[r].pc = "ready"
    /\ report' = [report EXCEPT ![r].status = "running"]
    /\ Goto(r, [job[r] EXCEPT !.pc = "list local", !.options = options])
    /\ UNCHANGED mismatches

\* The active rows; if there are more than the limit, as many of them, and no order
\* says which.
ListLocal(r) ==
    /\ job[r].pc = "list local"
    /\ \E limit \in ListLimits, listed \in SUBSET Active(table) :
           /\ IF Cardinality(Active(table)) <= limit THEN listed = Active(table)
              ELSE Cardinality(listed) = limit
           /\ Goto(r, [job[r] EXCEPT
                  !.pc = "list stripe", !.rows = listed,
                  !.local = [i \in RowIds |-> IF i \in listed THEN table[i] ELSE NoRow]])
    /\ UNCHANGED <<mismatches, report>>

\* The list may fail, and the run with it.
ListStripe(r) ==
    /\ job[r].pc = "list stripe"
    /\ \/ Goto(r, [job[r] EXCEPT !.pc = "check", !.ids = InUse(stripe), !.remote = stripe])
       \/ Goto(r, [job[r] EXCEPT !.pc = "failing"])
    /\ UNCHANGED <<mismatches, report>>

-----------------------------------------------------------------------------
(* _check_local_customer, over the lists; local customers come first.      *)

Matches(j, i) == {s \in InUse(j.remote) : j.remote[s].email = j.local[i].email}

\* The linked Stripe customer differs: a mismatch a field, for manual review.
CompareFields(r, i) ==
    LET j == job[r]
        s == j.local[i].stripe
        field == <<Difference(r, "field", i, s, j.local[i].email, FALSE)>>
        fields == (IF j.remote[s].name # j.local[i].name THEN field ELSE <<>>)
                  \o (IF j.remote[s].email # j.local[i].email THEN field ELSE <<>>)
    IN  /\ j.pc = "check" /\ i \in j.rows
        /\ s \in InUse(j.remote)
        /\ Record(r, fields, [j EXCEPT !.rows = @ \ {i}])

\* The row has no Stripe customer, or one that is gone.
MissingInStripe(r, i) ==
    LET j == job[r]
        s == j.local[i].stripe
        auto == "auto_sync_to_stripe" \in j.options
    IN  /\ j.pc = "check" /\ i \in j.rows
        /\ s \notin InUse(j.remote)
        /\ s = NoStripe => Matches(j, i) = {}
        /\ Record(r, <<Difference(r, "missing in stripe", i, s, j.local[i].email, auto)>>,
                  [j EXCEPT !.pc = IF auto THEN "create in stripe" ELSE @,
                            !.rows = @ \ {i}])

\* Mutant of CreateInStripe: the failure does not reopen the mismatch.
CreateUnchecked(r) ==
    /\ job[r].pc = "create in stripe"
    /\ Goto(r, [job[r] EXCEPT !.pc = "check"])
    /\ UNCHANGED <<mismatches, report>>

\* create_customer is called without its session and awaited: the call raises
\* before anything is sent to Stripe, and the mismatch is for manual review.
CreateInStripe(r) ==
    /\ job[r].pc = "create in stripe"
    /\ mismatches' = [mismatches EXCEPT ![job[r].cur].status = "pending"]
    /\ Goto(r, [job[r] EXCEPT !.pc = "check"])
    /\ UNCHANGED report

\* Mutant of FoundByEmail: linked rows are matched by email as well.
FoundAnyByEmail(r, i) ==
    LET j == job[r]
        auto == "auto_resolve" \in j.options
    IN  /\ j.pc = "check" /\ i \in j.rows
        /\ \E s \in Matches(j, i) :
               Record(r, <<Difference(r, "link", i, s, j.local[i].email, auto)>>,
                      [j EXCEPT !.pc = IF auto THEN "load" ELSE @,
                                !.row = i, !.rows = @ \ {i}])

\* An unlinked row and a Stripe customer with its email, the last one listed.
FoundByEmail(r, i) ==
    LET j == job[r]
        auto == "auto_resolve" \in j.options
    IN  /\ j.pc = "check" /\ i \in j.rows
        /\ j.local[i].stripe = NoStripe
        /\ \E s \in Matches(j, i) :
               Record(r, <<Difference(r, "link", i, s, j.local[i].email, auto)>>,
                      [j EXCEPT !.pc = IF auto THEN "load" ELSE @,
                                !.row = i, !.rows = @ \ {i}])

\* A row that is no longer active is left alone: a run goes on, and the mismatch
\* stays as it is; a request fails.
LoadToLink(r) ==
    /\ job[r].pc = "load"
    /\ Goto(r, IF job[r].row \in Active(table)
               THEN [job[r] EXCEPT !.pc = "link", !.loaded = table[job[r].row]]
               ELSE [job[r] EXCEPT !.pc = IF r \in Runs THEN "check" ELSE "failing"])
    /\ UNCHANGED <<mismatches, report>>

\* The table once run r has flushed the row it loaded and edited.
Written(r, edited) == Flush(table, job[r].row, job[r].loaded, edited)

\* The row is written.
Wrote(r) == [job[r] EXCEPT !.pc = "resolve", !.loaded = NoRow]

\* Mutant of Link: no unique index on stripe_customer_id.
LinkAnyway(r) ==
    /\ job[r].pc = "link"
    /\ Commit(r, [table EXCEPT ![job[r].row].stripe = mismatches[job[r].cur].id], Wrote(r))
    /\ UNCHANGED <<mismatches, report>>

\* The row gets the Stripe id; another row, active or not, may have it.
Link(r) ==
    LET t == Written(r, [job[r].loaded EXCEPT !.stripe = mismatches[job[r].cur].id])
    IN  /\ job[r].pc = "link"
        /\ IF IsUnique(t)
           THEN Commit(r, t, Wrote(r)) /\ UNCHANGED <<mismatches, report>>
           ELSE Break(r)

\* resolved_at, and the row of a customer created, in a commit of their own.
Resolve(r) ==
    /\ job[r].pc = "resolve"
    /\ mismatches' = [mismatches EXCEPT ![job[r].cur].resolved = TRUE,
                                        ![job[r].cur].row = job[r].row]
    /\ Goto(r, [job[r] EXCEPT !.pc = "check"])
    /\ UNCHANGED report

-----------------------------------------------------------------------------
(* _check_stripe_customer.                                                 *)

KnownLocally(j, s) ==
    \E i \in Present(j.local) : j.local[i].stripe = s \/ j.local[i].email = j.remote[s].email

CheckStripe(r, s) ==
    LET j == job[r]
        next == [j EXCEPT !.ids = @ \ {s}]
        auto == "auto_sync_to_local" \in j.options
    IN  /\ j.pc = "check" /\ j.rows = {} /\ s \in j.ids
        /\ IF KnownLocally(j, s) THEN Goto(r, next) /\ UNCHANGED <<mismatches, report>>
           ELSE Record(r, <<Difference(r, "missing in local", 0, s, j.remote[s].email, auto)>>,
                       IF auto THEN [next EXCEPT !.pc = "find"] ELSE next)

Incoming(r) == job[r].remote[mismatches[job[r].cur].id]

\* Mutant of GiveUp: the error is taken for an answer.
GiveUpQuietly(r) ==
    /\ Goto(r, [job[r] EXCEPT !.pc = IF r \in Runs THEN "check" ELSE "resolve"])
    /\ UNCHANGED <<mismatches, report>>

\* The row could not be created: a run leaves the mismatch for manual review.
GiveUp(r) ==
    /\ IF r \in Runs
       THEN /\ mismatches' = [mismatches EXCEPT ![job[r].cur].status = "pending"]
            /\ Goto(r, [job[r] EXCEPT !.pc = "check"])
       ELSE Goto(r, [job[r] EXCEPT !.pc = "failing"]) /\ UNCHANGED mismatches
    /\ UNCHANGED report

\* customer_repo.create; a customer without name or email is not valid.
FindToCreate(r) ==
    LET same == WithEmail(table, Incoming(r).email)
    IN  /\ job[r].pc = "find"
        /\ IF Incoming(r).name = NoName \/ Incoming(r).email = NoEmail
              \/ same \cap Active(table) # {}
           THEN GiveUp(r)
           ELSE /\ \/ same = {} /\ Goto(r, [job[r] EXCEPT !.pc = "insert"])
                   \/ \E i \in same : Goto(r, [job[r] EXCEPT !.pc = "reactivate", !.row = i,
                                                            !.loaded = table[i]])
                /\ UNCHANGED <<mismatches, report>>

InsertRow(r) ==
    LET new == [name |-> Incoming(r).name, email |-> Incoming(r).email,
                stripe |-> mismatches[job[r].cur].id, active |-> TRUE]
    IN  /\ job[r].pc = "insert"
        /\ IF Collides(table, new) THEN GiveUp(r)
           ELSE /\ Commit(r, Insert(table, new), [Wrote(r) EXCEPT !.row = NextRow(table)])
                /\ UNCHANGED <<mismatches, report>>

\* A collision of the Stripe id is not caught in create, nor rolled back.
Reactivate(r) ==
    LET t == Written(r, [job[r].loaded EXCEPT !.name = Incoming(r).name, !.active = TRUE,
                                              !.stripe = mismatches[job[r].cur].id])
    IN  /\ job[r].pc = "reactivate"
        /\ IF IsUnique(t)
           THEN Commit(r, t, Wrote(r)) /\ UNCHANGED <<mismatches, report>>
           ELSE Break(r)

-----------------------------------------------------------------------------
Counted(r, status) == Cardinality({m \in job[r].mine : mismatches[m].status = status})

Complete(r) ==
    /\ job[r].pc = "check" /\ job[r].rows = {} /\ job[r].ids = {}
    /\ report' = [report EXCEPT ![r] = [status |-> "completed",
                                        found |-> Cardinality(job[r].mine),
                                        auto |-> Counted(r, "auto_resolved"),
                                        manual |-> Counted(r, "pending")]]
    /\ Goto(r, Over)
    /\ UNCHANGED mismatches

\* The commit of the except branch fails too if the session is broken.
FailReport(r) ==
    /\ job[r].pc = "failing"
    /\ report' = IF job[r].broken THEN report ELSE [report EXCEPT ![r].status = "failed"]
    /\ Goto(r, Over)
    /\ UNCHANGED mismatches

-----------------------------------------------------------------------------
(* resolve_mismatch: a request of an admin.                                *)

Actions == {"sync_to_local", "sync_to_stripe", "link_existing", "noted"}

\* Where a request goes from the mismatch it has read; create_customer raises
\* here too, and an action that does not fit the mismatch only marks it.
FirstStep(mismatch, action) ==
    CASE action = "sync_to_local" /\ mismatch.kind = "missing in local" -> "retrieve"
      [] action = "sync_to_stripe" /\ mismatch.kind = "missing in stripe" -> "failing"
      [] action = "link_existing" ->
            IF mismatch.row # 0 /\ mismatch.id # NoStripe THEN "load" ELSE "failing"
      [] OTHER -> "resolve"

\* Any mismatch can be named, whatever its status.  A request beside a run counts
\* against MaxWrites.
Open(a, m, action) ==
    /\ job[a].pc = "ready"
    /\ LET pc == FirstStep(mismatches[m], action)
       IN  job' = [job EXCEPT ![a].pc = pc, ![a].cur = m,
                              ![a].options = CASE pc = "load" -> {"auto_resolve"}
                                               [] pc = "retrieve" -> {"auto_sync_to_local"}
                                               [] OTHER -> {},
                              ![a].row = IF pc = "load" THEN mismatches[m].row ELSE 0]
    /\ IF UnderWay = {} THEN UNCHANGED writes
       ELSE writes < MaxWrites /\ writes' = writes + 1
    /\ UNCHANGED <<table, stripe, mismatches, report>>

\* The customer as Stripe has it now, with what stands in for what it lacks.
Retrieve(a) ==
    LET s == mismatches[job[a].cur].id
        found == [name |-> IF stripe[s].name = NoName THEN Unknown ELSE stripe[s].name,
                  email |-> IF stripe[s].email = NoEmail THEN mismatches[job[a].cur].email
                            ELSE stripe[s].email]
    IN  /\ job[a].pc = "retrieve"
        /\ \/ /\ s \in InUse(stripe)
              /\ Goto(a, [job[a] EXCEPT !.pc = "find", !.remote[s] = found])
           \/ Goto(a, [job[a] EXCEPT !.pc = "failing"])
        /\ UNCHANGED <<mismatches, report>>

\* The status in a commit of its own; the row created is not noted.
MarkResolved(a) ==
    /\ job[a].pc = "resolve"
    /\ mismatches' = [mismatches EXCEPT ![job[a].cur].status = "manual_resolved",
                                        ![job[a].cur].resolved = TRUE]
    /\ Goto(a, Over)
    /\ UNCHANGED report

\* Whatever the status was before; the commit fails if the session is broken.
MarkFailed(a) ==
    /\ job[a].pc = "failing"
    /\ mismatches' = IF job[a].broken THEN mismatches
                     ELSE [mismatches EXCEPT ![job[a].cur].status = "failed"]
    /\ Goto(a, Over)
    /\ UNCHANGED report

-----------------------------------------------------------------------------
\* The process dies; report and mismatch stay as they are.
Crash(r) ==
    /\ r \in UnderWay
    /\ Goto(r, Over)
    /\ UNCHANGED <<mismatches, report>>

\* A row or a Stripe customer c with one field changed.
Edited(c, values) ==
    UNION {{[c EXCEPT ![f] = v] : v \in values[f] \ {c[f]}} : f \in DOMAIN values}

\* Customer requests, webhooks and the worker meanwhile: a row is inserted or one of
\* its columns written, within the unique indexes, or a Stripe customer changes.
Elsewhere ==
    /\ writes < MaxWrites
    /\ UnderWay # {}
    /\ writes' = writes + 1
    /\ \/ /\ \/ \E row \in Row :
                   row.active /\ ~Collides(table, row) /\ table' = Insert(table, row)
             \/ \E i \in Present(table) :
                   \E row \in Edited(table[i],
                                    [name |-> Names, email |-> Emails, active |-> BOOLEAN,
                                     stripe |-> StripeIds \cup {NoStripe}]) :
                       table' = [table EXCEPT ![i] = row]
          /\ IsUnique(table')
          /\ UNCHANGED stripe
       \/ /\ \/ \E s \in StripeIds, new \in StripeCustomer :
                   stripe[s] = NoCustomer /\ stripe' = [stripe EXCEPT ![s] = new]
             \/ \E s \in InUse(stripe) :
                   \E new \in {NoCustomer} \cup
                               Edited(stripe[s], [name |-> Names \cup {NoName},
                                                  email |-> Emails \cup {NoEmail}]) :
                       stripe' = [stripe EXCEPT ![s] = new]
          /\ UNCHANGED table
    /\ job' = Disturbed
    /\ UNCHANGED <<mismatches, report>>

RunStep(r) ==
    \/ \E options \in OptionSets : Start(r, options)
    \/ ListLocal(r) \/ ListStripe(r)
    \/ \E i \in RowIds : CompareFields(r, i) \/ MissingInStripe(r, i) \/ FoundByEmail(r, i)
    \/ CreateInStripe(r) \/ Resolve(r)
    \/ \E s \in StripeIds : CheckStripe(r, s)
    \/ Complete(r) \/ FailReport(r)

AdminStep(a) ==
    \/ \E m \in DOMAIN mismatches, action \in Actions : Open(a, m, action)
    \/ Retrieve(a) \/ MarkResolved(a) \/ MarkFailed(a)

\* What runs and requests have in common: linking and creating a row.
WriteStep(p) ==
    LoadToLink(p) \/ Link(p) \/ FindToCreate(p) \/ InsertRow(p) \/ Reactivate(p)

Next ==
    \/ Elsewhere
    \/ \E r \in Runs : RunStep(r)
    \/ \E a \in Admins : AdminStep(a)
    \/ \E p \in Procs : WriteStep(p) \/ Crash(p)

Spec == Init /\ [][Next]_vars

-----------------------------------------------------------------------------
\* Every variable has its type, the unique indexes hold, and a run resolves only
\* mismatches it has listed itself.
TypeOK ==
    /\ table \in Tables /\ IsUnique(table)
    /\ stripe \in [StripeIds -> StripeCustomer \cup {NoCustomer}]
    /\ mismatches \in Seq(Mismatch)
    /\ report \in [Runs -> Report]
    /\ DOMAIN job = Procs
    /\ \A r \in Runs :
           /\ job[r].mine \subseteq {m \in DOMAIN mismatches : mismatches[m].run = r}
           /\ job[r].pc \in {"create in stripe", "load", "link", "find", "insert",
                             "reactivate", "resolve"} => job[r].cur \in job[r].mine
    /\ writes \in 0..MaxWrites

\* Run r completes, and nobody else has written since it started.
CompletesAlone(r) ==
    /\ report[r].status = "running" /\ report'[r].status = "completed"
    /\ ~job[r].disturbed

\* What the run left to an admin, who may have dealt with it already.
ForReview(r) ==
    {mismatches[m] : m \in {n \in job[r].mine : mismatches[n].status # "auto_resolved"}}

AutoResolved(r) ==
    {mismatches[m] : m \in {n \in job[r].mine : mismatches[n].status = "auto_resolved"}}

\* The row equals the Stripe customer it is linked to.
InSync(row) ==
    row.stripe \in InUse(stripe) /\ stripe[row.stripe] = [name |-> row.name, email |-> row.email]

\* The row is not on the list, which is full.
CutOff(list, i) == i \notin Present(list) /\ Cardinality(Present(list)) \in ListLimits

\* A run that completes alone forgets no difference but for rows its list has no
\* room for: each other active row equals its Stripe customer, was linked or created
\* by the run, or waits for review; and each Stripe customer has a row, by id or by
\* email, or waits for review.
NothingUnreported ==
    [][\A r \in Runs : CompletesAlone(r) =>
         /\ \A i \in Active(table) :
                \/ InSync(table[i]) \/ CutOff(job[r].local, i)
                \/ \E m \in AutoResolved(r) \cup ForReview(r) :
                       m.row = i /\ (m.resolved \/ m.status # "auto_resolved")
         /\ \A s \in InUse(stripe) :
                \/ \E i \in Active(table) : table[i].stripe = s \/ table[i].email = stripe[s].email
                \/ \E m \in ForReview(r) : m.id = s]_vars

\* What a run that completes alone has recorded as auto_resolved, before it did
\* anything about it, is done: the row is active and has the Stripe id.
AutoResolvedIsDone ==
    [][\A r \in Runs : CompletesAlone(r) =>
         \A m \in AutoResolved(r) :
             m.row \in Active(table) /\ table[m.row].stripe = m.id]_vars

\* Request a marks its mismatch resolved.
MarksResolved(a) ==
    /\ job[a].pc = "resolve" /\ job'[a].pc = "over"
    /\ \/ mismatches' # mismatches
       \/ mismatches[job[a].cur].status = "manual_resolved"

\* A mismatch is marked resolved by hand once the work is done: if the request was
\* to create or to link a row, and nobody else has written since it was opened, an
\* active row, the one the run compared if it did, has the Stripe id.
ManualIsDone ==
    [][\A a \in Admins :
         /\ MarksResolved(a) /\ ~job[a].disturbed
         /\ job[a].options # {}
         => LET m == mismatches[job[a].cur]
            IN  \E i \in Active(table) :
                    /\ table[i].stripe = m.id
                    /\ m.kind # "missing in local" => i = m.row]_vars

\* Runs and requests are additive: they deactivate no row, a link changes nothing
\* else in an active row and is never taken away, and unless others have written
\* meanwhile the rest of an active row is kept by whatever else they do, and a run
\* gives a link only to a row that has none.
Additive ==
    [][\A p \in Procs : (job[p].pc # "resolve" /\ job'[p].pc = "resolve") =>
         \A i \in Active(table) :
             /\ i \in Active(table')
             /\ job[p].pc = "link" \/ ~job[p].disturbed =>
                    \E s \in StripeIds \cup {table[i].stripe} :
                        table'[i] = [table[i] EXCEPT !.stripe = s]
             /\ p \in Runs /\ ~job[p].disturbed /\ table'[i] # table[i]
                    => table[i].stripe = NoStripe]_vars
=============================================================================
