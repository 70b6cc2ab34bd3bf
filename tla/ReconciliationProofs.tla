------------------------ MODULE ReconciliationProofs -------------------------
(***************************************************************************)
(* Theorems about Reconciliation for any number of runs, requests, rows    *)
(* and Stripe customers, any options and any number of writes from outside.*)
(*                                                                         *)
(* The invariants are stated of one run or request p at a time, of its     *)
(* state j over mismatches ms, table t and Stripe account st.              *)
(***************************************************************************)
EXTENDS Reconciliation, CustomerTableProofs, SequenceTheorems

\* At work on the mismatch cur.
Acting == {"create in stripe", "load", "link", "find", "insert", "reactivate", "resolve"}

\* Whether what p does about its mismatch is to leave a linked row behind: not if
\* an admin only notes it.
Links(p, j) == p \in Runs \/ j.options # {}

\* What a run and a request hold at each of their statements.
Shape(p, j, ms, t) ==
    /\ j \in Job
    /\ p \in Runs => j.pc # "retrieve"
    /\ p \in Admins => j.pc \notin {"list local", "list stripe", "check", "create in stripe"}
    /\ j.pc \in {"ready", "over"} => j.rows = {} /\ j.mine = {}
    /\ j.rows \subseteq Present(j.local)
    /\ \A s \in j.ids : j.remote[s] \in StripeCustomer
    /\ \A m \in j.mine : m \in DOMAIN ms /\ ms[m].run = p
    /\ p \in Runs /\ j.pc \in Acting => j.cur \in j.mine
    /\ p \in Admins /\ j.pc \notin {"ready", "over"} => j.cur \in DOMAIN ms
    /\ j.pc \in {"load", "link"} => ms[j.cur].id \in StripeIds /\ j.row \in RowIds
    /\ p \in Runs /\ j.pc \in {"load", "link"} => ms[j.cur].kind # "missing in local"
    /\ j.pc \in {"link", "reactivate"} => j.row \in Present(t) /\ j.loaded \in Row
    /\ j.pc \in {"retrieve", "find", "insert", "reactivate"} =>
           ms[j.cur].kind = "missing in local"
    /\ j.pc \in {"find", "insert", "reactivate"} =>
           /\ ms[j.cur].id \in StripeIds
           /\ j.remote[ms[j.cur].id] \in StripeCustomer
           /\ p \in Runs => j.rows = {}
    /\ j.pc \in {"insert", "reactivate"} =>
           /\ j.remote[ms[j.cur].id].name \in Names
           /\ j.remote[ms[j.cur].id].email \in Emails
    /\ j.pc \in {"load", "link", "resolve"} /\ Links(p, j) =>
           ms[j.cur].kind = "missing in local" \/ ms[j.cur].row = j.row
    /\ /\ p \in Runs /\ j.pc \in {"find", "insert", "reactivate", "resolve"}
       /\ ms[j.cur].kind = "missing in local"
       => ms[j.cur].row = 0

\* The mismatch has an active row that is linked to its Stripe customer.
Settled(mismatch, t) ==
    /\ mismatch.row \in Active(t) /\ mismatch.id \in StripeIds
    /\ t[mismatch.row].stripe = mismatch.id

\* What p still knows of the table while nobody else writes: the row it is about
\* to write is as it was read; the rows it has not checked are as listed, the one
\* it links has no link; what it wrote is there, also for the mismatches before.
Knows(p, j, ms, t) ==
    ~j.disturbed =>
        /\ j.pc = "link" => j.row \in Active(t) /\ j.loaded = t[j.row]
        /\ j.pc = "reactivate" => j.row \notin Active(t) /\ j.loaded = t[j.row]
        /\ p \in Runs => \A i \in j.rows : i \in Active(t) /\ t[i] = j.local[i]
        /\ p \in Runs /\ j.pc \in {"load", "link"} =>
               j.row \in Active(t) \ j.rows /\ t[j.row].stripe = NoStripe
        /\ j.pc = "resolve" /\ Links(p, j) =>
               j.row \in Active(t) /\ t[j.row].stripe = ms[j.cur].id /\ ms[j.cur].id \in StripeIds
        /\ p \in Runs /\ j.pc # "failing" =>
               \A m \in j.mine : \/ ms[m].status # "auto_resolved"
                                 \/ m = j.cur /\ j.pc \in Acting
                                 \/ Settled(ms[m], t)

\* The row was found equal to its Stripe customer, or a mismatch of the run that
\* is not merely announced names it, or is being dealt with, or it is not on the list.
Reported(j, ms, t, i) ==
    \/ /\ t[i].stripe \in InUse(j.remote)
       /\ j.remote[t[i].stripe] = [name |-> t[i].name, email |-> t[i].email]
    \/ \E m \in j.mine :
           /\ ms[m].row = i
           /\ \/ ms[m].resolved \/ ms[m].status # "auto_resolved"
              \/ m = j.cur /\ j.pc \in Acting
    \/ j.pc = "resolve" /\ i = j.row
    \/ CutOff(j.local, i)

\* The rows on the list are there still, with their emails and links.
ListStands(j, t) ==
    \A i \in Present(j.local) :
        /\ i \in Active(t) /\ t[i].email = j.local[i].email
        /\ j.local[i].stripe \in {NoStripe, t[i].stripe}

RowsSeen(j, ms, t) == \A i \in Active(t) \ j.rows : Reported(j, ms, t, i)

\* Stripe customers that have a row, or that a mismatch of the run names.
IdsSeen(j, ms, t, st) ==
    \A s \in InUse(st) \ j.ids :
        \/ \E i \in Active(t) : t[i].stripe = s \/ t[i].email = st[s].email
        \/ \E m \in j.mine : ms[m].id = s

\* What a run has seen to while nobody else writes.
Covers(j, ms, t, st) ==
    ~j.disturbed /\ j.pc \notin {"ready", "list local", "failing", "over"} =>
        /\ ListStands(j, t)
        /\ j.pc = "list stripe" => \A i \in Active(t) \ j.rows : CutOff(j.local, i)
        /\ j.pc # "list stripe" => j.remote = st /\ RowsSeen(j, ms, t) /\ IdsSeen(j, ms, t, st)

-----------------------------------------------------------------------------
(* The invariants.                                                         *)

WorldOK ==
    /\ Sound(table)
    /\ stripe \in [StripeIds -> StripeCustomer \cup {NoCustomer}]
    /\ mismatches \in Seq(Mismatch)
    /\ report \in [Runs -> Report]
    /\ DOMAIN job = Procs
    /\ writes \in 0..MaxWrites

TypeInv == WorldOK /\ \A p \in Procs : Shape(p, job[p], mismatches, table)

KnowsInv == \A p \in Procs : Knows(p, job[p], mismatches, table)

CoversInv == \A r \in Runs : Covers(job[r], mismatches, table, stripe)

IInv == TypeInv /\ KnowsInv /\ CoversInv

-----------------------------------------------------------------------------
(* What steps share.                                                       *)

\* All but the fields F of the job of p are kept by the step.
Keeps(p, F) ==
    \A f \in {"pc", "options", "rows", "ids", "local", "remote", "mine", "cur", "row",
              "loaded", "broken", "disturbed"} \ F : job'[p][f] = job[p][f]

\* The step leaves q alone, but notes that it has changed the customers.
Left(q) ==
    /\ job'[q] \in Job
    /\ Keeps(q, {"disturbed"})
    /\ job[q].disturbed => job'[q].disturbed
    /\ q \in UnderWay /\ (table' # table \/ stripe' # stripe) => job'[q].disturbed

\* A step of p records mismatches and marks them; a row is noted later only for
\* a customer it has created.
Grows(p) ==
    /\ DOMAIN mismatches \subseteq DOMAIN mismatches'
    /\ \A m \in DOMAIN mismatches :
           /\ \A f \in {"run", "kind", "id", "email"} : mismatches'[m][f] = mismatches[m][f]
           /\ mismatches[m].resolved => mismatches'[m].resolved
           /\ mismatches'[m].status = "auto_resolved" => mismatches[m].status = "auto_resolved"
           /\ \/ mismatches'[m].row = mismatches[m].row
              \/ mismatches[m].run = p /\ mismatches[m].kind = "missing in local"

\* What is proved of each step of p, to keep TypeInv.
StepOK(p) ==
    /\ WorldOK'
    /\ Grows(p)
    /\ Present(table) \subseteq Present(table')
    /\ Shape(p, job'[p], mismatches', table')
    /\ \A q \in Procs \ {p} : Left(q)

\* The jobs to begin and to end with.
LEMMA ReadyIs ==
    /\ Ready \in Job /\ Over \in Job /\ Ready.pc = "ready" /\ Over.pc = "over"
    /\ \A j \in {Ready, Over} :
           /\ j.rows = {} /\ j.ids = {} /\ j.mine = {} /\ j.options = {}
           /\ j.disturbed = FALSE
<1>1. EmptyTable \in Tables /\ 0 \in 0..MaxRows /\ 0 \in Nat
    BY TableAssumption DEF EmptyTable, Tables
<1>2. [s \in StripeIds |-> NoCustomer] \in [StripeIds -> StripeCustomer \cup {NoCustomer}]
    OBVIOUS
<1>3. Ready \in Job
    BY <1>1, <1>2 DEF Ready, Job
<1>4. Over \in Job
    BY <1>3 DEF Over, Job
<1> QED BY <1>3, <1>4 DEF Ready, Over

\* Whoever is ready or over has nothing to lose.
LEMMA IdleShape ==
    ASSUME NEW p, NEW j \in {Ready, Over}, NEW ms, NEW t
    PROVE  Shape(p, j, ms, t) /\ Knows(p, j, ms, t)
BY ReadyIs DEF Shape, Knows, Acting

\* Goto leaves everybody else alone.
LEMMA GotoLeaves ==
    ASSUME TypeInv, NEW p \in Procs, NEW j, Goto(p, j)
    PROVE  /\ job'[p] = j /\ DOMAIN job' = Procs
           /\ \A q \in Procs \ {p} : Left(q)
           /\ UNCHANGED <<table, stripe, writes>>
<1>1. DOMAIN job = Procs /\ \A q \in Procs : job[q] \in Job
    BY DEF TypeInv, WorldOK, Shape
<1>2. job' = [job EXCEPT ![p] = j] /\ UNCHANGED <<table, stripe, writes>>
    BY DEF Goto
<1>3. \A q \in Procs \ {p} : job'[q] = job[q]
    BY <1>1, <1>2
<1> QED BY <1>1, <1>2, <1>3 DEF Left, Keeps

\* Whoever is under way when customers change is disturbed, and nothing else
\* happens to it.
LEMMA DisturbedIs ==
    ASSUME NEW q \in Procs, job[q] \in Job
    PROVE  LET d == Disturbed[q]
           IN  /\ d \in Job
               /\ \A f \in {"pc", "options", "rows", "ids", "local", "remote", "mine", "cur",
                            "row", "loaded", "broken"} : d[f] = job[q][f]
               /\ job[q].disturbed => d.disturbed
               /\ q \in UnderWay => d.disturbed
<1>1. Disturbed[q] = [job[q] EXCEPT !.disturbed = job[q].disturbed \/ q \in UnderWay]
    BY DEF Disturbed
<1>2. (job[q].disturbed \/ q \in UnderWay) \in BOOLEAN
    BY DEF Job
<1>3. PICK d, x : d = Disturbed[q] /\ x = (job[q].disturbed \/ q \in UnderWay)
    OBVIOUS
<1>4. d = [job[q] EXCEPT !.disturbed = x] /\ x \in BOOLEAN
    BY <1>1, <1>2, <1>3
<1>5. d \in Job /\ d.disturbed = x
    BY <1>4 DEF Job
<1>6. \A f \in {"pc", "options", "rows", "ids", "local", "remote", "mine", "cur",
                 "row", "loaded", "broken"} : d[f] = job[q][f]
    BY <1>4 DEF Job
<1> QED BY <1>3, <1>5, <1>6

LEMMA CommitLeaves ==
    ASSUME TypeInv, NEW p \in Procs, NEW j, NEW t, Commit(p, t, j)
    PROVE  /\ job'[p] = j /\ DOMAIN job' = Procs /\ table' = t
           /\ \A q \in Procs \ {p} : Left(q)
           /\ UNCHANGED <<stripe, writes>>
<1>1. DOMAIN job = Procs /\ \A q \in Procs : job[q] \in Job
    BY DEF TypeInv, WorldOK, Shape
<1>2. table' = t /\ UNCHANGED <<stripe, writes>>
    BY DEF Commit
<1>3. CASE t = table
    <2>1. job' = [job EXCEPT ![p] = j]
        BY <1>3 DEF Commit
    <2>2. \A q \in Procs \ {p} : job'[q] = job[q]
        BY <1>1, <2>1
    <2> QED BY <1>1, <1>2, <1>3, <2>1, <2>2 DEF Left, Keeps
<1>4. CASE t # table
    <2>1. job' = [Disturbed EXCEPT ![p] = j]
        BY <1>4 DEF Commit
    <2>2. DOMAIN Disturbed = Procs
        BY DEF Disturbed
    <2>3. \A q \in Procs \ {p} : job'[q] = Disturbed[q]
        BY <2>1, <2>2
    <2>4. job'[p] = j /\ DOMAIN job' = Procs
        BY <2>1, <2>2
    <2>5. \A q \in Procs \ {p} : Left(q)
        BY <1>1, <2>3, DisturbedIs DEF Left, Keeps
    <2> QED BY <1>2, <2>4, <2>5
<1> QED BY <1>3, <1>4

\* A mismatch is never forgotten nor turned into another.
LEMMA SameGrows ==
    ASSUME UNCHANGED mismatches, NEW p
    PROVE  Grows(p)
BY DEF Grows

\* In a step of p, mismatch m is marked and becomes new.
Marks(p, m, new) ==
    /\ m \in DOMAIN mismatches /\ new \in Mismatch
    /\ mismatches' = [mismatches EXCEPT ![m] = new]
    /\ new.run = mismatches[m].run /\ new.kind = mismatches[m].kind
    /\ new.id = mismatches[m].id /\ new.email = mismatches[m].email
    /\ mismatches[m].resolved => new.resolved
    /\ new.status = "auto_resolved" => mismatches[m].status = "auto_resolved"
    /\ \/ new.row = mismatches[m].row
       \/ mismatches[m].run = p /\ mismatches[m].kind = "missing in local"

LEMMA EditGrows ==
    ASSUME TypeInv, NEW p, NEW m, NEW new, Marks(p, m, new)
    PROVE  /\ mismatches' \in Seq(Mismatch) /\ Grows(p)
           /\ mismatches'[m] = new
           /\ \A n \in DOMAIN mismatches : n # m => mismatches'[n] = mismatches[n]
           /\ DOMAIN mismatches' = DOMAIN mismatches
<1>1. mismatches \in Seq(Mismatch)
    BY DEF TypeInv, WorldOK
<1>0. m \in DOMAIN mismatches /\ new \in Mismatch
      /\ mismatches' = [mismatches EXCEPT ![m] = new]
    BY DEF Marks
<1>2. /\ mismatches' \in Seq(Mismatch) /\ DOMAIN mismatches' = DOMAIN mismatches
      /\ mismatches'[m] = new
      /\ \A n \in DOMAIN mismatches : n # m => mismatches'[n] = mismatches[n]
    <2>1. m \in 1..Len(mismatches)
        BY <1>0, <1>1, LenProperties
    <2>2. mismatches' \in Seq(Mismatch)
        BY <1>0, <1>1, <2>1, ExceptSeq
    <2> QED BY <1>0, <1>1, <2>2
<1>3. Grows(p)
    BY <1>0, <1>2 DEF Grows, Marks
<1> QED BY <1>2, <1>3

\* Mismatches that are recorded.
LEMMA RecordGrows ==
    ASSUME TypeInv, NEW r \in Runs, NEW ms \in Seq(Mismatch), NEW j, Record(r, ms, j)
    PROVE  /\ mismatches' \in Seq(Mismatch) /\ Grows(r)
           /\ DOMAIN mismatches = 1..Len(mismatches) /\ Len(mismatches) \in Nat
           /\ DOMAIN mismatches' = 1..(Len(mismatches) + Len(ms))
           /\ \A m \in DOMAIN mismatches : mismatches'[m] = mismatches[m]
           /\ \A n \in 1..Len(ms) : mismatches'[Len(mismatches) + n] = ms[n]
<1>1. mismatches \in Seq(Mismatch) /\ mismatches' = mismatches \o ms
    BY DEF TypeInv, WorldOK, Record
<1>2. /\ mismatches' \in Seq(Mismatch)
      /\ DOMAIN mismatches = 1..Len(mismatches) /\ Len(mismatches) \in Nat
      /\ DOMAIN mismatches' = 1..(Len(mismatches) + Len(ms))
      /\ \A m \in DOMAIN mismatches : mismatches'[m] = mismatches[m]
      /\ \A n \in 1..Len(ms) : mismatches'[Len(mismatches) + n] = ms[n]
    BY <1>1
<1>3. Grows(r)
    <2>1. DOMAIN mismatches \subseteq DOMAIN mismatches'
        BY <1>2
    <2> QED BY <1>2, <2>1 DEF Grows
<1> QED BY <1>2, <1>3

\* What is left alone keeps its shape.
LEMMA LeftShape ==
    ASSUME NEW p, NEW q \in Procs \ {p}, Shape(q, job[q], mismatches, table), Left(q),
           Grows(p), Present(table) \subseteq Present(table')
    PROVE  Shape(q, job'[q], mismatches', table')
<1> DEFINE a == job[q]
           b == job'[q]
<1>1. /\ b \in Job /\ a \in Job
      /\ b.pc = a.pc /\ b.options = a.options /\ b.rows = a.rows /\ b.ids = a.ids
      /\ b.local = a.local /\ b.remote = a.remote /\ b.mine = a.mine /\ b.cur = a.cur
      /\ b.row = a.row /\ b.loaded = a.loaded
    BY DEF Left, Keeps, Shape
<1>2. \A m \in DOMAIN mismatches :
          /\ m \in DOMAIN mismatches' /\ mismatches'[m].run = mismatches[m].run
          /\ mismatches'[m].kind = mismatches[m].kind /\ mismatches'[m].id = mismatches[m].id
          /\ \/ mismatches'[m].row = mismatches[m].row
             \/ mismatches[m].run = p /\ mismatches[m].kind = "missing in local"
    BY DEF Grows
<1>3. Shape(q, a, mismatches, table)
    OBVIOUS
<1> HIDE DEF a, b
<1>4. a.pc \in Acting \cup {"retrieve"} => a.cur \in DOMAIN mismatches
    BY <1>3 DEF Shape, Acting, Procs
<1>5. p # q
    OBVIOUS
<1>6. /\ q \in Runs => b.pc # "retrieve"
      /\ q \in Admins => b.pc \notin {"list local", "list stripe", "check", "create in stripe"}
      /\ b.pc \in {"ready", "over"} => b.rows = {} /\ b.mine = {}
      /\ b.rows \subseteq Present(b.local)
      /\ \A s \in b.ids : b.remote[s] \in StripeCustomer
      /\ \A m \in b.mine : m \in DOMAIN mismatches' /\ mismatches'[m].run = q
      /\ q \in Runs /\ b.pc \in Acting => b.cur \in b.mine
      /\ q \in Admins /\ b.pc \notin {"ready", "over"} => b.cur \in DOMAIN mismatches'
    <2>1. /\ q \in Runs => a.pc # "retrieve"
          /\ q \in Admins => a.pc \notin {"list local", "list stripe", "check",
                                           "create in stripe"}
          /\ a.pc \in {"ready", "over"} => a.rows = {} /\ a.mine = {}
          /\ a.rows \subseteq Present(a.local)
          /\ \A s \in a.ids : a.remote[s] \in StripeCustomer
        BY <1>3 DEF Shape
    <2>2. /\ \A m \in a.mine : m \in DOMAIN mismatches /\ mismatches[m].run = q
          /\ q \in Runs /\ a.pc \in Acting => a.cur \in a.mine
          /\ q \in Admins /\ a.pc \notin {"ready", "over"} => a.cur \in DOMAIN mismatches
        BY <1>3 DEF Shape
    <2>3. /\ \A m \in b.mine : m \in DOMAIN mismatches' /\ mismatches'[m].run = q
          /\ q \in Runs /\ b.pc \in Acting => b.cur \in b.mine
          /\ q \in Admins /\ b.pc \notin {"ready", "over"} => b.cur \in DOMAIN mismatches'
        BY <1>1, <1>2, <2>2
    <2> QED BY <1>1, <2>1, <2>3
<1>7. /\ b.pc \in {"load", "link"} => mismatches'[b.cur].id \in StripeIds /\ b.row \in RowIds
      /\ q \in Runs /\ b.pc \in {"load", "link"} =>
             mismatches'[b.cur].kind # "missing in local"
      /\ b.pc \in {"link", "reactivate"} => b.row \in Present(table') /\ b.loaded \in Row
      /\ b.pc \in {"retrieve", "find", "insert", "reactivate"} =>
             mismatches'[b.cur].kind = "missing in local"
      /\ b.pc \in {"find", "insert", "reactivate"} =>
             /\ mismatches'[b.cur].id \in StripeIds
             /\ b.remote[mismatches'[b.cur].id] \in StripeCustomer
             /\ q \in Runs => b.rows = {}
      /\ b.pc \in {"insert", "reactivate"} =>
             /\ b.remote[mismatches'[b.cur].id].name \in Names
             /\ b.remote[mismatches'[b.cur].id].email \in Emails
    <2>1. /\ a.pc \in {"load", "link"} => mismatches[a.cur].id \in StripeIds /\ a.row \in RowIds
          /\ q \in Runs /\ a.pc \in {"load", "link"} =>
                 mismatches[a.cur].kind # "missing in local"
          /\ a.pc \in {"link", "reactivate"} => a.row \in Present(table) /\ a.loaded \in Row
        BY <1>3 DEF Shape
    <2>2. /\ a.pc \in {"retrieve", "find", "insert", "reactivate"} =>
                 mismatches[a.cur].kind = "missing in local"
          /\ a.pc \in {"find", "insert", "reactivate"} =>
                 /\ mismatches[a.cur].id \in StripeIds
                 /\ a.remote[mismatches[a.cur].id] \in StripeCustomer
                 /\ q \in Runs => a.rows = {}
          /\ a.pc \in {"insert", "reactivate"} =>
                 /\ a.remote[mismatches[a.cur].id].name \in Names
                 /\ a.remote[mismatches[a.cur].id].email \in Emails
        BY <1>3 DEF Shape
    <2>3. a.pc \in {"load", "link", "retrieve", "find", "insert", "reactivate"} =>
              /\ mismatches'[a.cur].id = mismatches[a.cur].id
              /\ mismatches'[a.cur].kind = mismatches[a.cur].kind
        BY <1>2, <1>4 DEF Acting
    <2> QED BY <1>1, <2>1, <2>2, <2>3
<1>8. b.pc \in {"load", "link", "resolve"} /\ Links(q, b) =>
          mismatches'[b.cur].kind = "missing in local" \/ mismatches'[b.cur].row = b.row
    BY <1>1, <1>2, <1>3, <1>4 DEF Shape, Acting, Links
<1>9. /\ q \in Runs /\ b.pc \in {"find", "insert", "reactivate", "resolve"}
      /\ mismatches'[b.cur].kind = "missing in local"
      => mismatches'[b.cur].row = 0
    <2> SUFFICES ASSUME q \in Runs, b.pc \in {"find", "insert", "reactivate", "resolve"},
                        mismatches'[b.cur].kind = "missing in local"
                 PROVE  mismatches'[b.cur].row = 0
        OBVIOUS
    <2>1. a.cur \in a.mine /\ a.cur \in DOMAIN mismatches /\ mismatches[a.cur].run = q
        BY <1>1, <1>3 DEF Shape, Acting
    <2>2. mismatches[a.cur].row = 0
        BY <1>1, <1>2, <1>3, <2>1 DEF Shape
    <2> QED BY <1>1, <1>2, <1>5, <2>1, <2>2
<1>10. Shape(q, b, mismatches', table')
    BY <1>1, <1>6, <1>7, <1>8, <1>9 DEF Shape
<1> QED BY <1>10 DEF b

-----------------------------------------------------------------------------
(* The shape of each step: the lists.                                      *)

\* A step that writes no table, and marks no mismatch.
LEMMA ReadOK ==
    ASSUME TypeInv, NEW p \in Procs, NEW j, Goto(p, j), UNCHANGED mismatches,
           report' \in [Runs -> Report], Shape(p, j, mismatches, table)
    PROVE  StepOK(p)
<1>1. job'[p] = j /\ DOMAIN job' = Procs /\ (\A q \in Procs \ {p} : Left(q))
      /\ UNCHANGED <<table, stripe, writes>>
    BY GotoLeaves
<1>2. WorldOK'
    BY <1>1 DEF TypeInv, WorldOK
<1> QED BY <1>1, <1>2, SameGrows DEF StepOK

LEMMA StartOK ==
    ASSUME TypeInv, NEW r \in Runs, NEW options \in OptionSets, Start(r, options)
    PROVE  StepOK(r)
<1> DEFINE j == [job[r] EXCEPT !.pc = "list local", !.options = options]
<1>1. r \in Procs /\ Shape(r, job[r], mismatches, table) /\ job[r].pc = "ready"
    BY DEF TypeInv, Procs, Start
<1>2. options \in SUBSET {"auto_resolve", "auto_sync_to_stripe", "auto_sync_to_local"}
    BY ReconciliationAssumption
<1>3. j \in Job /\ j.pc = "list local" /\ j.options = options /\ j.rows = job[r].rows
      /\ j.ids = job[r].ids /\ j.local = job[r].local /\ j.remote = job[r].remote
      /\ j.mine = job[r].mine
    BY <1>1, <1>2 DEF Shape, Job
<1>4. report' \in [Runs -> Report]
    BY DEF TypeInv, WorldOK, Start, Report
<1>5. Goto(r, j) /\ UNCHANGED mismatches
    BY DEF Start
<1> HIDE DEF j
<1>6. r \notin Admins
    BY ReconciliationAssumption
<1>7. Shape(r, j, mismatches, table)
    BY <1>1, <1>3, <1>6 DEF Shape, Acting
<1> QED BY <1>1, <1>4, <1>5, <1>7, ReadOK

\* Run r has listed the active rows, but for those the list has no room for.
Lists(r, l, j) ==
    /\ Goto(r, j) /\ UNCHANGED <<mismatches, report>>
    /\ j \in Job /\ j.pc = "list stripe" /\ j.options = job[r].options /\ j.rows = Present(l)
    /\ j.ids = job[r].ids /\ j.local = l /\ j.remote = job[r].remote
    /\ j.mine = job[r].mine /\ j.disturbed = job[r].disturbed
    /\ \A i \in Present(l) : i \in Active(table) /\ l[i] = table[i]
    /\ \A i \in Active(table) \ Present(l) : CutOff(l, i)

LEMMA ListLocalIs ==
    ASSUME TypeInv, NEW r \in Runs, ListLocal(r)
    PROVE  job[r].pc = "list local" /\ \E l \in Tables, j \in Job : Lists(r, l, j)
<1>1. job[r] \in Job /\ job[r].pc = "list local"
    BY DEF TypeInv, Shape, Procs, ListLocal
<1>2. /\ table \in Tables /\ Active(table) \subseteq RowIds
      /\ \A i \in Active(table) : table[i] \in Row
    BY NoRowAssumption DEF TypeInv, WorldOK, Sound, Tables, Active, Present
<1>3. PICK limit, listed, l, j :
          /\ limit \in ListLimits /\ listed \in SUBSET Active(table)
          /\ IF Cardinality(Active(table)) <= limit THEN listed = Active(table)
             ELSE Cardinality(listed) = limit
          /\ l = [i \in RowIds |-> IF i \in listed THEN table[i] ELSE NoRow]
          /\ j = [job[r] EXCEPT !.pc = "list stripe", !.rows = listed, !.local = l]
          /\ Goto(r, j) /\ UNCHANGED <<mismatches, report>>
    BY DEF ListLocal
<1>4. l \in Tables /\ Present(l) = listed /\ \A i \in listed : l[i] = table[i]
    BY <1>2, <1>3, NoRowAssumption DEF Tables, Present
<1>5. /\ j \in Job /\ j.pc = "list stripe" /\ j.options = job[r].options /\ j.rows = listed
      /\ j.ids = job[r].ids /\ j.local = l /\ j.remote = job[r].remote
      /\ j.mine = job[r].mine /\ j.disturbed = job[r].disturbed
    BY <1>1, <1>2, <1>3, <1>4 DEF Job
<1>6. ASSUME NEW i \in Active(table) \ listed PROVE CutOff(l, i)
    BY <1>3, <1>4 DEF CutOff
<1>7. Lists(r, l, j)
    BY <1>3, <1>4, <1>5, <1>6 DEF Lists
<1> QED BY <1>1, <1>4, <1>5, <1>7

LEMMA ListLocalOK ==
    ASSUME TypeInv, NEW r \in Runs, ListLocal(r)
    PROVE  StepOK(r)
<1>1. r \in Procs /\ Shape(r, job[r], mismatches, table) /\ job[r].pc = "list local"
    BY DEF TypeInv, Procs, ListLocal
<1>2. PICK l \in Tables, j \in Job : Lists(r, l, j)
    BY ListLocalIs
<1>3. r \notin Admins
    BY ReconciliationAssumption
<1>4. Shape(r, j, mismatches, table)
    BY <1>1, <1>2, <1>3 DEF Shape, Acting, Lists
<1>5. report' \in [Runs -> Report]
    BY <1>2 DEF TypeInv, WorldOK, Lists
<1>6. Goto(r, j) /\ UNCHANGED mismatches
    BY <1>2 DEF Lists
<1> QED BY <1>1, <1>4, <1>5, <1>6, ReadOK

LEMMA ListStripeOK ==
    ASSUME TypeInv, NEW r \in Runs, ListStripe(r)
    PROVE  StepOK(r)
<1>1. r \in Procs /\ Shape(r, job[r], mismatches, table) /\ job[r].pc = "list stripe"
    BY DEF TypeInv, Procs, ListStripe
<1>2. r \notin Admins /\ report' \in [Runs -> Report] /\ UNCHANGED mismatches
    BY ReconciliationAssumption DEF ListStripe, TypeInv, WorldOK
<1>3. CASE Goto(r, [job[r] EXCEPT !.pc = "check", !.ids = InUse(stripe), !.remote = stripe])
    <2> DEFINE j == [job[r] EXCEPT !.pc = "check", !.ids = InUse(stripe), !.remote = stripe]
    <2>1. /\ stripe \in [StripeIds -> StripeCustomer \cup {NoCustomer}]
          /\ InUse(stripe) \subseteq StripeIds
          /\ \A s \in InUse(stripe) : stripe[s] \in StripeCustomer
        BY DEF TypeInv, WorldOK, InUse
    <2>2. j \in Job /\ j.pc = "check" /\ j.rows = job[r].rows /\ j.ids = InUse(stripe)
          /\ j.local = job[r].local /\ j.remote = stripe /\ j.mine = job[r].mine
        BY <1>1, <2>1 DEF Shape, Job
    <2>3. Goto(r, j)
        BY <1>3
    <2> HIDE DEF j
    <2>4. Shape(r, j, mismatches, table)
        BY <1>1, <1>2, <2>1, <2>2 DEF Shape, Acting
    <2> QED BY <1>1, <1>2, <2>3, <2>4, ReadOK
<1>4. CASE Goto(r, [job[r] EXCEPT !.pc = "failing"])
    <2> DEFINE j == [job[r] EXCEPT !.pc = "failing"]
    <2>1. j \in Job /\ j.pc = "failing" /\ j.rows = job[r].rows /\ j.ids = job[r].ids
          /\ j.local = job[r].local /\ j.remote = job[r].remote /\ j.mine = job[r].mine
        BY <1>1 DEF Shape, Job
    <2>2. Goto(r, j)
        BY <1>4
    <2> HIDE DEF j
    <2>3. Shape(r, j, mismatches, table)
        BY <1>1, <1>2, <2>1 DEF Shape, Acting
    <2> QED BY <1>1, <1>2, <2>2, <2>3, ReadOK
<1> QED BY <1>3, <1>4 DEF ListStripe

-----------------------------------------------------------------------------
(* The shape of each step: the comparison.                                 *)

\* The places of N mismatches that are recorded after L others.
LEMMA Places ==
    ASSUME NEW L \in Nat, NEW N \in Nat
    PROVE  /\ (L + 1)..(L + N) \subseteq Nat /\ L + N \in Nat
           /\ \A m \in 1..L : m \in 1..(L + N)
           /\ \A m \in (L + 1)..(L + N) : m - L \in 1..N /\ m = L + (m - L) /\ m \in 1..(L + N)
           /\ N = 1 => 1 \in 1..N /\ L + N = L + 1 /\ L + N \in (L + 1)..(L + N)
OBVIOUS

\* The mismatches of a step are recorded; a run goes on to deal with a lone one.
LEMMA RecordOK ==
    ASSUME TypeInv, NEW r \in Runs, NEW ms \in Seq(Mismatch), \A n \in 1..Len(ms) : ms[n].run = r,
           NEW j \in Job, Record(r, ms, j), j.mine = job[r].mine,
           j.rows \subseteq Present(j.local), \A s \in j.ids : j.remote[s] \in StripeCustomer,
           \/ j.pc = "check"
           \/ Len(ms) = 1 /\ j.pc = "create in stripe"
           \/ /\ Len(ms) = 1 /\ j.pc = "load"
              /\ ms[1].id \in StripeIds /\ ms[1].row = j.row /\ j.row \in RowIds
              /\ ms[1].kind = "link"
           \/ /\ Len(ms) = 1 /\ j.pc = "find" /\ j.rows = {}
              /\ ms[1].id \in StripeIds /\ j.remote[ms[1].id] \in StripeCustomer
              /\ ms[1].kind = "missing in local" /\ ms[1].row = 0
    PROVE  StepOK(r)
<1>0. Len(mismatches) \in Nat /\ Len(ms) \in Nat
    BY LenProperties DEF TypeInv, WorldOK
<1>1. r \in Procs /\ Shape(r, job[r], mismatches, table) /\ r \notin Admins
    BY ReconciliationAssumption DEF TypeInv, Procs
<1>2. PICK L \in Nat, N \in Nat : L = Len(mismatches) /\ N = Len(ms)
    BY <1>0
<1> DEFINE b == [j EXCEPT !.mine = @ \cup (L + 1)..(L + N), !.cur = L + N]
<1>3. /\ mismatches' \in Seq(Mismatch) /\ Grows(r)
      /\ DOMAIN mismatches = 1..L /\ DOMAIN mismatches' = 1..(L + N)
      /\ \A m \in DOMAIN mismatches : mismatches'[m] = mismatches[m]
      /\ \A n \in 1..N : mismatches'[L + n] = ms[n]
    BY <1>2, RecordGrows
<1>4. Goto(r, b) /\ UNCHANGED report
    BY <1>2 DEF Record
<1>5. job'[r] = b /\ DOMAIN job' = Procs /\ (\A q \in Procs \ {r} : Left(q))
      /\ UNCHANGED <<table, stripe, writes>>
    BY <1>1, <1>4, GotoLeaves
<1>6. WorldOK'
    BY <1>3, <1>4, <1>5 DEF TypeInv, WorldOK
<1>7. /\ b \in Job /\ b.pc = j.pc /\ b.rows = j.rows /\ b.ids = j.ids /\ b.local = j.local
      /\ b.remote = j.remote /\ b.row = j.row /\ b.options = j.options
      /\ b.mine = job[r].mine \cup (L + 1)..(L + N) /\ b.cur = L + N
    <2>1. (L + 1)..(L + N) \subseteq Nat /\ L + N \in Nat
        BY Places, Zenon
    <2> QED BY <2>1 DEF Job
<1> HIDE DEF b
<1>8. \A m \in b.mine : m \in DOMAIN mismatches' /\ mismatches'[m].run = r
    <2>1. ASSUME NEW m \in job[r].mine
          PROVE  m \in DOMAIN mismatches' /\ mismatches'[m].run = r
        <3>1. m \in DOMAIN mismatches /\ mismatches[m].run = r
            BY <1>1 DEF Shape
        <3>2. m \in 1..(L + N)
            BY <1>3, <3>1, Places, Zenon
        <3> QED BY <1>3, <3>1, <3>2
    <2>2. ASSUME NEW m \in (L + 1)..(L + N)
          PROVE  m \in DOMAIN mismatches' /\ mismatches'[m].run = r
        <3>1. m - L \in 1..N /\ m = L + (m - L) /\ m \in 1..(L + N)
            BY Places, Zenon
        <3>2. ms[m - L].run = r
            BY <1>2, <3>1
        <3>3. mismatches'[m] = ms[m - L]
            BY <1>3, <3>1
        <3> QED BY <1>3, <3>1, <3>2, <3>3
    <2> QED BY <1>7, <2>1, <2>2
<1>10. Len(ms) = 1 => b.cur \in b.mine /\ mismatches'[b.cur] = ms[1]
    <2> SUFFICES ASSUME N = 1 PROVE b.cur \in b.mine /\ mismatches'[b.cur] = ms[1]
        BY <1>2
    <2>1. 1 \in 1..N /\ L + N = L + 1 /\ L + N \in (L + 1)..(L + N)
        BY Places
    <2> QED BY <1>3, <1>7, <2>1
<1>9. Shape(r, b, mismatches', table)
    <2>1. CASE j.pc = "check"
        BY <1>1, <1>7, <1>8, <2>1 DEF Shape, Acting
    <2>2. CASE Len(ms) = 1 /\ j.pc = "create in stripe"
        BY <1>1, <1>7, <1>8, <1>10, <2>2 DEF Shape, Acting
    <2>3. CASE /\ Len(ms) = 1 /\ j.pc = "load"
               /\ ms[1].id \in StripeIds /\ ms[1].row = j.row /\ j.row \in RowIds
               /\ ms[1].kind = "link"
        BY <1>1, <1>7, <1>8, <1>10, <2>3 DEF Shape, Acting
    <2>4. CASE /\ Len(ms) = 1 /\ j.pc = "find" /\ j.rows = {}
               /\ ms[1].id \in StripeIds /\ j.remote[ms[1].id] \in StripeCustomer
               /\ ms[1].kind = "missing in local" /\ ms[1].row = 0
        BY <1>1, <1>7, <1>8, <1>10, <2>4 DEF Shape, Acting
    <2> QED BY <2>1, <2>2, <2>3, <2>4
<1> QED BY <1>3, <1>5, <1>6, <1>9 DEF StepOK

\* What a run knows of a row of the list.
LEMMA ListedRow ==
    ASSUME NEW j \in Job, j.rows \subseteq Present(j.local), NEW i \in j.rows
    PROVE  i \in RowIds /\ j.local[i] \in Row /\ i \in Present(j.local)
BY DEF Job, Tables, Present

LEMMA Lone ==
    ASSUME NEW e \in Mismatch
    PROVE  /\ <<e>> \in Seq(Mismatch) /\ Len(<<e>>) = 1 /\ <<e>>[1] = e
           /\ \A n \in 1..Len(<<e>>) : <<e>>[n] = e
OBVIOUS

\* Run r goes on as j with its lists; only what is still to be checked has changed.
GoesOn(r, j) ==
    /\ j \in Job /\ j.local = job[r].local /\ j.remote = job[r].remote
    /\ j.mine = job[r].mine /\ j.disturbed = job[r].disturbed
    /\ j.rows \subseteq job[r].rows /\ j.ids \subseteq job[r].ids

\* What comparing row i records, in ms, before r goes on as j.
FieldsDiffer(r, i, ms, j) ==
    /\ Record(r, ms, j) /\ GoesOn(r, j) /\ j.pc = "check"
    /\ j.rows = job[r].rows \ {i} /\ j.ids = job[r].ids
    /\ \A n \in 1..Len(ms) : ms[n].run = r /\ ms[n].row = i /\ ms[n].status = "pending"
    /\ \/ 1 \in 1..Len(ms)
       \/ /\ job[r].local[i].stripe \in InUse(job[r].remote)
          /\ job[r].remote[job[r].local[i].stripe] =
                 [name |-> job[r].local[i].name, email |-> job[r].local[i].email]

\* r records d, that row i is not in Stripe, and goes on as j.
NotInStripe(r, i, d, j) ==
    /\ Record(r, <<d>>, j) /\ GoesOn(r, j)
    /\ j.rows = job[r].rows \ {i} /\ j.ids = job[r].ids
    /\ d.run = r /\ d.row = i
    /\ j.pc = "create in stripe" \/ (j.pc = "check" /\ d.status = "pending")

\* r records d, that row i can be linked, and goes on as j.
CanBeLinked(r, i, d, j) ==
    /\ Record(r, <<d>>, j) /\ GoesOn(r, j)
    /\ j.rows = job[r].rows \ {i} /\ j.ids = job[r].ids /\ j.row = i
    /\ d.run = r /\ d.row = i /\ d.id \in StripeIds /\ d.kind = "link"
    /\ j.pc = "load" \/ (j.pc = "check" /\ d.status = "pending")

\* r records d, that Stripe customer s has no row, and goes on as j.
NotInTable(r, s, d, j) ==
    /\ Record(r, <<d>>, j) /\ GoesOn(r, j) /\ j.rows = {} /\ j.ids = job[r].ids \ {s}
    /\ d.run = r /\ d.id = s /\ d.row = 0 /\ d.kind = "missing in local"
    /\ j.pc = "find" \/ (j.pc = "check" /\ d.status = "pending")

LEMMA CompareFieldsIs ==
    ASSUME TypeInv, NEW r \in Runs, NEW i \in RowIds, CompareFields(r, i)
    PROVE  \E ms \in Seq(Mismatch), j \in Job : FieldsDiffer(r, i, ms, j)
<1> DEFINE a == job[r]
           s == a.local[i].stripe
           d == Difference(r, "field", i, s, a.local[i].email, FALSE)
           f == IF a.remote[s].name # a.local[i].name THEN <<d>> ELSE <<>>
           g == IF a.remote[s].email # a.local[i].email THEN <<d>> ELSE <<>>
           j == [a EXCEPT !.rows = @ \ {i}]
<1>1. Shape(r, a, mismatches, table)
    BY DEF TypeInv, Procs
<1>2. /\ a.pc = "check" /\ i \in a.rows /\ s \in InUse(a.remote)
      /\ Record(r, f \o g, j)
    BY DEF CompareFields
<1>3. a \in Job /\ a.local[i] \in Row
    BY <1>1, <1>2, ListedRow DEF Shape
<1>4. j \in Job /\ j.pc = "check" /\ j.rows = a.rows \ {i} /\ j.ids = a.ids
      /\ j.local = a.local /\ j.remote = a.remote /\ j.mine = a.mine
      /\ j.disturbed = a.disturbed
    BY <1>2, <1>3 DEF Job
<1>5. i \in 0..MaxRows /\ s \in StripeIds \cup {NoStripe} /\ a.local[i].email \in Emails
    BY <1>3, TableAssumption DEF Row, RowIds
<1>6. /\ a.remote[s] # NoCustomer
      /\ a.remote[s] \in StripeCustomer
    BY <1>2, <1>3 DEF InUse, Job
<1>7. \/ a.remote[s].name # a.local[i].name
      \/ a.remote[s].email # a.local[i].email
      \/ a.remote[s] = [name |-> a.local[i].name, email |-> a.local[i].email]
    BY <1>6 DEF StripeCustomer
<1> HIDE DEF j, s
<1>8. d \in Mismatch /\ d.run = r /\ d.row = i /\ d.status = "pending"
    BY <1>5 DEF Difference, Mismatch
<1> HIDE DEF d
<1>9. /\ f \o g \in Seq(Mismatch)
      /\ \A n \in 1..Len(f \o g) : (f \o g)[n] = d
      /\ f = <<d>> \/ g = <<d>> => 1 \in 1..Len(f \o g)
    <2>1. f \in Seq(Mismatch) /\ g \in Seq(Mismatch)
        BY <1>8
    <2>2. (\A n \in 1..Len(f) : f[n] = d) /\ (\A n \in 1..Len(g) : g[n] = d)
        BY <1>8
    <2>3. f = <<d>> => 1 <= Len(f)
        BY <1>8
    <2>4. g = <<d>> => 1 <= Len(g)
        BY <1>8
    <2> HIDE DEF f, g
    <2>5. \A n \in 1..Len(f \o g) : (f \o g)[n] = d
        BY <2>1, <2>2
    <2> QED BY <2>1, <2>3, <2>4, <2>5
<1>10. 1 \in 1..Len(f \o g) \/ a.remote[s] = [name |-> a.local[i].name, email |-> a.local[i].email]
    BY <1>7, <1>9
<1> HIDE DEF f, g
<1>11. GoesOn(r, j)
    BY <1>4 DEF GoesOn
<1>12. \A n \in 1..Len(f \o g) : /\ (f \o g)[n].run = r /\ (f \o g)[n].row = i
                                 /\ (f \o g)[n].status = "pending"
    BY <1>8, <1>9
<1>13. PICK ms \in Seq(Mismatch) : ms = f \o g
    BY <1>9
<1>14. FieldsDiffer(r, i, ms, j)
    BY <1>2, <1>4, <1>10, <1>11, <1>12, <1>13 DEF s, FieldsDiffer
<1> QED BY <1>4, <1>14

LEMMA CompareFieldsOK ==
    ASSUME TypeInv, NEW r \in Runs, NEW i \in RowIds, CompareFields(r, i)
    PROVE  StepOK(r)
<1>1. PICK ms \in Seq(Mismatch), j \in Job : FieldsDiffer(r, i, ms, j)
    BY CompareFieldsIs
<1>2. Shape(r, job[r], mismatches, table)
    BY DEF TypeInv, Procs
<1>3. j.mine = job[r].mine /\ j.rows \subseteq Present(j.local)
      /\ \A s \in j.ids : j.remote[s] \in StripeCustomer
    BY <1>1, <1>2 DEF Shape, GoesOn, FieldsDiffer
<1>4. Record(r, ms, j) /\ j.pc = "check" /\ \A n \in 1..Len(ms) : ms[n].run = r
    BY <1>1 DEF FieldsDiffer
<1> QED BY <1>1, <1>3, <1>4, RecordOK

LEMMA MissingInStripeIs ==
    ASSUME TypeInv, NEW r \in Runs, NEW i \in RowIds, MissingInStripe(r, i)
    PROVE  /\ job[r].pc = "check"
           /\ \E d \in Mismatch, j \in Job : NotInStripe(r, i, d, j)
<1> DEFINE a == job[r]
           s == a.local[i].stripe
           auto == "auto_sync_to_stripe" \in a.options
           d == Difference(r, "missing in stripe", i, s, a.local[i].email, auto)
           j == [a EXCEPT !.pc = IF auto THEN "create in stripe" ELSE @, !.rows = @ \ {i}]
<1>1. Shape(r, a, mismatches, table)
    BY DEF TypeInv, Procs
<1>2. a.pc = "check" /\ i \in a.rows /\ Record(r, <<d>>, j)
    BY DEF MissingInStripe
<1>3. a \in Job /\ a.local[i] \in Row
    BY <1>1, <1>2, ListedRow DEF Shape
<1>4. j \in Job /\ j.pc = (IF auto THEN "create in stripe" ELSE "check")
      /\ j.rows = a.rows \ {i} /\ j.ids = a.ids /\ j.local = a.local /\ j.remote = a.remote
      /\ j.mine = a.mine /\ j.disturbed = a.disturbed
    BY <1>2, <1>3 DEF Job
<1>5. i \in 0..MaxRows /\ s \in StripeIds \cup {NoStripe} /\ a.local[i].email \in Emails
    BY <1>3, TableAssumption DEF Row, RowIds
<1>6. auto \in BOOLEAN
    OBVIOUS
<1> HIDE DEF j, s, auto
<1>7. d \in Mismatch /\ d.run = r /\ d.row = i
      /\ d.status = (IF auto THEN "auto_resolved" ELSE "pending")
    BY <1>5, <1>6 DEF Difference, Mismatch
<1> HIDE DEF d
<1>8. GoesOn(r, j)
    BY <1>4 DEF GoesOn
<1>9. NotInStripe(r, i, d, j)
    BY <1>2, <1>4, <1>7, <1>8 DEF NotInStripe
<1> QED BY <1>2, <1>4, <1>7, <1>9

LEMMA MissingInStripeOK ==
    ASSUME TypeInv, NEW r \in Runs, NEW i \in RowIds, MissingInStripe(r, i)
    PROVE  StepOK(r)
<1>1. PICK d \in Mismatch, j \in Job : NotInStripe(r, i, d, j)
    BY MissingInStripeIs
<1>2. Shape(r, job[r], mismatches, table)
    BY DEF TypeInv, Procs
<1>3. j.mine = job[r].mine /\ j.rows \subseteq Present(j.local)
      /\ \A s \in j.ids : j.remote[s] \in StripeCustomer
    BY <1>1, <1>2 DEF Shape, GoesOn, NotInStripe
<1>4. /\ Record(r, <<d>>, j) /\ d.run = r
      /\ j.pc \in {"check", "create in stripe"}
    BY <1>1 DEF NotInStripe
<1>5. <<d>> \in Seq(Mismatch) /\ Len(<<d>>) = 1 /\ \A n \in 1..Len(<<d>>) : <<d>>[n].run = r
    BY <1>1, <1>4, Lone
<1> QED BY <1>1, <1>3, <1>4, <1>5, RecordOK

LEMMA FoundByEmailIs ==
    ASSUME TypeInv, NEW r \in Runs, NEW i \in RowIds, FoundByEmail(r, i)
    PROVE  /\ job[r].pc = "check" /\ i \in job[r].rows /\ job[r].local[i].stripe = NoStripe
           /\ \E d \in Mismatch, j \in Job : CanBeLinked(r, i, d, j)
<1> DEFINE a == job[r]
           auto == "auto_resolve" \in a.options
           j == [a EXCEPT !.pc = IF auto THEN "load" ELSE @, !.row = i, !.rows = @ \ {i}]
           d(s) == Difference(r, "link", i, s, a.local[i].email, auto)
<1>1. Shape(r, a, mismatches, table)
    BY DEF TypeInv, Procs
<1>2. a.pc = "check" /\ i \in a.rows /\ a.local[i].stripe = NoStripe
    BY DEF FoundByEmail
<1>3. PICK s \in Matches(a, i) : Record(r, <<d(s)>>, j)
    BY DEF FoundByEmail
<1>4. a \in Job /\ a.local[i] \in Row /\ s \in StripeIds
    BY <1>1, <1>2, ListedRow DEF Shape, Matches, InUse
<1>5. i \in 0..MaxRows /\ a.local[i].email \in Emails
    BY <1>4, TableAssumption DEF Row, RowIds
<1>6. j \in Job /\ j.pc = (IF auto THEN "load" ELSE "check") /\ j.rows = a.rows \ {i}
      /\ j.row = i /\ j.ids = a.ids /\ j.local = a.local /\ j.remote = a.remote
      /\ j.mine = a.mine /\ j.disturbed = a.disturbed
    BY <1>2, <1>4, <1>5 DEF Job
<1>7. auto \in BOOLEAN
    OBVIOUS
<1> HIDE DEF j, auto
<1>8. PICK e : e = d(s)
    OBVIOUS
<1>9. e \in Mismatch /\ e.run = r /\ e.id = s /\ e.row = i /\ e.kind = "link"
      /\ e.status = (IF auto THEN "auto_resolved" ELSE "pending")
    BY <1>4, <1>5, <1>7, <1>8 DEF Difference, Mismatch
<1>10. Record(r, <<e>>, j)
    BY <1>3, <1>8
<1> HIDE DEF d
<1>11. GoesOn(r, j)
    BY <1>6 DEF GoesOn
<1>12. CanBeLinked(r, i, e, j)
    BY <1>2, <1>4, <1>6, <1>9, <1>10, <1>11 DEF CanBeLinked
<1> QED BY <1>2, <1>6, <1>9, <1>12

LEMMA FoundByEmailOK ==
    ASSUME TypeInv, NEW r \in Runs, NEW i \in RowIds, FoundByEmail(r, i)
    PROVE  StepOK(r)
<1>1. PICK d \in Mismatch, j \in Job : CanBeLinked(r, i, d, j)
    BY FoundByEmailIs
<1>2. Shape(r, job[r], mismatches, table)
    BY DEF TypeInv, Procs
<1>3. j.mine = job[r].mine /\ j.rows \subseteq Present(j.local)
      /\ \A s \in j.ids : j.remote[s] \in StripeCustomer
    BY <1>1, <1>2 DEF Shape, GoesOn, CanBeLinked
<1>4. /\ Record(r, <<d>>, j) /\ j.pc \in {"check", "load"} /\ j.row = i
      /\ d.run = r /\ d.row = i /\ d.id \in StripeIds /\ d.kind = "link"
    BY <1>1 DEF CanBeLinked
<1>5. <<d>> \in Seq(Mismatch) /\ Len(<<d>>) = 1 /\ <<d>>[1] = d
      /\ \A n \in 1..Len(<<d>>) : <<d>>[n].run = r
    BY <1>1, <1>4, Lone
<1> QED BY <1>1, <1>3, <1>4, <1>5, RecordOK

LEMMA CheckStripeIs ==
    ASSUME TypeInv, NEW r \in Runs, NEW s \in StripeIds, CheckStripe(r, s)
    PROVE  /\ job[r].pc = "check" /\ job[r].rows = {} /\ s \in job[r].ids
           /\ \E j \in Job :
                  \/ /\ GoesOn(r, j) /\ j.rows = {} /\ j.ids = job[r].ids \ {s}
                     /\ j.pc = "check" /\ KnownLocally(job[r], s)
                     /\ Goto(r, j) /\ UNCHANGED <<mismatches, report>>
                  \/ \E d \in Mismatch : NotInTable(r, s, d, j)
<1> DEFINE a == job[r]
           next == [a EXCEPT !.ids = @ \ {s}]
           auto == "auto_sync_to_local" \in a.options
           j == IF auto THEN [next EXCEPT !.pc = "find"] ELSE next
           d == Difference(r, "missing in local", 0, s, a.remote[s].email, auto)
<1>1. Shape(r, a, mismatches, table)
    BY DEF TypeInv, Procs
<1>2. a.pc = "check" /\ a.rows = {} /\ s \in a.ids
      /\ \/ KnownLocally(a, s) /\ Goto(r, next) /\ UNCHANGED <<mismatches, report>>
         \/ Record(r, <<d>>, j)
    BY DEF CheckStripe
<1>3. a \in Job /\ a.remote[s] \in StripeCustomer
    BY <1>1, <1>2 DEF Shape
<1>4. next \in Job /\ next.pc = "check" /\ next.rows = {} /\ next.ids = a.ids \ {s}
      /\ next.local = a.local /\ next.remote = a.remote /\ next.mine = a.mine
      /\ next.disturbed = a.disturbed
    BY <1>2, <1>3 DEF Job
<1>5. j \in Job /\ j.pc = (IF auto THEN "find" ELSE "check") /\ j.rows = {}
      /\ j.ids = a.ids \ {s} /\ j.local = a.local /\ j.remote = a.remote /\ j.mine = a.mine
      /\ j.disturbed = a.disturbed
    BY <1>2, <1>3 DEF Job
<1>6. auto \in BOOLEAN /\ 0 \in 0..MaxRows /\ a.remote[s].email \in Emails \cup {NoEmail}
    BY <1>3, TableAssumption DEF StripeCustomer
<1> HIDE DEF j, next, auto
<1>7. d \in Mismatch /\ d.run = r /\ d.id = s /\ d.row = 0 /\ d.kind = "missing in local"
      /\ d.status = (IF auto THEN "auto_resolved" ELSE "pending")
    BY <1>6 DEF Difference, Mismatch
<1> HIDE DEF d
<1>8. GoesOn(r, j) /\ GoesOn(r, next)
    BY <1>2, <1>4, <1>5 DEF GoesOn
<1>9. CASE KnownLocally(a, s) /\ Goto(r, next) /\ UNCHANGED <<mismatches, report>>
    BY <1>2, <1>4, <1>8, <1>9
<1>10. CASE Record(r, <<d>>, j)
    <2>1. NotInTable(r, s, d, j)
        BY <1>5, <1>7, <1>8, <1>10 DEF NotInTable
    <2> QED BY <1>2, <1>5, <1>7, <2>1
<1> QED BY <1>2, <1>9, <1>10

LEMMA CheckStripeOK ==
    ASSUME TypeInv, NEW r \in Runs, NEW s \in StripeIds, CheckStripe(r, s)
    PROVE  StepOK(r)
<1>1. s \in job[r].ids /\ Shape(r, job[r], mismatches, table) /\ r \in Procs /\ r \notin Admins
    BY CheckStripeIs, ReconciliationAssumption DEF TypeInv, Procs
<1>2. ASSUME NEW j \in Job, GoesOn(r, j)
      PROVE  /\ j.mine = job[r].mine /\ j.rows \subseteq Present(j.local)
             /\ (\A q \in j.ids : j.remote[q] \in StripeCustomer)
             /\ j.remote[s] \in StripeCustomer
    BY <1>1, <1>2 DEF Shape, GoesOn
<1>3. PICK j \in Job :
          \/ /\ GoesOn(r, j) /\ j.rows = {} /\ j.ids = job[r].ids \ {s}
             /\ j.pc = "check" /\ KnownLocally(job[r], s)
             /\ Goto(r, j) /\ UNCHANGED <<mismatches, report>>
          \/ \E d \in Mismatch : NotInTable(r, s, d, j)
    BY CheckStripeIs
<1>4. CASE GoesOn(r, j) /\ j.pc = "check" /\ Goto(r, j) /\ UNCHANGED <<mismatches, report>>
    <2>1. Shape(r, j, mismatches, table)
        BY <1>1, <1>2, <1>4 DEF Shape, Acting
    <2>2. report' \in [Runs -> Report]
        BY <1>4 DEF TypeInv, WorldOK
    <2> QED BY <1>1, <1>4, <2>1, <2>2, ReadOK
<1>5. CASE \E d \in Mismatch : NotInTable(r, s, d, j)
    <2>1. PICK d \in Mismatch : NotInTable(r, s, d, j)
        BY <1>5
    <2>2. /\ Record(r, <<d>>, j) /\ GoesOn(r, j) /\ j.pc \in {"check", "find"} /\ j.rows = {}
          /\ d.run = r /\ d.id = s /\ d.row = 0 /\ d.kind = "missing in local"
        BY <2>1 DEF NotInTable
    <2>3. <<d>> \in Seq(Mismatch) /\ Len(<<d>>) = 1 /\ <<d>>[1] = d
          /\ \A n \in 1..Len(<<d>>) : <<d>>[n].run = r
        <3>1. /\ <<d>> \in Seq(Mismatch) /\ Len(<<d>>) = 1 /\ <<d>>[1] = d
              /\ \A n \in 1..Len(<<d>>) : <<d>>[n] = d
            BY Lone
        <3> QED BY <2>2, <3>1
    <2>4. /\ j \in Job /\ j.mine = job[r].mine /\ j.rows \subseteq Present(j.local)
          /\ \A v \in j.ids : j.remote[v] \in StripeCustomer
          /\ d.id \in StripeIds /\ j.remote[d.id] \in StripeCustomer
        BY <1>2, <2>2 DEF GoesOn
    <2>5. PICK ms \in Seq(Mismatch) : ms = <<d>>
        BY <2>3
    <2> QED BY <2>2, <2>3, <2>4, <2>5, RecordOK
<1> QED BY <1>3, <1>4, <1>5

-----------------------------------------------------------------------------
(* The shape of each step: what is done about a mismatch.                  *)

\* A step that marks a mismatch.
LEMMA MarkOK ==
    ASSUME TypeInv, NEW p \in Procs, NEW j, Goto(p, j), report' \in [Runs -> Report],
           mismatches' \in Seq(Mismatch), Grows(p), Shape(p, j, mismatches', table)
    PROVE  StepOK(p)
<1>1. job'[p] = j /\ DOMAIN job' = Procs /\ (\A q \in Procs \ {p} : Left(q))
      /\ UNCHANGED <<table, stripe, writes>>
    BY GotoLeaves
<1>2. WorldOK'
    BY <1>1 DEF TypeInv, WorldOK
<1> QED BY <1>1, <1>2 DEF StepOK

\* A step that writes the table.
LEMMA CommitOK ==
    ASSUME TypeInv, NEW p \in Procs, NEW j, NEW t, Commit(p, t, j), Sound(t),
           UNCHANGED <<mismatches, report>>, Present(table) \subseteq Present(t),
           Shape(p, j, mismatches, t)
    PROVE  StepOK(p)
<1>1. job'[p] = j /\ DOMAIN job' = Procs /\ (\A q \in Procs \ {p} : Left(q))
      /\ table' = t /\ UNCHANGED <<stripe, writes>>
    BY CommitLeaves
<1>2. WorldOK'
    BY <1>1 DEF TypeInv, WorldOK
<1> QED BY <1>1, <1>2, SameGrows DEF StepOK

\* A run is back at its lists, and a run or a request can always fail.
LEMMA BackShape ==
    ASSUME TypeInv, NEW p \in Procs, NEW pc,
           pc = "failing" \/ (p \in Runs /\ pc = "check"), job[p].pc \notin {"ready", "over"},
           Grows(p), NEW t
    PROVE  /\ Shape(p, [job[p] EXCEPT !.pc = pc], mismatches', t)
           /\ Shape(p, [job[p] EXCEPT !.pc = pc, !.broken = TRUE], mismatches', t)
<1>1. Shape(p, job[p], mismatches, table) /\ job[p] \in Job
    BY DEF TypeInv, Shape
<1>2. pc \in {"check", "failing"}
    OBVIOUS
<1>3. SUFFICES ASSUME NEW j \in Job,
                      /\ j.pc = pc /\ j.rows = job[p].rows /\ j.ids = job[p].ids
                      /\ j.local = job[p].local /\ j.remote = job[p].remote
                      /\ j.mine = job[p].mine /\ j.cur = job[p].cur
               PROVE  Shape(p, j, mismatches', t)
    BY <1>1, <1>2 DEF Job
<1>4. \A m \in DOMAIN mismatches :
          m \in DOMAIN mismatches' /\ mismatches'[m].run = mismatches[m].run
    BY DEF Grows
<1>5. \A m \in j.mine : m \in DOMAIN mismatches' /\ mismatches'[m].run = p
    BY <1>1, <1>3, <1>4 DEF Shape
<1>6. p \in Admins => p \notin Runs /\ j.cur \in DOMAIN mismatches'
    BY <1>1, <1>3, <1>4, ReconciliationAssumption DEF Shape
<1> QED BY <1>1, <1>2, <1>3, <1>5, <1>6 DEF Shape, Acting

\* A unique index stands in the way.
LEMMA BreakOK ==
    ASSUME TypeInv, NEW p \in Procs, Break(p), job[p].pc \notin {"ready", "over"}
    PROVE  StepOK(p)
<1> DEFINE j == [job[p] EXCEPT !.pc = "failing", !.broken = TRUE]
<1>1. Goto(p, j) /\ UNCHANGED <<mismatches, report>>
    BY DEF Break
<1>2. Shape(p, j, mismatches', table)
    BY <1>1, SameGrows, BackShape
<1> HIDE DEF j
<1> QED BY <1>1, <1>2, ReadOK DEF TypeInv, WorldOK

\* The mismatch that p is at.
LEMMA CurType ==
    ASSUME TypeInv, NEW p \in Procs,
           job[p].pc \in Acting \cup {"retrieve"} \/ (p \in Admins /\ job[p].pc = "failing")
    PROVE  /\ job[p].cur \in DOMAIN mismatches /\ mismatches[job[p].cur] \in Mismatch
           /\ p \in Runs => mismatches[job[p].cur].run = p
<1>1. Shape(p, job[p], mismatches, table) /\ mismatches \in Seq(Mismatch)
    BY DEF TypeInv, WorldOK
<1>2. job[p].cur \in DOMAIN mismatches /\ (p \in Runs => mismatches[job[p].cur].run = p)
    BY <1>1, ReconciliationAssumption DEF Shape, Acting, Procs
<1> QED BY <1>1, <1>2

\* The mismatch of a run is for manual review after all.
LEMMA PendingGrows ==
    ASSUME TypeInv, NEW r \in Procs, job[r].pc \in Acting,
           mismatches' = [mismatches EXCEPT ![job[r].cur].status = "pending"]
    PROVE  /\ mismatches' \in Seq(Mismatch) /\ Grows(r)
           /\ mismatches'[job[r].cur].status = "pending"
           /\ DOMAIN mismatches' = DOMAIN mismatches
           /\ \A m \in DOMAIN mismatches : m # job[r].cur => mismatches'[m] = mismatches[m]
           /\ mismatches'[job[r].cur].row = mismatches[job[r].cur].row
           /\ mismatches'[job[r].cur].id = mismatches[job[r].cur].id
<1>1. PICK c : c = job[r].cur
    OBVIOUS
<1>2. c \in DOMAIN mismatches /\ mismatches[c] \in Mismatch
    BY <1>1, CurType
<1>3. PICK new : new = [mismatches[c] EXCEPT !.status = "pending"]
    OBVIOUS
<1>4. new \in Mismatch /\ new.status = "pending" /\ new.run = mismatches[c].run
      /\ new.kind = mismatches[c].kind /\ new.id = mismatches[c].id
      /\ new.email = mismatches[c].email /\ new.row = mismatches[c].row
      /\ new.resolved = mismatches[c].resolved
    BY <1>2, <1>3 DEF Mismatch
<1>5. mismatches' = [mismatches EXCEPT ![c] = new]
    BY <1>1, <1>3
<1>6. Marks(r, c, new)
    BY <1>2, <1>4, <1>5 DEF Marks
<1>7. /\ mismatches' \in Seq(Mismatch) /\ Grows(r) /\ mismatches'[c] = new
      /\ \A n \in DOMAIN mismatches : n # c => mismatches'[n] = mismatches[n]
      /\ DOMAIN mismatches' = DOMAIN mismatches
    BY <1>6, EditGrows
<1> QED BY <1>1, <1>4, <1>7

LEMMA CreateInStripeOK ==
    ASSUME TypeInv, NEW r \in Runs, CreateInStripe(r)
    PROVE  StepOK(r)
<1> DEFINE j == [job[r] EXCEPT !.pc = "check"]
<1>1. /\ r \in Procs /\ job[r].pc = "create in stripe" /\ Goto(r, j) /\ UNCHANGED report
      /\ mismatches' = [mismatches EXCEPT ![job[r].cur].status = "pending"]
    BY DEF CreateInStripe, Procs
<1>2. mismatches' \in Seq(Mismatch) /\ Grows(r)
    BY <1>1, PendingGrows DEF Acting
<1>3. Shape(r, j, mismatches', table)
    BY <1>1, <1>2, BackShape
<1> HIDE DEF j
<1> QED BY <1>1, <1>2, <1>3, MarkOK DEF TypeInv, WorldOK

LEMMA GiveUpOK ==
    ASSUME TypeInv, NEW p \in Procs, job[p].pc \in {"find", "insert"}, GiveUp(p)
    PROVE  StepOK(p)
<1>1. CASE p \in Runs
    <2> DEFINE j == [job[p] EXCEPT !.pc = "check"]
    <2>1. /\ Goto(p, j) /\ UNCHANGED report
          /\ mismatches' = [mismatches EXCEPT ![job[p].cur].status = "pending"]
        BY <1>1 DEF GiveUp
    <2>2. mismatches' \in Seq(Mismatch) /\ Grows(p)
        BY <2>1, PendingGrows DEF Acting
    <2>3. Shape(p, j, mismatches', table)
        BY <1>1, <2>2, BackShape
    <2> HIDE DEF j
    <2> QED BY <2>1, <2>2, <2>3, MarkOK DEF TypeInv, WorldOK
<1>2. CASE p \notin Runs
    <2> DEFINE j == [job[p] EXCEPT !.pc = "failing"]
    <2>1. Goto(p, j) /\ UNCHANGED <<mismatches, report>>
        BY <1>2 DEF GiveUp
    <2>2. Shape(p, j, mismatches', table)
        BY <2>1, SameGrows, BackShape
    <2> HIDE DEF j
    <2> QED BY <2>1, <2>2, ReadOK DEF TypeInv, WorldOK
<1> QED BY <1>1, <1>2

LEMMA LoadToLinkOK ==
    ASSUME TypeInv, NEW p \in Procs, LoadToLink(p)
    PROVE  StepOK(p)
<1>1. Shape(p, job[p], mismatches, table) /\ job[p].pc = "load"
      /\ report' \in [Runs -> Report] /\ UNCHANGED mismatches
    BY DEF TypeInv, WorldOK, LoadToLink
<1>2. CASE job[p].row \in Active(table)
    <2> DEFINE j == [job[p] EXCEPT !.pc = "link", !.loaded = table[job[p].row]]
    <2>1. Goto(p, j)
        BY <1>2 DEF LoadToLink
    <2>2. job[p].row \in Present(table) /\ table[job[p].row] \in Row
        BY <1>2, PresentRow DEF TypeInv, WorldOK, Sound, Active
    <2>3. /\ j \in Job /\ j.pc = "link" /\ j.loaded = table[job[p].row] /\ j.row = job[p].row
          /\ j.rows = job[p].rows /\ j.ids = job[p].ids /\ j.local = job[p].local
          /\ j.remote = job[p].remote /\ j.mine = job[p].mine /\ j.cur = job[p].cur
          /\ j.options = job[p].options
        BY <1>1, <2>2 DEF Shape, Job
    <2> HIDE DEF j
    <2>4. Shape(p, j, mismatches, table)
        BY <1>1, <2>2, <2>3 DEF Shape, Acting, Links
    <2> QED BY <1>1, <2>1, <2>4, ReadOK
<1>3. CASE job[p].row \notin Active(table)
    <2>1. PICK pc : pc = IF p \in Runs THEN "check" ELSE "failing"
        OBVIOUS
    <2> DEFINE j == [job[p] EXCEPT !.pc = pc]
    <2>2. Goto(p, j)
        BY <1>3, <2>1 DEF LoadToLink
    <2>3. Shape(p, j, mismatches', table)
        BY <1>1, <2>1, SameGrows, BackShape
    <2> HIDE DEF j
    <2> QED BY <1>1, <2>2, <2>3, ReadOK
<1> QED BY <1>2, <1>3

\* The row that p has written: it is still to be noted.
LEMMA WroteShape ==
    ASSUME TypeInv, NEW p \in Procs, job[p].pc \in {"link", "insert", "reactivate"},
           NEW row \in RowIds, job[p].pc = "link" => row = job[p].row, NEW t
    PROVE  LET j == [Wrote(p) EXCEPT !.row = row]
           IN  /\ Shape(p, j, mismatches, t)
               /\ j.pc = "resolve" /\ j.row = row /\ j.rows = job[p].rows /\ j.ids = job[p].ids
               /\ j.local = job[p].local /\ j.remote = job[p].remote
               /\ j.mine = job[p].mine /\ j.cur = job[p].cur /\ j.options = job[p].options
               /\ j.disturbed = job[p].disturbed
<1> DEFINE j == [Wrote(p) EXCEPT !.row = row]
<1>1. Shape(p, job[p], mismatches, table) /\ job[p] \in Job /\ row \in 0..MaxRows
    <2>1. row \in 0..MaxRows
        BY TableAssumption DEF RowIds
    <2> QED BY <2>1 DEF TypeInv, Shape
<1>2. /\ j \in Job /\ j.pc = "resolve" /\ j.row = row
      /\ j.rows = job[p].rows /\ j.ids = job[p].ids /\ j.local = job[p].local
      /\ j.remote = job[p].remote /\ j.mine = job[p].mine /\ j.cur = job[p].cur
      /\ j.options = job[p].options /\ j.disturbed = job[p].disturbed
    BY <1>1 DEF Wrote, Job
<1> HIDE DEF j
<1>3. Shape(p, j, mismatches, t)
    BY <1>1, <1>2 DEF Shape, Acting, Links
<1> QED BY <1>2, <1>3 DEF j

\* The table after a row that was loaded and edited is written.
LEMMA WrittenSound ==
    ASSUME TypeInv, NEW p \in Procs, job[p].pc \in {"link", "reactivate"},
           NEW edited \in Row, NEW t, t = Written(p, edited), IsUnique(t)
    PROVE  Sound(t) /\ Present(t) = Present(table) /\ job[p].row \in RowIds
<1>1. job[p].row \in Present(table) /\ job[p].loaded \in Row /\ Sound(table)
    BY DEF TypeInv, WorldOK, Shape
<1>2. t \in Tables /\ Present(t) = Present(table)
    BY <1>1, FlushRow DEF Sound, Written
<1> QED BY <1>1, <1>2 DEF Sound, Filled, Present

LEMMA WriteOK ==
    ASSUME TypeInv, NEW p \in Procs, job[p].pc \in {"link", "reactivate"},
           NEW edited \in Row, NEW t, t = Written(p, edited), IsUnique(t),
           Commit(p, t, Wrote(p)), UNCHANGED <<mismatches, report>>
    PROVE  StepOK(p)
<1>1. Sound(t) /\ Present(t) = Present(table) /\ job[p].row \in RowIds
    BY WrittenSound
<1>2. job[p] \in Job
    BY DEF TypeInv, Shape
<1>3. Wrote(p) = [Wrote(p) EXCEPT !.row = job[p].row]
    BY <1>2 DEF Wrote, Job
<1>4. Shape(p, Wrote(p), mismatches, t)
    BY <1>1, <1>3, WroteShape
<1> QED BY <1>1, <1>4, CommitOK

LEMMA LinkOK ==
    ASSUME TypeInv, NEW p \in Procs, Link(p)
    PROVE  StepOK(p)
<1> DEFINE e == [job[p].loaded EXCEPT !.stripe = mismatches[job[p].cur].id]
           t == Written(p, e)
<1>1. job[p].pc = "link" /\ Shape(p, job[p], mismatches, table)
    BY DEF TypeInv, Link
<1>2. job[p].loaded \in Row /\ mismatches[job[p].cur].id \in StripeIds
    BY <1>1 DEF Shape
<1>3. e \in Row
    BY <1>2 DEF Row
<1>4. CASE IsUnique(t)
    <2>1. Commit(p, t, Wrote(p)) /\ UNCHANGED <<mismatches, report>>
        BY <1>4 DEF Link
    <2> HIDE DEF e
    <2> QED BY <1>1, <1>3, <1>4, <2>1, WriteOK
<1>5. CASE ~IsUnique(t)
    <2>1. Break(p)
        BY <1>5 DEF Link
    <2> QED BY <1>1, <2>1, BreakOK
<1> QED BY <1>4, <1>5

LEMMA ReactivateOK ==
    ASSUME TypeInv, NEW p \in Procs, Reactivate(p)
    PROVE  StepOK(p)
<1> DEFINE e == [job[p].loaded EXCEPT !.name = Incoming(p).name, !.active = TRUE,
                                      !.stripe = mismatches[job[p].cur].id]
           t == Written(p, e)
<1>1. job[p].pc = "reactivate" /\ Shape(p, job[p], mismatches, table)
    BY DEF TypeInv, Reactivate
<1>2. job[p].loaded \in Row /\ mismatches[job[p].cur].id \in StripeIds
      /\ Incoming(p).name \in Names
    BY <1>1 DEF Shape, Incoming
<1>3. e \in Row
    BY <1>2 DEF Row
<1>4. CASE IsUnique(t)
    <2>1. Commit(p, t, Wrote(p)) /\ UNCHANGED <<mismatches, report>>
        BY <1>4 DEF Reactivate
    <2> HIDE DEF e
    <2> QED BY <1>1, <1>3, <1>4, <2>1, WriteOK
<1>5. CASE ~IsUnique(t)
    <2>1. Break(p)
        BY <1>5 DEF Reactivate
    <2> QED BY <1>1, <2>1, BreakOK
<1> QED BY <1>4, <1>5

LEMMA FindToCreateOK ==
    ASSUME TypeInv, NEW p \in Procs, FindToCreate(p)
    PROVE  StepOK(p)
<1>1. Shape(p, job[p], mismatches, table) /\ job[p].pc = "find" /\ job[p] \in Job
      /\ report \in [Runs -> Report]
    BY DEF TypeInv, WorldOK, FindToCreate, Shape
<1>2. Incoming(p) \in StripeCustomer
    BY <1>1 DEF Shape, Incoming
<1>3. CASE GiveUp(p)
    BY <1>1, <1>3, GiveUpOK
<1>4. CASE ~GiveUp(p)
    <2>1. /\ Incoming(p).name \in Names /\ Incoming(p).email \in Emails
          /\ UNCHANGED <<mismatches, report>>
        BY <1>2, <1>4 DEF FindToCreate, StripeCustomer
    <2>2. CASE Goto(p, [job[p] EXCEPT !.pc = "insert"])
        <3> DEFINE j == [job[p] EXCEPT !.pc = "insert"]
        <3>1. /\ j \in Job /\ j.pc = "insert" /\ j.loaded = job[p].loaded /\ j.row = job[p].row
              /\ j.rows = job[p].rows /\ j.ids = job[p].ids /\ j.local = job[p].local
              /\ j.remote = job[p].remote /\ j.mine = job[p].mine /\ j.cur = job[p].cur
              /\ j.options = job[p].options
            BY <1>1 DEF Job
        <3> HIDE DEF j
        <3>2. Shape(p, j, mismatches, table)
            BY <1>1, <2>1, <3>1 DEF Shape, Acting, Links, Incoming
        <3>3. Goto(p, j)
            BY <2>2 DEF j
        <3> QED BY <1>1, <2>1, <3>2, <3>3, ReadOK
    <2>3. CASE \E i \in WithEmail(table, Incoming(p).email) :
                   Goto(p, [job[p] EXCEPT !.pc = "reactivate", !.row = i, !.loaded = table[i]])
        <3>1. PICK i \in WithEmail(table, Incoming(p).email) :
                   Goto(p, [job[p] EXCEPT !.pc = "reactivate", !.row = i, !.loaded = table[i]])
            BY <2>3
        <3> DEFINE j == [job[p] EXCEPT !.pc = "reactivate", !.row = i, !.loaded = table[i]]
        <3>2. i \in Present(table) /\ i \in RowIds /\ table[i] \in Row /\ i \in 0..MaxRows
            BY PresentRow, TableAssumption DEF TypeInv, WorldOK, Sound, WithEmail, RowIds
        <3>3. /\ j \in Job /\ j.pc = "reactivate" /\ j.loaded = table[i] /\ j.row = i
              /\ j.rows = job[p].rows /\ j.ids = job[p].ids /\ j.local = job[p].local
              /\ j.remote = job[p].remote /\ j.mine = job[p].mine /\ j.cur = job[p].cur
              /\ j.options = job[p].options
            BY <1>1, <3>2 DEF Job
        <3> HIDE DEF j
        <3>4. Shape(p, j, mismatches, table)
            BY <1>1, <2>1, <3>2, <3>3 DEF Shape, Acting, Links, Incoming
        <3>5. Goto(p, j)
            BY <3>1 DEF j
        <3> QED BY <1>1, <2>1, <3>4, <3>5, ReadOK
    <2> QED BY <1>4, <2>2, <2>3 DEF FindToCreate
<1> QED BY <1>3, <1>4

\* The row of a customer that Stripe has.
NewRow(p) ==
    [name |-> Incoming(p).name, email |-> Incoming(p).email,
     stripe |-> mismatches[job[p].cur].id, active |-> TRUE]

LEMMA InsertRowOK ==
    ASSUME TypeInv, NEW p \in Procs, InsertRow(p)
    PROVE  StepOK(p)
<1>1. Shape(p, job[p], mismatches, table) /\ job[p].pc = "insert" /\ Sound(table)
    BY DEF TypeInv, WorldOK, InsertRow
<1>2. NewRow(p) \in Row
    BY <1>1 DEF Shape, NewRow, Incoming, Row
<1>3. CASE Collides(table, NewRow(p))
    <2>1. GiveUp(p)
        BY <1>3 DEF InsertRow, NewRow
    <2> QED BY <1>1, <2>1, GiveUpOK
<1>4. CASE ~Collides(table, NewRow(p))
    <2> DEFINE t == Insert(table, NewRow(p))
               j == [Wrote(p) EXCEPT !.row = NextRow(table)]
    <2>1. Commit(p, t, j) /\ UNCHANGED <<mismatches, report>>
        BY <1>4 DEF InsertRow, NewRow
    <2>2. Sound(t) /\ Present(table) \subseteq Present(t) /\ NextRow(table) \in RowIds
        BY <1>1, <1>2, <1>4, InsertSound
    <2>3. Shape(p, j, mismatches, t)
        BY <1>1, <2>2, WroteShape
    <2> HIDE DEF t, j
    <2> QED BY <2>1, <2>2, <2>3, CommitOK
<1> QED BY <1>3, <1>4

\* What is noted once a row is linked or created.
LEMMA ResolveOK ==
    ASSUME TypeInv, NEW r \in Runs, Resolve(r)
    PROVE  /\ StepOK(r)
           /\ Marks(r, job[r].cur, [mismatches[job[r].cur] EXCEPT !.resolved = TRUE,
                                                                  !.row = job[r].row])
<1> DEFINE j == [job[r] EXCEPT !.pc = "check"]
<1>1. /\ r \in Procs /\ Shape(r, job[r], mismatches, table) /\ job[r].pc = "resolve"
      /\ job[r] \in Job /\ Goto(r, j) /\ UNCHANGED report
    BY DEF TypeInv, Procs, Resolve, Shape
<1>2. PICK c : c = job[r].cur
    OBVIOUS
<1>3. c \in DOMAIN mismatches /\ mismatches[c] \in Mismatch /\ mismatches[c].run = r
    BY <1>1, <1>2, CurType DEF Acting
<1>4. PICK new : new = [mismatches[c] EXCEPT !.resolved = TRUE, !.row = job[r].row]
    OBVIOUS
<1>5. /\ new \in Mismatch /\ new.status = mismatches[c].status /\ new.run = mismatches[c].run
      /\ new.kind = mismatches[c].kind /\ new.id = mismatches[c].id
      /\ new.email = mismatches[c].email /\ new.row = job[r].row /\ new.resolved
    BY <1>1, <1>3, <1>4 DEF Mismatch, Job
<1>6. mismatches' = [mismatches EXCEPT ![c] = new]
    <2>1. mismatches' = [mismatches EXCEPT ![c].resolved = TRUE, ![c].row = job[r].row]
        BY <1>2 DEF Resolve
    <2>2. mismatches \in Seq(Mismatch)
        BY DEF TypeInv, WorldOK
    <2> QED BY <1>3, <1>4, <2>1, <2>2
<1>7. mismatches[c].kind = "missing in local" \/ mismatches[c].row = job[r].row
    BY <1>1, <1>2 DEF Shape, Links
<1>8. Marks(r, c, new)
    BY <1>3, <1>5, <1>6, <1>7 DEF Marks
<1>9. mismatches' \in Seq(Mismatch) /\ Grows(r)
    BY <1>8, EditGrows
<1>10. Shape(r, j, mismatches', table)
    BY <1>1, <1>9, BackShape
<1> HIDE DEF j
<1>11. StepOK(r)
    BY <1>1, <1>9, <1>10, MarkOK DEF TypeInv, WorldOK
<1> QED BY <1>2, <1>4, <1>8, <1>11

\* Whoever ends leaves nothing behind but its mismatches.
LEMMA OverOK ==
    ASSUME TypeInv, NEW p \in Procs, Goto(p, Over), mismatches' \in Seq(Mismatch), Grows(p),
           report' \in [Runs -> Report]
    PROVE  StepOK(p)
<1>1. Shape(p, Over, mismatches', table)
    BY IdleShape
<1> QED BY <1>1, MarkOK

\* The mismatches of a run are counted.
LEMMA CountedNat ==
    ASSUME TypeInv, NEW r \in Runs
    PROVE  /\ IsFiniteSet(job[r].mine) /\ Cardinality(job[r].mine) \in Nat
           /\ \A status : Counted(r, status) \in Nat
<1>1. mismatches \in Seq(Mismatch) /\ \A m \in job[r].mine : m \in DOMAIN mismatches
    BY DEF TypeInv, WorldOK, Shape, Procs
<1>2. Len(mismatches) \in Nat /\ DOMAIN mismatches = 1..Len(mismatches)
    BY <1>1
<1>3. IsFiniteSet(DOMAIN mismatches)
    BY <1>2, FS_Interval
<1>4. IsFiniteSet(job[r].mine)
    BY <1>1, <1>3, FS_Subset
<1>5. \A status : IsFiniteSet({m \in job[r].mine : mismatches[m].status = status})
    BY <1>4, FS_Subset
<1> QED BY <1>4, <1>5, FS_CardinalityType DEF Counted

LEMMA CompleteOK ==
    ASSUME TypeInv, NEW r \in Runs, Complete(r)
    PROVE  StepOK(r)
<1>1. Goto(r, Over) /\ UNCHANGED mismatches /\ r \in Procs
    BY DEF Complete, Procs
<1>2. PICK f, g, h : f = Cardinality(job[r].mine) /\ g = Counted(r, "auto_resolved")
                     /\ h = Counted(r, "pending")
    OBVIOUS
<1>3. f \in Nat /\ g \in Nat /\ h \in Nat
    BY <1>2, CountedNat
<1>4. report' = [report EXCEPT ![r] = [status |-> "completed", found |-> f, auto |-> g,
                                       manual |-> h]]
    BY <1>2 DEF Complete
<1>5. report' \in [Runs -> Report]
    BY <1>3, <1>4 DEF TypeInv, WorldOK, Report
<1>6. mismatches' \in Seq(Mismatch)
    BY <1>1 DEF TypeInv, WorldOK
<1> QED BY <1>1, <1>5, <1>6, SameGrows, OverOK

LEMMA FailReportOK ==
    ASSUME TypeInv, NEW r \in Runs, FailReport(r)
    PROVE  StepOK(r)
<1>1. Goto(r, Over) /\ UNCHANGED mismatches /\ r \in Procs
    BY DEF FailReport, Procs
<1>2. report' \in [Runs -> Report]
    BY DEF FailReport, TypeInv, WorldOK, Report
<1>3. mismatches' \in Seq(Mismatch)
    BY <1>1 DEF TypeInv, WorldOK
<1> QED BY <1>1, <1>2, <1>3, SameGrows, OverOK

LEMMA CrashOK ==
    ASSUME TypeInv, NEW p \in Procs, Crash(p)
    PROVE  StepOK(p)
<1>1. Goto(p, Over) /\ UNCHANGED <<mismatches, report>>
    BY DEF Crash
<1>2. report' \in [Runs -> Report] /\ mismatches' \in Seq(Mismatch)
    BY <1>1 DEF TypeInv, WorldOK
<1> QED BY <1>1, <1>2, SameGrows, OverOK

\* A request marks its mismatch.
LEMMA MarkResolvedOK ==
    ASSUME TypeInv, NEW a \in Admins, MarkResolved(a)
    PROVE  /\ StepOK(a)
           /\ Marks(a, job[a].cur, [mismatches[job[a].cur] EXCEPT !.status = "manual_resolved",
                                                                  !.resolved = TRUE])
<1>1. /\ a \in Procs /\ job[a].pc = "resolve" /\ Goto(a, Over) /\ UNCHANGED report
      /\ report \in [Runs -> Report]
    BY DEF TypeInv, WorldOK, Procs, MarkResolved
<1>2. PICK c : c = job[a].cur
    OBVIOUS
<1>3. c \in DOMAIN mismatches /\ mismatches[c] \in Mismatch
    BY <1>1, <1>2, CurType DEF Acting
<1>4. PICK new : new = [mismatches[c] EXCEPT !.status = "manual_resolved", !.resolved = TRUE]
    OBVIOUS
<1>5. /\ new \in Mismatch /\ new.status = "manual_resolved" /\ new.run = mismatches[c].run
      /\ new.kind = mismatches[c].kind /\ new.id = mismatches[c].id
      /\ new.email = mismatches[c].email /\ new.row = mismatches[c].row /\ new.resolved
    BY <1>3, <1>4 DEF Mismatch
<1>6. mismatches' = [mismatches EXCEPT ![c] = new]
    <2>1. mismatches' = [mismatches EXCEPT ![c].status = "manual_resolved",
                                           ![c].resolved = TRUE]
        BY <1>2 DEF MarkResolved
    <2>2. mismatches \in Seq(Mismatch)
        BY DEF TypeInv, WorldOK
    <2> QED BY <1>3, <1>4, <2>1, <2>2
<1>7. Marks(a, c, new)
    BY <1>3, <1>5, <1>6 DEF Marks
<1>8. mismatches' \in Seq(Mismatch) /\ Grows(a)
    BY <1>7, EditGrows
<1>9. StepOK(a)
    BY <1>1, <1>8, OverOK
<1> QED BY <1>2, <1>4, <1>7, <1>9

LEMMA MarkFailedOK ==
    ASSUME TypeInv, NEW a \in Admins, MarkFailed(a)
    PROVE  StepOK(a)
<1>1. /\ a \in Procs /\ job[a].pc = "failing" /\ Goto(a, Over) /\ UNCHANGED report
      /\ report \in [Runs -> Report] /\ mismatches \in Seq(Mismatch)
    BY DEF TypeInv, WorldOK, Procs, MarkFailed
<1>2. mismatches' \in Seq(Mismatch) /\ Grows(a)
    <2>1. CASE UNCHANGED mismatches
        BY <1>1, <2>1, SameGrows
    <2>2. CASE mismatches' = [mismatches EXCEPT ![job[a].cur].status = "failed"]
        <3>1. PICK c : c = job[a].cur
            OBVIOUS
        <3>2. c \in DOMAIN mismatches /\ mismatches[c] \in Mismatch
            BY <1>1, <3>1, CurType
        <3>3. PICK new : new = [mismatches[c] EXCEPT !.status = "failed"]
            OBVIOUS
        <3>4. /\ new \in Mismatch /\ new.status = "failed" /\ new.run = mismatches[c].run
              /\ new.kind = mismatches[c].kind /\ new.id = mismatches[c].id
              /\ new.email = mismatches[c].email /\ new.row = mismatches[c].row
              /\ new.resolved = mismatches[c].resolved
            BY <3>2, <3>3 DEF Mismatch
        <3>5. mismatches' = [mismatches EXCEPT ![c] = new]
            BY <2>2, <3>1, <3>3
        <3>6. Marks(a, c, new)
            BY <3>2, <3>4, <3>5 DEF Marks
        <3> QED BY <3>6, EditGrows
    <2> QED BY <2>1, <2>2 DEF MarkFailed
<1> QED BY <1>1, <1>2, OverOK

\* A request is opened: it reads its mismatch.
LEMMA OpenOK ==
    ASSUME TypeInv, NEW a \in Admins, NEW m \in DOMAIN mismatches, NEW action \in Actions,
           Open(a, m, action)
    PROVE  /\ StepOK(a)
           /\ job'[a].pc \in {"retrieve", "failing", "load", "resolve"}
           /\ job'[a].pc = "resolve" => job'[a].options = {}
           /\ UNCHANGED <<table, stripe, mismatches>>
<1>1. /\ a \in Procs /\ Shape(a, job[a], mismatches, table) /\ job[a].pc = "ready"
      /\ job[a] \in Job /\ a \notin Runs /\ DOMAIN job = Procs
      /\ \A q \in Procs : job[q] \in Job
    BY ReconciliationAssumption DEF TypeInv, WorldOK, Procs, Open, Shape
<1>2. PICK pc : pc = FirstStep(mismatches[m], action)
    OBVIOUS
<1>3. mismatches \in Seq(Mismatch) /\ mismatches[m] \in Mismatch /\ m \in Nat
    BY DEF TypeInv, WorldOK
<1>4. /\ pc \in {"retrieve", "failing", "load", "resolve"}
      /\ pc = "retrieve" => mismatches[m].kind = "missing in local"
      /\ pc = "load" => mismatches[m].row # 0 /\ mismatches[m].id # NoStripe
    BY <1>2 DEF FirstStep, Actions
<1>5. pc = "load" => mismatches[m].row \in RowIds /\ mismatches[m].id \in StripeIds
    <2>1. mismatches[m].row \in 0..MaxRows /\ mismatches[m].id \in StripeIds \cup {NoStripe}
        BY <1>3 DEF Mismatch
    <2> QED BY <1>4, <2>1, TableAssumption DEF RowIds
<1>6. PICK options, row :
          /\ options = CASE pc = "load" -> {"auto_resolve"}
                         [] pc = "retrieve" -> {"auto_sync_to_local"}
                         [] OTHER -> {}
          /\ row = IF pc = "load" THEN mismatches[m].row ELSE 0
    OBVIOUS
<1>7. /\ options \in SUBSET {"auto_resolve", "auto_sync_to_stripe", "auto_sync_to_local"}
      /\ row \in 0..MaxRows
      /\ pc \in {"failing", "resolve"} => options = {}
      /\ pc = "load" => row = mismatches[m].row
    <2>1. 0 \in 0..MaxRows /\ RowIds \subseteq 0..MaxRows
        BY TableAssumption DEF RowIds
    <2> QED BY <1>4, <1>5, <1>6, <2>1
<1>8. job' = [job EXCEPT ![a].pc = pc, ![a].cur = m, ![a].options = options, ![a].row = row]
    BY <1>2, <1>6 DEF Open
<1> DEFINE j == [job[a] EXCEPT !.pc = pc, !.cur = m, !.options = options, !.row = row]
<1>9. /\ j \in Job /\ j.pc = pc /\ j.cur = m /\ j.options = options /\ j.row = row
      /\ j.rows = job[a].rows /\ j.ids = job[a].ids /\ j.local = job[a].local
      /\ j.remote = job[a].remote /\ j.mine = job[a].mine
    BY <1>1, <1>3, <1>4, <1>7 DEF Job
<1>10. job'[a] = j /\ DOMAIN job' = Procs /\ \A q \in Procs \ {a} : job'[q] = job[q]
    BY <1>1, <1>8
<1> HIDE DEF j
<1>11. UNCHANGED <<table, stripe, mismatches, report>>
    BY DEF Open
<1>12. writes' \in 0..MaxWrites
    <2>1. UNCHANGED writes \/ (writes < MaxWrites /\ writes' = writes + 1)
        BY DEF Open
    <2>2. writes \in 0..MaxWrites /\ MaxWrites \in Nat
        BY ReconciliationAssumption DEF TypeInv, WorldOK
    <2> QED BY <2>1, <2>2
<1>13. Shape(a, j, mismatches, table)
    BY <1>1, <1>4, <1>5, <1>7, <1>9 DEF Shape, Acting, Links
<1>14. WorldOK'
    BY <1>10, <1>11, <1>12 DEF TypeInv, WorldOK
<1>15. \A q \in Procs \ {a} : Left(q)
    BY <1>1, <1>10, <1>11 DEF Left, Keeps
<1>16. StepOK(a)
    BY <1>10, <1>11, <1>13, <1>14, <1>15, SameGrows DEF StepOK
<1> QED BY <1>4, <1>7, <1>9, <1>10, <1>11, <1>16

LEMMA RetrieveOK ==
    ASSUME TypeInv, NEW a \in Admins, Retrieve(a)
    PROVE  StepOK(a)
<1>1. /\ a \in Procs /\ Shape(a, job[a], mismatches, table) /\ job[a].pc = "retrieve"
      /\ job[a] \in Job /\ a \notin Runs /\ report' \in [Runs -> Report] /\ UNCHANGED mismatches
    BY ReconciliationAssumption DEF TypeInv, WorldOK, Procs, Retrieve, Shape
<1>2. PICK s : s = mismatches[job[a].cur].id
    OBVIOUS
<1>3. CASE Goto(a, [job[a] EXCEPT !.pc = "failing"])
    <2>1. Shape(a, [job[a] EXCEPT !.pc = "failing"], mismatches', table)
        BY <1>1, SameGrows, BackShape
    <2> QED BY <1>1, <1>3, <2>1, ReadOK
<1>4. CASE ~Goto(a, [job[a] EXCEPT !.pc = "failing"])
    <2>1. PICK found :
              found = [name |-> IF stripe[s].name = NoName THEN Unknown ELSE stripe[s].name,
                       email |-> IF stripe[s].email = NoEmail THEN mismatches[job[a].cur].email
                                 ELSE stripe[s].email]
        OBVIOUS
    <2> DEFINE j == [job[a] EXCEPT !.pc = "find", !.remote[s] = found]
    <2>2. s \in InUse(stripe) /\ Goto(a, j)
        BY <1>2, <1>4, <2>1 DEF Retrieve
    <2>3. s \in StripeIds /\ stripe[s] \in StripeCustomer
        BY <2>2 DEF InUse, TypeInv, WorldOK
    <2>4. mismatches[job[a].cur].email \in Emails \cup {NoEmail}
        BY <1>1, CurType DEF Mismatch
    <2>5. found \in StripeCustomer
        <3>1. found.name \in Names \cup {NoName} /\ found.email \in Emails \cup {NoEmail}
            BY <2>1, <2>3, <2>4, ReconciliationAssumption DEF StripeCustomer
        <3> QED BY <2>1, <3>1 DEF StripeCustomer
    <2>6. /\ job[a].remote \in [StripeIds -> StripeCustomer \cup {NoCustomer}]
          /\ j.remote = [job[a].remote EXCEPT ![s] = found]
        BY <1>1 DEF Job
    <2>7. /\ j \in Job /\ j.pc = "find" /\ j.loaded = job[a].loaded /\ j.row = job[a].row
          /\ j.rows = job[a].rows /\ j.ids = job[a].ids /\ j.local = job[a].local
          /\ j.mine = job[a].mine /\ j.cur = job[a].cur /\ j.options = job[a].options
        BY <1>1, <2>3, <2>5 DEF Job
    <2>8. /\ j.remote[s] \in StripeCustomer
          /\ \A q \in j.ids : j.remote[q] \in StripeCustomer
        <3>1. j.ids \subseteq StripeIds
            BY <2>7 DEF Job
        <3>2. \A q \in job[a].ids : job[a].remote[q] \in StripeCustomer
            BY <1>1 DEF Shape
        <3> HIDE DEF j
        <3> QED BY <2>3, <2>5, <2>6, <2>7, <3>1, <3>2
    <2> HIDE DEF j
    <2>9. Shape(a, j, mismatches, table)
        BY <1>1, <1>2, <2>3, <2>7, <2>8 DEF Shape, Acting, Links
    <2> QED BY <1>1, <2>2, <2>9, ReadOK
<1> QED BY <1>3, <1>4

-----------------------------------------------------------------------------
(* Whatever else changes customers.                                        *)

LEMMA EditedRow ==
    ASSUME NEW c \in Row,
           NEW row \in Edited(c, [name |-> Names, email |-> Emails, active |-> BOOLEAN,
                                  stripe |-> StripeIds \cup {NoStripe}])
    PROVE  row \in Row
<1> DEFINE values == [name |-> Names, email |-> Emails, active |-> BOOLEAN,
                      stripe |-> StripeIds \cup {NoStripe}]
<1>1. PICK f \in {"name", "email", "active", "stripe"} :
          row \in {[c EXCEPT ![f] = v] : v \in values[f] \ {c[f]}}
    BY DEF Edited
<1>2. PICK v \in values[f] : row = [c EXCEPT ![f] = v]
    BY <1>1
<1>3. CASE f = "name"
    BY <1>2, <1>3 DEF Row
<1>4. CASE f = "email"
    BY <1>2, <1>4 DEF Row
<1>5. CASE f = "active"
    BY <1>2, <1>5 DEF Row
<1>6. CASE f = "stripe"
    BY <1>2, <1>6 DEF Row
<1> QED BY <1>1, <1>3, <1>4, <1>5, <1>6

LEMMA EditedCustomer ==
    ASSUME NEW c \in StripeCustomer,
           NEW d \in Edited(c, [name |-> Names \cup {NoName}, email |-> Emails \cup {NoEmail}])
    PROVE  d \in StripeCustomer
<1> DEFINE values == [name |-> Names \cup {NoName}, email |-> Emails \cup {NoEmail}]
<1>1. PICK f \in {"name", "email"} : d \in {[c EXCEPT ![f] = v] : v \in values[f] \ {c[f]}}
    BY DEF Edited
<1>2. PICK v \in values[f] : d = [c EXCEPT ![f] = v]
    BY <1>1
<1>3. CASE f = "name"
    BY <1>2, <1>3 DEF StripeCustomer
<1>4. CASE f = "email"
    BY <1>2, <1>4 DEF StripeCustomer
<1> QED BY <1>1, <1>3, <1>4

LEMMA ElsewhereOK ==
    ASSUME TypeInv, Elsewhere
    PROVE  /\ WorldOK' /\ UNCHANGED mismatches /\ Present(table) \subseteq Present(table')
           /\ \A q \in Procs : Left(q)
<1>1. /\ Sound(table) /\ stripe \in [StripeIds -> StripeCustomer \cup {NoCustomer}]
      /\ \A q \in Procs : job[q] \in Job
    BY DEF TypeInv, WorldOK, Shape
<1>2. UNCHANGED <<mismatches, report>> /\ job' = Disturbed
    BY DEF Elsewhere
<1>3. writes' \in 0..MaxWrites
    BY ReconciliationAssumption DEF Elsewhere, TypeInv, WorldOK
<1>4. Sound(table') /\ Present(table) \subseteq Present(table')
    <2>1. CASE UNCHANGED table
        BY <1>1, <2>1
    <2>2. CASE \E row \in Row : ~Collides(table, row) /\ table' = Insert(table, row)
        <3>1. PICK row \in Row : ~Collides(table, row) /\ table' = Insert(table, row)
            BY <2>2
        <3> QED BY <1>1, <3>1, InsertSound
    <2>3. CASE /\ IsUnique(table')
               /\ \E i \in Present(table) :
                   \E row \in Edited(table[i],
                                    [name |-> Names, email |-> Emails, active |-> BOOLEAN,
                                     stripe |-> StripeIds \cup {NoStripe}]) :
                       table' = [table EXCEPT ![i] = row]
        <3>1. PICK i \in Present(table) :
                   \E row \in Edited(table[i],
                                    [name |-> Names, email |-> Emails, active |-> BOOLEAN,
                                     stripe |-> StripeIds \cup {NoStripe}]) :
                       table' = [table EXCEPT ![i] = row]
            BY <2>3
        <3>2. PICK row \in Edited(table[i],
                                    [name |-> Names, email |-> Emails, active |-> BOOLEAN,
                                     stripe |-> StripeIds \cup {NoStripe}]) :
                       table' = [table EXCEPT ![i] = row]
            BY <3>1
        <3>3. table[i] \in Row
            BY <1>1, PresentRow DEF Sound
        <3>4. row \in Row
            BY <3>3, EditedRow
        <3>5. IsUnique([table EXCEPT ![i] = row])
            BY <2>3, <3>2
        <3> QED BY <1>1, <3>2, <3>4, <3>5, UpdateSound
    <2> QED BY <2>1, <2>2, <2>3 DEF Elsewhere
<1>5. stripe' \in [StripeIds -> StripeCustomer \cup {NoCustomer}]
    <2>1. CASE UNCHANGED stripe
        BY <1>1, <2>1
    <2>2. CASE \E s \in StripeIds, new \in StripeCustomer : stripe' = [stripe EXCEPT ![s] = new]
        BY <1>1, <2>2
    <2>3. CASE \E s \in InUse(stripe) :
                   \E new \in {NoCustomer} \cup
                               Edited(stripe[s], [name |-> Names \cup {NoName},
                                                  email |-> Emails \cup {NoEmail}]) :
                       stripe' = [stripe EXCEPT ![s] = new]
        <3>1. PICK s \in InUse(stripe) :
                   \E new \in {NoCustomer} \cup
                               Edited(stripe[s], [name |-> Names \cup {NoName},
                                                  email |-> Emails \cup {NoEmail}]) :
                       stripe' = [stripe EXCEPT ![s] = new]
            BY <2>3
        <3>2. PICK new \in {NoCustomer} \cup
                               Edited(stripe[s], [name |-> Names \cup {NoName},
                                                  email |-> Emails \cup {NoEmail}]) :
                       stripe' = [stripe EXCEPT ![s] = new]
            BY <3>1
        <3>3. s \in StripeIds /\ stripe[s] \in StripeCustomer
            BY <1>1 DEF InUse
        <3>4. new \in StripeCustomer \cup {NoCustomer}
            BY <3>3, EditedCustomer
        <3> QED BY <1>1, <3>2, <3>4
    <2> QED BY <2>1, <2>2, <2>3 DEF Elsewhere
<1>6. DOMAIN job' = Procs
    BY <1>2 DEF Disturbed
<1>7. WorldOK'
    BY <1>2, <1>3, <1>4, <1>5, <1>6 DEF TypeInv, WorldOK
<1>8. \A q \in Procs : Left(q)
    <2> SUFFICES ASSUME NEW q \in Procs PROVE Left(q)
        OBVIOUS
    <2>1. job'[q] = Disturbed[q] /\ job[q] \in Job
        BY <1>1, <1>2
    <2> QED BY <2>1, DisturbedIs DEF Left, Keeps
<1> QED BY <1>2, <1>4, <1>7, <1>8

-----------------------------------------------------------------------------
(* Types.                                                                  *)

\* A step of p.
Move(p) ==
    \/ p \in Runs /\ RunStep(p)
    \/ p \in Admins /\ AdminStep(p)
    \/ WriteStep(p)
    \/ Crash(p)

LEMMA NextIs ==
    ASSUME Next
    PROVE  Elsewhere \/ \E p \in Procs : Move(p)
BY DEF Next, Move, Procs

LEMMA MoveOK ==
    ASSUME TypeInv, NEW p \in Procs, Move(p)
    PROVE  StepOK(p)
<1>1. CASE p \in Runs /\ RunStep(p)
    <2>1. CASE \E options \in OptionSets : Start(p, options)
        BY <1>1, <2>1, StartOK
    <2>2. CASE ListLocal(p)
        BY <1>1, <2>2, ListLocalOK
    <2>3. CASE ListStripe(p)
        BY <1>1, <2>3, ListStripeOK
    <2>4. CASE \E i \in RowIds : CompareFields(p, i)
        BY <1>1, <2>4, CompareFieldsOK
    <2>5. CASE \E i \in RowIds : MissingInStripe(p, i)
        BY <1>1, <2>5, MissingInStripeOK
    <2>6. CASE \E i \in RowIds : FoundByEmail(p, i)
        BY <1>1, <2>6, FoundByEmailOK
    <2>7. CASE CreateInStripe(p)
        BY <1>1, <2>7, CreateInStripeOK
    <2>8. CASE Resolve(p)
        BY <1>1, <2>8, ResolveOK
    <2>9. CASE \E s \in StripeIds : CheckStripe(p, s)
        BY <1>1, <2>9, CheckStripeOK
    <2>10. CASE Complete(p)
        BY <1>1, <2>10, CompleteOK
    <2>11. CASE FailReport(p)
        BY <1>1, <2>11, FailReportOK
    <2> QED BY <1>1, <2>1, <2>2, <2>3, <2>4, <2>5, <2>6, <2>7, <2>8, <2>9, <2>10, <2>11
            DEF RunStep
<1>2. CASE p \in Admins /\ AdminStep(p)
    <2>1. CASE \E m \in DOMAIN mismatches, action \in Actions : Open(p, m, action)
        BY <1>2, <2>1, OpenOK
    <2>2. CASE Retrieve(p)
        BY <1>2, <2>2, RetrieveOK
    <2>3. CASE MarkResolved(p)
        BY <1>2, <2>3, MarkResolvedOK
    <2>4. CASE MarkFailed(p)
        BY <1>2, <2>4, MarkFailedOK
    <2> QED BY <1>2, <2>1, <2>2, <2>3, <2>4 DEF AdminStep
<1>3. CASE WriteStep(p)
    BY <1>3, LoadToLinkOK, LinkOK, FindToCreateOK, InsertRowOK, ReactivateOK DEF WriteStep
<1>4. CASE Crash(p)
    BY <1>4, CrashOK
<1> QED BY <1>1, <1>2, <1>3, <1>4 DEF Move

LEMMA TypeInit ==
    ASSUME Init
    PROVE  TypeInv
<1>1. Sound(table)
    <2>1. table \in Tables /\ IsUnique(table) /\ Present(table) = 1..Cardinality(Present(table))
        BY DEF Init
    <2>2. PICK n : n = Cardinality(Present(table))
        OBVIOUS
    <2>3. MaxRows \in Nat /\ IsFiniteSet(RowIds) /\ Cardinality(RowIds) = MaxRows
        <3>1. MaxRows \in Nat
            BY TableAssumption
        <3>2. IsFiniteSet(1..MaxRows)
            BY <3>1, FS_Interval
        <3>3. Cardinality(1..MaxRows) = MaxRows
            BY <3>1, FS_Interval
        <3> QED BY <3>1, <3>2, <3>3 DEF RowIds
    <2>4. IsFiniteSet(Present(table)) /\ n \in Nat /\ n <= MaxRows
        BY <2>2, <2>3, FS_Subset, FS_CardinalityType DEF Present
    <2>5. n \in 0..MaxRows /\ Present(table) = 1..n
        BY <2>1, <2>2, <2>3, <2>4
    <2> QED BY <2>1, <2>5 DEF Sound, Filled
<1>2. report \in [Runs -> Report]
    BY DEF Init, Report
<1>3. mismatches \in Seq(Mismatch)
    BY DEF Init
<1>4. WorldOK
    BY <1>1, <1>2, <1>3, ReconciliationAssumption DEF Init, WorldOK
<1>5. ASSUME NEW p \in Procs
      PROVE  Shape(p, job[p], mismatches, table)
    <2>1. job[p] = Ready
        BY DEF Init
    <2> QED BY <2>1, IdleShape
<1> QED BY <1>4, <1>5 DEF TypeInv

LEMMA StutterOK ==
    ASSUME TypeInv, UNCHANGED vars
    PROVE  /\ WorldOK' /\ UNCHANGED mismatches /\ Present(table) \subseteq Present(table')
           /\ \A q \in Procs : Left(q)
<1>1. UNCHANGED <<table, stripe, mismatches, report, job, writes>>
    BY DEF vars
<1>2. WorldOK'
    BY <1>1 DEF TypeInv, WorldOK
<1>3. \A q \in Procs : job[q] \in Job
    BY DEF TypeInv, Shape
<1> QED BY <1>1, <1>2, <1>3 DEF Left, Keeps

LEMMA TypeStep ==
    ASSUME TypeInv, [Next]_vars
    PROVE  TypeInv'
<1>1. \A q \in Procs : Shape(q, job[q], mismatches, table)
    BY DEF TypeInv
<1>2. CASE Elsewhere \/ UNCHANGED vars
    <2>1. PICK p : p \notin Procs
        BY NoSetContainsEverything
    <2>2. \A q \in Procs : Left(q)
        BY <1>2, ElsewhereOK, StutterOK
    <2>3. UNCHANGED mismatches /\ Present(table) \subseteq Present(table') /\ WorldOK'
        BY <1>2, ElsewhereOK, StutterOK
    <2>4. \A q \in Procs : q \in Procs \ {p}
        BY <2>1
    <2>5. \A q \in Procs : Shape(q, job'[q], mismatches', table')
        BY <1>1, <2>2, <2>3, <2>4, SameGrows, LeftShape
    <2> QED BY <2>3, <2>5 DEF TypeInv, Procs
<1>3. CASE \E p \in Procs : Move(p)
    <2>1. PICK p \in Procs : Move(p)
        BY <1>3
    <2>2. StepOK(p)
        BY <2>1, MoveOK
    <2>3. \A q \in Procs \ {p} : Shape(q, job'[q], mismatches', table')
        BY <1>1, <2>2, LeftShape DEF StepOK
    <2> QED BY <2>2, <2>3 DEF TypeInv, StepOK, Procs
<1> QED BY <1>2, <1>3, NextIs

LEMMA TypeOKFollows ==
    ASSUME TypeInv
    PROVE  TypeOK
<1>1. \A r \in Runs : Shape(r, job[r], mismatches, table)
    BY DEF TypeInv, Procs
<1>2. \A r \in Runs :
          /\ job[r].mine \subseteq {m \in DOMAIN mismatches : mismatches[m].run = r}
          /\ job[r].pc \in {"create in stripe", "load", "link", "find", "insert",
                            "reactivate", "resolve"} => job[r].cur \in job[r].mine
    BY <1>1 DEF Shape, Acting
<1> QED BY <1>2 DEF TypeInv, WorldOK, TypeOK, Sound

\* Whatever runs, requests and everybody else do, no two rows share an email or a
\* Stripe id, and a run resolves only what it has listed itself.
THEOREM TypeCorrect == Spec => []TypeOK
<1>1. Init => TypeInv
    BY TypeInit
<1>2. TypeInv /\ [Next]_vars => TypeInv'
    BY TypeStep
<1>3. TypeInv => TypeOK
    BY TypeOKFollows
<1> QED BY <1>1, <1>2, <1>3, PTL DEF Spec

-----------------------------------------------------------------------------
(* What a run or a request still knows: the steps that write no table.     *)

\* p has its shape and knows what it should.
Sure(p) == Shape(p, job[p], mismatches, table) /\ Knows(p, job[p], mismatches, table)

\* What is left alone knows what it knew, unless it is disturbed.
LEMMA LeftKnows ==
    ASSUME NEW p, NEW q \in Procs \ {p}, Sure(q), Left(q), Grows(p)
    PROVE  Knows(q, job'[q], mismatches', table')
<1> DEFINE a == job[q]
           b == job'[q]
<1>1. /\ b \in Job /\ a \in Job
      /\ b.pc = a.pc /\ b.options = a.options /\ b.rows = a.rows /\ b.ids = a.ids
      /\ b.local = a.local /\ b.remote = a.remote /\ b.mine = a.mine /\ b.cur = a.cur
      /\ b.row = a.row /\ b.loaded = a.loaded /\ (a.disturbed => b.disturbed)
      /\ q \in UnderWay /\ table' # table => b.disturbed
    BY DEF Left, Keeps, Shape, Sure
<1>2. Shape(q, a, mismatches, table) /\ Knows(q, a, mismatches, table)
    BY DEF Sure
<1>3. q \notin UnderWay => a.pc \in {"ready", "over"}
    BY DEF UnderWay
<1>4. q # p
    OBVIOUS
<1> HIDE DEF a, b
<1>5. CASE a.pc \in {"ready", "over"}
    <2>1. b.pc \in {"ready", "over"} /\ b.rows = {} /\ b.mine = {}
        BY <1>1, <1>2, <1>5 DEF Shape
    <2>2. Knows(q, b, mismatches', table')
        BY <2>1 DEF Knows
    <2> QED BY <2>2 DEF b
<1>6. CASE b.disturbed
    BY <1>6 DEF Knows, b
<1>7. CASE ~b.disturbed /\ table' = table
    <2>1. \A m \in DOMAIN mismatches :
              /\ mismatches'[m].id = mismatches[m].id
              /\ mismatches'[m].status = "auto_resolved" => mismatches[m].status = "auto_resolved"
              /\ mismatches[m].run = p \/ mismatches'[m].row = mismatches[m].row
        BY DEF Grows
    <2>2. \A m \in a.mine : /\ m \in DOMAIN mismatches
                            /\ mismatches'[m].row = mismatches[m].row
        BY <1>2, <1>4, <2>1 DEF Shape
    <2>3. \A m \in a.mine : Settled(mismatches[m], table) => Settled(mismatches'[m], table')
        BY <1>7, <2>1, <2>2 DEF Settled
    <2>4. a.pc \in Acting => a.cur \in DOMAIN mismatches
        BY <1>2 DEF Shape, Acting, Procs
    <2>5. a.pc = "resolve" => mismatches'[a.cur].id = mismatches[a.cur].id
        BY <2>1, <2>4 DEF Acting
    <2>6. Links(q, b) = Links(q, a)
        BY <1>1 DEF Links
    <2>7. ~a.disturbed
        BY <1>1, <1>7
    <2>8. q \in Runs /\ b.pc # "failing" =>
               \A m \in b.mine : \/ mismatches'[m].status # "auto_resolved"
                                 \/ m = b.cur /\ b.pc \in Acting
                                 \/ Settled(mismatches'[m], table')
        BY <1>1, <1>2, <2>1, <2>2, <2>3, <2>7 DEF Knows
    <2>9. Knows(q, b, mismatches', table')
        BY <1>1, <1>2, <1>7, <2>5, <2>6, <2>7, <2>8 DEF Knows
    <2> QED BY <2>9 DEF b
<1> QED BY <1>1, <1>3, <1>5, <1>6, <1>7 DEF a, b

\* A step that reads, or fails.
LEMMA ReadKnows ==
    ASSUME NEW p \in Procs, Sure(p), NEW j, UNCHANGED <<table, mismatches>>,
           j.rows = job[p].rows, j.local = job[p].local, j.mine = job[p].mine,
           j.disturbed = job[p].disturbed, j.cur = job[p].cur,
           \/ j.pc = "failing"
           \/ p \in Admins /\ j.pc \in {"retrieve", "find", "insert"}
           \/ p \in Runs /\ job[p].pc = "find" /\ j.pc = "insert"
           \/ p \in Runs /\ job[p].pc = "list stripe" /\ j.pc = "check"
    PROVE  Knows(p, j, mismatches', table')
<1>1. p \in Admins => p \notin Runs
    BY ReconciliationAssumption
<1>2. Knows(p, job[p], mismatches, table)
    BY DEF Sure
<1> QED BY <1>1, <1>2 DEF Knows, Acting

LEMMA StartKnows ==
    ASSUME TypeInv, NEW r \in Runs, Sure(r), NEW options, Start(r, options)
    PROVE  Knows(r, job'[r], mismatches', table')
<1> DEFINE j == [job[r] EXCEPT !.pc = "list local", !.options = options]
<1>1. Shape(r, job[r], mismatches, table) /\ job[r].pc = "ready" /\ r \in Procs /\ Goto(r, j)
    BY DEF Sure, Start, Procs
<1>2. job[r].rows = {} /\ job[r].mine = {} /\ job[r] \in Job
    BY <1>1 DEF Shape
<1>3. job'[r] = j
    BY <1>1, GotoLeaves
<1>4. j.pc = "list local" /\ j.rows = {} /\ j.mine = {}
    BY <1>2 DEF Job
<1> HIDE DEF j
<1> QED BY <1>3, <1>4 DEF Knows

LEMMA ListLocalKnows ==
    ASSUME TypeInv, NEW r \in Runs, Sure(r), ListLocal(r)
    PROVE  Knows(r, job'[r], mismatches', table')
<1>1. PICK l \in Tables, j \in Job : Lists(r, l, j)
    BY ListLocalIs
<1>2. /\ Knows(r, job[r], mismatches, table) /\ job[r].pc = "list local" /\ r \in Procs
      /\ Goto(r, j) /\ UNCHANGED mismatches
    BY <1>1, ListLocalIs DEF Sure, Procs, Lists
<1>3. job'[r] = j /\ UNCHANGED table
    BY <1>2, GotoLeaves
<1> QED BY <1>1, <1>2, <1>3 DEF Knows, Acting, Lists

LEMMA ListStripeKnows ==
    ASSUME TypeInv, NEW r \in Runs, Sure(r), ListStripe(r)
    PROVE  Knows(r, job'[r], mismatches', table')
<1>1. job[r].pc = "list stripe" /\ r \in Procs /\ UNCHANGED mismatches /\ job[r] \in Job
    BY DEF Sure, ListStripe, Procs, Shape
<1>2. PICK j \in {[job[r] EXCEPT !.pc = "check", !.ids = InUse(stripe), !.remote = stripe],
                  [job[r] EXCEPT !.pc = "failing"]} : Goto(r, j)
    BY DEF ListStripe
<1>3. /\ j.pc \in {"check", "failing"} /\ j.rows = job[r].rows /\ j.local = job[r].local
      /\ j.mine = job[r].mine /\ j.disturbed = job[r].disturbed /\ j.cur = job[r].cur
    BY <1>1, <1>2 DEF Job
<1>4. job'[r] = j /\ UNCHANGED table
    BY <1>1, <1>2, GotoLeaves
<1> QED BY <1>1, <1>3, <1>4, ReadKnows

\* What r holds after recording ms and going on as j.
Recorded(r, ms, j) ==
    /\ job'[r].pc = j.pc /\ job'[r].rows = j.rows /\ job'[r].ids = j.ids
    /\ job'[r].local = j.local /\ job'[r].remote = j.remote /\ job'[r].row = j.row
    /\ job'[r].disturbed = j.disturbed
    /\ \A m \in job[r].mine : m \in job'[r].mine /\ mismatches'[m] = mismatches[m]
    /\ \A m \in job'[r].mine \ job[r].mine :
           \E n \in 1..Len(ms) : mismatches'[m] = ms[n]
    /\ \A n \in 1..Len(ms) : \E m \in job'[r].mine : mismatches'[m] = ms[n]
    /\ Len(ms) = 1 => /\ \A m \in job'[r].mine \ job[r].mine : m = job'[r].cur
                      /\ job'[r].cur \in job'[r].mine
                      /\ mismatches'[job'[r].cur] = ms[1]
    /\ UNCHANGED <<table, stripe, report>>

\* What a run goes on with when it has recorded mismatches.
LEMMA RecordIs ==
    ASSUME TypeInv, NEW r \in Runs, NEW ms \in Seq(Mismatch), NEW j \in Job, Record(r, ms, j),
           j.mine = job[r].mine
    PROVE  Recorded(r, ms, j)
<1>0. Len(mismatches) \in Nat /\ Len(ms) \in Nat
    BY LenProperties DEF TypeInv, WorldOK
<1>1. r \in Procs /\ Shape(r, job[r], mismatches, table)
    BY DEF TypeInv, Procs
<1>2. PICK L \in Nat, N \in Nat : L = Len(mismatches) /\ N = Len(ms)
    BY <1>0
<1> DEFINE b == [j EXCEPT !.mine = @ \cup (L + 1)..(L + N), !.cur = L + N]
<1>3. /\ DOMAIN mismatches = 1..L
      /\ \A m \in DOMAIN mismatches : mismatches'[m] = mismatches[m]
      /\ \A n \in 1..N : mismatches'[L + n] = ms[n]
    BY <1>2, RecordGrows
<1>4. Goto(r, b) /\ UNCHANGED report
    BY <1>2 DEF Record
<1>5. job'[r] = b /\ UNCHANGED <<table, stripe>>
    BY <1>1, <1>4, GotoLeaves
<1>6. /\ b.pc = j.pc /\ b.rows = j.rows /\ b.ids = j.ids /\ b.local = j.local
      /\ b.remote = j.remote /\ b.row = j.row /\ b.disturbed = j.disturbed
      /\ b.mine = job[r].mine \cup (L + 1)..(L + N) /\ b.cur = L + N
    BY DEF Job
<1> HIDE DEF b
<1>7. \A m \in job[r].mine : m \in b.mine /\ mismatches'[m] = mismatches[m]
    BY <1>1, <1>3, <1>6 DEF Shape
<1>8. \A m \in b.mine \ job[r].mine : \E n \in 1..N : mismatches'[m] = ms[n]
    <2> SUFFICES ASSUME NEW m \in (L + 1)..(L + N)
                 PROVE  \E n \in 1..N : mismatches'[m] = ms[n]
        BY <1>6
    <2>1. m - L \in 1..N /\ m = L + (m - L)
        BY Places, Zenon
    <2> QED BY <1>3, <2>1
<1>9. \A n \in 1..N : \E m \in b.mine : mismatches'[m] = ms[n]
    <2> SUFFICES ASSUME NEW n \in 1..N
                 PROVE  L + n \in (L + 1)..(L + N)
        BY <1>3, <1>6
    <2> QED OBVIOUS
<1>10. N = 1 => \A m \in b.mine \ job[r].mine : m = b.cur
    <2> SUFFICES ASSUME N = 1, NEW m \in (L + 1)..(L + N) PROVE m = L + N
        BY <1>6
    <2> QED OBVIOUS
<1>11. N = 1 => b.cur \in b.mine /\ mismatches'[b.cur] = ms[1]
    <2> SUFFICES ASSUME N = 1 PROVE b.cur \in b.mine /\ mismatches'[b.cur] = ms[1]
        OBVIOUS
    <2>1. 1 \in 1..N /\ L + N = L + 1 /\ L + N \in (L + 1)..(L + N)
        BY Places
    <2> QED BY <1>3, <1>6, <2>1
<1> QED BY <1>2, <1>4, <1>5, <1>6, <1>7, <1>8, <1>9, <1>10, <1>11 DEF Recorded

LEMMA RecordKnows ==
    ASSUME TypeInv, NEW r \in Runs, Sure(r), job[r].pc = "check",
           NEW ms \in Seq(Mismatch), NEW j \in Job, Record(r, ms, j), j.mine = job[r].mine,
           j.rows \subseteq job[r].rows, j.local = job[r].local,
           j.disturbed = job[r].disturbed,
           \/ j.pc = "check" /\ \A n \in 1..Len(ms) : ms[n].status # "auto_resolved"
           \/ Len(ms) = 1 /\ j.pc \in {"create in stripe", "find"}
           \/ /\ Len(ms) = 1 /\ j.pc = "load"
              /\ ~j.disturbed => j.row \in Active(table) \ j.rows /\ table[j.row].stripe = NoStripe
    PROVE  Knows(r, job'[r], mismatches', table')
<1>1. PICK b : b = job'[r]
    OBVIOUS
<1>2. /\ b.pc = j.pc /\ b.rows = j.rows /\ b.local = j.local /\ b.row = j.row
      /\ b.disturbed = j.disturbed /\ UNCHANGED table
      /\ \A m \in job[r].mine : mismatches'[m] = mismatches[m]
      /\ \A m \in b.mine \ job[r].mine :
             \E n \in 1..Len(ms) : mismatches'[m] = ms[n]
      /\ Len(ms) = 1 => \A m \in b.mine \ job[r].mine : m = b.cur
    <2>1. Recorded(r, ms, j)
        BY RecordIs
    <2> QED BY <1>1, <2>1 DEF Recorded
<1> SUFFICES ASSUME ~job[r].disturbed PROVE Knows(r, b, mismatches', table')
    BY <1>1, <1>2 DEF Knows
<1>3. Knows(r, job[r], mismatches, table) /\ r \notin Admins
    BY ReconciliationAssumption DEF Sure
<1>4. \A m \in b.mine : \/ mismatches'[m].status # "auto_resolved"
                        \/ m = b.cur /\ b.pc \in Acting
                        \/ Settled(mismatches'[m], table')
    <2>1. ASSUME NEW m \in job[r].mine
          PROVE  mismatches'[m].status # "auto_resolved" \/ Settled(mismatches'[m], table')
        BY <1>2, <1>3 DEF Knows, Acting
    <2>2. ASSUME NEW m \in b.mine \ job[r].mine
          PROVE  mismatches'[m].status # "auto_resolved" \/ (m = b.cur /\ b.pc \in Acting)
        BY <1>2 DEF Acting
    <2> QED BY <2>1, <2>2
<1>5. b.pc \in {"check", "create in stripe", "find", "load"}
    BY <1>2
<1>6. \A i \in b.rows : i \in Active(table') /\ table'[i] = b.local[i]
    <2>1. \A i \in job[r].rows : i \in Active(table) /\ table[i] = job[r].local[i]
        BY <1>3 DEF Knows
    <2>2. b.rows \subseteq job[r].rows /\ b.local = job[r].local /\ table' = table
        BY <1>2
    <2> QED BY <2>1, <2>2
<1>7. b.pc = "load" => b.row \in Active(table') \ b.rows /\ table'[b.row].stripe = NoStripe
    BY <1>2
<1> QED BY <1>4, <1>5, <1>6, <1>7 DEF Knows

LEMMA CompareFieldsKnows ==
    ASSUME TypeInv, NEW r \in Runs, NEW i \in RowIds, Sure(r), CompareFields(r, i)
    PROVE  Knows(r, job'[r], mismatches', table')
<1>1. PICK ms \in Seq(Mismatch), j \in Job : FieldsDiffer(r, i, ms, j)
    BY CompareFieldsIs
<1>2. /\ Record(r, ms, j) /\ j.mine = job[r].mine /\ j.rows \subseteq job[r].rows
      /\ j.local = job[r].local /\ j.disturbed = job[r].disturbed /\ j.pc = "check"
      /\ \A n \in 1..Len(ms) : ms[n].status # "auto_resolved"
    BY <1>1 DEF FieldsDiffer, GoesOn
<1>3. job[r].pc = "check"
    BY DEF CompareFields
<1> QED BY <1>2, <1>3, RecordKnows

LEMMA MissingInStripeKnows ==
    ASSUME TypeInv, NEW r \in Runs, NEW i \in RowIds, Sure(r), MissingInStripe(r, i)
    PROVE  Knows(r, job'[r], mismatches', table')
<1>1. PICK d \in Mismatch, j \in Job : NotInStripe(r, i, d, j)
    BY MissingInStripeIs
<1>2. /\ Record(r, <<d>>, j) /\ j.mine = job[r].mine /\ j.rows \subseteq job[r].rows
      /\ j.local = job[r].local /\ j.disturbed = job[r].disturbed
      /\ j.pc = "create in stripe" \/ (j.pc = "check" /\ d.status # "auto_resolved")
    BY <1>1 DEF NotInStripe, GoesOn
<1>3. <<d>> \in Seq(Mismatch) /\ Len(<<d>>) = 1 /\ \A n \in 1..Len(<<d>>) : <<d>>[n] = d
    BY Lone
<1>4. job[r].pc = "check"
    BY MissingInStripeIs
<1> QED BY <1>2, <1>3, <1>4, RecordKnows

LEMMA FoundByEmailKnows ==
    ASSUME TypeInv, NEW r \in Runs, NEW i \in RowIds, Sure(r), FoundByEmail(r, i)
    PROVE  Knows(r, job'[r], mismatches', table')
<1>1. PICK d \in Mismatch, j \in Job : CanBeLinked(r, i, d, j)
    BY FoundByEmailIs
<1>2. /\ Record(r, <<d>>, j) /\ j.mine = job[r].mine /\ j.rows = job[r].rows \ {i}
      /\ j.local = job[r].local /\ j.disturbed = job[r].disturbed /\ j.row = i
      /\ j.pc = "load" \/ (j.pc = "check" /\ d.status # "auto_resolved")
    BY <1>1 DEF CanBeLinked, GoesOn
<1>3. <<d>> \in Seq(Mismatch) /\ Len(<<d>>) = 1 /\ \A n \in 1..Len(<<d>>) : <<d>>[n] = d
    BY Lone
<1>4. job[r].pc = "check" /\ i \in job[r].rows /\ job[r].local[i].stripe = NoStripe
    BY FoundByEmailIs
<1>5. ~j.disturbed => j.row \in Active(table) \ j.rows /\ table[j.row].stripe = NoStripe
    BY <1>2, <1>4 DEF Sure, Knows
<1> QED BY <1>2, <1>3, <1>4, <1>5, RecordKnows

LEMMA CheckStripeKnows ==
    ASSUME TypeInv, NEW r \in Runs, NEW s \in StripeIds, Sure(r), CheckStripe(r, s)
    PROVE  Knows(r, job'[r], mismatches', table')
<1>1. PICK j \in Job :
          \/ /\ GoesOn(r, j) /\ j.rows = {} /\ j.ids = job[r].ids \ {s}
             /\ j.pc = "check" /\ KnownLocally(job[r], s)
             /\ Goto(r, j) /\ UNCHANGED <<mismatches, report>>
          \/ \E d \in Mismatch : NotInTable(r, s, d, j)
    BY CheckStripeIs
<1>2. job[r].pc = "check" /\ r \in Procs
    BY CheckStripeIs DEF Procs
<1>3. CASE GoesOn(r, j) /\ j.rows = {} /\ j.pc = "check" /\ Goto(r, j) /\ UNCHANGED mismatches
    <2>1. job'[r] = j /\ UNCHANGED table
        BY <1>2, <1>3, GotoLeaves
    <2>2. Knows(r, job[r], mismatches, table)
        BY DEF Sure
    <2> QED BY <1>2, <1>3, <2>1, <2>2 DEF Knows, GoesOn, Acting
<1>4. CASE \E d \in Mismatch : NotInTable(r, s, d, j)
    <2>1. PICK d \in Mismatch : NotInTable(r, s, d, j)
        BY <1>4
    <2>2. /\ Record(r, <<d>>, j) /\ j.mine = job[r].mine /\ j.rows \subseteq job[r].rows
          /\ j.local = job[r].local /\ j.disturbed = job[r].disturbed
          /\ j.pc = "find" \/ (j.pc = "check" /\ d.status # "auto_resolved")
        BY <2>1 DEF NotInTable, GoesOn
    <2>3. <<d>> \in Seq(Mismatch) /\ Len(<<d>>) = 1 /\ \A n \in 1..Len(<<d>>) : <<d>>[n] = d
        BY Lone
    <2> QED BY <1>1, <1>2, <2>2, <2>3, RecordKnows
<1> QED BY <1>1, <1>3, <1>4

\* The mismatch of a run is pending again: nothing is to be done about it.
LEMMA PendingKnows ==
    ASSUME TypeInv, NEW r \in Runs, Sure(r), job[r].pc \in Acting,
           mismatches' = [mismatches EXCEPT ![job[r].cur].status = "pending"],
           Goto(r, [job[r] EXCEPT !.pc = "check"])
    PROVE  Knows(r, job'[r], mismatches', table')
<1> DEFINE j == [job[r] EXCEPT !.pc = "check"]
<1>1. r \in Procs /\ Shape(r, job[r], mismatches, table) /\ job[r] \in Job
      /\ Knows(r, job[r], mismatches, table)
    BY DEF Sure, Procs, Shape
<1>2. job'[r] = j /\ UNCHANGED table
    BY <1>1, GotoLeaves
<1>3. j.pc = "check" /\ j.rows = job[r].rows /\ j.local = job[r].local /\ j.mine = job[r].mine
      /\ j.disturbed = job[r].disturbed
    BY <1>1 DEF Job
<1>4. /\ mismatches'[job[r].cur].status = "pending"
      /\ \A m \in DOMAIN mismatches : m # job[r].cur => mismatches'[m] = mismatches[m]
    BY <1>1, PendingGrows
<1>5. \A m \in job[r].mine : m \in DOMAIN mismatches
    BY <1>1 DEF Shape
<1> HIDE DEF j
<1> SUFFICES ASSUME ~job[r].disturbed PROVE Knows(r, j, mismatches', table')
    BY <1>2, <1>3 DEF Knows
<1>6. \A m \in job[r].mine :
          mismatches'[m].status # "auto_resolved" \/ Settled(mismatches'[m], table')
    <2> SUFFICES ASSUME NEW m \in job[r].mine, m # job[r].cur
                 PROVE  mismatches'[m].status # "auto_resolved" \/ Settled(mismatches'[m], table')
        BY <1>4
    <2>1. mismatches[m].status # "auto_resolved" \/ Settled(mismatches[m], table)
        BY <1>1 DEF Knows, Acting
    <2> QED BY <1>2, <1>4, <1>5, <2>1
<1>7. \A i \in j.rows : i \in Active(table') /\ table'[i] = j.local[i]
    <2>1. \A i \in job[r].rows : i \in Active(table) /\ table[i] = job[r].local[i]
        BY <1>1 DEF Knows
    <2> QED BY <1>2, <1>3, <2>1
<1> QED BY <1>2, <1>3, <1>6, <1>7 DEF Knows

LEMMA CreateInStripeKnows ==
    ASSUME TypeInv, NEW r \in Runs, Sure(r), CreateInStripe(r)
    PROVE  Knows(r, job'[r], mismatches', table')
BY PendingKnows DEF CreateInStripe, Acting

LEMMA GiveUpKnows ==
    ASSUME TypeInv, NEW p \in Procs, Sure(p), job[p].pc \in {"find", "insert"}, GiveUp(p)
    PROVE  Knows(p, job'[p], mismatches', table')
<1>1. CASE p \in Runs
    BY <1>1, PendingKnows DEF GiveUp, Acting
<1>2. CASE p \notin Runs
    <2> DEFINE j == [job[p] EXCEPT !.pc = "failing"]
    <2>1. Goto(p, j) /\ UNCHANGED mismatches /\ job[p] \in Job
        BY <1>2 DEF GiveUp, Sure, Shape
    <2>2. job'[p] = j /\ UNCHANGED table
        BY <2>1, GotoLeaves
    <2>3. /\ j.pc = "failing" /\ j.rows = job[p].rows /\ j.local = job[p].local
          /\ j.mine = job[p].mine /\ j.disturbed = job[p].disturbed /\ j.cur = job[p].cur
        BY <2>1 DEF Job
    <2> HIDE DEF j
    <2> QED BY <2>1, <2>2, <2>3, ReadKnows
<1> QED BY <1>1, <1>2

LEMMA BreakKnows ==
    ASSUME TypeInv, NEW p \in Procs, Sure(p), Break(p)
    PROVE  Knows(p, job'[p], mismatches', table')
<1> DEFINE j == [job[p] EXCEPT !.pc = "failing", !.broken = TRUE]
<1>1. Goto(p, j) /\ UNCHANGED mismatches /\ job[p] \in Job
    BY DEF Break, Sure, Shape
<1>2. job'[p] = j /\ UNCHANGED table
    BY <1>1, GotoLeaves
<1>3. /\ j.pc = "failing" /\ j.rows = job[p].rows /\ j.local = job[p].local
      /\ j.mine = job[p].mine /\ j.disturbed = job[p].disturbed /\ j.cur = job[p].cur
    BY <1>1 DEF Job
<1> HIDE DEF j
<1> QED BY <1>1, <1>2, <1>3, ReadKnows

LEMMA OverKnows ==
    ASSUME TypeInv, NEW p \in Procs, Goto(p, Over)
    PROVE  Knows(p, job'[p], mismatches', table')
BY GotoLeaves, IdleShape

LEMMA ResolveKnows ==
    ASSUME TypeInv, NEW r \in Runs, Sure(r), Resolve(r)
    PROVE  Knows(r, job'[r], mismatches', table')
<1> DEFINE j == [job[r] EXCEPT !.pc = "check"]
<1>1. /\ r \in Procs /\ Shape(r, job[r], mismatches, table) /\ job[r].pc = "resolve"
      /\ job[r] \in Job /\ Goto(r, j) /\ Knows(r, job[r], mismatches, table)
    BY DEF Sure, Procs, Resolve, Shape
<1>2. PICK c, new : /\ c = job[r].cur
                    /\ new = [mismatches[c] EXCEPT !.resolved = TRUE, !.row = job[r].row]
    OBVIOUS
<1>3. Marks(r, c, new)
    BY <1>2, ResolveOK
<1>4. /\ mismatches'[c] = new
      /\ \A m \in DOMAIN mismatches : m # c => mismatches'[m] = mismatches[m]
    BY <1>3, EditGrows
<1>5. mismatches[c] \in Mismatch
    BY <1>1, <1>2, CurType DEF Acting
<1>6. new.row = job[r].row /\ new.id = mismatches[c].id
    BY <1>2, <1>5 DEF Mismatch
<1>7. job'[r] = j /\ UNCHANGED table
    BY <1>1, GotoLeaves
<1>8. j.pc = "check" /\ j.rows = job[r].rows /\ j.local = job[r].local /\ j.mine = job[r].mine
      /\ j.disturbed = job[r].disturbed
    BY <1>1 DEF Job
<1>9. \A m \in job[r].mine : m \in DOMAIN mismatches
    BY <1>1 DEF Shape
<1> HIDE DEF j
<1> SUFFICES ASSUME ~job[r].disturbed PROVE Knows(r, j, mismatches', table')
    BY <1>7, <1>8 DEF Knows
<1>10. Settled(new, table)
    BY <1>1, <1>2, <1>6 DEF Knows, Settled, Links
<1>11. \A m \in job[r].mine :
          mismatches'[m].status # "auto_resolved" \/ Settled(mismatches'[m], table')
    <2> SUFFICES ASSUME NEW m \in job[r].mine, m # c
                 PROVE  mismatches'[m].status # "auto_resolved" \/ Settled(mismatches'[m], table')
        BY <1>4, <1>7, <1>10
    <2>1. mismatches[m].status # "auto_resolved" \/ Settled(mismatches[m], table)
        BY <1>1, <1>2 DEF Knows
    <2> QED BY <1>4, <1>7, <1>9, <2>1
<1>12. \A i \in j.rows : i \in Active(table') /\ table'[i] = j.local[i]
    <2>1. \A i \in job[r].rows : i \in Active(table) /\ table[i] = job[r].local[i]
        BY <1>1 DEF Knows
    <2> QED BY <1>7, <1>8, <2>1
<1> QED BY <1>7, <1>8, <1>11, <1>12 DEF Knows

LEMMA LoadToLinkKnows ==
    ASSUME TypeInv, NEW p \in Procs, Sure(p), LoadToLink(p)
    PROVE  Knows(p, job'[p], mismatches', table')
<1>1. /\ Shape(p, job[p], mismatches, table) /\ Knows(p, job[p], mismatches, table)
      /\ job[p].pc = "load" /\ job[p] \in Job /\ UNCHANGED mismatches
    BY DEF Sure, LoadToLink, Shape
<1> SUFFICES ASSUME ~job'[p].disturbed PROVE Knows(p, job'[p], mismatches', table')
    BY DEF Knows
<1>2. CASE job[p].row \in Active(table)
    <2> DEFINE j == [job[p] EXCEPT !.pc = "link", !.loaded = table[job[p].row]]
    <2>1. Goto(p, j)
        BY <1>2 DEF LoadToLink
    <2>2. job'[p] = j /\ UNCHANGED table
        BY <2>1, GotoLeaves
    <2>3. /\ j.pc = "link" /\ j.loaded = table[job[p].row] /\ j.row = job[p].row
          /\ j.rows = job[p].rows /\ j.local = job[p].local /\ j.mine = job[p].mine
          /\ j.cur = job[p].cur /\ j.disturbed = job[p].disturbed
        BY <1>1 DEF Job
    <2> HIDE DEF j
    <2>4. ~job[p].disturbed
        BY <2>2, <2>3
    <2>5. p \in Runs => /\ \A i \in j.rows : i \in Active(table) /\ table[i] = j.local[i]
                        /\ j.row \in Active(table) \ j.rows /\ table[j.row].stripe = NoStripe
                        /\ \A m \in j.mine : \/ mismatches[m].status # "auto_resolved"
                                             \/ m = j.cur
                                             \/ Settled(mismatches[m], table)
        BY <1>1, <2>3, <2>4 DEF Knows
    <2> QED BY <1>1, <1>2, <2>2, <2>3, <2>5 DEF Knows, Acting
<1>3. CASE job[p].row \notin Active(table)
    <2>1. PICK pc : pc = IF p \in Runs THEN "check" ELSE "failing"
        OBVIOUS
    <2> DEFINE j == [job[p] EXCEPT !.pc = pc]
    <2>2. Goto(p, j)
        BY <1>3, <2>1 DEF LoadToLink
    <2>3. job'[p] = j /\ UNCHANGED table
        BY <2>2, GotoLeaves
    <2>4. /\ j.pc = pc /\ j.rows = job[p].rows /\ j.local = job[p].local
          /\ j.mine = job[p].mine /\ j.cur = job[p].cur /\ j.disturbed = job[p].disturbed
        BY <1>1 DEF Job
    <2> HIDE DEF j
    <2>5. p \notin Runs
        BY <1>1, <1>3, <2>3, <2>4 DEF Knows
    <2> QED BY <1>1, <2>1, <2>3, <2>4, <2>5, ReadKnows
<1> QED BY <1>2, <1>3

-----------------------------------------------------------------------------
(* The steps that write a row.                                             *)

\* Linking row i to id: the other active rows are kept, and all else of that one.
Linked(i, id, t, u) ==
    /\ Active(u) = Active(t)
    /\ \A k \in Active(t) : k # i => u[k] = t[k]
    /\ i \in Active(t) =>
           \E s \in {id, t[i].stripe} : u[i] = [t[i] EXCEPT !.stripe = s]

\* Giving Stripe customer id row i: the other active rows are kept.
Given(i, id, t, u) ==
    /\ i \notin Active(t) /\ Active(u) = Active(t) \cup {i}
    /\ \A k \in Active(t) : u[k] = t[k]
    /\ u[i].stripe = id

\* p has written row i, and is to note that.
HasWritten(p, i) ==
    /\ job'[p].pc = "resolve" /\ job'[p].row = i /\ UNCHANGED mismatches
    /\ job'[p].rows = job[p].rows /\ job'[p].ids = job[p].ids
    /\ job'[p].local = job[p].local /\ job'[p].remote = job[p].remote
    /\ job'[p].mine = job[p].mine /\ job'[p].cur = job[p].cur
    /\ job'[p].options = job[p].options /\ job'[p].disturbed = job[p].disturbed

LEMMA HasWrittenIs ==
    ASSUME TypeInv, NEW p \in Procs, job[p].pc \in {"link", "insert", "reactivate"},
           UNCHANGED mismatches, NEW t, NEW i \in RowIds,
           job[p].pc = "link" => i = job[p].row, Commit(p, t, [Wrote(p) EXCEPT !.row = i])
    PROVE  HasWritten(p, i)
<1> DEFINE j == [Wrote(p) EXCEPT !.row = i]
<1>1. job'[p] = j
    BY CommitLeaves
<1>2. /\ j.pc = "resolve" /\ j.row = i /\ j.rows = job[p].rows /\ j.ids = job[p].ids
      /\ j.local = job[p].local /\ j.remote = job[p].remote
      /\ j.mine = job[p].mine /\ j.cur = job[p].cur /\ j.options = job[p].options
      /\ j.disturbed = job[p].disturbed
    BY WroteShape
<1> HIDE DEF j
<1> QED BY <1>1, <1>2 DEF HasWritten

\* The row that was loaded and edited, as it is written.
LEMMA WrittenIs ==
    ASSUME TypeInv, NEW p \in Procs, job[p].pc \in {"link", "reactivate"},
           NEW edited \in Row, NEW t, t = Written(p, edited), NEW i, i = job[p].row,
           NEW l, l = job[p].loaded
    PROVE  /\ i \in RowIds /\ i \in Present(table) /\ l \in Row /\ table[i] \in Row /\ t[i] \in Row
           /\ Present(t) = Present(table)
           /\ t[i].name = IF edited.name # l.name THEN edited.name ELSE table[i].name
           /\ t[i].email = IF edited.email # l.email THEN edited.email ELSE table[i].email
           /\ t[i].stripe = IF edited.stripe # l.stripe THEN edited.stripe ELSE table[i].stripe
           /\ t[i].active = IF edited.active # l.active THEN edited.active ELSE table[i].active
           /\ \A k \in RowIds : k # i => t[k] = table[k]
<1>1. i \in Present(table) /\ l \in Row /\ table \in Tables
    BY DEF TypeInv, WorldOK, Shape, Sound
<1>2. i \in RowIds /\ table[i] \in Row
    BY <1>1, PresentRow
<1>3. t = Flush(table, i, l, edited)
    BY DEF Written
<1> QED BY <1>1, <1>2, <1>3, FlushRow

LEMMA RowIs ==
    ASSUME NEW a \in Row, NEW b \in Row, a.name = b.name, a.email = b.email, a.active = b.active
    PROVE  a = [b EXCEPT !.stripe = a.stripe]
BY DEF Row

LEMMA LinkIs ==
    ASSUME TypeInv, NEW p \in Procs, Link(p), ~Break(p)
    PROVE  /\ HasWritten(p, job[p].row)
           /\ Linked(job[p].row, mismatches[job[p].cur].id, table, table')
           /\ job[p].loaded = table[job[p].row] =>
                  table'[job[p].row].stripe = mismatches[job[p].cur].id
<1>1. PICK i, id, l : i = job[p].row /\ id = mismatches[job[p].cur].id /\ l = job[p].loaded
    OBVIOUS
<1>2. /\ job[p].pc = "link" /\ Shape(p, job[p], mismatches, table)
    BY DEF TypeInv, Link
<1>3. l \in Row /\ id \in StripeIds
    BY <1>1, <1>2 DEF Shape
<1>4. PICK e : e = [l EXCEPT !.stripe = id]
    OBVIOUS
<1>5. e \in Row /\ e.name = l.name /\ e.email = l.email /\ e.active = l.active /\ e.stripe = id
    BY <1>3, <1>4 DEF Row
<1>6. PICK t : t = Written(p, e)
    OBVIOUS
<1>7. IsUnique(t) /\ Commit(p, t, Wrote(p)) /\ UNCHANGED mismatches
    BY <1>1, <1>4, <1>6 DEF Link
<1>8. /\ i \in RowIds /\ i \in Present(table) /\ table[i] \in Row /\ t[i] \in Row
      /\ Present(t) = Present(table)
      /\ t[i].name = table[i].name /\ t[i].email = table[i].email
      /\ t[i].stripe = (IF id # l.stripe THEN id ELSE table[i].stripe)
      /\ t[i].active = table[i].active
      /\ \A k \in RowIds : k # i => t[k] = table[k]
    BY <1>1, <1>2, <1>5, <1>6, WrittenIs
<1>9. t[i] = [table[i] EXCEPT !.stripe = t[i].stripe]
    BY <1>8, RowIs
<1>10. Active(t) = Active(table)
    BY <1>8 DEF Active, Present
<1>11. table' = t
    BY <1>7, CommitLeaves
<1>12. t[i].stripe \in {id, table[i].stripe}
    BY <1>8
<1>13. Linked(i, id, table, t)
    BY <1>8, <1>9, <1>10, <1>12 DEF Linked, Active, Present
<1>14. l = table[i] => t[i].stripe = id
    BY <1>8
<1>15. Wrote(p) = [Wrote(p) EXCEPT !.row = i]
    BY <1>1, <1>2 DEF Shape, Wrote, Job
<1>16. HasWritten(p, i)
    BY <1>1, <1>2, <1>7, <1>8, <1>15, HasWrittenIs
<1> QED BY <1>1, <1>11, <1>13, <1>14, <1>16

LEMMA ReactivateIs ==
    ASSUME TypeInv, NEW p \in Procs, Reactivate(p), ~Break(p)
    PROVE  /\ HasWritten(p, job[p].row)
           /\ Active(table) \subseteq Active(table')
           /\ /\ job[p].loaded = table[job[p].row] /\ job[p].row \notin Active(table)
              => Given(job[p].row, mismatches[job[p].cur].id, table, table')
<1>1. PICK i, id, l : i = job[p].row /\ id = mismatches[job[p].cur].id /\ l = job[p].loaded
    OBVIOUS
<1>2. /\ job[p].pc = "reactivate" /\ Shape(p, job[p], mismatches, table)
    BY DEF TypeInv, Reactivate
<1>3. l \in Row /\ id \in StripeIds /\ Incoming(p).name \in Names
    BY <1>1, <1>2 DEF Shape, Incoming
<1>4. PICK e : e = [l EXCEPT !.name = Incoming(p).name, !.active = TRUE, !.stripe = id]
    OBVIOUS
<1>5. e \in Row /\ e.active = TRUE /\ e.stripe = id
    BY <1>3, <1>4 DEF Row
<1>6. PICK t : t = Written(p, e)
    OBVIOUS
<1>7. IsUnique(t) /\ Commit(p, t, Wrote(p)) /\ UNCHANGED mismatches
    BY <1>1, <1>4, <1>6 DEF Reactivate
<1>8. /\ i \in RowIds /\ i \in Present(table) /\ table[i] \in Row /\ t[i] \in Row
      /\ Present(t) = Present(table)
      /\ t[i].stripe = (IF e.stripe # l.stripe THEN e.stripe ELSE table[i].stripe)
      /\ t[i].active = (IF e.active # l.active THEN e.active ELSE table[i].active)
      /\ \A k \in RowIds : k # i => t[k] = table[k]
    BY <1>1, <1>2, <1>5, <1>6, WrittenIs
<1>9. table' = t
    BY <1>7, CommitLeaves
<1>10. table[i].active \in BOOLEAN /\ l.active \in BOOLEAN
    BY <1>3, <1>8 DEF Row
<1>11. Active(table) \subseteq Active(t)
    <2> SUFFICES ASSUME NEW k \in Active(table) PROVE t[k].active
        BY <1>8 DEF Active
    <2>1. k \in RowIds /\ table[k].active
        BY DEF Active, Present
    <2>2. CASE k = i
        <3>1. CASE l.active
            BY <1>5, <1>8, <2>1, <2>2, <3>1
        <3>2. CASE ~l.active
            BY <1>5, <1>8, <1>10, <2>2, <3>2
        <3> QED BY <3>1, <3>2
    <2>3. CASE k # i
        BY <1>8, <2>1, <2>3
    <2> QED BY <2>2, <2>3
<1>12. ASSUME l = table[i], i \notin Active(table)
       PROVE  Given(i, id, table, t)
    <2>1. ~table[i].active
        BY <1>8, <1>12 DEF Active
    <2>2. t[i].active
        BY <1>5, <1>8, <1>10, <1>12, <2>1
    <2>3. Active(t) = Active(table) \cup {i}
        BY <1>8, <1>12, <2>2 DEF Active, Present
    <2>4. t[i].stripe = id
        BY <1>5, <1>8, <1>12
    <2> QED BY <1>8, <1>12, <2>3, <2>4 DEF Given, Active, Present
<1>13. Wrote(p) = [Wrote(p) EXCEPT !.row = i]
    BY <1>1, <1>2 DEF Shape, Wrote, Job
<1>14. HasWritten(p, i)
    BY <1>1, <1>2, <1>7, <1>8, <1>13, HasWrittenIs
<1> QED BY <1>1, <1>9, <1>11, <1>12, <1>14

LEMMA InsertRowIs ==
    ASSUME TypeInv, NEW p \in Procs, InsertRow(p), ~GiveUp(p)
    PROVE  \E i \in RowIds :
               HasWritten(p, i) /\ Given(i, mismatches[job[p].cur].id, table, table')
<1>1. Shape(p, job[p], mismatches, table) /\ job[p].pc = "insert" /\ Sound(table)
    BY DEF TypeInv, WorldOK, InsertRow
<1>2. NewRow(p) \in Row /\ NewRow(p).active = TRUE
      /\ NewRow(p).stripe = mismatches[job[p].cur].id
    BY <1>1 DEF Shape, NewRow, Incoming, Row
<1>3. ~Collides(table, NewRow(p))
    BY DEF InsertRow, NewRow
<1>4. PICK i, t, new : /\ i = NextRow(table) /\ new = NewRow(p)
                       /\ t = [table EXCEPT ![i] = new]
    OBVIOUS
<1>5. t = Insert(table, NewRow(p))
    BY <1>4 DEF Insert
<1>6. Commit(p, t, [Wrote(p) EXCEPT !.row = i]) /\ UNCHANGED mismatches
    BY <1>3, <1>4, <1>5 DEF InsertRow, NewRow
<1>7. Present(t) = Present(table) \cup {i} /\ i \in RowIds \ Present(table)
    BY <1>1, <1>2, <1>3, <1>4, <1>5, InsertSound
<1>8. t[i] = new /\ \A k \in RowIds : k # i => t[k] = table[k]
    BY <1>1, <1>4, <1>7 DEF Sound, Tables
<1>9. table' = t
    BY <1>6, CommitLeaves
<1>10. Given(i, mismatches[job[p].cur].id, table, t)
    <2>1. Active(t) = Active(table) \cup {i}
        BY <1>2, <1>4, <1>7, <1>8 DEF Active, Present
    <2> QED BY <1>2, <1>4, <1>7, <1>8, <2>1 DEF Given, Active, Present
<1>11. HasWritten(p, i)
    BY <1>1, <1>6, <1>7, HasWrittenIs
<1> QED BY <1>7, <1>9, <1>10, <1>11

LEMMA LinkKnows ==
    ASSUME TypeInv, NEW p \in Procs, Sure(p), Link(p)
    PROVE  Knows(p, job'[p], mismatches', table')
<1>1. /\ Shape(p, job[p], mismatches, table) /\ Knows(p, job[p], mismatches, table)
      /\ job[p].pc = "link"
    BY DEF Sure, Link
<1>2. CASE Break(p)
    BY <1>2, BreakKnows
<1>3. CASE ~Break(p)
    <2>1. PICK i, id, a, b : /\ i = job[p].row /\ id = mismatches[job[p].cur].id
                             /\ a = job[p] /\ b = job'[p]
        OBVIOUS
    <2>2. HasWritten(p, i) /\ Linked(i, id, table, table')
          /\ (a.loaded = table[i] => table'[i].stripe = id)
        BY <1>3, <2>1, LinkIs
    <2>3. /\ b.pc = "resolve" /\ b.row = i /\ b.rows = a.rows /\ b.local = a.local
          /\ b.mine = a.mine /\ b.cur = a.cur /\ b.disturbed = a.disturbed
          /\ UNCHANGED mismatches
        BY <2>1, <2>2 DEF HasWritten
    <2> SUFFICES ASSUME ~a.disturbed PROVE Knows(p, b, mismatches', table')
        BY <2>1, <2>3 DEF Knows
    <2>4. i \in Active(table') /\ table'[i].stripe = id /\ id \in StripeIds
        BY <1>1, <2>1, <2>2 DEF Knows, Shape, Linked
    <2>5. p \in Runs => i \notin a.rows /\ table[i].stripe = NoStripe
        BY <1>1, <2>1 DEF Knows
    <2>6. p \in Runs => \A k \in b.rows : k \in Active(table') /\ table'[k] = b.local[k]
        <3>1. p \in Runs => \A k \in a.rows : k \in Active(table) /\ table[k] = a.local[k]
            BY <1>1, <2>1 DEF Knows
        <3> QED BY <2>2, <2>3, <2>5, <3>1 DEF Linked
    <2>7. p \in Runs => \A m \in b.mine : \/ mismatches'[m].status # "auto_resolved"
                                          \/ m = b.cur
                                          \/ Settled(mismatches'[m], table')
        <3> SUFFICES ASSUME p \in Runs, NEW m \in a.mine, Settled(mismatches[m], table)
                     PROVE  Settled(mismatches'[m], table')
            BY <1>1, <2>1, <2>3 DEF Knows
        <3>1. mismatches[m].row # i
            BY <2>5, TableAssumption DEF Settled
        <3> QED BY <2>2, <2>3, <3>1 DEF Settled, Linked
    <2> QED BY <2>1, <2>3, <2>4, <2>6, <2>7 DEF Knows, Acting
<1> QED BY <1>2, <1>3

LEMMA GivenKnows ==
    ASSUME TypeInv, NEW p \in Procs, Sure(p), job[p].pc \in {"insert", "reactivate"},
           NEW i, HasWritten(p, i), Given(i, mismatches[job[p].cur].id, table, table')
    PROVE  Knows(p, job'[p], mismatches', table')
<1>1. /\ Shape(p, job[p], mismatches, table) /\ Knows(p, job[p], mismatches, table)
    BY DEF Sure
<1>2. PICK id, a, b : id = mismatches[job[p].cur].id /\ a = job[p] /\ b = job'[p]
    OBVIOUS
<1>3. /\ b.pc = "resolve" /\ b.row = i /\ b.rows = a.rows /\ b.local = a.local
      /\ b.mine = a.mine /\ b.cur = a.cur /\ b.disturbed = a.disturbed
      /\ UNCHANGED mismatches
    BY <1>2 DEF HasWritten
<1> SUFFICES ASSUME ~a.disturbed PROVE Knows(p, b, mismatches', table')
    BY <1>2, <1>3 DEF Knows
<1>4. i \in Active(table') /\ table'[i].stripe = id /\ id \in StripeIds
    BY <1>1, <1>2 DEF Shape, Given
<1>5. p \in Runs => b.rows = {}
    BY <1>1, <1>2, <1>3 DEF Shape
<1>6. p \in Runs => \A m \in b.mine : \/ mismatches'[m].status # "auto_resolved"
                                      \/ m = b.cur
                                      \/ Settled(mismatches'[m], table')
    <2> SUFFICES ASSUME p \in Runs, NEW m \in a.mine, Settled(mismatches[m], table)
                 PROVE  Settled(mismatches'[m], table')
        BY <1>1, <1>2, <1>3 DEF Knows
    <2> QED BY <1>3 DEF Settled, Given
<1> QED BY <1>2, <1>3, <1>4, <1>5, <1>6 DEF Knows, Acting

LEMMA InsertRowKnows ==
    ASSUME TypeInv, NEW p \in Procs, Sure(p), InsertRow(p)
    PROVE  Knows(p, job'[p], mismatches', table')
<1>1. job[p].pc = "insert"
    BY DEF InsertRow
<1>2. CASE GiveUp(p)
    BY <1>1, <1>2, GiveUpKnows
<1>3. CASE ~GiveUp(p)
    <2>1. PICK i \in RowIds :
              HasWritten(p, i) /\ Given(i, mismatches[job[p].cur].id, table, table')
        BY <1>3, InsertRowIs
    <2> QED BY <1>1, <2>1, GivenKnows
<1> QED BY <1>2, <1>3

LEMMA ReactivateKnows ==
    ASSUME TypeInv, NEW p \in Procs, Sure(p), Reactivate(p)
    PROVE  Knows(p, job'[p], mismatches', table')
<1>1. job[p].pc = "reactivate" /\ Knows(p, job[p], mismatches, table)
    BY DEF Reactivate, Sure
<1>2. CASE Break(p)
    BY <1>2, BreakKnows
<1>3. CASE ~Break(p)
    <2>1. HasWritten(p, job[p].row)
        BY <1>3, ReactivateIs
    <2>2. CASE job[p].disturbed
        BY <2>1, <2>2 DEF HasWritten, Knows
    <2>3. CASE ~job[p].disturbed
        <3>1. job[p].loaded = table[job[p].row] /\ job[p].row \notin Active(table)
            BY <1>1, <2>3 DEF Knows
        <3>2. Given(job[p].row, mismatches[job[p].cur].id, table, table')
            BY <1>3, <3>1, ReactivateIs
        <3> QED BY <1>1, <2>1, <3>2, GivenKnows
    <2> QED BY <2>2, <2>3
<1> QED BY <1>2, <1>3

LEMMA FindToCreateKnows ==
    ASSUME TypeInv, NEW p \in Procs, Sure(p), FindToCreate(p)
    PROVE  Knows(p, job'[p], mismatches', table')
<1>1. /\ Shape(p, job[p], mismatches, table) /\ Knows(p, job[p], mismatches, table)
      /\ job[p].pc = "find" /\ job[p] \in Job
    BY DEF Sure, FindToCreate, Shape
<1>2. CASE GiveUp(p)
    BY <1>1, <1>2, GiveUpKnows
<1>3. CASE ~GiveUp(p)
    <2>1. /\ UNCHANGED mismatches
          /\ WithEmail(table, Incoming(p).email) \cap Active(table) = {}
        BY <1>3 DEF FindToCreate
    <2>2. CASE Goto(p, [job[p] EXCEPT !.pc = "insert"])
        <3> DEFINE j == [job[p] EXCEPT !.pc = "insert"]
        <3>1. job'[p] = j /\ UNCHANGED table
            BY <2>2, GotoLeaves
        <3>2. /\ j.pc = "insert" /\ j.rows = job[p].rows /\ j.local = job[p].local
              /\ j.mine = job[p].mine /\ j.cur = job[p].cur /\ j.disturbed = job[p].disturbed
            BY <1>1 DEF Job
        <3> HIDE DEF j
        <3>3. p \in Runs \/ p \in Admins
            BY DEF Procs
        <3> QED BY <1>1, <2>1, <3>1, <3>2, <3>3, ReadKnows
    <2>3. CASE \E i \in WithEmail(table, Incoming(p).email) :
                   Goto(p, [job[p] EXCEPT !.pc = "reactivate", !.row = i, !.loaded = table[i]])
        <3>1. PICK i \in WithEmail(table, Incoming(p).email) :
                   Goto(p, [job[p] EXCEPT !.pc = "reactivate", !.row = i, !.loaded = table[i]])
            BY <2>3
        <3> DEFINE j == [job[p] EXCEPT !.pc = "reactivate", !.row = i, !.loaded = table[i]]
        <3>2. job'[p] = j /\ UNCHANGED table
            BY <3>1, GotoLeaves
        <3>3. /\ j.pc = "reactivate" /\ j.loaded = table[i] /\ j.row = i
              /\ j.rows = job[p].rows /\ j.local = job[p].local /\ j.mine = job[p].mine
              /\ j.cur = job[p].cur /\ j.disturbed = job[p].disturbed
            BY <1>1 DEF Job
        <3>4. i \notin Active(table)
            BY <2>1, <3>1
        <3> HIDE DEF j
        <3>5. ~j.disturbed /\ p \in Runs =>
                  /\ \A k \in j.rows : k \in Active(table) /\ table[k] = j.local[k]
                  /\ \A m \in j.mine : \/ mismatches[m].status # "auto_resolved"
                                       \/ m = j.cur
                                       \/ Settled(mismatches[m], table)
            BY <1>1, <3>3 DEF Knows
        <3>6. Knows(p, j, mismatches, table)
            BY <3>3, <3>4, <3>5 DEF Knows, Acting
        <3> QED BY <2>1, <3>2, <3>6
    <2> QED BY <1>3, <2>2, <2>3 DEF FindToCreate
<1> QED BY <1>2, <1>3

LEMMA OpenKnows ==
    ASSUME TypeInv, NEW a \in Admins, NEW m \in DOMAIN mismatches, NEW action \in Actions,
           Open(a, m, action)
    PROVE  Knows(a, job'[a], mismatches', table')
<1>1. /\ job'[a].pc \in {"retrieve", "failing", "load", "resolve"}
      /\ job'[a].pc = "resolve" => job'[a].options = {}
    BY OpenOK
<1>2. a \notin Runs
    BY ReconciliationAssumption
<1> QED BY <1>1, <1>2 DEF Knows, Links

LEMMA RetrieveKnows ==
    ASSUME TypeInv, NEW a \in Admins, Retrieve(a)
    PROVE  Knows(a, job'[a], mismatches', table')
<1>1. a \in Procs /\ job[a].pc = "retrieve" /\ job[a] \in Job /\ a \notin Runs
    BY ReconciliationAssumption DEF TypeInv, Procs, Retrieve, Shape
<1>2. PICK s, found :
          \/ Goto(a, [job[a] EXCEPT !.pc = "find", !.remote[s] = found])
          \/ Goto(a, [job[a] EXCEPT !.pc = "failing"])
    BY DEF Retrieve
<1>3. PICK j \in {[job[a] EXCEPT !.pc = "find", !.remote[s] = found],
                  [job[a] EXCEPT !.pc = "failing"]} : Goto(a, j)
    BY <1>2
<1>4. j.pc \in {"find", "failing"}
    BY <1>1, <1>3 DEF Job
<1>5. job'[a] = j
    BY <1>1, <1>3, GotoLeaves
<1> QED BY <1>1, <1>4, <1>5 DEF Knows

LEMMA MoveKnows ==
    ASSUME TypeInv, NEW p \in Procs, Sure(p), Move(p)
    PROVE  Knows(p, job'[p], mismatches', table')
<1>1. CASE p \in Runs /\ RunStep(p)
    <2>1. CASE \E options \in OptionSets : Start(p, options)
        BY <1>1, <2>1, StartKnows
    <2>2. CASE ListLocal(p)
        BY <1>1, <2>2, ListLocalKnows
    <2>3. CASE ListStripe(p)
        BY <1>1, <2>3, ListStripeKnows
    <2>4. CASE \E i \in RowIds : CompareFields(p, i)
        BY <1>1, <2>4, CompareFieldsKnows
    <2>5. CASE \E i \in RowIds : MissingInStripe(p, i)
        BY <1>1, <2>5, MissingInStripeKnows
    <2>6. CASE \E i \in RowIds : FoundByEmail(p, i)
        BY <1>1, <2>6, FoundByEmailKnows
    <2>7. CASE CreateInStripe(p)
        BY <1>1, <2>7, CreateInStripeKnows
    <2>8. CASE Resolve(p)
        BY <1>1, <2>8, ResolveKnows
    <2>9. CASE \E s \in StripeIds : CheckStripe(p, s)
        BY <1>1, <2>9, CheckStripeKnows
    <2>10. CASE Complete(p) \/ FailReport(p)
        BY <1>1, <2>10, OverKnows DEF Complete, FailReport
    <2> QED BY <1>1, <2>1, <2>2, <2>3, <2>4, <2>5, <2>6, <2>7, <2>8, <2>9, <2>10 DEF RunStep
<1>2. CASE p \in Admins /\ AdminStep(p)
    <2>1. CASE \E m \in DOMAIN mismatches, action \in Actions : Open(p, m, action)
        BY <1>2, <2>1, OpenKnows
    <2>2. CASE Retrieve(p)
        BY <1>2, <2>2, RetrieveKnows
    <2>3. CASE MarkResolved(p) \/ MarkFailed(p)
        BY <1>2, <2>3, OverKnows DEF MarkResolved, MarkFailed
    <2> QED BY <1>2, <2>1, <2>2, <2>3 DEF AdminStep
<1>3. CASE WriteStep(p)
    BY <1>3, LoadToLinkKnows, LinkKnows, FindToCreateKnows, InsertRowKnows, ReactivateKnows
       DEF WriteStep
<1>4. CASE Crash(p)
    BY <1>4, OverKnows DEF Crash
<1> QED BY <1>1, <1>2, <1>3, <1>4 DEF Move

LEMMA KnowsInit ==
    ASSUME Init
    PROVE  KnowsInv
<1>1. \A p \in Procs : job[p] = Ready
    BY DEF Init
<1> QED BY <1>1, IdleShape DEF KnowsInv

LEMMA KnowsStep ==
    ASSUME TypeInv, KnowsInv, [Next]_vars
    PROVE  KnowsInv'
<1>1. \A q \in Procs : Sure(q)
    BY DEF TypeInv, KnowsInv, Sure
<1>2. CASE Elsewhere \/ UNCHANGED vars
    <2>1. PICK p : p \notin Procs
        BY NoSetContainsEverything
    <2>2. \A q \in Procs : Left(q)
        BY <1>2, ElsewhereOK, StutterOK
    <2>3. UNCHANGED mismatches
        BY <1>2, ElsewhereOK, StutterOK
    <2>4. \A q \in Procs : q \in Procs \ {p}
        BY <2>1
    <2>5. \A q \in Procs : Knows(q, job'[q], mismatches', table')
        BY <1>1, <2>2, <2>3, <2>4, SameGrows, LeftKnows
    <2> QED BY <2>5 DEF KnowsInv, Procs
<1>3. CASE \E p \in Procs : Move(p)
    <2>1. PICK p \in Procs : Move(p)
        BY <1>3
    <2>2. Grows(p) /\ \A q \in Procs \ {p} : Left(q)
        BY <2>1, MoveOK DEF StepOK
    <2>3. \A q \in Procs \ {p} : Knows(q, job'[q], mismatches', table')
        BY <1>1, <2>2, LeftKnows
    <2>4. Knows(p, job'[p], mismatches', table')
        BY <1>1, <2>1, MoveKnows
    <2> QED BY <2>3, <2>4 DEF KnowsInv, Procs
<1> QED BY <1>2, <1>3, NextIs

LEMMA KnowsAlways == Spec => [](TypeInv /\ KnowsInv)
<1>1. Init => TypeInv /\ KnowsInv
    BY TypeInit, KnowsInit
<1>2. TypeInv /\ KnowsInv /\ [Next]_vars => TypeInv' /\ KnowsInv'
    BY TypeStep, KnowsStep
<1> QED BY <1>1, <1>2, PTL DEF Spec

-----------------------------------------------------------------------------
(* What runs and requests promise.                                         *)

\* A mismatch marked resolved by hand has its row, if the request was to create or
\* to link one and nobody else has written since.
LEMMA ManualStep ==
    ASSUME TypeInv, KnowsInv, NEW a \in Admins, MarksResolved(a), ~job[a].disturbed,
           job[a].options # {}
    PROVE  LET m == mismatches[job[a].cur]
           IN  \E i \in Active(table) :
                   /\ table[i].stripe = m.id
                   /\ m.kind # "missing in local" => i = m.row
<1>1. /\ Shape(a, job[a], mismatches, table) /\ Knows(a, job[a], mismatches, table)
      /\ job[a].pc = "resolve" /\ Links(a, job[a])
    BY DEF TypeInv, KnowsInv, Procs, MarksResolved, Links
<1>2. /\ job[a].row \in Active(table)
      /\ table[job[a].row].stripe = mismatches[job[a].cur].id
    BY <1>1 DEF Knows
<1>3. mismatches[job[a].cur].kind # "missing in local" =>
          job[a].row = mismatches[job[a].cur].row
    BY <1>1 DEF Shape
<1> QED BY <1>2, <1>3

THEOREM ManualResolved == Spec => ManualIsDone
<1>1. TypeInv /\ KnowsInv /\ [Next]_vars =>
          [\A a \in Admins :
             /\ MarksResolved(a) /\ ~job[a].disturbed
             /\ job[a].options # {}
             => LET m == mismatches[job[a].cur]
                IN  \E i \in Active(table) :
                        /\ table[i].stripe = m.id
                        /\ m.kind # "missing in local" => i = m.row]_vars
    BY ManualStep
<1> QED BY <1>1, KnowsAlways, PTL DEF Spec, ManualIsDone

\* Only Complete turns a report from running to completed.
LEMMA CompletesIs ==
    ASSUME TypeInv, [Next]_vars, NEW r \in Runs, CompletesAlone(r)
    PROVE  Complete(r)
<1>1. report[r].status = "running" /\ report'[r].status = "completed"
      /\ report \in [Runs -> Report]
    BY DEF CompletesAlone, TypeInv, WorldOK
<1>2. report' # report
    BY <1>1
<1>3. PICK p \in Runs : (\E options \in OptionSets : Start(p, options))
                        \/ Complete(p) \/ FailReport(p)
    <2>1. ~ UNCHANGED report
        BY <1>2
    <2>2. CASE Elsewhere \/ UNCHANGED vars
        BY <2>1, <2>2 DEF Elsewhere, vars
    <2>3. ASSUME NEW p \in Procs, WriteStep(p) \/ Crash(p)
          PROVE  UNCHANGED report
        BY <2>3 DEF WriteStep, Crash, LoadToLink, Link, FindToCreate, InsertRow, Reactivate,
                    GiveUp, Break
    <2>4. ASSUME NEW p \in Procs, AdminStep(p)
          PROVE  UNCHANGED report
        BY <2>4 DEF AdminStep, Open, Retrieve, MarkResolved, MarkFailed
    <2>5. ASSUME NEW p \in Runs, RunStep(p)
          PROVE  \/ UNCHANGED report
                 \/ (\E options \in OptionSets : Start(p, options)) \/ Complete(p) \/ FailReport(p)
        <3>1. ASSUME NEW i \in RowIds,
                     CompareFields(p, i) \/ MissingInStripe(p, i) \/ FoundByEmail(p, i)
              PROVE  UNCHANGED report
            BY <3>1 DEF CompareFields, MissingInStripe, FoundByEmail, Record
        <3>2. ASSUME NEW s \in StripeIds, CheckStripe(p, s)
              PROVE  UNCHANGED report
            BY <3>2 DEF CheckStripe, Record
        <3>3. ASSUME ListLocal(p) \/ ListStripe(p) \/ CreateInStripe(p) \/ Resolve(p)
              PROVE  UNCHANGED report
            BY <3>3 DEF ListLocal, ListStripe, CreateInStripe, Resolve
        <3> QED BY <2>5, <3>1, <3>2, <3>3 DEF RunStep
    <2> QED BY <2>1, <2>2, <2>3, <2>4, <2>5, NextIs DEF Move
<1>4. CASE \E options \in OptionSets : Start(p, options)
    BY <1>1, <1>4 DEF Start, Report
<1>5. CASE FailReport(p)
    BY <1>1, <1>5 DEF FailReport, Report
<1>6. CASE Complete(p)
    <2>1. p = r
        BY <1>1, <1>6 DEF Complete
    <2> QED BY <1>6, <2>1
<1> QED BY <1>3, <1>4, <1>5, <1>6

LEMMA AutoStep ==
    ASSUME TypeInv, KnowsInv, [Next]_vars, NEW r \in Runs, CompletesAlone(r)
    PROVE  \A m \in AutoResolved(r) : m.row \in Active(table) /\ table[m.row].stripe = m.id
<1>1. Complete(r)
    BY CompletesIs
<1>2. job[r].pc = "check" /\ ~job[r].disturbed /\ Knows(r, job[r], mismatches, table)
    BY <1>1 DEF Complete, CompletesAlone, KnowsInv, Procs
<1>3. \A n \in job[r].mine :
          mismatches[n].status # "auto_resolved" \/ Settled(mismatches[n], table)
    BY <1>2 DEF Knows, Acting
<1> QED BY <1>3 DEF AutoResolved, Settled

THEOREM AutoResolvedDone == Spec => AutoResolvedIsDone
<1>1. TypeInv /\ KnowsInv /\ [Next]_vars =>
          [\A r \in Runs : CompletesAlone(r) =>
             \A m \in AutoResolved(r) :
                 m.row \in Active(table) /\ table[m.row].stripe = m.id]_vars
    BY AutoStep
<1> QED BY <1>1, KnowsAlways, PTL DEF Spec, AutoResolvedIsDone

\* What Additive says of p.
Adds(p) ==
    (job[p].pc # "resolve" /\ job'[p].pc = "resolve") =>
         \A i \in Active(table) :
             /\ i \in Active(table')
             /\ job[p].pc = "link" \/ ~job[p].disturbed =>
                    \E s \in StripeIds \cup {table[i].stripe} :
                        table'[i] = [table[i] EXCEPT !.stripe = s]
             /\ p \in Runs /\ ~job[p].disturbed /\ table'[i] # table[i]
                    => table[i].stripe = NoStripe

\* A row keeps what it has.
LEMMA KeepsRow ==
    ASSUME TypeInv, NEW i \in Active(table)
    PROVE  table[i] = [table[i] EXCEPT !.stripe = table[i].stripe]
<1>1. table[i] \in Row
    BY PresentRow DEF TypeInv, WorldOK, Sound, Active
<1> QED BY <1>1 DEF Row

LEMMA UnwrittenAdds ==
    ASSUME TypeInv, NEW p, UNCHANGED table
    PROVE  Adds(p)
BY KeepsRow DEF Adds

LEMMA LinkAdds ==
    ASSUME TypeInv, NEW p \in Procs, Sure(p), Link(p)
    PROVE  Adds(p)
<1>1. CASE Break(p)
    <2>1. UNCHANGED table
        BY <1>1 DEF Break, Goto
    <2> QED BY <2>1, UnwrittenAdds
<1>2. CASE ~Break(p)
    <2>1. PICK i, id : i = job[p].row /\ id = mismatches[job[p].cur].id
        OBVIOUS
    <2>2. Linked(i, id, table, table')
        BY <1>2, <2>1, LinkIs
    <2>3. id \in StripeIds /\ (p \in Runs /\ ~job[p].disturbed => table[i].stripe = NoStripe)
        BY <2>1 DEF Sure, Shape, Knows, Link
    <2>4. ASSUME NEW k \in Active(table)
          PROVE  /\ k \in Active(table')
                 /\ \E s \in StripeIds \cup {table[k].stripe} :
                        table'[k] = [table[k] EXCEPT !.stripe = s]
                 /\ table'[k] # table[k] => k = i
        <3>1. CASE k = i
            BY <2>2, <2>3, <2>4, <3>1 DEF Linked
        <3>2. CASE k # i
            BY <2>2, <2>4, <3>2, KeepsRow DEF Linked
        <3> QED BY <3>1, <3>2
    <2> QED BY <2>3, <2>4 DEF Adds
<1> QED BY <1>1, <1>2

LEMMA InsertRowAdds ==
    ASSUME TypeInv, NEW p \in Procs, InsertRow(p)
    PROVE  Adds(p)
<1>1. CASE GiveUp(p)
    <2>1. UNCHANGED table
        BY <1>1 DEF GiveUp, Goto
    <2> QED BY <2>1, UnwrittenAdds
<1>2. CASE ~GiveUp(p)
    <2>1. PICK i, id : Given(i, id, table, table')
        BY <1>2, InsertRowIs
    <2> QED BY <2>1, KeepsRow DEF Given, Adds
<1> QED BY <1>1, <1>2

LEMMA ReactivateAdds ==
    ASSUME TypeInv, NEW p \in Procs, Sure(p), Reactivate(p)
    PROVE  Adds(p)
<1>0. job[p].pc = "reactivate"
    BY DEF Reactivate
<1>1. CASE Break(p)
    <2>1. UNCHANGED table
        BY <1>1 DEF Break, Goto
    <2> QED BY <2>1, UnwrittenAdds
<1>2. CASE ~Break(p) /\ job[p].disturbed
    <2>1. Active(table) \subseteq Active(table')
        BY <1>2, ReactivateIs
    <2> QED BY <1>0, <1>2, <2>1 DEF Adds
<1>3. CASE ~Break(p) /\ ~job[p].disturbed
    <2>1. job[p].loaded = table[job[p].row] /\ job[p].row \notin Active(table)
        BY <1>0, <1>3 DEF Sure, Knows
    <2>2. PICK i, id : Given(i, id, table, table')
        BY <1>3, <2>1, ReactivateIs
    <2> QED BY <2>2, KeepsRow DEF Given, Adds
<1> QED BY <1>1, <1>2, <1>3

LEMMA AdditiveStep ==
    ASSUME TypeInv, KnowsInv, [Next]_vars, NEW p \in Procs
    PROVE  Adds(p)
<1>1. CASE Elsewhere \/ UNCHANGED vars
    <2>1. Left(p)
        BY <1>1, ElsewhereOK, StutterOK
    <2>2. job'[p].pc = job[p].pc
        BY <2>1 DEF Left, Keeps
    <2> QED BY <2>2 DEF Adds
<1>2. ASSUME NEW q \in Procs, Move(q), q # p
      PROVE  Adds(p)
    <2>1. Left(p)
        BY <1>2, MoveOK DEF StepOK
    <2>2. job'[p].pc = job[p].pc
        BY <2>1 DEF Left, Keeps
    <2> QED BY <2>2 DEF Adds
<1>3. ASSUME Move(p)
      PROVE  Adds(p)
    <2>0. Sure(p)
        BY DEF TypeInv, KnowsInv, Sure
    <2>1. CASE Link(p)
        BY <2>0, <2>1, LinkAdds
    <2>2. CASE InsertRow(p)
        BY <2>2, InsertRowAdds
    <2>3. CASE Reactivate(p)
        BY <2>0, <2>3, ReactivateAdds
    <2>4. CASE LoadToLink(p) \/ FindToCreate(p) \/ Crash(p)
        <3>1. UNCHANGED table
            BY <2>4 DEF LoadToLink, FindToCreate, Crash, GiveUp, Goto
        <3> QED BY <3>1, UnwrittenAdds
    <2>5. CASE p \in Runs /\ RunStep(p)
        <3>1. UNCHANGED table
            BY <2>5 DEF RunStep, Start, ListLocal, ListStripe, CompareFields, MissingInStripe,
                FoundByEmail, CreateInStripe, Resolve, CheckStripe, Complete, FailReport,
                Record, Goto
        <3> QED BY <3>1, UnwrittenAdds
    <2>6. CASE p \in Admins /\ AdminStep(p)
        <3>1. UNCHANGED table
            BY <2>6 DEF AdminStep, Open, Retrieve, MarkResolved, MarkFailed, Goto
        <3> QED BY <3>1, UnwrittenAdds
    <2> QED BY <1>3, <2>1, <2>2, <2>3, <2>4, <2>5, <2>6 DEF Move, WriteStep
<1> QED BY <1>1, <1>2, <1>3, NextIs

\* No run and no request deactivates a row or takes a link away, and none changes
\* the rest of an active row unless others have written meanwhile.
THEOREM OnlyAdds == Spec => Additive
<1>1. TypeInv /\ KnowsInv /\ [Next]_vars =>
          [\A p \in Procs : (job[p].pc # "resolve" /\ job'[p].pc = "resolve") =>
             \A i \in Active(table) :
                 /\ i \in Active(table')
                 /\ job[p].pc = "link" \/ ~job[p].disturbed =>
                        \E s \in StripeIds \cup {table[i].stripe} :
                            table'[i] = [table[i] EXCEPT !.stripe = s]
                 /\ p \in Runs /\ ~job[p].disturbed /\ table'[i] # table[i]
                        => table[i].stripe = NoStripe]_vars
    BY AdditiveStep DEF Adds
<1> QED BY <1>1, KnowsAlways, PTL DEF Spec, Additive

-----------------------------------------------------------------------------
(* What a run has seen to.                                                 *)

\* r has its shape, knows what it should and has seen to what it should.
Thorough(r) == Sure(r) /\ Covers(job[r], mismatches, table, stripe)

\* What is left alone has seen to what it had, unless it is disturbed.
LEMMA LeftCovers ==
    ASSUME NEW p, NEW q \in Procs \ {p}, Thorough(q), Left(q), Grows(p)
    PROVE  Covers(job'[q], mismatches', table', stripe')
<1>1. PICK a, b : a = job[q] /\ b = job'[q]
    OBVIOUS
<1>2. /\ b.pc = a.pc /\ b.rows = a.rows /\ b.ids = a.ids /\ b.local = a.local
      /\ b.remote = a.remote /\ b.mine = a.mine /\ b.cur = a.cur /\ b.row = a.row
      /\ a.disturbed => b.disturbed
    BY <1>1 DEF Left, Keeps
<1> SUFFICES ASSUME ~b.disturbed, b.pc \notin {"ready", "list local", "failing", "over"}
             PROVE  Covers(b, mismatches', table', stripe')
    BY <1>1 DEF Covers
<1>3. table' = table /\ stripe' = stripe
    BY <1>1, <1>2 DEF Left, UnderWay
<1>4. /\ ListStands(a, table)
      /\ a.pc = "list stripe" => \A i \in Active(table) \ a.rows : CutOff(a.local, i)
      /\ a.pc # "list stripe" =>
             a.remote = stripe /\ RowsSeen(a, mismatches, table) /\ IdsSeen(a, mismatches, table, stripe)
    BY <1>1, <1>2 DEF Thorough, Covers
<1>5. \A m \in a.mine : m \in DOMAIN mismatches /\ mismatches[m].run = q
    BY <1>1 DEF Thorough, Sure, Shape
<1>6. \A m \in a.mine :
          /\ mismatches'[m].id = mismatches[m].id
          /\ mismatches'[m].row = mismatches[m].row
          /\ mismatches[m].resolved => mismatches'[m].resolved
          /\ mismatches'[m].status = "auto_resolved" => mismatches[m].status = "auto_resolved"
    BY <1>5 DEF Grows
<1>7. ListStands(b, table')
    BY <1>2, <1>3, <1>4 DEF ListStands
<1>8. RowsSeen(a, mismatches, table) => RowsSeen(b, mismatches', table')
    <2> SUFFICES ASSUME NEW i, Reported(a, mismatches, table, i)
                 PROVE  Reported(b, mismatches', table, i)
        BY <1>2, <1>3 DEF RowsSeen
    <2>1. CASE \E m \in a.mine : /\ mismatches[m].row = i
                                 /\ \/ mismatches[m].resolved \/ mismatches[m].status # "auto_resolved"
                                    \/ m = a.cur /\ a.pc \in Acting
        <3>1. PICK m \in a.mine : /\ mismatches[m].row = i
                                  /\ \/ mismatches[m].resolved \/ mismatches[m].status # "auto_resolved"
                                     \/ m = a.cur /\ a.pc \in Acting
            BY <2>1
        <3>2. /\ mismatches'[m].row = i
              /\ \/ mismatches'[m].resolved \/ mismatches'[m].status # "auto_resolved"
                 \/ m = b.cur /\ b.pc \in Acting
            BY <1>2, <1>6, <3>1
        <3> QED BY <1>2, <3>1, <3>2 DEF Reported
    <2>2. CASE \/ a.pc = "resolve" /\ i = a.row
               \/ CutOff(a.local, i)
               \/ /\ table[i].stripe \in InUse(a.remote)
                  /\ a.remote[table[i].stripe] = [name |-> table[i].name, email |-> table[i].email]
        BY <1>2, <2>2 DEF Reported
    <2> QED BY <2>1, <2>2 DEF Reported
<1>9. IdsSeen(a, mismatches, table, stripe) => IdsSeen(b, mismatches', table', stripe')
    <2>1. ASSUME IdsSeen(a, mismatches, table, stripe), NEW s \in InUse(stripe) \ a.ids
          PROVE  \/ \E i \in Active(table) : table[i].stripe = s \/ table[i].email = stripe[s].email
                 \/ \E m \in b.mine : mismatches'[m].id = s
        <3>1. \/ \E i \in Active(table) : table[i].stripe = s \/ table[i].email = stripe[s].email
              \/ \E m \in a.mine : mismatches[m].id = s
            BY <2>1 DEF IdsSeen
        <3>2. a.mine = b.mine /\ \A m \in a.mine : mismatches'[m].id = mismatches[m].id
            BY <1>2, <1>6
        <3> QED BY <3>1, <3>2
    <2>2. /\ Active(table') = Active(table) /\ InUse(stripe') = InUse(stripe)
          /\ table' = table /\ stripe' = stripe /\ b.ids = a.ids
        BY <1>2, <1>3
    <2> QED BY <2>1, <2>2 DEF IdsSeen
<1> QED BY <1>2, <1>3, <1>4, <1>7, <1>8, <1>9 DEF Covers

\* A step that reads, while the run has seen nothing yet or goes on with the rest.
LEMMA ListLocalCovers ==
    ASSUME TypeInv, NEW r \in Runs, ListLocal(r)
    PROVE  Covers(job'[r], mismatches', table', stripe')
<1>1. PICK l \in Tables, j \in Job : Lists(r, l, j)
    BY ListLocalIs
<1>2. job'[r] = j /\ UNCHANGED table
    BY <1>1, GotoLeaves DEF Lists, Procs
<1>3. ListStands(j, table)
    BY <1>1 DEF ListStands, Lists
<1>4. j.pc = "list stripe" /\ \A i \in Active(table) \ j.rows : CutOff(j.local, i)
    BY <1>1 DEF Lists
<1> QED BY <1>2, <1>3, <1>4 DEF Covers

LEMMA ListStripeCovers ==
    ASSUME TypeInv, NEW r \in Runs, Thorough(r), ListStripe(r)
    PROVE  Covers(job'[r], mismatches', table', stripe')
<1>1. job[r].pc = "list stripe" /\ r \in Procs /\ job[r] \in Job
    BY DEF ListStripe, Procs, TypeInv, Shape
<1>2. CASE Goto(r, [job[r] EXCEPT !.pc = "failing"])
    <2>1. job'[r] = [job[r] EXCEPT !.pc = "failing"]
        BY <1>1, <1>2, GotoLeaves
    <2>2. job'[r].pc = "failing"
        BY <1>1, <2>1 DEF Job
    <2> QED BY <2>2 DEF Covers
<1>3. CASE Goto(r, [job[r] EXCEPT !.pc = "check", !.ids = InUse(stripe), !.remote = stripe])
    <2> DEFINE j == [job[r] EXCEPT !.pc = "check", !.ids = InUse(stripe), !.remote = stripe]
    <2>1. job'[r] = j /\ UNCHANGED <<table, stripe>>
        BY <1>1, <1>3, GotoLeaves
    <2>2. j.pc = "check" /\ j.rows = job[r].rows /\ j.local = job[r].local /\ j.remote = stripe
          /\ j.ids = InUse(stripe) /\ j.disturbed = job[r].disturbed
        BY <1>1 DEF Job
    <2> HIDE DEF j
    <2>3. ~j.disturbed => ListStands(j, table) /\ \A i \in Active(table) \ j.rows : CutOff(j.local, i)
        BY <1>1, <2>2 DEF Thorough, Covers, ListStands
    <2>4. ~j.disturbed => RowsSeen(j, mismatches', table) /\ IdsSeen(j, mismatches', table, stripe)
        BY <2>2, <2>3 DEF RowsSeen, IdsSeen, Reported
    <2> QED BY <2>1, <2>2, <2>3, <2>4 DEF Covers
<1> QED BY <1>2, <1>3 DEF ListStripe

\* What leaves the lists is recorded, or needs no record.
LEMMA RecordCovers ==
    ASSUME TypeInv, NEW r \in Runs, Thorough(r), job[r].pc = "check",
           NEW ms \in Seq(Mismatch), NEW j \in Job, Record(r, ms, j), GoesOn(r, j),
           j.pc \in Acting \cup {"check"},
           \A i \in job[r].rows \ j.rows :
               \/ \E n \in 1..Len(ms) : ms[n].row = i /\ ms[n].status # "auto_resolved"
               \/ Len(ms) = 1 /\ ms[1].row = i /\ j.pc \in Acting
               \/ /\ job[r].local[i].stripe \in InUse(job[r].remote)
                  /\ job[r].remote[job[r].local[i].stripe] =
                         [name |-> job[r].local[i].name, email |-> job[r].local[i].email],
           \A s \in job[r].ids \ j.ids : \E n \in 1..Len(ms) : ms[n].id = s
    PROVE  Covers(job'[r], mismatches', table', stripe')
<1>1. PICK a, b : a = job[r] /\ b = job'[r]
    OBVIOUS
<1>2. /\ b.pc = j.pc /\ b.rows = j.rows /\ b.ids = j.ids /\ b.local = j.local
      /\ b.remote = j.remote /\ b.disturbed = j.disturbed
      /\ \A m \in a.mine : m \in b.mine /\ mismatches'[m] = mismatches[m]
      /\ \A n \in 1..Len(ms) : \E m \in b.mine : mismatches'[m] = ms[n]
      /\ Len(ms) = 1 => b.cur \in b.mine /\ mismatches'[b.cur] = ms[1]
      /\ UNCHANGED <<table, stripe>>
    <2>1. Recorded(r, ms, j)
        BY RecordIs DEF GoesOn
    <2> QED BY <1>1, <2>1 DEF Recorded
<1>3. /\ j.local = a.local /\ j.remote = a.remote /\ j.disturbed = a.disturbed
      /\ j.rows \subseteq a.rows /\ j.ids \subseteq a.ids
    BY <1>1 DEF GoesOn
<1> SUFFICES ASSUME ~a.disturbed
             PROVE  Covers(b, mismatches', table', stripe')
    BY <1>1, <1>2, <1>3 DEF Covers
<1>4. /\ ListStands(a, table) /\ a.remote = stripe
      /\ RowsSeen(a, mismatches, table) /\ IdsSeen(a, mismatches, table, stripe)
    BY <1>1 DEF Thorough, Covers
<1>5. \A i \in a.rows : i \in Active(table) /\ table[i] = a.local[i]
    BY <1>1 DEF Thorough, Sure, Knows
<1>6. ListStands(b, table')
    BY <1>2, <1>3, <1>4 DEF ListStands
<1>7. ASSUME NEW i \in Active(table) \ a.rows
      PROVE  Reported(b, mismatches', table, i)
    <2>1. Reported(a, mismatches, table, i)
        BY <1>4 DEF RowsSeen
    <2>2. CASE \E m \in a.mine : /\ mismatches[m].row = i
                                 /\ mismatches[m].resolved \/ mismatches[m].status # "auto_resolved"
        <3>1. PICK m \in a.mine : /\ mismatches[m].row = i
                                  /\ mismatches[m].resolved \/ mismatches[m].status # "auto_resolved"
            BY <2>2
        <3> QED BY <1>2, <3>1 DEF Reported
    <2>3. CASE /\ table[i].stripe \in InUse(a.remote)
               /\ a.remote[table[i].stripe] = [name |-> table[i].name, email |-> table[i].email]
        BY <1>2, <1>3, <2>3 DEF Reported
    <2>4. CASE CutOff(a.local, i)
        BY <1>2, <1>3, <2>4 DEF Reported
    <2> QED BY <1>1, <2>1, <2>2, <2>3, <2>4 DEF Reported, Acting
<1>8. ASSUME NEW i \in a.rows \ j.rows
      PROVE  Reported(b, mismatches', table, i)
    <2>1. CASE \E n \in 1..Len(ms) : ms[n].row = i /\ ms[n].status # "auto_resolved"
        BY <1>2, <2>1 DEF Reported
    <2>2. CASE Len(ms) = 1 /\ ms[1].row = i /\ j.pc \in Acting
        BY <1>2, <2>2 DEF Reported
    <2>3. CASE /\ a.local[i].stripe \in InUse(a.remote)
               /\ a.remote[a.local[i].stripe] = [name |-> a.local[i].name, email |-> a.local[i].email]
        BY <1>2, <1>3, <1>5, <2>3 DEF Reported
    <2> QED BY <1>1, <2>1, <2>2, <2>3
<1>9. RowsSeen(b, mismatches', table')
    BY <1>2, <1>7, <1>8 DEF RowsSeen
<1>10. IdsSeen(b, mismatches', table', stripe')
    <2> SUFFICES ASSUME NEW s \in InUse(stripe) \ j.ids
                 PROVE  \/ \E i \in Active(table) : table[i].stripe = s \/ table[i].email = stripe[s].email
                        \/ \E m \in b.mine : mismatches'[m].id = s
        BY <1>2 DEF IdsSeen
    <2>1. CASE s \in a.ids
        BY <1>1, <1>2, <2>1
    <2>2. CASE s \notin a.ids
        BY <1>2, <1>4, <2>2 DEF IdsSeen
    <2> QED BY <2>1, <2>2
<1>11. b.pc \notin {"ready", "list stripe", "list local", "failing", "over"}
    BY <1>2 DEF Acting
<1> QED BY <1>2, <1>3, <1>4, <1>6, <1>9, <1>10, <1>11 DEF Covers

LEMMA CompareFieldsCovers ==
    ASSUME TypeInv, NEW r \in Runs, NEW i \in RowIds, Thorough(r), CompareFields(r, i)
    PROVE  Covers(job'[r], mismatches', table', stripe')
<1>1. PICK ms \in Seq(Mismatch), j \in Job : FieldsDiffer(r, i, ms, j)
    BY CompareFieldsIs
<1>2. Record(r, ms, j) /\ GoesOn(r, j) /\ j.pc \in Acting \cup {"check"} /\ job[r].pc = "check"
    BY <1>1 DEF FieldsDiffer, CompareFields
<1>3. \A k \in job[r].rows \ j.rows :
          \/ \E n \in 1..Len(ms) : ms[n].row = k /\ ms[n].status # "auto_resolved"
          \/ /\ job[r].local[k].stripe \in InUse(job[r].remote)
             /\ job[r].remote[job[r].local[k].stripe] =
                    [name |-> job[r].local[k].name, email |-> job[r].local[k].email]
    <2> SUFFICES ASSUME NEW k \in job[r].rows \ j.rows, 1 \in 1..Len(ms)
                 PROVE  \E n \in 1..Len(ms) : ms[n].row = k /\ ms[n].status # "auto_resolved"
        BY <1>1 DEF FieldsDiffer
    <2>1. ms[1].row = i /\ ms[1].status = "pending" /\ k = i
        BY <1>1 DEF FieldsDiffer
    <2> QED BY <2>1
<1>4. \A s \in job[r].ids \ j.ids : FALSE
    BY <1>1 DEF FieldsDiffer
<1> QED BY <1>2, <1>3, <1>4, RecordCovers

LEMMA MissingInStripeCovers ==
    ASSUME TypeInv, NEW r \in Runs, NEW i \in RowIds, Thorough(r), MissingInStripe(r, i)
    PROVE  Covers(job'[r], mismatches', table', stripe')
<1>1. PICK d \in Mismatch, j \in Job : NotInStripe(r, i, d, j)
    BY MissingInStripeIs
<1>2. PICK ms \in Seq(Mismatch) : ms = <<d>>
    BY Lone
<1>3. Len(ms) = 1 /\ ms[1] = d /\ 1 \in 1..Len(ms)
    BY <1>2, Lone
<1>4. Record(r, ms, j) /\ GoesOn(r, j) /\ j.pc \in Acting \cup {"check"} /\ job[r].pc = "check"
    BY <1>1, <1>2, MissingInStripeIs DEF NotInStripe, Acting
<1>5. \A k \in job[r].rows \ j.rows :
          \/ \E n \in 1..Len(ms) : ms[n].row = k /\ ms[n].status # "auto_resolved"
          \/ Len(ms) = 1 /\ ms[1].row = k /\ j.pc \in Acting
    BY <1>1, <1>3 DEF NotInStripe, Acting
<1>6. \A s \in job[r].ids \ j.ids : FALSE
    BY <1>1 DEF NotInStripe
<1> QED BY <1>4, <1>5, <1>6, RecordCovers

LEMMA FoundByEmailCovers ==
    ASSUME TypeInv, NEW r \in Runs, NEW i \in RowIds, Thorough(r), FoundByEmail(r, i)
    PROVE  Covers(job'[r], mismatches', table', stripe')
<1>1. PICK d \in Mismatch, j \in Job : CanBeLinked(r, i, d, j)
    BY FoundByEmailIs
<1>2. PICK ms \in Seq(Mismatch) : ms = <<d>>
    BY Lone
<1>3. Len(ms) = 1 /\ ms[1] = d /\ 1 \in 1..Len(ms)
    BY <1>2, Lone
<1>4. Record(r, ms, j) /\ GoesOn(r, j) /\ j.pc \in Acting \cup {"check"} /\ job[r].pc = "check"
    BY <1>1, <1>2, FoundByEmailIs DEF CanBeLinked, Acting
<1>5. \A k \in job[r].rows \ j.rows :
          \/ \E n \in 1..Len(ms) : ms[n].row = k /\ ms[n].status # "auto_resolved"
          \/ Len(ms) = 1 /\ ms[1].row = k /\ j.pc \in Acting
    BY <1>1, <1>3 DEF CanBeLinked, Acting
<1>6. \A s \in job[r].ids \ j.ids : FALSE
    BY <1>1 DEF CanBeLinked
<1> QED BY <1>4, <1>5, <1>6, RecordCovers

LEMMA CheckStripeCovers ==
    ASSUME TypeInv, NEW r \in Runs, NEW s \in StripeIds, Thorough(r), CheckStripe(r, s)
    PROVE  Covers(job'[r], mismatches', table', stripe')
<1>0. job[r].pc = "check" /\ job[r].rows = {} /\ s \in job[r].ids /\ r \in Procs
    BY CheckStripeIs DEF Procs
<1>1. PICK j \in Job :
          \/ /\ GoesOn(r, j) /\ j.rows = {} /\ j.ids = job[r].ids \ {s}
             /\ j.pc = "check" /\ KnownLocally(job[r], s)
             /\ Goto(r, j) /\ UNCHANGED <<mismatches, report>>
          \/ \E d \in Mismatch : NotInTable(r, s, d, j)
    BY CheckStripeIs
<1>2. CASE /\ GoesOn(r, j) /\ j.rows = {} /\ j.ids = job[r].ids \ {s}
           /\ j.pc = "check" /\ KnownLocally(job[r], s)
           /\ Goto(r, j) /\ UNCHANGED <<mismatches, report>>
    <2>1. PICK a : a = job[r]
        OBVIOUS
    <2>2. job'[r] = j /\ UNCHANGED <<table, stripe, mismatches>>
        BY <1>0, <1>2, GotoLeaves
    <2>3. j.local = a.local /\ j.remote = a.remote /\ j.mine = a.mine /\ j.disturbed = a.disturbed
        BY <1>2, <2>1 DEF GoesOn
    <2> SUFFICES ASSUME ~a.disturbed PROVE Covers(j, mismatches, table, stripe)
        BY <2>2, <2>3 DEF Covers
    <2>4. /\ ListStands(a, table) /\ a.remote = stripe
          /\ RowsSeen(a, mismatches, table) /\ IdsSeen(a, mismatches, table, stripe)
        BY <1>0, <2>1 DEF Thorough, Covers
    <2>5. ListStands(j, table)
        BY <2>3, <2>4 DEF ListStands
    <2>6. RowsSeen(j, mismatches, table)
        <3>1. ASSUME NEW i \in Active(table), Reported(a, mismatches, table, i)
              PROVE  Reported(j, mismatches, table, i)
            BY <1>0, <2>1, <2>3, <3>1 DEF Reported, Acting
        <3> QED BY <1>0, <1>2, <2>1, <2>4, <3>1 DEF RowsSeen
    <2>7. \E i \in Active(table) : table[i].stripe = s \/ table[i].email = stripe[s].email
        <3>1. PICK i \in Present(a.local) :
                  a.local[i].stripe = s \/ a.local[i].email = a.remote[s].email
            BY <1>2, <2>1 DEF KnownLocally
        <3>2. s # NoStripe
            BY TableAssumption
        <3> QED BY <2>4, <3>1, <3>2 DEF ListStands
    <2>8. IdsSeen(j, mismatches, table, stripe)
        BY <1>2, <2>1, <2>3, <2>4, <2>7 DEF IdsSeen
    <2>9. j.pc = "check" /\ j.remote = stripe
        BY <1>2, <2>3, <2>4
    <2> QED BY <2>5, <2>6, <2>8, <2>9 DEF Covers
<1>3. CASE \E d \in Mismatch : NotInTable(r, s, d, j)
    <2>1. PICK d \in Mismatch : NotInTable(r, s, d, j)
        BY <1>3
    <2>2. PICK ms \in Seq(Mismatch) : ms = <<d>>
        BY Lone
    <2>3. Len(ms) = 1 /\ ms[1] = d /\ 1 \in 1..Len(ms)
        BY <2>2, Lone
    <2>4. Record(r, ms, j) /\ GoesOn(r, j) /\ j.pc \in Acting \cup {"check"}
        BY <2>1, <2>2 DEF NotInTable, Acting
    <2>5. \A k \in job[r].rows \ j.rows : FALSE
        BY <1>0
    <2>6. \A q \in job[r].ids \ j.ids : \E n \in 1..Len(ms) : ms[n].id = q
        BY <2>1, <2>3 DEF NotInTable
    <2> QED BY <1>0, <2>4, <2>5, <2>6, RecordCovers
<1> QED BY <1>1, <1>2, <1>3

\* The run marks its mismatch so that it is no longer merely announced.
LEMMA MarkedCovers ==
    ASSUME TypeInv, NEW r \in Runs, Thorough(r), job[r].pc \in Acting \ {"resolve"},
           NEW new, Marks(r, job[r].cur, new), new.row = mismatches[job[r].cur].row,
           new.status # "auto_resolved", Goto(r, [job[r] EXCEPT !.pc = "check"])
    PROVE  Covers(job'[r], mismatches', table', stripe')
<1> DEFINE j == [job[r] EXCEPT !.pc = "check"]
<1>1. PICK a, c : a = job[r] /\ c = a.cur
    OBVIOUS
<1>2. a \in Job /\ r \in Procs /\ \A m \in a.mine : m \in DOMAIN mismatches
    BY <1>1 DEF TypeInv, Procs, Shape
<1>3. /\ j.pc = "check" /\ j.rows = a.rows /\ j.ids = a.ids /\ j.local = a.local
      /\ j.remote = a.remote /\ j.mine = a.mine /\ j.disturbed = a.disturbed
    BY <1>1, <1>2 DEF Job
<1>4. job'[r] = j /\ UNCHANGED <<table, stripe>>
    BY <1>2, GotoLeaves
<1> HIDE DEF j
<1>5. /\ mismatches'[c] = new
      /\ \A m \in DOMAIN mismatches : m # c => mismatches'[m] = mismatches[m]
      /\ new.id = mismatches[c].id /\ new.row = mismatches[c].row
    BY <1>1, EditGrows DEF Marks
<1> SUFFICES ASSUME ~a.disturbed PROVE Covers(j, mismatches', table, stripe)
    BY <1>3, <1>4 DEF Covers
<1>6. /\ ListStands(a, table) /\ a.remote = stripe
      /\ RowsSeen(a, mismatches, table) /\ IdsSeen(a, mismatches, table, stripe)
    BY <1>1 DEF Thorough, Covers, Acting
<1>7. ListStands(j, table)
    BY <1>3, <1>6 DEF ListStands
<1>8. ASSUME NEW i \in Active(table) \ a.rows
      PROVE  Reported(j, mismatches', table, i)
    <2>1. Reported(a, mismatches, table, i)
        BY <1>6 DEF RowsSeen
    <2>2. CASE /\ table[i].stripe \in InUse(a.remote)
               /\ a.remote[table[i].stripe] = [name |-> table[i].name, email |-> table[i].email]
        BY <1>3, <2>2 DEF Reported
    <2>3. CASE \E m \in a.mine : /\ mismatches[m].row = i
                                 /\ \/ mismatches[m].resolved \/ mismatches[m].status # "auto_resolved"
                                    \/ m = c
        <3>1. PICK m \in a.mine : /\ mismatches[m].row = i
                                  /\ \/ mismatches[m].resolved \/ mismatches[m].status # "auto_resolved"
                                     \/ m = c
            BY <2>3
        <3>2. /\ mismatches'[m].row = i
              /\ mismatches'[m].resolved \/ mismatches'[m].status # "auto_resolved"
            BY <1>2, <1>5, <3>1
        <3> QED BY <1>3, <3>1, <3>2 DEF Reported
    <2>4. CASE CutOff(a.local, i)
        BY <1>3, <2>4 DEF Reported
    <2> QED BY <1>1, <2>1, <2>2, <2>3, <2>4 DEF Reported
<1>9. RowsSeen(j, mismatches', table)
    BY <1>3, <1>8 DEF RowsSeen
<1>10. IdsSeen(j, mismatches', table, stripe)
    <2>1. \A m \in a.mine : mismatches'[m].id = mismatches[m].id
        BY <1>2, <1>5
    <2> QED BY <1>3, <1>6, <2>1 DEF IdsSeen
<1> QED BY <1>3, <1>6, <1>7, <1>9, <1>10 DEF Covers

LEMMA PendingCovers ==
    ASSUME TypeInv, NEW r \in Runs, Thorough(r), job[r].pc \in Acting \ {"resolve"},
           mismatches' = [mismatches EXCEPT ![job[r].cur].status = "pending"],
           Goto(r, [job[r] EXCEPT !.pc = "check"])
    PROVE  Covers(job'[r], mismatches', table', stripe')
<1>1. PICK c : c = job[r].cur
    OBVIOUS
<1>2. c \in DOMAIN mismatches /\ mismatches[c] \in Mismatch
    BY <1>1, CurType DEF Procs
<1>3. PICK new : new = [mismatches[c] EXCEPT !.status = "pending"]
    OBVIOUS
<1>4. new \in Mismatch /\ new.status = "pending" /\ new.run = mismatches[c].run
      /\ new.kind = mismatches[c].kind /\ new.id = mismatches[c].id
      /\ new.email = mismatches[c].email /\ new.row = mismatches[c].row
      /\ new.resolved = mismatches[c].resolved
    BY <1>2, <1>3 DEF Mismatch
<1>5. mismatches' = [mismatches EXCEPT ![c] = new]
    BY <1>1, <1>3
<1>6. Marks(r, c, new)
    BY <1>2, <1>4, <1>5 DEF Marks
<1> QED BY <1>1, <1>4, <1>6, MarkedCovers

\* The run goes on with the mismatch it is at, having written nothing.
LEMMA ActingCovers ==
    ASSUME NEW r \in Runs, Thorough(r), UNCHANGED <<table, stripe, mismatches>>,
           job[r].pc \in Acting \ {"resolve"}, NEW j, j.pc \in Acting,
           j.rows = job[r].rows, j.ids = job[r].ids, j.local = job[r].local,
           j.remote = job[r].remote, j.mine = job[r].mine, j.cur = job[r].cur,
           j.disturbed = job[r].disturbed
    PROVE  Covers(j, mismatches', table', stripe')
<1>1. PICK a : a = job[r]
    OBVIOUS
<1> SUFFICES ASSUME ~a.disturbed PROVE Covers(j, mismatches, table, stripe)
    BY <1>1 DEF Covers
<1>2. /\ ListStands(a, table) /\ a.remote = stripe
      /\ RowsSeen(a, mismatches, table) /\ IdsSeen(a, mismatches, table, stripe)
    BY <1>1 DEF Thorough, Covers, Acting
<1>3. ListStands(j, table)
    BY <1>1, <1>2 DEF ListStands
<1>4. ASSUME NEW i, Reported(a, mismatches, table, i)
      PROVE  Reported(j, mismatches, table, i)
    BY <1>1, <1>4 DEF Reported
<1>5. RowsSeen(j, mismatches, table)
    BY <1>1, <1>2, <1>4 DEF RowsSeen
<1>6. IdsSeen(j, mismatches, table, stripe)
    BY <1>1, <1>2 DEF IdsSeen
<1> QED BY <1>1, <1>2, <1>3, <1>5, <1>6 DEF Covers, Acting

LEMMA LoadToLinkCovers ==
    ASSUME TypeInv, NEW r \in Runs, Thorough(r), LoadToLink(r)
    PROVE  Covers(job'[r], mismatches', table', stripe')
<1>1. /\ r \in Procs /\ job[r].pc = "load" /\ job[r] \in Job /\ UNCHANGED mismatches
      /\ Knows(r, job[r], mismatches, table)
    BY DEF Procs, LoadToLink, Thorough, Sure, Shape
<1>2. CASE job[r].row \in Active(table)
    <2> DEFINE j == [job[r] EXCEPT !.pc = "link", !.loaded = table[job[r].row]]
    <2>1. Goto(r, j)
        BY <1>2 DEF LoadToLink
    <2>2. job'[r] = j /\ UNCHANGED <<table, stripe>>
        BY <1>1, <2>1, GotoLeaves
    <2>3. /\ j.pc = "link" /\ j.rows = job[r].rows /\ j.ids = job[r].ids
          /\ j.local = job[r].local /\ j.remote = job[r].remote /\ j.mine = job[r].mine
          /\ j.cur = job[r].cur /\ j.disturbed = job[r].disturbed
        BY <1>1 DEF Job
    <2> HIDE DEF j
    <2>4. job[r].pc \in Acting \ {"resolve"} /\ j.pc \in Acting
        BY <1>1, <2>3 DEF Acting
    <2> QED BY <1>1, <2>2, <2>3, <2>4, ActingCovers
<1>3. CASE job[r].row \notin Active(table)
    <2>1. job[r].disturbed
        BY <1>1, <1>3 DEF Knows
    <2>2. Goto(r, [job[r] EXCEPT !.pc = "check"])
        BY <1>3 DEF LoadToLink
    <2>3. job'[r] = [job[r] EXCEPT !.pc = "check"]
        BY <1>1, <2>2, GotoLeaves
    <2>4. job'[r].disturbed
        BY <1>1, <2>1, <2>3 DEF Job
    <2> QED BY <2>4 DEF Covers
<1> QED BY <1>2, <1>3

LEMMA BreakCovers ==
    ASSUME TypeInv, NEW r \in Runs, Break(r)
    PROVE  Covers(job'[r], mismatches', table', stripe')
<1>1. r \in Procs /\ job[r] \in Job
    BY DEF Procs, TypeInv, Shape
<1>2. job'[r] = [job[r] EXCEPT !.pc = "failing", !.broken = TRUE]
    BY <1>1, GotoLeaves DEF Break
<1>3. job'[r].pc = "failing"
    BY <1>1, <1>2 DEF Job
<1> QED BY <1>3 DEF Covers

LEMMA LinkCovers ==
    ASSUME TypeInv, NEW r \in Runs, Thorough(r), Link(r)
    PROVE  Covers(job'[r], mismatches', table', stripe')
<1>1. CASE Break(r)
    BY <1>1, BreakCovers
<1>2. CASE ~Break(r)
    <2>1. PICK i, id, a, b : /\ i = job[r].row /\ id = mismatches[job[r].cur].id
                             /\ a = job[r] /\ b = job'[r]
        OBVIOUS
    <2>2. HasWritten(r, i) /\ Linked(i, id, table, table') /\ a.pc = "link" /\ r \in Procs
        BY <1>2, <2>1, LinkIs DEF Procs, Link
    <2>3. /\ b.pc = "resolve" /\ b.row = i /\ b.rows = a.rows /\ b.ids = a.ids
          /\ b.local = a.local /\ b.remote = a.remote
          /\ b.mine = a.mine /\ b.cur = a.cur /\ b.disturbed = a.disturbed
          /\ UNCHANGED mismatches
        BY <2>1, <2>2 DEF HasWritten
    <2>4. UNCHANGED stripe
        BY <1>2 DEF Link, Commit
    <2> SUFFICES ASSUME ~a.disturbed PROVE Covers(b, mismatches, table', stripe)
        BY <2>1, <2>3, <2>4 DEF Covers
    <2>5. /\ ListStands(a, table) /\ a.remote = stripe
          /\ RowsSeen(a, mismatches, table) /\ IdsSeen(a, mismatches, table, stripe)
        BY <2>1, <2>2 DEF Thorough, Covers
    <2>6. i \in Active(table) /\ table[i].stripe = NoStripe
        BY <2>1, <2>2 DEF Thorough, Sure, Knows
    <2>7. table[i] \in Row
        BY <2>6, PresentRow DEF TypeInv, WorldOK, Sound, Active
    <2>8. table'[i].email = table[i].email
        BY <2>2, <2>6, <2>7 DEF Linked, Row
    <2>9. Active(table') = Active(table) /\ \A k \in Active(table) : k # i => table'[k] = table[k]
        BY <2>2 DEF Linked
    <2>10. ListStands(b, table')
        <3> SUFFICES ASSUME NEW k \in Present(a.local)
                     PROVE  /\ k \in Active(table') /\ table'[k].email = a.local[k].email
                            /\ a.local[k].stripe \in {NoStripe, table'[k].stripe}
            BY <2>3 DEF ListStands
        <3>1. /\ k \in Active(table) /\ table[k].email = a.local[k].email
              /\ a.local[k].stripe \in {NoStripe, table[k].stripe}
            BY <2>5 DEF ListStands
        <3> QED BY <2>6, <2>8, <2>9, <3>1
    <2>11. ASSUME NEW k \in Active(table'), k \notin b.rows
           PROVE  Reported(b, mismatches, table', k)
        <3>1. CASE k = i
            BY <2>3, <3>1 DEF Reported
        <3>2. CASE k # i
            <4>1. Reported(a, mismatches, table, k)
                BY <2>3, <2>5, <2>9, <2>11 DEF RowsSeen
            <4>2. table'[k] = table[k]
                BY <2>9, <2>11, <3>2
            <4>3. b.pc \in Acting /\ a.pc # "resolve"
                BY <2>2, <2>3 DEF Acting
            <4> QED BY <2>3, <4>1, <4>2, <4>3 DEF Reported
        <3> QED BY <3>1, <3>2
    <2>12. RowsSeen(b, mismatches, table')
        BY <2>11 DEF RowsSeen
    <2>13. IdsSeen(b, mismatches, table', stripe)
        <3> SUFFICES ASSUME NEW s \in InUse(stripe) \ a.ids,
                            NEW k \in Active(table),
                            table[k].stripe = s \/ table[k].email = stripe[s].email
                     PROVE  table'[k].stripe = s \/ table'[k].email = stripe[s].email
            BY <2>3, <2>5, <2>9 DEF IdsSeen
        <3>1. s # NoStripe
            BY TableAssumption DEF InUse
        <3> QED BY <2>6, <2>8, <2>9, <3>1
    <2>14. b.pc = "resolve" /\ b.remote = stripe
        BY <2>3, <2>5
    <2> QED BY <2>10, <2>12, <2>13, <2>14 DEF Covers
<1> QED BY <1>1, <1>2

LEMMA GivenCovers ==
    ASSUME TypeInv, NEW r \in Runs, Thorough(r), job[r].pc \in {"insert", "reactivate"},
           UNCHANGED stripe, NEW i, NEW id, HasWritten(r, i), Given(i, id, table, table')
    PROVE  Covers(job'[r], mismatches', table', stripe')
<1>1. PICK a, b : a = job[r] /\ b = job'[r]
    OBVIOUS
<1>2. /\ b.pc = "resolve" /\ b.row = i /\ b.rows = a.rows /\ b.ids = a.ids
      /\ b.local = a.local /\ b.remote = a.remote
      /\ b.mine = a.mine /\ b.cur = a.cur /\ b.disturbed = a.disturbed
      /\ UNCHANGED mismatches
    BY <1>1 DEF HasWritten
<1> SUFFICES ASSUME ~a.disturbed PROVE Covers(b, mismatches, table', stripe)
    BY <1>1, <1>2 DEF Covers
<1>3. /\ ListStands(a, table) /\ a.remote = stripe
      /\ RowsSeen(a, mismatches, table) /\ IdsSeen(a, mismatches, table, stripe)
    BY <1>1 DEF Thorough, Covers
<1>4. Active(table') = Active(table) \cup {i} /\ \A k \in Active(table) : table'[k] = table[k]
    BY DEF Given
<1>5. ListStands(b, table')
    BY <1>2, <1>3, <1>4 DEF ListStands
<1>6. ASSUME NEW k \in Active(table'), k \notin b.rows
      PROVE  Reported(b, mismatches, table', k)
    <2>1. CASE k = i
        BY <1>2, <2>1 DEF Reported
    <2>2. CASE k # i
        <3>1. Reported(a, mismatches, table, k) /\ table'[k] = table[k]
            BY <1>2, <1>3, <1>4, <1>6, <2>2 DEF RowsSeen
        <3>2. b.pc \in Acting /\ a.pc # "resolve"
            BY <1>1, <1>2 DEF Acting
        <3> QED BY <1>2, <3>1, <3>2 DEF Reported
    <2> QED BY <2>1, <2>2
<1>7. RowsSeen(b, mismatches, table')
    BY <1>6 DEF RowsSeen
<1>8. IdsSeen(b, mismatches, table', stripe)
    BY <1>2, <1>3, <1>4 DEF IdsSeen
<1>9. b.pc = "resolve" /\ b.remote = stripe
    BY <1>2, <1>3
<1> QED BY <1>5, <1>7, <1>8, <1>9 DEF Covers

LEMMA InsertRowCovers ==
    ASSUME TypeInv, NEW r \in Runs, Thorough(r), InsertRow(r)
    PROVE  Covers(job'[r], mismatches', table', stripe')
<1>1. job[r].pc = "insert" /\ r \in Procs
    BY DEF InsertRow, Procs
<1>2. CASE GiveUp(r)
    BY <1>1, <1>2, PendingCovers DEF GiveUp, Acting
<1>3. CASE ~GiveUp(r)
    <2>1. PICK i, id : HasWritten(r, i) /\ Given(i, id, table, table')
        BY <1>1, <1>3, InsertRowIs
    <2>2. UNCHANGED stripe
        BY <1>3 DEF InsertRow, Commit
    <2> QED BY <1>1, <2>1, <2>2, GivenCovers
<1> QED BY <1>2, <1>3

LEMMA ReactivateCovers ==
    ASSUME TypeInv, NEW r \in Runs, Thorough(r), Reactivate(r)
    PROVE  Covers(job'[r], mismatches', table', stripe')
<1>1. job[r].pc = "reactivate" /\ r \in Procs /\ Knows(r, job[r], mismatches, table)
    BY DEF Reactivate, Procs, Thorough, Sure
<1>2. CASE Break(r)
    BY <1>2, BreakCovers
<1>3. CASE ~Break(r)
    <2>1. HasWritten(r, job[r].row)
        BY <1>1, <1>3, ReactivateIs
    <2>2. CASE job[r].disturbed
        BY <2>1, <2>2 DEF HasWritten, Covers
    <2>3. CASE ~job[r].disturbed
        <3>1. job[r].loaded = table[job[r].row] /\ job[r].row \notin Active(table)
            BY <1>1, <2>3 DEF Knows
        <3>2. Given(job[r].row, mismatches[job[r].cur].id, table, table')
            BY <1>1, <1>3, <3>1, ReactivateIs
        <3>3. UNCHANGED stripe
            BY <1>3 DEF Reactivate, Commit
        <3> QED BY <1>1, <2>1, <3>2, <3>3, GivenCovers
    <2> QED BY <2>2, <2>3
<1> QED BY <1>2, <1>3

LEMMA FindToCreateCovers ==
    ASSUME TypeInv, NEW r \in Runs, Thorough(r), FindToCreate(r)
    PROVE  Covers(job'[r], mismatches', table', stripe')
<1>1. /\ r \in Procs /\ job[r].pc = "find" /\ job[r] \in Job
      /\ job[r].pc \in Acting \ {"resolve"}
    BY DEF Procs, FindToCreate, TypeInv, Shape, Acting
<1>2. CASE GiveUp(r)
    BY <1>1, <1>2, PendingCovers DEF GiveUp
<1>3. CASE ~GiveUp(r)
    <2>1. PICK i : \/ Goto(r, [job[r] EXCEPT !.pc = "insert"])
                   \/ Goto(r, [job[r] EXCEPT !.pc = "reactivate", !.row = i, !.loaded = table[i]])
        BY <1>3 DEF FindToCreate
    <2>2. PICK j \in {[job[r] EXCEPT !.pc = "insert"],
                      [job[r] EXCEPT !.pc = "reactivate", !.row = i, !.loaded = table[i]]} :
              Goto(r, j)
        BY <2>1
    <2>3. /\ j.pc \in {"insert", "reactivate"} /\ j.rows = job[r].rows /\ j.ids = job[r].ids
          /\ j.local = job[r].local /\ j.remote = job[r].remote /\ j.mine = job[r].mine
          /\ j.cur = job[r].cur /\ j.disturbed = job[r].disturbed
        <3>1. CASE j = [job[r] EXCEPT !.pc = "insert"]
            BY <1>1, <3>1 DEF Job
        <3>2. CASE j = [job[r] EXCEPT !.pc = "reactivate", !.row = i, !.loaded = table[i]]
            BY <1>1, <3>2 DEF Job
        <3> QED BY <2>2, <3>1, <3>2
    <2>4. job'[r] = j /\ UNCHANGED <<table, stripe, mismatches>>
        BY <1>1, <1>3, <2>2, GotoLeaves DEF FindToCreate
    <2>5. j.pc \in Acting
        BY <2>3 DEF Acting
    <2> QED BY <1>1, <2>3, <2>4, <2>5, ActingCovers
<1> QED BY <1>2, <1>3

LEMMA ResolveCovers ==
    ASSUME TypeInv, NEW r \in Runs, Thorough(r), Resolve(r)
    PROVE  Covers(job'[r], mismatches', table', stripe')
<1> DEFINE j == [job[r] EXCEPT !.pc = "check"]
<1>1. PICK a, c, new : /\ a = job[r] /\ c = a.cur
                       /\ new = [mismatches[c] EXCEPT !.resolved = TRUE, !.row = a.row]
    OBVIOUS
<1>2. /\ a \in Job /\ r \in Procs /\ a.pc = "resolve" /\ Goto(r, j)
      /\ Shape(r, a, mismatches, table)
    BY <1>1 DEF Procs, Thorough, Sure, Shape, Resolve
<1>3. /\ j.pc = "check" /\ j.rows = a.rows /\ j.ids = a.ids /\ j.local = a.local
      /\ j.remote = a.remote /\ j.mine = a.mine /\ j.disturbed = a.disturbed
    BY <1>1, <1>2 DEF Job
<1>4. job'[r] = j /\ UNCHANGED <<table, stripe>>
    BY <1>2, GotoLeaves
<1> HIDE DEF j
<1>5. Marks(r, c, new)
    BY <1>1, ResolveOK
<1>6. /\ mismatches'[c] = new
      /\ \A m \in DOMAIN mismatches : m # c => mismatches'[m] = mismatches[m]
      /\ new.id = mismatches[c].id
    BY <1>5, EditGrows DEF Marks
<1>7. mismatches[c] \in Mismatch
    BY <1>1, <1>2, CurType DEF Acting
<1>8. new.resolved /\ new.row = a.row
    BY <1>1, <1>7 DEF Mismatch
<1>9. c \in a.mine /\ \A m \in a.mine : m \in DOMAIN mismatches
    BY <1>1, <1>2 DEF Shape, Acting
<1> SUFFICES ASSUME ~a.disturbed PROVE Covers(j, mismatches', table, stripe)
    BY <1>3, <1>4 DEF Covers
<1>10. /\ ListStands(a, table) /\ a.remote = stripe
       /\ RowsSeen(a, mismatches, table) /\ IdsSeen(a, mismatches, table, stripe)
    BY <1>1, <1>2 DEF Thorough, Covers
<1>11. ListStands(j, table)
    BY <1>3, <1>10 DEF ListStands
<1>12. ASSUME NEW i \in Active(table) \ a.rows
       PROVE  Reported(j, mismatches', table, i)
    <2>1. Reported(a, mismatches, table, i) /\ i # 0
        BY <1>10, TableAssumption DEF RowsSeen, Active, Present, RowIds
    <2>2. CASE /\ table[i].stripe \in InUse(a.remote)
               /\ a.remote[table[i].stripe] = [name |-> table[i].name, email |-> table[i].email]
        BY <1>3, <2>2 DEF Reported
    <2>3. CASE i = a.row
        BY <1>3, <1>6, <1>8, <1>9, <2>3 DEF Reported
    <2>4. CASE \E m \in a.mine :
                   /\ mismatches[m].row = i
                   /\ m = c \/ mismatches[m].resolved \/ mismatches[m].status # "auto_resolved"
        <3>1. PICK m \in a.mine :
                   /\ mismatches[m].row = i
                   /\ m = c \/ mismatches[m].resolved \/ mismatches[m].status # "auto_resolved"
            BY <2>4
        <3>2. CASE m = c
            <4>1. mismatches[c].kind # "missing in local"
                BY <1>1, <1>2, <2>1, <3>1, <3>2 DEF Shape
            <4>2. i = a.row
                BY <1>1, <1>2, <3>1, <3>2, <4>1 DEF Shape, Links
            <4> QED BY <2>3, <4>2
        <3>3. CASE m # c
            <4>1. mismatches'[m] = mismatches[m]
                BY <1>6, <1>9, <3>1, <3>3
            <4> QED BY <1>3, <3>1, <3>3, <4>1 DEF Reported
        <3> QED BY <3>2, <3>3
    <2>5. CASE CutOff(a.local, i)
        BY <1>3, <2>5 DEF Reported
    <2> QED BY <1>1, <2>1, <2>2, <2>3, <2>4, <2>5 DEF Reported
<1>13. RowsSeen(j, mismatches', table)
    BY <1>3, <1>12 DEF RowsSeen
<1>14. IdsSeen(j, mismatches', table, stripe)
    <2>1. \A m \in a.mine : mismatches'[m].id = mismatches[m].id
        BY <1>6, <1>9
    <2> QED BY <1>3, <1>10, <2>1 DEF IdsSeen
<1> QED BY <1>3, <1>10, <1>11, <1>13, <1>14 DEF Covers

\* A run that has only begun, or has ended, has nothing to answer for.
LEMMA StartCovers ==
    ASSUME TypeInv, NEW r \in Runs, NEW options \in OptionSets, Start(r, options)
    PROVE  Covers(job'[r], mismatches', table', stripe')
<1>1. r \in Procs /\ job[r] \in Job
    BY DEF Procs, TypeInv, Shape
<1>2. job'[r] = [job[r] EXCEPT !.pc = "list local", !.options = options]
    BY <1>1, GotoLeaves DEF Start
<1>3. job'[r].pc = "list local"
    BY <1>1, <1>2 DEF Job
<1> QED BY <1>3 DEF Covers

LEMMA OverCovers ==
    ASSUME TypeInv, NEW r \in Runs, Goto(r, Over)
    PROVE  Covers(job'[r], mismatches', table', stripe')
<1>1. job'[r] = Over
    BY GotoLeaves DEF Procs
<1> QED BY <1>1, ReadyIs DEF Covers

LEMMA CreateInStripeCovers ==
    ASSUME TypeInv, NEW r \in Runs, Thorough(r), CreateInStripe(r)
    PROVE  Covers(job'[r], mismatches', table', stripe')
BY PendingCovers DEF CreateInStripe, Acting

LEMMA MoveCovers ==
    ASSUME TypeInv, NEW r \in Runs, Thorough(r), Move(r)
    PROVE  Covers(job'[r], mismatches', table', stripe')
<1>1. CASE RunStep(r)
    <2>1. CASE \E options \in OptionSets : Start(r, options)
        BY <2>1, StartCovers
    <2>2. CASE ListLocal(r)
        BY <2>2, ListLocalCovers
    <2>3. CASE ListStripe(r)
        BY <2>3, ListStripeCovers
    <2>4. CASE \E i \in RowIds : CompareFields(r, i)
        BY <2>4, CompareFieldsCovers
    <2>5. CASE \E i \in RowIds : MissingInStripe(r, i)
        BY <2>5, MissingInStripeCovers
    <2>6. CASE \E i \in RowIds : FoundByEmail(r, i)
        BY <2>6, FoundByEmailCovers
    <2>7. CASE CreateInStripe(r)
        BY <2>7, CreateInStripeCovers
    <2>8. CASE Resolve(r)
        BY <2>8, ResolveCovers
    <2>9. CASE \E s \in StripeIds : CheckStripe(r, s)
        BY <2>9, CheckStripeCovers
    <2>10. CASE Complete(r) \/ FailReport(r)
        BY <2>10, OverCovers DEF Complete, FailReport
    <2> QED BY <1>1, <2>1, <2>2, <2>3, <2>4, <2>5, <2>6, <2>7, <2>8, <2>9, <2>10 DEF RunStep
<1>2. CASE WriteStep(r)
    BY <1>2, LoadToLinkCovers, LinkCovers, FindToCreateCovers, InsertRowCovers,
       ReactivateCovers DEF WriteStep
<1>3. CASE Crash(r)
    BY <1>3, OverCovers DEF Crash
<1>4. r \notin Admins
    BY ReconciliationAssumption
<1> QED BY <1>1, <1>2, <1>3, <1>4 DEF Move

LEMMA CoversInit ==
    ASSUME Init
    PROVE  CoversInv
<1>1. \A r \in Runs : job[r] = Ready
    BY DEF Init, Procs
<1> QED BY <1>1, ReadyIs DEF CoversInv, Covers

LEMMA CoversStep ==
    ASSUME TypeInv, KnowsInv, CoversInv, [Next]_vars
    PROVE  CoversInv'
<1>1. \A r \in Runs : Thorough(r) /\ r \in Procs
    BY DEF TypeInv, KnowsInv, CoversInv, Thorough, Sure, Procs
<1>2. CASE Elsewhere \/ UNCHANGED vars
    <2>1. PICK p : p \notin Procs
        BY NoSetContainsEverything
    <2>2. \A q \in Procs : Left(q)
        BY <1>2, ElsewhereOK, StutterOK
    <2>3. UNCHANGED mismatches
        BY <1>2, ElsewhereOK, StutterOK
    <2>4. \A r \in Runs : r \in Procs \ {p}
        BY <1>1, <2>1
    <2>5. \A r \in Runs : Covers(job'[r], mismatches', table', stripe')
        BY <1>1, <2>2, <2>3, <2>4, SameGrows, LeftCovers
    <2> QED BY <2>5 DEF CoversInv
<1>3. CASE \E p \in Procs : Move(p)
    <2>1. PICK p \in Procs : Move(p)
        BY <1>3
    <2>2. Grows(p) /\ \A q \in Procs \ {p} : Left(q)
        BY <2>1, MoveOK DEF StepOK
    <2>3. \A r \in Runs \ {p} : Covers(job'[r], mismatches', table', stripe')
        BY <1>1, <2>2, LeftCovers
    <2>4. p \in Runs => Covers(job'[p], mismatches', table', stripe')
        BY <1>1, <2>1, MoveCovers
    <2> QED BY <2>3, <2>4 DEF CoversInv
<1> QED BY <1>2, <1>3, NextIs

LEMMA IInvAlways == Spec => []IInv
<1>1. Init => IInv
    BY TypeInit, KnowsInit, CoversInit DEF IInv
<1>2. IInv /\ [Next]_vars => IInv'
    BY TypeStep, KnowsStep, CoversStep DEF IInv
<1> QED BY <1>1, <1>2, PTL DEF Spec

\* When a run completes alone, nothing is left on its lists and nothing is left
\* merely announced.
LEMMA ReportStep ==
    ASSUME IInv, [Next]_vars, NEW r \in Runs, CompletesAlone(r)
    PROVE  /\ \A i \in Active(table) :
                  \/ InSync(table[i]) \/ CutOff(job[r].local, i)
                  \/ \E m \in AutoResolved(r) \cup ForReview(r) :
                         m.row = i /\ (m.resolved \/ m.status # "auto_resolved")
           /\ \A s \in InUse(stripe) :
                  \/ \E i \in Active(table) :
                         table[i].stripe = s \/ table[i].email = stripe[s].email
                  \/ \E m \in ForReview(r) : m.id = s
<1>1. Complete(r)
    BY CompletesIs DEF IInv
<1>2. PICK j : j = job[r]
    OBVIOUS
<1>3. /\ j.pc = "check" /\ j.rows = {} /\ j.ids = {} /\ ~j.disturbed
      /\ Knows(r, j, mismatches, table) /\ Covers(j, mismatches, table, stripe)
    BY <1>1, <1>2 DEF Complete, CompletesAlone, IInv, KnowsInv, CoversInv, Procs
<1>4. /\ j.remote = stripe /\ RowsSeen(j, mismatches, table)
      /\ IdsSeen(j, mismatches, table, stripe)
    BY <1>3 DEF Covers
<1>5. \A m \in j.mine :
          mismatches[m].status # "auto_resolved" \/ Settled(mismatches[m], table)
    BY <1>3 DEF Knows, Acting
<1>6. \A m \in j.mine :
          /\ mismatches[m] \in AutoResolved(r) \cup ForReview(r)
          /\ mismatches[m].status # "auto_resolved" => mismatches[m] \in ForReview(r)
    BY <1>2 DEF AutoResolved, ForReview
<1>7. ASSUME NEW i \in Active(table)
      PROVE  \/ InSync(table[i]) \/ CutOff(job[r].local, i)
             \/ \E m \in AutoResolved(r) \cup ForReview(r) :
                    m.row = i /\ (m.resolved \/ m.status # "auto_resolved")
    <2>1. Reported(j, mismatches, table, i)
        BY <1>3, <1>4 DEF RowsSeen
    <2>2. CASE \E m \in j.mine :
                   /\ mismatches[m].row = i
                   /\ mismatches[m].resolved \/ mismatches[m].status # "auto_resolved"
        BY <1>6, <2>2
    <2>3. CASE /\ table[i].stripe \in InUse(stripe)
               /\ stripe[table[i].stripe] = [name |-> table[i].name, email |-> table[i].email]
        BY <2>3 DEF InSync
    <2>4. CASE CutOff(j.local, i)
        BY <1>2, <2>4
    <2> QED BY <1>3, <1>4, <2>1, <2>2, <2>3, <2>4 DEF Reported, Acting
<1>8. ASSUME NEW s \in InUse(stripe)
      PROVE  \/ \E i \in Active(table) :
                    table[i].stripe = s \/ table[i].email = stripe[s].email
             \/ \E m \in ForReview(r) : m.id = s
    <2>1. CASE \E i \in Active(table) : table[i].stripe = s \/ table[i].email = stripe[s].email
        BY <2>1
    <2>2. CASE \E m \in j.mine : mismatches[m].id = s
        BY <1>5, <1>6, <2>2 DEF Settled
    <2> QED BY <1>3, <1>4, <2>1, <2>2 DEF IdsSeen
<1> QED BY <1>7, <1>8

\* A run that completes alone forgets no difference between the two sides, for any
\* number of customers on either side, but for rows the local list has no room for:
\* there are none unless as many rows as its limit, 10000 in the code, are on it.
THEOREM AllReported == Spec => NothingUnreported
<1>1. IInv /\ [Next]_vars =>
          [\A r \in Runs : CompletesAlone(r) =>
             /\ \A i \in Active(table) :
                    \/ InSync(table[i]) \/ CutOff(job[r].local, i)
                    \/ \E m \in AutoResolved(r) \cup ForReview(r) :
                           m.row = i /\ (m.resolved \/ m.status # "auto_resolved")
             /\ \A s \in InUse(stripe) :
                    \/ \E i \in Active(table) :
                           table[i].stripe = s \/ table[i].email = stripe[s].email
                    \/ \E m \in ForReview(r) : m.id = s]_vars
    BY ReportStep
<1> QED BY <1>1, IInvAlways, PTL DEF Spec, NothingUnreported
=============================================================================
