---------------------------- MODULE CustomerTable ----------------------------
(***************************************************************************)
(* The customers table and the statements the repository runs on it        *)
(* (app/models/customer.py, app/repos/customer_repo.py), as operators on a *)
(* table t: a function from row numbers to rows or NoRow.                  *)
(***************************************************************************)
EXTENDS Naturals, FiniteSets

CONSTANTS
    MaxRows,    \* rows ever inserted; emails are unique and rows never removed,
                \* so as many as there are emails are enough
    Names,
    Emails,
    StripeIds,  \* customer ids of the Stripe account
    NoStripe,   \* stripe_customer_id IS NULL
    NoRow

ASSUME TableAssumption ==
    /\ MaxRows \in Nat
    /\ IsFiniteSet(Emails) /\ Cardinality(Emails) <= MaxRows
    /\ NoStripe \notin StripeIds

RowIds == 1..MaxRows

Row == [name : Names, email : Emails, stripe : StripeIds \cup {NoStripe}, active : BOOLEAN]

ASSUME NoRowAssumption == NoRow \notin Row

Tables == [RowIds -> Row \cup {NoRow}]

EmptyTable == [i \in RowIds |-> NoRow]

Present(t) == {i \in RowIds : t[i] # NoRow}

Active(t) == {i \in Present(t) : t[i].active}

\* WHERE email = ..., active or not.
WithEmail(t, email) == {i \in Present(t) : t[i].email = email}

\* WHERE stripe_customer_id = ..., active or not.
WithStripe(t, id) == {i \in Present(t) : t[i].stripe = id}

\* The unique indexes on email and stripe_customer_id; NULLs never collide.
IsUnique(t) ==
    \A i, j \in Present(t) :
        i # j => /\ t[i].email # t[j].email
                 /\ t[i].stripe # NoStripe => t[i].stripe # t[j].stripe

\* A row INSERT would refuse.
Collides(t, row) ==
    \/ WithEmail(t, row.email) # {}
    \/ row.stripe # NoStripe /\ WithStripe(t, row.stripe) # {}

\* The number the next INSERT gets.
NextRow(t) == Cardinality(Present(t)) + 1

Insert(t, row) == [t EXCEPT ![NextRow(t)] = row]

\* The ORM writes the attributes that differ from the row it loaded, and only
\* those, into whatever the row has become since.
Flush(t, i, loaded, edited) ==
    [t EXCEPT ![i] = [f \in DOMAIN edited |->
        IF edited[f] # loaded[f] THEN edited[f] ELSE t[i][f]]]
=============================================================================
