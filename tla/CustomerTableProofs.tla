------------------------- MODULE CustomerTableProofs -------------------------
(***************************************************************************)
(* What the statements of CustomerTable do to a table that keeps its       *)
(* unique indexes and whose rows are numbered from 1: they keep it so.     *)
(***************************************************************************)
EXTENDS CustomerTable, FiniteSetTheorems, TLAPS

\* Rows are numbered in the order they were inserted, without gaps.
Filled(t) == \E n \in 0..MaxRows : Present(t) = 1..n

\* A table the program can have.
Sound(t) == t \in Tables /\ IsUnique(t) /\ Filled(t)

\* A row that is present is a row.
LEMMA PresentRow ==
    ASSUME NEW t \in Tables, NEW i \in Present(t)
    PROVE  i \in RowIds /\ t[i] \in Row /\ t[i] # NoRow
BY DEF Present, Tables

\* While some email has no row, there is a row number left: emails are unique,
\* so there are fewer rows than emails.
LEMMA NextRowFree ==
    ASSUME NEW t, Sound(t), NEW e \in Emails, WithEmail(t, e) = {}
    PROVE  /\ NextRow(t) \in RowIds \ Present(t)
           /\ Present(t) \cup {NextRow(t)} = 1..NextRow(t)
<1>1. PICK n \in 0..MaxRows : Present(t) = 1..n
    BY DEF Sound, Filled
<1>2. MaxRows \in Nat /\ IsFiniteSet(Emails) /\ Cardinality(Emails) <= MaxRows
    BY TableAssumption
<1>3. n \in Nat /\ Cardinality(Present(t)) = n
    BY <1>1, <1>2, FS_Interval
<1>4. /\ IsFiniteSet(Emails \ {e})
      /\ Cardinality(Emails \ {e}) = Cardinality(Emails) - 1
      /\ Cardinality(Emails) \in Nat
    BY <1>2, FS_RemoveElement, FS_CardinalityType
<1> DEFINE f == [i \in Present(t) |-> t[i].email]
<1>5. f \in [Present(t) -> Emails \ {e}]
    <2> SUFFICES ASSUME NEW i \in Present(t) PROVE t[i].email \in Emails \ {e}
        OBVIOUS
    <2>1. t[i] \in Row
        BY PresentRow DEF Sound
    <2>2. t[i].email # e
        BY DEF WithEmail
    <2> QED BY <2>1, <2>2 DEF Row
<1>6. f \in Injection(Present(t), Emails \ {e})
    <2>1. \A i, j \in Present(t) : f[i] = f[j] => i = j
        BY DEF Sound, IsUnique
    <2> QED BY <1>5, <2>1 DEF Injection, IsInjective
<1> HIDE DEF f
<1>7. Cardinality(Present(t)) <= Cardinality(Emails \ {e})
    BY <1>4, <1>6, FS_Injection
<1>8. NextRow(t) = n + 1 /\ n + 1 <= MaxRows
    BY <1>2, <1>3, <1>4, <1>7 DEF NextRow
<1>9. NextRow(t) \in RowIds /\ NextRow(t) \notin Present(t)
    BY <1>1, <1>2, <1>3, <1>8 DEF RowIds
<1>10. Present(t) \cup {NextRow(t)} = 1..NextRow(t)
    BY <1>1, <1>3, <1>8
<1> QED BY <1>9, <1>10

\* An INSERT that collides with nothing.
LEMMA InsertSound ==
    ASSUME NEW t, Sound(t), NEW row \in Row, ~Collides(t, row)
    PROVE  /\ Sound(Insert(t, row))
           /\ Present(Insert(t, row)) = Present(t) \cup {NextRow(t)}
           /\ NextRow(t) \in RowIds \ Present(t)
<1> DEFINE i == NextRow(t)
           u == [t EXCEPT ![i] = row]
<1>1. row.email \in Emails /\ WithEmail(t, row.email) = {}
    BY DEF Row, Collides
<1>2. i \in RowIds \ Present(t) /\ Present(t) \cup {i} = 1..i
    BY <1>1, NextRowFree
<1>3. t \in Tables /\ u \in Tables
    BY <1>2 DEF Sound, Tables
<1>4. Present(u) = Present(t) \cup {i}
    BY <1>2, <1>3, NoRowAssumption DEF Present, Tables
<1>5. IsUnique(u)
    <2> SUFFICES ASSUME NEW j \in Present(u), NEW k \in Present(u), j # k
                 PROVE  /\ u[j].email # u[k].email
                        /\ u[j].stripe # NoStripe => u[j].stripe # u[k].stripe
        BY DEF IsUnique
    <2>1. u[i] = row /\ \A h \in Present(t) : u[h] = t[h]
        BY <1>2, <1>3 DEF Tables, Present
    <2>2. \A h \in Present(t) :
              /\ t[h].email # row.email
              /\ row.stripe # NoStripe => t[h].stripe # row.stripe
        BY DEF Collides, WithEmail, WithStripe
    <2>3. CASE j = i
        BY <1>4, <2>1, <2>2, <2>3
    <2>4. CASE k = i
        BY <1>4, <2>1, <2>2, <2>4
    <2>5. CASE j # i /\ k # i
        BY <1>4, <2>1, <2>5 DEF Sound, IsUnique
    <2> QED BY <2>3, <2>4, <2>5
<1>6. Filled(u)
    <2>1. i \in 0..MaxRows
        BY <1>2, TableAssumption DEF RowIds
    <2> QED BY <1>2, <1>4, <2>1 DEF Filled
<1> QED BY <1>2, <1>3, <1>4, <1>5, <1>6 DEF Sound, Insert

\* An UPDATE of a row that leaves the indexes alone.
LEMMA UpdateSound ==
    ASSUME NEW t, Sound(t), NEW i \in Present(t), NEW row \in Row,
           IsUnique([t EXCEPT ![i] = row])
    PROVE  /\ Sound([t EXCEPT ![i] = row])
           /\ Present([t EXCEPT ![i] = row]) = Present(t)
<1>1. t \in Tables /\ i \in RowIds
    BY PresentRow DEF Sound
<1>2. [t EXCEPT ![i] = row] \in Tables
    BY <1>1 DEF Tables
<1>3. Present([t EXCEPT ![i] = row]) = Present(t)
    BY <1>1, NoRowAssumption DEF Present, Tables
<1> QED BY <1>2, <1>3 DEF Sound, Filled

\* It does so when the email stays, and the Stripe id stays or is nobody else's.
LEMMA UpdateUnique ==
    ASSUME NEW t, Sound(t), NEW i \in Present(t), NEW row \in Row,
           row.email = t[i].email,
           row.stripe \in {t[i].stripe, NoStripe} \/ WithStripe(t, row.stripe) \subseteq {i}
    PROVE  IsUnique([t EXCEPT ![i] = row])
<1> DEFINE u == [t EXCEPT ![i] = row]
<1>1. t \in Tables /\ i \in RowIds
    BY PresentRow DEF Sound
<1>2. Present(u) = Present(t)
    BY <1>1, NoRowAssumption DEF Present, Tables
<1>3. u[i] = row /\ \A h \in Present(t) \ {i} : u[h] = t[h]
    BY <1>1 DEF Tables, Present
<1>4. \A h \in Present(t) \ {i} :
          /\ t[h].email # row.email
          /\ row.stripe # NoStripe => t[h].stripe # row.stripe
    BY DEF Sound, IsUnique, WithStripe
<1> SUFFICES ASSUME NEW j \in Present(u), NEW k \in Present(u), j # k
             PROVE  /\ u[j].email # u[k].email
                    /\ u[j].stripe # NoStripe => u[j].stripe # u[k].stripe
    BY DEF IsUnique
<1>5. CASE j = i
    BY <1>2, <1>3, <1>4, <1>5
<1>6. CASE k = i
    BY <1>2, <1>3, <1>4, <1>6
<1>7. CASE j # i /\ k # i
    BY <1>2, <1>3, <1>7 DEF Sound, IsUnique
<1> QED BY <1>5, <1>6, <1>7

\* What Flush leaves of a row: the edited attribute where the session changed it,
\* the row's own where it did not.
LEMMA FlushRow ==
    ASSUME NEW t \in Tables, NEW i \in Present(t), NEW loaded \in Row, NEW edited \in Row,
           NEW u, u = Flush(t, i, loaded, edited)
    PROVE  /\ u \in Tables /\ Present(u) = Present(t) /\ u[i] \in Row
           /\ u[i].name = IF edited.name # loaded.name THEN edited.name ELSE t[i].name
           /\ u[i].email = IF edited.email # loaded.email THEN edited.email ELSE t[i].email
           /\ u[i].stripe = IF edited.stripe # loaded.stripe THEN edited.stripe ELSE t[i].stripe
           /\ u[i].active = IF edited.active # loaded.active THEN edited.active ELSE t[i].active
           /\ \A j \in RowIds : j # i => u[j] = t[j]
<1> DEFINE new == [f \in DOMAIN edited |-> IF edited[f] # loaded[f] THEN edited[f] ELSE t[i][f]]
<1>1. i \in RowIds /\ t[i] \in Row
    BY PresentRow
<1>2. DOMAIN edited = {"name", "email", "stripe", "active"}
    BY DEF Row
<1>3. /\ new.name = IF edited.name # loaded.name THEN edited.name ELSE t[i].name
      /\ new.email = IF edited.email # loaded.email THEN edited.email ELSE t[i].email
      /\ new.stripe = IF edited.stripe # loaded.stripe THEN edited.stripe ELSE t[i].stripe
      /\ new.active = IF edited.active # loaded.active THEN edited.active ELSE t[i].active
    BY <1>2
<1>4. new = [name |-> new.name, email |-> new.email, stripe |-> new.stripe, active |-> new.active]
    BY <1>2
<1>5. new.name \in Names /\ new.email \in Emails /\ new.stripe \in StripeIds \cup {NoStripe}
    BY <1>1, <1>3 DEF Row
<1>6. new.active \in BOOLEAN
    BY <1>1, <1>3 DEF Row
<1>7. new \in Row
    BY <1>4, <1>5, <1>6 DEF Row
<1> HIDE DEF new
<1>8. u = [t EXCEPT ![i] = new]
    BY DEF Flush, new
<1> QED BY <1>1, <1>3, <1>7, <1>8, NoRowAssumption DEF Tables, Present
=============================================================================
