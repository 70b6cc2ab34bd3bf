------------------------------ MODULE MCOutbox ------------------------------
(* Outbox on small instances: threads, tasks and customers are model values. *)
EXTENDS Outbox, TLC

\* Threads are interchangeable, and so are customers.
Symmetry == Permutations(Procs) \cup Permutations(Entities)

NoPoison == {}
OnePoison == {1}
=============================================================================
