------------------------- MODULE MCCustomerService -------------------------
(* CustomerService on small instances: requests are interchangeable. *)
EXTENDS CustomerService, TLC

Symmetry == Permutations(Requests) \cup Permutations(Emails) \cup Permutations(Names)
=============================================================================
