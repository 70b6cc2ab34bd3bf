---------------------------- MODULE MCDispatcher ----------------------------
(* Dispatcher on small instances: Stripe's ids are numbers. *)
EXTENDS Dispatcher

SomeIds == 1..8
Others == [s \in {8} |-> [row |-> 0, name |-> CHOOSE n \in Names : TRUE, live |-> TRUE]]
NamedIds == {1, 8}
=============================================================================
