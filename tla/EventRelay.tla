----------------------------- MODULE EventRelay -----------------------------
(***************************************************************************)
(* What a relay of events promises, whatever table, threads and broker it  *)
(* is built from: an event is forgotten only after it was delivered, dead- *)
(* lettered or dropped by the broker's own client; only accepted events    *)
(* are delivered; only exhausted ones are dead-lettered; and nothing of    *)
(* this is ever taken back.  Delivery is at least once, in any order.      *)
(***************************************************************************)
CONSTANT Events

VARIABLES
    accepted,   \* events the relay has taken responsibility for
    delivered,  \* events with a record in the topic
    exhausted,  \* events that failed as often as the relay will bear
    deadletter, \* events with a record in the dead letter topic
    dropped,    \* events the broker's client lost after accepting them
    retired     \* events the relay will never look at again by itself

relayVars == <<accepted, delivered, exhausted, deadletter, dropped, retired>>

RelayInit ==
    /\ accepted = {}
    /\ delivered = {}
    /\ exhausted = {}
    /\ deadletter = {}
    /\ dropped = {}
    /\ retired = {}

Accept(e) ==
    /\ accepted' = accepted \cup {e}
    /\ UNCHANGED <<delivered, exhausted, deadletter, dropped, retired>>

Deliver(e) ==
    /\ e \in accepted
    /\ delivered' = delivered \cup {e}
    /\ UNCHANGED <<accepted, exhausted, deadletter, dropped, retired>>

Exhaust(e) ==
    /\ e \in accepted
    /\ exhausted' = exhausted \cup {e}
    /\ UNCHANGED <<accepted, delivered, deadletter, dropped, retired>>

DeadLetter(e) ==
    /\ e \in accepted \cap exhausted
    /\ deadletter' = deadletter \cup {e}
    /\ UNCHANGED <<accepted, delivered, exhausted, dropped, retired>>

Drop(e) ==
    /\ e \in accepted
    /\ dropped' = dropped \cup {e}
    /\ UNCHANGED <<accepted, delivered, exhausted, deadletter, retired>>

Retire(e) ==
    /\ e \in accepted \cap (delivered \cup deadletter \cup dropped)
    /\ retired' = retired \cup {e}
    /\ UNCHANGED <<accepted, delivered, exhausted, deadletter, dropped>>

RelayNext ==
    \E e \in Events :
        \/ Accept(e) \/ Deliver(e) \/ Exhaust(e)
        \/ DeadLetter(e) \/ Drop(e) \/ Retire(e)

RelaySpec == RelayInit /\ [][RelayNext]_relayVars
=============================================================================
