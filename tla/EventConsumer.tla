---------------------------- MODULE EventConsumer ----------------------------
(***************************************************************************)
(* What a consumer of the topic promises, whatever it does with a record   *)
(* and however often it is restarted: records are dealt with in the order  *)
(* of the topic, at least once each, but for those it abandons with the    *)
(* process that has them in hand; Kafka is told to forget only these and   *)
(* records that have been dealt with; and nothing of this is taken back.   *)
(***************************************************************************)
EXTENDS Naturals

CONSTANT Records    \* positions the topic may have

VARIABLES
    appended,   \* records in the topic
    handled,    \* records dealt with
    abandoned,  \* records forgotten without that
    committed   \* records the consumer group will not see again

consumerVars == <<appended, handled, abandoned, committed>>

ConsumerInit ==
    /\ appended = 0
    /\ handled = {}
    /\ abandoned = {}
    /\ committed = 0

Over == handled \cup abandoned

Arrive ==
    /\ appended' = appended + 1
    /\ UNCHANGED <<handled, abandoned, committed>>

\* A record is dealt with, for the first time or again, after all before it.
Handle(m) ==
    /\ m <= appended /\ m \notin abandoned
    /\ \A k \in Records : k < m => k \in Over
    /\ handled' = handled \cup {m}
    /\ UNCHANGED <<appended, abandoned, committed>>

\* Never less than before.
Commit(n) ==
    /\ n > committed
    /\ \A k \in Records : k <= n => k \in Over
    /\ committed' = n
    /\ UNCHANGED <<appended, handled, abandoned>>

\* The record in hand is committed all the same; those before it are over.
Abandon(m) ==
    /\ m <= appended /\ m > committed /\ m \notin Over
    /\ \A k \in Records : k < m => k \in Over
    /\ abandoned' = abandoned \cup {m}
    /\ committed' = m
    /\ UNCHANGED <<appended, handled>>

ConsumerNext ==
    \/ Arrive
    \/ \E m \in Records : Handle(m) \/ Commit(m) \/ Abandon(m)

ConsumerSpec == ConsumerInit /\ [][ConsumerNext]_consumerVars
=============================================================================
