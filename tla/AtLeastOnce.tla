---------------------------- MODULE AtLeastOnce ----------------------------
(***************************************************************************)
(* What a consumer group promises about a topic, whoever owns its          *)
(* partitions and whatever goes wrong: the messages of a partition are     *)
(* tried for the first time in their order, the group passes a message     *)
(* only when it was tried, and never comes back before it.  That messages  *)
(* are tried again shows nothing here.                                     *)
(***************************************************************************)
EXTENDS Integers

CONSTANTS
    Partitions,
    Length          \* how many messages each partition has

VARIABLES
    tried,          \* messages a handler has returned for, per partition
    passed          \* number of messages behind the group, per partition

deliveryVars == <<tried, passed>>

Init ==
    /\ tried = [k \in Partitions |-> {}]
    /\ passed = [k \in Partitions |-> 0]

\* A message is tried for the first time: all before it were.
Try(k, o) ==
    /\ o \in 1 .. Length[k] /\ o \notin tried[k]
    /\ 1 .. o - 1 \subseteq tried[k]
    /\ tried' = [tried EXCEPT ![k] = @ \cup {o}]
    /\ UNCHANGED passed

\* One commit moves several partitions on, each by any number of messages.
Pass ==
    /\ passed' \in [Partitions -> Nat]
    /\ \A k \in Partitions :
        /\ passed[k] <= passed'[k]
        /\ 1 .. passed'[k] \subseteq tried[k]
    /\ UNCHANGED tried

Next ==
    \/ \E k \in Partitions : \E o \in 1 .. Length[k] : Try(k, o)
    \/ Pass

Spec == Init /\ [][Next]_deliveryVars
=============================================================================
