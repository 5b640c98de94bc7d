--------------------------- MODULE MCKafkaConsumer ---------------------------
(* Instances of KafkaConsumer for TLC: what is in the topic's partitions.   *)
EXTENDS KafkaConsumer, TLC

CONSTANTS c1, c2, k1, k2, u1, u2

TwoConsumers == {c1, c2}
OneUser == {u1}
TwoUsers == {u1, u2}
OnePartition == {k1}
TwoPartitions == {k1, k2}

SomeIds == 1 .. 3

Msg(kind, u, ids) ==
    [kind |-> kind, user |-> u,
     ids |-> [id \in Ids |-> IF id \in ids THEN 1 ELSE 0]]

\* The messages of two users in one partition, adding and removing.
SubscriptionLog ==
    k1 :> <<Msg("add", u1, {1, 2}), Msg("add", u2, {1}),
            Msg("remove", u1, {1}), Msg("add", u1, {2, 3})>>

\* A producer without a key spreads the messages of a user.
SpreadLog ==
    k1 :> <<Msg("add", u1, {1, 2}), Msg("remove", u1, {2})>>
    @@ k2 :> <<Msg("add", u1, {2, 3})>>

\* The topic of user actions, with what its handler cannot use.
ActionLog ==
    k1 :> <<Msg("record", u1, {}), Msg("malformed", u1, {}),
            Msg("record", u1, {})>>
    @@ k2 :> <<Msg("unknown", u1, {}), Msg("foreign", u1, {})>>

OrderlyFaults == {"rebalance", "crash", "stop"}

ConsumerSymmetry == Permutations(TwoConsumers)
=============================================================================
