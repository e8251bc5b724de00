-------------------------- MODULE MCBlockingQueue --------------------------
(* One producer and one consumer.                                          *)
EXTENDS BlockingQueue

CONSTANTS p1, c1, v1, v2

OneProducer == {p1}
OneConsumer == {c1}
TwoElements == {v1, v2}
=============================================================================
