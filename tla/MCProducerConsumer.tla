------------------------- MODULE MCProducerConsumer -------------------------
(***************************************************************************)
(* Instances of ProducerConsumer for TLC.                                  *)
(***************************************************************************)
EXTENDS ProducerConsumer

CONSTANTS p1, p2, c1, c2

TwoProducers == {p1, p2}
TwoConsumers == {c1, c2}
Zero == {0}
=============================================================================
