-------------------------- MODULE MCConsumerGroup --------------------------
(* ConsumerGroup on small sets of consumers, for TLC. *)
EXTENDS ConsumerGroup, TLC

Symmetry == Permutations(Consumers)
=============================================================================
