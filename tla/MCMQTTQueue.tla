----------------------------- MODULE MCMQTTQueue -----------------------------
(* Two concurrent drains of a queue of two messages.                          *)
EXTENDS MQTTQueue, TLC
CONSTANTS d1, d2
MCDrainers == {d1, d2}
DrainerSymmetry == Permutations(MCDrainers)
=============================================================================
