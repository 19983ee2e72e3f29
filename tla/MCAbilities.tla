----------------------------- MODULE MCAbilities -----------------------------
(* The instance of Abilities that TLC checks.                                 *)
EXTENDS Abilities, TLC

ClientSymmetry == Permutations(Clients)

\* Reads of both registers, and of coils that need two bytes; each of the writes,
\* one of a register that is missing.
ModbusRequests ==
  {[fc |-> 3, address |-> 0, quantity |-> 2], [fc |-> 1, address |-> 1, quantity |-> 9],
   [fc |-> 5, address |-> 2, values |-> <<1>>], [fc |-> 6, address |-> 1, values |-> <<258>>],
   [fc |-> 6, address |-> 2, values |-> <<513>>], [fc |-> 16, address |-> 0, values |-> <<258, 772>>]}
=============================================================================
