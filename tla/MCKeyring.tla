------------------------------- MODULE MCKeyring -------------------------------
(* The instance of RemoteAccess that TLC checks: of the keyring one goroutine *)
(* that issues, one subject and two secrets, with every other command, the    *)
(* clock and the lifecycle beside it.                                         *)
EXTENDS RemoteAccess, TLC

CONSTANTS u1, edge, cloud, x1, x2

MCUsers    == {u1}
MCSubjects == {edge, cloud}

\* They stand for secrets in the one part and for the clients of the other, so
\* that one symmetry serves both.
MCSecrets == {x1, x2}

Symmetry == Permutations(MCSecrets) \cup Permutations(Names)
=============================================================================
