------------------------------- MODULE MCTables -------------------------------
(***************************************************************************)
(* The instance of Tables that TLC checks. dependencyOrder runs on every   *)
(* registry of up to three components, every dependency graph over it with *)
(* one declaration that names a component of the other kind, and every     *)
(* order of listing.                                                       *)
(***************************************************************************)
EXTENDS Tables, TLC

Seqs == INSTANCE SequencesExt

CONSTANT observer

ClientSymmetry == Permutations(Clients)

MCObservers == {observer}

Key(k, n) == [kind |-> k, name |-> n]

MCComponents == {Key("data", "a"), Key("ability", "c")}
MCNeeds      == Key("data", "a") :> {} @@ Key("ability", "c") :> {Key("data", "a")}
MCCheckers   == {Key("ability", "c")}

MCKeys         == {Key("data", "a"), Key("data", "b"), Key("ability", "c")}
Declarable     == MCKeys \cup {Key("ability", "a")}
MCDeclarations == {Seqs!SetToSeq(S) : S \in SUBSET Declarable}
MCRank         == Key("data", "a") :> 1 @@ Key("data", "b") :> 2
                  @@ Key("ability", "a") :> 3 @@ Key("ability", "c") :> 4
=============================================================================
