--------------------------- MODULE MCAtomLifecycle ---------------------------
(* Instances of AtomLifecycle for TLC: a Data component db, an Ability api    *)
(* that depends on it, and an independent Ability job. api and job run; db    *)
(* and api have an Unmount.                                                   *)
EXTENDS AtomLifecycle, TLC

CONSTANTS db, api, job, p1, p2

MCComponents == {db, api, job}
MCAbilities  == {api, job}
MCNameOf     == db :> "db" @@ api :> "api" @@ job :> "job"
MCDeps       == db :> {} @@ api :> {db} @@ job :> {}
MCUnmounters == {db, api}
MCRunners    == {api, job}
MCCallers    == {p1, p2}
OneCaller    == {p1}
CallerSymmetry == Permutations(MCCallers)
=============================================================================
