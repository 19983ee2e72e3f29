------------------------------- MODULE MCCmdJobs -------------------------------
(* Two users, one program; one slot for two jobs.                             *)
EXTENDS CmdJobs
CONSTANTS u1, u2, ls
MCUsers    == {u1, u2}
MCPrograms == {ls}
=============================================================================
