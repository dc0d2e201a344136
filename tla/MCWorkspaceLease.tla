-------------------------- MODULE MCWorkspaceLease --------------------------
(* A small instance: a chat turn in the project directory, and a job in a    *)
(* directory below it.                                                      *)
EXTENDS WorkspaceLease, TLC

CONSTANTS c1, j1, r1, r2

MCChats == {c1}
MCJobs == {j1}
MCRuns == {r1, r2}
MCPath == c1 :> <<"project">> @@ j1 :> <<"project", "app">>
=============================================================================
