--------------------------- MODULE MCJobExecution ---------------------------
(***************************************************************************)
(* Instances of JobExecution for TLC.                                      *)
(***************************************************************************)
EXTENDS JobExecution, TLC

CONSTANTS r1, r2, c1

\* Two jobs of two users.
MCTwoUsers == [j \in Jobs |-> IF j = 1 THEN "u1" ELSE "u2"]

\* All jobs of one user.
MCOneUser == [j \in Jobs |-> "u1"]

\* Run ids are only compared.
RunSymmetry == Permutations(Runs)

=============================================================================
