------------------------------ MODULE MCJobs ------------------------------
(* Jobs on small sets.  Jobs, processes and operators are interchangeable; *)
(* the symmetry is used for safety only.                                   *)
EXTENDS Jobs, TLC

JobSymmetry ==
    Permutations(JobIds) \cup Permutations(Workers) \cup Permutations(Operators)
===========================================================================
