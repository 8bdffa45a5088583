---------------------------- MODULE MCFilterJobs ----------------------------
(* Instances of FilterJobs for TLC. *)
EXTENDS FilterJobs, FilterJobSets
=============================================================================
