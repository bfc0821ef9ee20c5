------------------------------ MODULE MCMapRun ------------------------------
(***************************************************************************)
(* A small instance of MapRun: one map run and two resumes of its output.  *)
(***************************************************************************)
EXTENDS MapRun

CONSTANTS fresh, r1, r2

OneFresh == {fresh}
WithResumes == {fresh, r1, r2}
=============================================================================
