---------------------------- MODULE MCExecutor ----------------------------
(***************************************************************************)
(* Executor on a small array.  The array is shorter than the number of     *)
(* submitted jobs, so it fills, refuses and is reclaimed; two nested       *)
(* activations let a callback submit, run and compact while its own job    *)
(* is RUNNING.                                                             *)
(***************************************************************************)
EXTENDS Executor
=============================================================================
