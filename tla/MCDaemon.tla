------------------------------ MODULE MCDaemon ------------------------------
(* Constants for model checking Daemon. *)
EXTENDS Daemon, TLC

Symmetry == Permutations(Processes)
=============================================================================
