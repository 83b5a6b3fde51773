------------------------------ MODULE MCStatics ------------------------------
(***************************************************************************)
(* Constants for model checking Statics: a call that is listed and one     *)
(* that is not, on each side of number 128.                                *)
(***************************************************************************)
EXTENDS Statics, TLC

Symmetry == Permutations(Workers)
MCCalls == {"execve", "fork", "exit_group", "vfork"}
MCLowCalls == {"execve", "fork"}
MCRF_C == <<[call |-> "execve", limit |-> 1], [call |-> "exit_group", limit |-> -1]>>
=============================================================================
