------------------------------ MODULE MCLaunch ------------------------------
(***************************************************************************)
(* Constants for model checking Launch: futex and exit_group are always    *)
(* allowed, execve once; fork and vfork are not listed, and only vfork is  *)
(* numbered beyond what memset clears.  A second has two "ms", so that     *)
(* rounding up matters.                                                    *)
(***************************************************************************)
EXTENDS Launch

MCCalls == {"execve", "exit_group", "futex", "fork", "vfork"}
MCRF_C == [c \in MCCalls |->
              IF c = "execve" THEN 1 ELSE IF c \in {"fork", "vfork"} THEN 0 ELSE -1]
MCLeftover == {"vfork"}
MCGarbage == {-1, 9}
\* 1 ms and two pages; nothing; no limits.
MCLimits == {<<1, 8>>, <<0, 0>>, <<Unset, Unset>>}
MCBlocking == {"futex"}
=============================================================================
