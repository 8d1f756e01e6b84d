-------------------------- MODULE MCContextManager --------------------------
(***************************************************************************)
(* A shell, and a tool that may be written before it is executed.          *)
(***************************************************************************)
EXTENDS ContextManager, TLC

MCBurstThreshold == [openat |-> 2, connect |-> 2, execve |-> 2]
Symmetry == Permutations(Pids)
=============================================================================
