------------------------------ MODULE MCHistory ------------------------------
(***************************************************************************)
(* Opens that write or read a program, a sensitive and a quiet file, execs *)
(* of the program, connects that count and that do not.  A burst of opens  *)
(* has room for two events between its first and its last.                 *)
(***************************************************************************)
EXTENDS RecentEvents

MCBurstThreshold == [openat |-> 4, connect |-> 2, execve |-> 3]

Shape(type, target, writes) == [type |-> type, target |-> target, writes |-> writes]
MCShapes ==
    {Shape("openat", "bin", TRUE), Shape("openat", "bin", FALSE),
     Shape("openat", "secret", FALSE), Shape("openat", "quiet", FALSE),
     Shape("execve", "bin", FALSE),
     Shape("connect", "remote", FALSE), Shape("connect", "quiet", FALSE)}
=============================================================================
