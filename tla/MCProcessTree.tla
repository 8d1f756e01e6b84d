---------------------------- MODULE MCProcessTree ----------------------------
(***************************************************************************)
(* One OpenClaw process, and pids that are used again and again.           *)
(***************************************************************************)
EXTENDS ProcessTree, TLC

Symmetry == Permutations(Pids \ OpenClaw)

(* No action reads forebears or snapshots: states that differ in nothing else
   are one state to the properties that do not read them either.            *)
WithoutHistory == <<parent, inTree, programs, births, tracked, roots, items,
                    sessionVars, run>>
=============================================================================
