---------------------------- MODULE MCPublication ----------------------------
(* Two devices share a workspace: device a runs a process with two threads,  *)
(* device b a process with one.                                              *)
EXTENDS Publication, TLC

CONSTANTS t1, t2, t3, pa, pb, a, b, d1, d2, r1, r2, m1

MCProcOf    == [t \in Threads |-> IF t = t3 THEN pb ELSE pa]
MCDeviceOf  == [p \in Procs |-> IF p = pb /\ b \in Devices THEN b ELSE a]
MCWorkspace == [v \in Devices |-> Docs]
MCOwner     == d1 :> a
Unpublished == [d \in Docs |-> NoHead]

Symmetry == Permutations({t1, t2}) \union Permutations({r1, r2})
===============================================================================
