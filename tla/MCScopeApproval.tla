--------------------------- MODULE MCScopeApproval ---------------------------
(* Device a runs process pa with threads t1 and t2, device b runs process pb *)
(* with thread t3.                                                           *)
EXTENDS ScopeApproval, TLC

CONSTANTS t1, t2, t3, pa, pb, a, b, d1, d2, r1, r2, m1, m2

MCProcOf    == [t \in Threads |-> IF t = t3 THEN pb ELSE pa]
MCDeviceOf  == [p \in Procs |-> IF p = pb THEN b ELSE a]
MCWorkspace == [v \in Devices |-> Docs]
MCOwner     == [d \in Docs |-> a]

SymmetricManifests == Permutations({m1, m2})
===============================================================================
