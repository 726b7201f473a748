------------------------------- MODULE MCIngest -------------------------------
(* hive ingest with two workers (t1, t2) after a server with one thread (t3) *)
(* on the same device; d1 is the scope.json.                                 *)
EXTENDS WorkspaceIngest

CONSTANTS t1, t2, t3, pa, pb, a, d1, d2, r1, m1, m2

MCProcOf    == [t \in Threads |-> IF t = t3 THEN pb ELSE pa]
MCDeviceOf  == [p \in Procs |-> a]
MCWorkspace == [v \in Devices |-> Docs]
MCOwner     == [d \in Docs |-> IF d = d1 THEN a ELSE NoHead]
===============================================================================
