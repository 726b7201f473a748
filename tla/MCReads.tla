--------------------------------- MODULE MCReads ---------------------------------
(* A reader beside a writer that publishes, removes and approves.              *)
EXTENDS ProgramReads

CONSTANTS t1, t2, pa, a, d1, r1, r2, m1

MCProcOf    == [t \in Threads |-> pa]
MCDeviceOf  == [p \in Procs |-> a]
MCWorkspace == [v \in Devices |-> Docs]
MCOwner     == [d \in Docs |-> a]
MCHashOf    == [r \in Revs |-> m1]
================================================================================
