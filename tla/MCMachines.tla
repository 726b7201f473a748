------------------------------- MODULE MCMachines -------------------------------
(* Three goroutines in two processes, three requests to two paths.            *)
EXTENDS Machines

MCGoroutines == {"g1", "g2", "g3"}
MCProcOf     == [g \in MCGoroutines |-> IF g = "g3" THEN "p2" ELSE "p1"]
MCDimension  == [f \in Fingerprints |-> IF f = "f3" THEN 2 ELSE 1]
MCSetups     == { [fingerprint |-> "f1", role |-> "writer", credential |-> "write"],
                  [fingerprint |-> "f2", role |-> "writer", credential |-> "write"],
                  [fingerprint |-> "f1", role |-> "writer", credential |-> "read"],
                  [fingerprint |-> "f1", role |-> "reader", credential |-> "read"],
                  [fingerprint |-> "f1", role |-> "reader", credential |-> "write"] }
MCPath       == [r \in Sends |-> IF r = "s3" THEN "scope" ELSE "doc"]
MCBytes      == [r \in Sends |-> IF r = "s3" THEN "manifest" ELSE "note"]
================================================================================
