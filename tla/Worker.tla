--------------------------------- MODULE Worker ---------------------------------
(***************************************************************************)
(* The parts of an IngestionWorker (server/worker.go) that share no state, *)
(* side by side: the write of a control record, the limit on embedding     *)
(* requests, the watcher and its consumer, and the batch upserter.  A      *)
(* behaviour is a behaviour of one of them, its part; the others stay in   *)
(* their initial states.  So a run of this module is a run of each.        *)
(***************************************************************************)
EXTENDS ControlRecord, EmbeddingSlots, WatchQueue, BatchQueue

VARIABLE part

workerVars == <<part, controlVars, slotVars, watchVars, batchVars>>

WorkerInit ==
  /\ part \in {"control", "slots", "watch", "batch"}
  /\ ControlInit /\ SlotsInit /\ WatchInit /\ BatchInit

WorkerNext ==
  /\ \/ part = "control" /\ ControlNext /\ UNCHANGED <<slotVars, watchVars, batchVars>>
     \/ part = "slots" /\ SlotsNext /\ UNCHANGED <<controlVars, watchVars, batchVars>>
     \/ part = "watch" /\ WatchNext /\ UNCHANGED <<controlVars, slotVars, batchVars>>
     \/ part = "batch" /\ BatchNext /\ UNCHANGED <<controlVars, slotVars, watchVars>>
  /\ UNCHANGED part

\* The fairness of each part.
WorkerFairness ==
  /\ \A c \in Callers : WF_slotVars(part = "slots" /\ CallerStep(c))
  /\ WF_watchVars(part = "watch" /\ Watcher)
  /\ SF_watchVars(part = "watch" /\ Receive) /\ WF_watchVars(part = "watch" /\ Schedule)
  /\ SF_watchVars(part = "watch" /\ (DropStale \/ Dispatch)) /\ SF_watchVars(part = "watch" /\ Stop)
  /\ \A p \in Paths : /\ WF_watchVars(part = "watch" /\ SyncReads(p))
                      /\ WF_watchVars(part = "watch" /\ SyncEnds(p))
  /\ WF_watchVars(part = "watch" /\ \E timer \in armed : Expire(timer))
  /\ WF_watchVars(part = "watch" /\ \E timer \in expired : Fire(timer))
  /\ WF_batchVars(part = "batch" /\ HandOver) /\ WF_batchVars(part = "batch" /\ LoopStep)
  /\ WF_batchVars(part = "batch" /\ FindsDone) /\ WF_batchVars(part = "batch" /\ ReturnFlush)

WorkerSpec == WorkerInit /\ [][WorkerNext]_workerVars /\ WorkerFairness
----------------------------------------------------------------------------
\* The types of the four parts.
WorkerTypeOK == ControlTypeOK /\ SlotsTypeOK /\ WatchTypeOK /\ BatchTypeOK

(***************************************************************************)
(* Nobody waits for ever: a caller of Acquire is served, a changed file is *)
(* synchronized, and Flush returns, though limits fall, channels fill up,  *)
(* and contexts, server and upserter end at any moment.                    *)
(***************************************************************************)
WorkerProgress == WaiterIsServed /\ EventuallySynced /\ FlushReturns
================================================================================
