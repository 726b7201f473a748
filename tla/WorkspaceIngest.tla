---------------------------- MODULE WorkspaceIngest ----------------------------
(***************************************************************************)
(* hive ingest (SyncWorkspace of server/revision.go) over the operations   *)
(* of Publication: what a workspace looks like after a command that        *)
(* reports success.  The pool, the report and the cancellation are the     *)
(* subject of WorkspaceSync.                                               *)
(*                                                                         *)
(* Before the command anything Publication allows may have happened:       *)
(* calls that failed, processes killed between two calls, documents marked *)
(* or removed, a scope.json that changed.  The command is a process of its *)
(* own: no other one of the device runs beside it, and nobody edits the    *)
(* files before it ends.                                                   *)
(***************************************************************************)
EXTENDS Publication

CONSTANT Command   \* the process of the command

ASSUME CommandAssumption == Command \in Procs

VARIABLE walk   \* the command: NoJob, or the paths its pool has left

ingestVars == <<pubVars, walk>>

IngestInit == Init /\ walk = NoJob

Idle == \A t \in Threads : pc[t] = "idle"

Pool == {t \in Threads : ProcOf[t] = Command}

(* The walk of the directory lists the files there are. *)
Listed(v) == {d \in Workspace[v] : file[v][d] # Missing}

Ingest ==
  /\ walk = NoJob /\ Idle
  /\ walk' = [paths |-> Listed(DeviceOf[Command]), failed |-> FALSE]
  /\ UNCHANGED pubVars

(* Mutant: a path is left to the other workers too. *)
TakeAgain(t) ==
  /\ walk # NoJob
  /\ \E d \in walk.paths : SyncStart(t, d) /\ walk' = walk

(* A worker of the pool takes the next path. *)
Take(t) ==
  /\ walk # NoJob
  /\ \E d \in walk.paths : SyncStart(t, d) /\ walk' = [walk EXCEPT !.paths = @ \ {d}]

(* Counted chunks that are not all there are an error. *)
Miscounted(t) == pc[t] = "verify" /\ chunks[job[t].doc][JobKey(t)] # Chunks

Work(t) ==
  /\ walk # NoJob /\ SyncStep(t)
  /\ walk' = [walk EXCEPT !.failed = @ \/ Miscounted(t)]

CallOfIngestFails ==
  walk # NoJob /\ CallFails /\ walk' = [walk EXCEPT !.failed = TRUE]

Walked == walk # NoJob /\ walk.paths = {} /\ Idle

IngestReturns == Walked /\ walk' = NoJob /\ UNCHANGED pubVars

IngestKilled == walk # NoJob /\ Crash(Command) /\ walk' = NoJob

Before == walk = NoJob /\ PubNext /\ (\A t \in Pool : pc'[t] = "idle") /\ walk' = walk

IngestNext ==
  \/ Before \/ Ingest
  \/ \E t \in Pool : Take(t) \/ Work(t)
  \/ CallOfIngestFails \/ IngestReturns \/ IngestKilled

(* The workers of the pool run until the paths are used up. *)
IngestFairness ==
  /\ \A t \in Pool : WF_ingestVars(Work(t))
  /\ WF_ingestVars(\E t \in Pool : Take(t))
  /\ WF_ingestVars(IngestReturns)

IngestSpec == IngestInit /\ [][IngestNext]_ingestVars /\ IngestFairness

-------------------------------------------------------------------------------

(* A command that reports success leaves every file of the workspace served *)
(* with its current content under the scope in force, whatever partial      *)
(* failures, crashes and half-done cleanups came before; only a tombstone   *)
(* or another writer keeps a document out (syncFileResult can be repeated   *)
(* after every one of its calls).                                           *)
IngestServes ==
  Walked /\ ~walk.failed =>
    LET v == DeviceOf[Command]
    IN  \A d \in Listed(v) :
          \/ d \in tomb
          \/ head[d] # NoHead /\ ~Owns(v, head[d])
          \/ Served(d) = {<<file[v][d], ExpectedScope>>}

(* Every command returns or is killed: no worker waits for ever for a path  *)
(* or for the lock of a document.                                           *)
IngestEnds == walk # NoJob ~> walk = NoJob
===============================================================================
