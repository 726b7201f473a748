----------------------------- MODULE ScopeApproval -----------------------------
(***************************************************************************)
(* ApproveScopeRevision (server/scope.go) beside the operations of         *)
(* Publication.  Approving a manifest restamps every document of the       *)
(* program under the manifest's hash: stage all, move every head, write    *)
(* the scope_approval record, delete the chunks of the former scope; a     *)
(* write that fails rolls the heads moved before it back.  The approval    *)
(* takes no document lock.  The command runs in a process of its own, the  *)
(* HTTP and MCP handlers in the server's.                                  *)
(***************************************************************************)
EXTENDS Publication

CONSTANT ApproveAlone  \* TRUE: nothing else runs during an approval

ASSUME ApproveAloneAssumption == ApproveAlone \in BOOLEAN

VARIABLE plan   \* the approval a thread is carrying out

vars == <<pubVars, plan>>

StagingSteps == {"scan", "readDoc", "stageDoc", "recheck"}
ApproveSteps == StagingSteps \union {"commitHeads", "activate", "restore", "clean"}

(* staged holds the heads as read during staging, todo the documents the    *)
(* current loop has left, committed those whose head was moved.             *)
Plans == [rev : Manifests, doc : Docs \union {Missing}, todo : SUBSET Docs,
          staged : [Docs -> Heads \union {NoHead}], committed : SUBSET Docs]

ApprovalTypeOK ==
  /\ file \in [Devices -> [Docs -> Revs \union {Missing}]]
  /\ manifest \in [Devices -> Manifests \union {Missing}]
  /\ chunks \in [Docs -> [Keys -> 0..Chunks]]
  /\ head \in [Docs -> Heads \union {NoHead}]
  /\ tomb \in SUBSET Docs
  /\ approval \in Approvals \union {NoApproval}
  /\ pc \in [Threads -> {"idle"} \union SyncSteps \union RemoveSteps \union ApproveSteps]
  /\ job \in [Threads -> Jobs \union {NoJob}]
  /\ plan \in [Threads -> Plans \union {NoJob}]

ApprovalInit == Init /\ plan = [t \in Threads |-> NoJob]

Approving == \E t \in Threads : pc[t] \in ApproveSteps

Abandon(t) ==
  /\ pc' = [pc EXCEPT ![t] = "idle"]
  /\ plan' = [plan EXCEPT ![t] = NoJob]
  /\ job' = job

Staged(t) == {d \in Docs : plan[t].staged[d] # NoHead}

(* loadScopeManifest and the confirmed hash. *)
ApproveStart(t) ==
  LET m == manifest[Device(t)]
  IN  /\ m # Missing
      /\ ApproveAlone => \A u \in Threads : pc[u] = "idle"
      /\ GoTo(t, "idle", "scan")
      /\ plan' = [plan EXCEPT ![t] = [rev |-> m, doc |-> Missing, todo |-> {},
                     staged |-> [d \in Docs |-> NoHead], committed |-> {}]]
      /\ UNCHANGED <<data, job>>

(* rematerializeProgramScope: the heads of the program, then one document   *)
(* after the other. *)
Scan(t) ==
  /\ GoTo(t, "scan", "readDoc")
  /\ plan' = [plan EXCEPT ![t].todo = {d \in Docs : head[d] # NoHead}]
  /\ UNCHANGED <<data, job>>

(* Mutant: documents marked pending_delete are left out. *)
SkippedUnlessActive(h) == h.state # "active"

Skipped(h) == h.state = "deleted"

ReadDoc(t) ==
  /\ pc[t] = "readDoc"
  /\ IF plan[t].todo = {}
     THEN GoTo(t, "readDoc", "recheck") /\ UNCHANGED <<plan, job>>
     ELSE \E d \in plan[t].todo :
            CASE Skipped(head[d]) ->
                   /\ plan' = [plan EXCEPT ![t].todo = @ \ {d}]
                   /\ UNCHANGED <<pc, job>>
              [] ~Skipped(head[d]) /\ chunks[d][KeyOf(head[d])] # Chunks ->
                   Abandon(t)
              [] OTHER ->
                   /\ GoTo(t, "readDoc", "stageDoc")
                   /\ plan' = [plan EXCEPT ![t].doc = d, ![t].todo = @ \ {d},
                                           ![t].staged[d] = head[d]]
                   /\ job' = job
  /\ UNCHANGED data

Restamped(t, d) == <<plan[t].staged[d].rev, plan[t].rev>>

StageDoc(t) ==
  LET d == plan[t].doc
  IN  /\ GoTo(t, "stageDoc", "readDoc")
      /\ chunks' = [chunks EXCEPT ![d][Restamped(t, d)] = Chunks]
      /\ plan' = [plan EXCEPT ![t].doc = Missing]
      /\ UNCHANGED <<file, manifest, head, tomb, approval, job>>

StageDocPartly(t) ==
  LET d == plan[t].doc
  IN  /\ pc[t] = "stageDoc"
      /\ \E n \in chunks[d][Restamped(t, d)]..Chunks :
           chunks' = [chunks EXCEPT ![d][Restamped(t, d)] = n]
      /\ Abandon(t)
      /\ UNCHANGED <<file, manifest, head, tomb, approval>>

(* The manifest must not have changed since. *)
Recheck(t) ==
  /\ pc[t] = "recheck"
  /\ IF manifest[Device(t)] = plan[t].rev
     THEN /\ GoTo(t, "recheck", "commitHeads")
          /\ plan' = [plan EXCEPT ![t].todo = Staged(t)]
          /\ job' = job
     ELSE Abandon(t)
  /\ UNCHANGED data

(* Mutant: the approving device takes the documents over. *)
RescopedAsOwn(t, d) ==
  [plan[t].staged[d] EXCEPT !.scope = plan[t].rev, !.writer = Device(t)]

Rescoped(t, d) == [plan[t].staged[d] EXCEPT !.scope = plan[t].rev]

CommitHead(t) ==
  /\ pc[t] = "commitHeads"
  /\ IF plan[t].todo = {}
     THEN /\ GoTo(t, "commitHeads", "activate")
          /\ UNCHANGED <<head, plan>>
     ELSE \E d \in plan[t].todo :
            /\ head' = [head EXCEPT ![d] = Rescoped(t, d)]
            /\ plan' = [plan EXCEPT ![t].todo = @ \ {d},
                                    ![t].committed = @ \union {d}]
            /\ pc' = pc
  /\ UNCHANGED <<file, manifest, chunks, tomb, approval, job>>

(* A failing write may have taken effect; the heads written before are      *)
(* rolled back, the failing one is not.                                     *)
RollBack(t, from) ==
  /\ GoTo(t, from, "restore")
  /\ plan' = [plan EXCEPT ![t].todo = plan[t].committed]
  /\ job' = job

CommitHeadFails(t) ==
  /\ RollBack(t, "commitHeads")
  /\ \E d \in plan[t].todo : head' \in {head, [head EXCEPT ![d] = Rescoped(t, d)]}
  /\ UNCHANGED <<file, manifest, chunks, tomb, approval>>

NewApproval(t) == [scope |-> plan[t].rev, by |-> Device(t)]

(* Mutant: the cleanup includes the documents already under this scope. *)
AllStaged(t) == Staged(t)

Superseded(t) == {d \in Staged(t) : plan[t].staged[d].scope # plan[t].rev}

Activate(t) ==
  /\ GoTo(t, "activate", "clean")
  /\ approval' = NewApproval(t)
  /\ plan' = [plan EXCEPT ![t].todo = Superseded(t)]
  /\ UNCHANGED <<file, manifest, chunks, head, tomb, job>>

ActivateFails(t) ==
  /\ RollBack(t, "activate")
  /\ approval' \in {approval, NewApproval(t)}
  /\ UNCHANGED <<file, manifest, chunks, head, tomb>>

(* Errors of the rollback are ignored. *)
Restore(t) ==
  /\ pc[t] = "restore"
  /\ IF plan[t].todo = {}
     THEN Abandon(t) /\ head' = head
     ELSE \E d \in plan[t].todo :
            /\ head' \in {head, [head EXCEPT ![d] = plan[t].staged[d]]}
            /\ plan' = [plan EXCEPT ![t].todo = @ \ {d}]
            /\ UNCHANGED <<pc, job>>
  /\ UNCHANGED <<file, manifest, chunks, tomb, approval>>

(* Errors of the cleanup are only logged. *)
CleanScope(t) ==
  /\ pc[t] = "clean"
  /\ IF plan[t].todo = {}
     THEN Abandon(t) /\ chunks' = chunks
     ELSE \E d \in plan[t].todo :
            LET k == KeyOf(plan[t].staged[d])
            IN  /\ \E n \in 0..chunks[d][k] : chunks' = [chunks EXCEPT ![d][k] = n]
                /\ plan' = [plan EXCEPT ![t].todo = @ \ {d}]
                /\ UNCHANGED <<pc, job>>
  /\ UNCHANGED <<file, manifest, head, tomb, approval>>

AbandonStaging(t) == pc[t] \in StagingSteps /\ Abandon(t) /\ UNCHANGED data

ApproveStep(t) ==
  \/ ApproveStart(t) \/ Scan(t) \/ ReadDoc(t) \/ StageDoc(t) \/ StageDocPartly(t)
  \/ Recheck(t) \/ CommitHead(t) \/ CommitHeadFails(t) \/ Activate(t)
  \/ ActivateFails(t) \/ Restore(t) \/ CleanScope(t) \/ AbandonStaging(t)

CrashApproval(p) ==
  /\ Crash(p)
  /\ plan' = [t \in Threads |-> IF ProcOf[t] = p THEN NoJob ELSE plan[t]]

ApprovalNext ==
  \/ (Edit \/ Steps \/ CallFails) /\ UNCHANGED plan
  \/ Starts /\ (ApproveAlone => ~Approving) /\ UNCHANGED plan
  \/ \E p \in Procs : CrashApproval(p)
  \/ \E t \in Threads : ApproveStep(t)

ApprovalSpec == ApprovalInit /\ [][ApprovalNext]_vars

-------------------------------------------------------------------------------

Live(d) == head[d] # NoHead /\ head[d].state # "deleted" /\ d \notin tomb

(* An approval becomes active only when every document of the program is    *)
(* materialized under it: from its first moment searches return every live  *)
(* document, whole (the order of staging, head commits and activation).     *)
ApprovalServesProgram ==
  [][approval' # approval /\ approval'.by # Nobody
       => \A d \in Docs : Live(d) =>
            /\ Served(d)' = {<<head[d].rev, approval'.scope>>}
            /\ chunks'[d][<<head[d].rev, approval'.scope>>] = Chunks]_vars
===============================================================================
