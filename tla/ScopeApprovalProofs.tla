-------------------------- MODULE ScopeApprovalProofs --------------------------
(***************************************************************************)
(* Proofs about ScopeApproval, for any devices, processes, threads,        *)
(* documents, revisions and manifests: what an approval knows of the       *)
(* documents it moves, and who writes and withdraws what beside it.        *)
(*                                                                         *)
(* Then about searches and status reads (ProgramReads), whatever is        *)
(* published, removed and approved between any two of their requests: no   *)
(* theorem about them limits the writers, any number of which publish and  *)
(* approve beside each other.                                              *)
(***************************************************************************)
EXTENDS PublicationProofs, ProgramReads, SequenceTheorems

PubPlaces == {"idle"} \union SyncSteps \union RemoveSteps

StagedIn(y) == {d \in Docs : y.staged[d] # NoHead}

(* What the step of an approval says of its plan. *)
PlanFits(x, y) ==
  /\ x \in ApproveSteps => y \in Plans /\ y.committed \subseteq StagedIn(y)
  /\ x = "stageDoc" => y.doc \in StagedIn(y)
  /\ x \in {"commitHeads", "restore", "clean"} => y.todo \subseteq StagedIn(y)

PlansTyped ==
  /\ plan \in [Threads -> Plans \union {NoJob}]
  /\ \A t \in Threads : PlanFits(pc[t], plan[t])

(* The documents an approval goes through have heads. *)
HeadsListed ==
  \A t \in Threads : pc[t] \in {"readDoc", "stageDoc"} => \A d \in plan[t].todo : head[d] # NoHead

PlanInv == TypeInv /\ PlansTyped /\ HeadsListed

-------------------------------------------------------------------------------
(* The plans of approvals. *)

(* The documents a plan has staged are those of its thread.                 *)
LEMMA StagedOfPlan == \A t : Staged(t) = StagedIn(plan[t])
  BY DEF Staged, StagedIn

(* The steps of an approval are none of Publication.                        *)
LEMMA ApprovalPlaces ==
  /\ ApproveSteps \intersect PubPlaces = {}
  /\ ApproveSteps \intersect (PublishSteps \union DecidedSteps \union DeleteSteps \union WriteSteps) = {}
  BY DEF ApproveSteps, StagingSteps, PubPlaces, SyncSteps, RemoveSteps, PublishSteps, DecidedSteps, DeleteSteps,
         WriteSteps

(* No step of Publication leads a thread into an approval, or is made by    *)
(* one that carries out an approval, save the crash of its process.         *)
LEMMA PubMoves ==
  ASSUME TypeInv, [PubNext]_pubVars, NEW t \in Threads
  PROVE  pc'[t] = pc[t] \/ pc'[t] \in PubPlaces
  BY PlaceKept DEF PubPlaces

(* The plans stay typed beside a step of Publication.                       *)
LEMMA PubKeepsPlans ==
  ASSUME PlanInv, [PubNext]_pubVars, plan' = plan
  PROVE  PlanInv'
<1>1. TypeInv'
  BY NextTypeInv DEF PlanInv
<1>2. ASSUME NEW t \in Threads PROVE PlanFits(pc'[t], plan'[t])
  <2>1. CASE pc'[t] = pc[t]
    BY <2>1 DEF PlanInv, PlansTyped
  <2>2. CASE pc'[t] \in PubPlaces
    BY <2>2, ApprovalPlaces DEF PlanFits, ApproveSteps, StagingSteps
  <2>q. QED BY <2>1, <2>2, PubMoves DEF PlanInv
<1>3. HeadsListed'
  <2> SUFFICES ASSUME NEW t \in Threads, pc'[t] \in {"readDoc", "stageDoc"}, NEW d \in plan[t].todo
               PROVE  head'[d] # NoHead
    BY DEF HeadsListed
  <2>1. pc'[t] \in ApproveSteps /\ pc'[t] \notin PubPlaces
    BY ApprovalPlaces DEF ApproveSteps, StagingSteps
  <2>2. pc'[t] = pc[t]
    BY <2>1, PubMoves DEF PlanInv
  <2>3. d \in Docs /\ head[d] # NoHead
    BY <2>1, <2>2 DEF PlanInv, PlansTyped, PlanFits, Plans, HeadsListed
  <2>q. QED BY <2>3, HeadsStay DEF PlanInv
<1>q. QED BY <1>1, <1>2, <1>3 DEF PlanInv, PlansTyped

(* A step of an approval moves one thread, and changes the plan of no       *)
(* other.                                                                   *)
ApproverMoves(t, x, y) ==
  /\ pc' = [pc EXCEPT ![t] = x]
  /\ plan' = [plan EXCEPT ![t] = y]
  /\ job' = job

(* Such a step keeps the control state typed.                               *)
LEMMA ApproverTyped ==
  ASSUME PlanInv, NEW t \in Threads, NEW x \in {"idle"} \union ApproveSteps, NEW y \in Plans \union {NoJob},
         PlanFits(x, y), ApproverMoves(t, x, y)
  PROVE  ControlTyped' /\ PlansTyped'
<1>1. pc \in [Threads -> Places] /\ job \in [Threads -> Jobs \union {NoJob}] /\ plan \in [Threads -> Plans \union {NoJob}]
  BY DEF PlanInv, TypeInv, ControlTyped, PlansTyped
<1>2. pc' \in [Threads -> Places] /\ plan' \in [Threads -> Plans \union {NoJob}]
  BY <1>1 DEF ApproverMoves, Places
<1>3. pc'[t] = x /\ plan'[t] = y /\ \A u \in Threads : u # t => pc'[u] = pc[u] /\ plan'[u] = plan[u]
  BY <1>1 DEF ApproverMoves
<1>4. x \notin SyncSteps \union RemoveSteps \union PublishSteps \union DecidedSteps \union DeleteSteps
  BY ApprovalPlaces DEF PubPlaces, SyncSteps, RemoveSteps, PublishSteps, DecidedSteps, DeleteSteps
<1>5. JobTyped(t)'
  BY <1>3, <1>4 DEF JobTyped, Working
<1>6. \A u \in Threads : u # t => JobTyped(u)'
  BY <1>3 DEF PlanInv, TypeInv, ControlTyped, JobTyped, Working, Device, ApproverMoves
<1>7. \A u \in Threads : PlanFits(pc'[u], plan'[u])
  BY <1>3 DEF PlanInv, PlansTyped
<1>q. QED BY <1>1, <1>2, <1>5, <1>6, <1>7 DEF ControlTyped, PlansTyped, ApproverMoves

(* What is known of the plan of a thread that carries out an approval.      *)
LEMMA PlanKnown ==
  ASSUME PlanInv, NEW t \in Threads, pc[t] \in ApproveSteps
  PROVE  /\ plan[t] \in Plans /\ Device(t) \in Devices
         /\ plan[t].committed \subseteq Staged(t)
         /\ pc[t] = "stageDoc" => plan[t].doc \in Staged(t)
         /\ pc[t] \in {"commitHeads", "restore", "clean"} => plan[t].todo \subseteq Staged(t)
         /\ \A d \in Staged(t) : /\ d \in Docs /\ plan[t].staged[d] \in Heads
                                 /\ KeyOf(plan[t].staged[d]) \in Keys
                                 /\ Restamped(t, d) \in Keys
                                 /\ Rescoped(t, d) \in Heads
                                 /\ KeyOf(Rescoped(t, d)) = Restamped(t, d)
                                 /\ Rescoped(t, d).writer = plan[t].staged[d].writer
                                 /\ Rescoped(t, d).rev = plan[t].staged[d].rev
                                 /\ Rescoped(t, d).state = plan[t].staged[d].state
                                 /\ Rescoped(t, d).scope = plan[t].rev
<1>1. plan[t] \in Plans /\ PlanFits(pc[t], plan[t])
  BY DEF PlanInv, PlansTyped, PlanFits
<1>2. ASSUME NEW d \in Staged(t)
      PROVE  d \in Docs /\ plan[t].staged[d] \in Heads
  BY <1>1 DEF Staged, Plans
<1>3. ASSUME NEW d \in Staged(t)
      PROVE  /\ KeyOf(plan[t].staged[d]) \in Keys
             /\ Restamped(t, d) \in Keys
             /\ Rescoped(t, d) \in Heads
             /\ KeyOf(Rescoped(t, d)) = Restamped(t, d)
             /\ Rescoped(t, d).writer = plan[t].staged[d].writer
             /\ Rescoped(t, d).rev = plan[t].staged[d].rev
             /\ Rescoped(t, d).state = plan[t].staged[d].state
             /\ Rescoped(t, d).scope = plan[t].rev
  <2>1. plan[t].rev \in Scopes
    BY <1>1 DEF Plans, Scopes
  <2>2. plan[t].staged[d] \in Heads
    BY <1>2
  <2>q. QED BY <2>1, <2>2 DEF KeyOf, Keys, Restamped, Rescoped, Heads
<1>q. QED BY <1>1, <1>2, <1>3, DeviceTyped, StagedOfPlan DEF PlanFits

(* What reading a document leads to. *)
LEMMA ReadDocCases ==
  ASSUME NEW t \in Threads, ReadDoc(t), plan[t].todo # {}
  PROVE  \E d \in plan[t].todo :
           \/ /\ Skipped(head[d]) /\ plan' = [plan EXCEPT ![t].todo = @ \ {d}] /\ UNCHANGED <<pc, job>>
           \/ Abandon(t)
           \/ /\ ~Skipped(head[d]) /\ chunks[d][KeyOf(head[d])] = Chunks /\ job' = job
              /\ pc' = [pc EXCEPT ![t] = "stageDoc"]
              /\ plan' = [plan EXCEPT ![t].doc = d, ![t].todo = @ \ {d}, ![t].staged[d] = head[d]]
  BY DEF ReadDoc, GoTo

(* The control part of every step of an approval.                           *)
LEMMA ApproveControl ==
  ASSUME PlanInv, NEW t \in Threads, ApproveStep(t)
  PROVE  ControlTyped' /\ PlansTyped'
<1> USE DEF ApproveSteps, StagingSteps
<1>0. /\ pc \in [Threads -> Places] /\ plan \in [Threads -> Plans \union {NoJob}]
      /\ head \in [Docs -> Heads \union {NoHead}] /\ manifest \in [Devices -> Manifests \union {Missing}]
      /\ Device(t) \in Devices
  BY DeviceTyped DEF PlanInv, TypeInv, ControlTyped, DataTyped, PlansTyped
<1>k. ASSUME pc[t] \in ApproveSteps
      PROVE  /\ plan[t] \in Plans /\ plan[t].committed \subseteq StagedIn(plan[t])
             /\ pc[t] = "stageDoc" => plan[t].doc \in StagedIn(plan[t])
             /\ pc[t] \in {"commitHeads", "restore", "clean"} => plan[t].todo \subseteq StagedIn(plan[t])
  BY <1>k, PlanKnown, StagedOfPlan
<1>a. CASE Abandon(t)
  <2>1. ApproverMoves(t, "idle", NoJob)
    BY <1>a DEF Abandon, ApproverMoves
  <2>2. PlanFits("idle", NoJob)
    BY DEF PlanFits
  <2>q. QED BY <2>1, <2>2, ApproverTyped
<1>g. ASSUME NEW x \in ApproveSteps, NEW ds \in SUBSET Docs, plan[t] \in Plans, pc[t] \in ApproveSteps,
             ApproverMoves(t, x, [plan[t] EXCEPT !.todo = ds]),
             x \in {"commitHeads", "restore", "clean"} => ds \subseteq StagedIn(plan[t]),
             x # "stageDoc"
      PROVE  ControlTyped' /\ PlansTyped'
  <2> DEFINE y == [plan[t] EXCEPT !.todo = ds]
  <2>1. y \in Plans /\ y.todo = ds /\ StagedIn(y) = StagedIn(plan[t]) /\ y.committed = plan[t].committed
    BY <1>g DEF Plans, StagedIn
  <2>2. PlanFits(x, y)
    BY <1>g, <1>k, <2>1 DEF PlanFits
  <2> HIDE DEF y
  <2>q. QED BY <1>g, <2>1, <2>2, ApproverTyped DEF y
<1>1. CASE ApproveStart(t)
  <2> DEFINE y == [rev |-> manifest[Device(t)], doc |-> Missing, todo |-> {},
                   staged |-> [d \in Docs |-> NoHead], committed |-> {}]
  <2>1. y \in Plans /\ PlanFits("scan", y)
    BY <1>0, <1>1 DEF ApproveStart, Plans, PlanFits
  <2>2. ApproverMoves(t, "scan", y)
    BY <1>1 DEF ApproveStart, GoTo, ApproverMoves
  <2> HIDE DEF y
  <2>q. QED BY <2>1, <2>2, ApproverTyped
<1>2. CASE Scan(t)
  <2>1. ApproverMoves(t, "readDoc", [plan[t] EXCEPT !.todo = {d \in Docs : head[d] # NoHead}]) /\ pc[t] = "scan"
    BY <1>2 DEF Scan, GoTo, ApproverMoves
  <2>q. QED BY <1>k, <1>g, <2>1
<1>3. CASE ReadDoc(t)
  <2>0. pc[t] = "readDoc" /\ plan[t] \in Plans
    BY <1>3, <1>k DEF ReadDoc
  <2>1. CASE plan[t].todo = {}
    <3>1. ApproverMoves(t, "recheck", plan[t])
      BY <1>0, <1>3, <2>0, <2>1 DEF ReadDoc, GoTo, ApproverMoves
    <3>2. PlanFits("recheck", plan[t])
      BY <1>k, <2>0 DEF PlanFits
    <3>q. QED BY <2>0, <3>1, <3>2, ApproverTyped
  <2>2. CASE plan[t].todo # {}
    <3>1. PICK d \in plan[t].todo :
            \/ /\ plan' = [plan EXCEPT ![t].todo = @ \ {d}] /\ UNCHANGED <<pc, job>>
            \/ Abandon(t)
            \/ /\ head[d] # NoHead /\ job' = job
               /\ pc' = [pc EXCEPT ![t] = "stageDoc"]
               /\ plan' = [plan EXCEPT ![t].doc = d, ![t].todo = @ \ {d}, ![t].staged[d] = head[d]]
      <4>1. \A d \in plan[t].todo : head[d] # NoHead
        BY <2>0 DEF PlanInv, HeadsListed
      <4>q. QED BY <1>3, <2>2, <4>1, ReadDocCases
    <3>2. CASE plan' = [plan EXCEPT ![t].todo = @ \ {d}] /\ UNCHANGED <<pc, job>>
      <4>1. ApproverMoves(t, "readDoc", [plan[t] EXCEPT !.todo = plan[t].todo \ {d}])
        BY <1>0, <2>0, <3>2 DEF ApproverMoves
      <4>2. plan[t].todo \ {d} \in SUBSET Docs
        BY <2>0 DEF Plans
      <4>q. QED BY <1>g, <2>0, <4>1, <4>2
    <3>3. CASE /\ head[d] # NoHead /\ job' = job
               /\ pc' = [pc EXCEPT ![t] = "stageDoc"]
               /\ plan' = [plan EXCEPT ![t].doc = d, ![t].todo = @ \ {d}, ![t].staged[d] = head[d]]
      <4> DEFINE y == [plan[t] EXCEPT !.doc = d, !.todo = @ \ {d}, !.staged[d] = head[d]]
      <4>0. d \in Docs /\ head[d] \in Heads
        BY <1>0, <2>0, <3>3 DEF Plans
      <4>1. /\ y \in Plans /\ y.doc = d /\ y.committed = plan[t].committed
            /\ StagedIn(y) = StagedIn(plan[t]) \union {d}
        BY <2>0, <3>3, <4>0 DEF Plans, StagedIn
      <4>2. ApproverMoves(t, "stageDoc", y)
        BY <1>0, <3>3 DEF ApproverMoves
      <4>3. PlanFits("stageDoc", y)
        BY <1>k, <2>0, <4>1 DEF PlanFits
      <4> HIDE DEF y
      <4>q. QED BY <4>1, <4>2, <4>3, ApproverTyped
    <3>q. QED BY <1>a, <3>1, <3>2, <3>3
  <2>q. QED BY <2>1, <2>2
<1>4. CASE StageDoc(t)
  <2> DEFINE y == [plan[t] EXCEPT !.doc = Missing]
  <2>1. ApproverMoves(t, "readDoc", y) /\ pc[t] = "stageDoc"
    BY <1>4 DEF StageDoc, GoTo, ApproverMoves
  <2>2. y \in Plans /\ StagedIn(y) = StagedIn(plan[t]) /\ y.committed = plan[t].committed
    BY <1>k, <2>1 DEF Plans, StagedIn
  <2>3. PlanFits("readDoc", y)
    BY <1>k, <2>1, <2>2 DEF PlanFits
  <2> HIDE DEF y
  <2>q. QED BY <2>1, <2>2, <2>3, ApproverTyped
<1>5. CASE Recheck(t) /\ ~Abandon(t)
  <2>1. ApproverMoves(t, "commitHeads", [plan[t] EXCEPT !.todo = Staged(t)]) /\ pc[t] = "recheck"
    BY <1>5 DEF Recheck, GoTo, ApproverMoves
  <2>2. Staged(t) \in SUBSET Docs /\ Staged(t) = StagedIn(plan[t])
    BY DEF Staged, StagedIn
  <2>q. QED BY <1>g, <1>k, <2>1, <2>2
<1>6. CASE CommitHead(t)
  <2>0. pc[t] = "commitHeads" /\ plan[t] \in Plans /\ plan[t].todo \subseteq StagedIn(plan[t])
    BY <1>6, <1>k DEF CommitHead
  <2>1. CASE plan[t].todo = {}
    <3>1. ApproverMoves(t, "activate", plan[t])
      BY <1>0, <1>6, <2>1 DEF CommitHead, GoTo, ApproverMoves
    <3>2. PlanFits("activate", plan[t])
      BY <1>k, <2>0 DEF PlanFits
    <3>q. QED BY <2>0, <3>1, <3>2, ApproverTyped
  <2>2. CASE plan[t].todo # {}
    <3>1. PICK d \in plan[t].todo :
            plan' = [plan EXCEPT ![t].todo = @ \ {d}, ![t].committed = @ \union {d}]
      BY <1>6, <2>2 DEF CommitHead
    <3> DEFINE y == [plan[t] EXCEPT !.todo = @ \ {d}, !.committed = @ \union {d}]
    <3>2. /\ y \in Plans /\ StagedIn(y) = StagedIn(plan[t]) /\ y.todo = plan[t].todo \ {d}
          /\ y.committed = plan[t].committed \union {d}
      BY <2>0, <3>1 DEF Plans, StagedIn
    <3>3. ApproverMoves(t, "commitHeads", y)
      BY <1>0, <1>6, <2>0, <2>2, <3>1 DEF CommitHead, ApproverMoves
    <3>4. PlanFits("commitHeads", y)
      BY <1>k, <2>0, <3>2 DEF PlanFits
    <3> HIDE DEF y
    <3>q. QED BY <3>2, <3>3, <3>4, ApproverTyped
  <2>q. QED BY <2>1, <2>2
<1>7. CASE CommitHeadFails(t) \/ ActivateFails(t)
  <2>1. PICK from \in {"commitHeads", "activate"} : RollBack(t, from)
    BY <1>7 DEF CommitHeadFails, ActivateFails
  <2>2. ApproverMoves(t, "restore", [plan[t] EXCEPT !.todo = plan[t].committed]) /\ pc[t] = from
    BY <2>1 DEF RollBack, GoTo, ApproverMoves
  <2>3. plan[t] \in Plans /\ plan[t].committed \in SUBSET Docs /\ plan[t].committed \subseteq StagedIn(plan[t])
    BY <1>k, <2>2 DEF Plans
  <2>q. QED BY <1>g, <2>2, <2>3
<1>8. CASE Activate(t)
  <2>1. ApproverMoves(t, "clean", [plan[t] EXCEPT !.todo = Superseded(t)]) /\ pc[t] = "activate"
    BY <1>8 DEF Activate, GoTo, ApproverMoves
  <2>2. Superseded(t) \in SUBSET Docs /\ Superseded(t) \subseteq StagedIn(plan[t])
    BY DEF Superseded, Staged, StagedIn
  <2>q. QED BY <1>g, <1>k, <2>1, <2>2
<1>9. CASE (Restore(t) \/ CleanScope(t)) /\ ~Abandon(t)
  <2>1. PICK x \in {"restore", "clean"} : pc[t] = x
    BY <1>9 DEF Restore, CleanScope
  <2>2. PICK d \in plan[t].todo : plan' = [plan EXCEPT ![t].todo = @ \ {d}] /\ UNCHANGED <<pc, job>>
    BY <1>9 DEF Restore, CleanScope
  <2>3. plan[t] \in Plans /\ plan[t].todo \ {d} \in SUBSET Docs /\ plan[t].todo \ {d} \subseteq StagedIn(plan[t])
    BY <1>k, <2>1 DEF Plans
  <2>4. ApproverMoves(t, x, [plan[t] EXCEPT !.todo = plan[t].todo \ {d}])
    BY <1>0, <2>1, <2>2 DEF ApproverMoves
  <2>q. QED BY <1>g, <2>1, <2>3, <2>4
<1>10. CASE StageDocPartly(t) \/ AbandonStaging(t)
  BY <1>a, <1>10 DEF StageDocPartly, AbandonStaging
<1>11. CASE (Recheck(t) \/ Restore(t) \/ CleanScope(t)) /\ Abandon(t)
  BY <1>a, <1>11
<1>q. QED BY <1>1, <1>2, <1>3, <1>4, <1>5, <1>6, <1>7, <1>8, <1>9, <1>10, <1>11 DEF ApproveStep

(* What an approval writes into the control collection: heads it has read   *)
(* before, as they were or rescoped.                                        *)
LEMMA ApproveWrites ==
  ASSUME PlanInv, NEW t \in Threads, ApproveStep(t), head' # head
  PROVE  /\ pc[t] \in {"commitHeads", "restore"}
         /\ \E d \in plan[t].todo : \E h \in {plan[t].staged[d], Rescoped(t, d)} :
              /\ head' = [head EXCEPT ![d] = h]
              /\ pc[t] = "commitHeads" => h = Rescoped(t, d)
              /\ pc[t] = "restore" => h = plan[t].staged[d]
<1>1. CommitHead(t) \/ CommitHeadFails(t) \/ Restore(t)
  BY DEF ApproveStep, ApproveStart, Scan, ReadDoc, StageDoc, StageDocPartly, Recheck, Activate, ActivateFails,
         CleanScope, AbandonStaging, data
<1>2. CASE CommitHead(t)
  BY <1>2 DEF CommitHead
<1>3. CASE CommitHeadFails(t)
  BY <1>3 DEF CommitHeadFails, RollBack, GoTo
<1>4. CASE Restore(t)
  BY <1>4 DEF Restore
<1>q. QED BY <1>1, <1>2, <1>3, <1>4

(* What it stores or deletes: the chunks of a restamped document, or of     *)
(* the scope it supersedes.                                                 *)
LEMMA ApproveStores ==
  ASSUME PlanInv, NEW t \in Threads, ApproveStep(t), chunks' # chunks
  PROVE  \/ /\ pc[t] = "stageDoc"
            /\ LET d == plan[t].doc
                   k == Restamped(t, d)
               IN  /\ chunks' = [chunks EXCEPT ![d][k] = Chunks]
                   /\ StageDoc(t)
         \/ /\ pc[t] = "stageDoc" /\ Abandon(t)
            /\ LET d == plan[t].doc
                   k == Restamped(t, d)
               IN  \E n \in chunks[d][k]..Chunks : chunks' = [chunks EXCEPT ![d][k] = n]
         \/ /\ pc[t] = "clean"
            /\ \E d \in plan[t].todo :
                 LET k == KeyOf(plan[t].staged[d])
                 IN  /\ \E n \in 0..chunks[d][k] : chunks' = [chunks EXCEPT ![d][k] = n]
                     /\ plan' = [plan EXCEPT ![t].todo = @ \ {d}] /\ pc' = pc
<1>1. StageDoc(t) \/ StageDocPartly(t) \/ CleanScope(t)
  BY DEF ApproveStep, ApproveStart, Scan, ReadDoc, CommitHead, CommitHeadFails, Restore, Recheck, Activate,
         ActivateFails, AbandonStaging, data
<1>2. CASE StageDoc(t)
  BY <1>2 DEF StageDoc, GoTo
<1>3. CASE StageDocPartly(t)
  BY <1>3 DEF StageDocPartly
<1>4. CASE CleanScope(t)
  BY <1>4 DEF CleanScope
<1>q. QED BY <1>1, <1>2, <1>3, <1>4

(* The approval record changes when every head is moved, and to that of the *)
(* approval.                                                                *)
LEMMA ApproveRecords ==
  ASSUME NEW t \in Threads, ApproveStep(t), approval' # approval
  PROVE  pc[t] = "activate" /\ approval' = NewApproval(t) /\ UNCHANGED <<head, chunks, tomb>>
<1>1. Activate(t) \/ ActivateFails(t)
  BY DEF ApproveStep, ApproveStart, Scan, ReadDoc, CommitHead, CommitHeadFails, Restore, Recheck, StageDoc,
         StageDocPartly, CleanScope, AbandonStaging, data
<1>q. QED BY <1>1 DEF Activate, ActivateFails, RollBack, GoTo

(* No approval changes files, manifests or tombstones.                      *)
LEMMA ApproveLeaves ==
  ASSUME NEW t \in Threads, ApproveStep(t)
  PROVE  UNCHANGED <<file, manifest, tomb, job>>
  BY DEF ApproveStep, ApproveStart, Scan, ReadDoc, CommitHead, CommitHeadFails, Restore, Recheck, StageDoc,
         StageDocPartly, CleanScope, AbandonStaging, Activate, ActivateFails, RollBack, Abandon, data

(* The data part of every step of an approval.                              *)
LEMMA ApproveData ==
  ASSUME PlanInv, NEW t \in Threads, ApproveStep(t)
  PROVE  DataTyped'
<1>0. DataTyped /\ Chunks \in Nat
  BY PublicationAssumption DEF PlanInv, TypeInv
<1>1. head' \in [Docs -> Heads \union {NoHead}]
  <2>1. CASE head' = head
    BY <1>0, <2>1 DEF DataTyped
  <2>2. CASE head' # head
    <3>1. pc[t] \in {"commitHeads", "restore"}
      BY <2>2, ApproveWrites
    <3>2. PICK d \in plan[t].todo : \E h \in {plan[t].staged[d], Rescoped(t, d)} : head' = [head EXCEPT ![d] = h]
      BY <2>2, ApproveWrites
    <3>3. plan[t].staged[d] \in Heads /\ Rescoped(t, d) \in Heads
      BY <3>1, <3>2, PlanKnown DEF ApproveSteps
    <3>q. QED BY <1>0, <3>2, <3>3 DEF DataTyped
  <2>q. QED BY <2>1, <2>2
<1>2. chunks' \in [Docs -> [Keys -> 0..Chunks]]
  <2>0. ASSUME NEW d \in Docs, NEW k \in Keys, NEW n \in 0..Chunks, chunks' = [chunks EXCEPT ![d][k] = n]
        PROVE  chunks' \in [Docs -> [Keys -> 0..Chunks]]
    BY <1>0, <2>0 DEF DataTyped
  <2>1. CASE chunks' = chunks
    BY <1>0, <2>1 DEF DataTyped
  <2>2. CASE chunks' # chunks /\ pc[t] = "stageDoc"
    <3>1. plan[t].doc \in Docs /\ Restamped(t, plan[t].doc) \in Keys
      BY <2>2, PlanKnown DEF ApproveSteps, StagingSteps
    <3>2. chunks[plan[t].doc][Restamped(t, plan[t].doc)] \in 0..Chunks
      BY <1>0, <3>1 DEF DataTyped
    <3>3. \E n \in 0..Chunks : chunks' = [chunks EXCEPT ![plan[t].doc][Restamped(t, plan[t].doc)] = n]
      <4> HIDE DEF Restamped
      <4>1. Chunks \in 0..Chunks /\ chunks[plan[t].doc][Restamped(t, plan[t].doc)]..Chunks \subseteq 0..Chunks
        BY <1>0, <3>2
      <4>q. QED BY <2>2, <4>1, ApproveStores
    <3>q. QED BY <2>0, <3>1, <3>3
  <2>3. CASE chunks' # chunks /\ pc[t] = "clean"
    <3>1. PICK d \in plan[t].todo :
            \E n \in 0..chunks[d][KeyOf(plan[t].staged[d])] :
              chunks' = [chunks EXCEPT ![d][KeyOf(plan[t].staged[d])] = n]
      BY <2>3, ApproveStores
    <3>2. d \in Docs /\ KeyOf(plan[t].staged[d]) \in Keys
      BY <2>3, <3>1, PlanKnown DEF ApproveSteps
    <3>3. chunks[d][KeyOf(plan[t].staged[d])] \in 0..Chunks
      BY <1>0, <3>2 DEF DataTyped
    <3>4. 0..chunks[d][KeyOf(plan[t].staged[d])] \subseteq 0..Chunks
      BY <1>0, <3>3
    <3>q. QED BY <2>0, <3>1, <3>2, <3>4
  <2>q. QED BY <2>1, <2>2, <2>3, ApproveStores
<1>3. approval' \in Approvals \union {NoApproval}
  <2>1. CASE approval' = approval
    BY <1>0, <2>1 DEF DataTyped
  <2>2. CASE approval' # approval
    <3>1. pc[t] = "activate" /\ approval' = NewApproval(t)
      BY <2>2, ApproveRecords
    <3>2. plan[t] \in Plans /\ Device(t) \in Devices
      BY <3>1, PlanKnown DEF ApproveSteps
    <3>q. QED BY <3>1, <3>2 DEF NewApproval, Plans, Approvals
  <2>q. QED BY <2>1, <2>2
<1>q. QED BY <1>0, <1>1, <1>2, <1>3, ApproveLeaves DEF DataTyped

(* The documents that are left to be read keep their heads.                 *)
LEMMA ApproveListed ==
  ASSUME PlanInv, NEW t \in Threads, ApproveStep(t)
  PROVE  /\ \A d \in Docs : head[d] # NoHead => head'[d] # NoHead
         /\ HeadsListed'
<1>0. /\ pc \in [Threads -> Places] /\ plan \in [Threads -> Plans \union {NoJob}]
      /\ head \in [Docs -> Heads \union {NoHead}]
  BY DEF PlanInv, TypeInv, ControlTyped, DataTyped, PlansTyped
<1>1. ASSUME NEW d \in Docs, head[d] # NoHead PROVE head'[d] # NoHead
  <2>1. CASE head' = head
    BY <1>1, <2>1
  <2>2. CASE head' # head
    <3>1. pc[t] \in {"commitHeads", "restore"}
      BY <2>2, ApproveWrites
    <3>2. PICK e \in plan[t].todo : \E h \in {plan[t].staged[e], Rescoped(t, e)} : head' = [head EXCEPT ![e] = h]
      BY <2>2, ApproveWrites
    <3>3. plan[t].staged[e] \in Heads /\ Rescoped(t, e) \in Heads
      BY <3>1, <3>2, PlanKnown DEF ApproveSteps
    <3>q. QED BY <1>0, <1>1, <3>2, <3>3, NoHeadNotHead
  <2>q. QED BY <2>1, <2>2
<1>2. ASSUME NEW u \in Threads, pc'[u] \in {"readDoc", "stageDoc"}, NEW d \in plan'[u].todo
      PROVE  d \in Docs /\ head[d] # NoHead
  <2>0. \A w \in Threads : pc[w] \in {"readDoc", "stageDoc"} => plan[w] \in Plans
    BY DEF PlanInv, PlansTyped, PlanFits, ApproveSteps, StagingSteps
  <2>1. CASE pc[u] \in {"readDoc", "stageDoc"} /\ plan'[u].todo \subseteq plan[u].todo
    BY <1>2, <2>0, <2>1 DEF PlanInv, HeadsListed, Plans
  <2>2. CASE u # t
    <3>1. pc'[u] = pc[u] /\ plan'[u] = plan[u]
      BY <1>0, <2>2
         DEF ApproveStep, ApproveStart, Scan, ReadDoc, CommitHead, CommitHeadFails, Restore, Recheck, StageDoc,
             StageDocPartly, CleanScope, AbandonStaging, Activate, ActivateFails, RollBack, Abandon, GoTo
    <3>q. QED BY <1>2, <2>1, <3>1
  <2>3. CASE u = t
    <3>1. Scan(t) \/ ReadDoc(t) \/ StageDoc(t)
      BY <1>0, <1>2, <2>3
         DEF ApproveStep, ApproveStart, CommitHead, CommitHeadFails, Restore, Recheck,
             StageDocPartly, CleanScope, AbandonStaging, Activate, ActivateFails, RollBack, Abandon, GoTo
    <3>2. CASE Scan(t)
      <4>1. pc[t] \in ApproveSteps
        BY <3>2 DEF Scan, GoTo, ApproveSteps, StagingSteps
      <4>2. plan'[t].todo = {e \in Docs : head[e] # NoHead}
        BY <1>0, <3>2, <4>1, PlanKnown DEF Scan, Plans
      <4>q. QED BY <1>2, <2>3, <4>2
    <3>3. CASE StageDoc(t)
      <4>1. pc[t] = "stageDoc" /\ plan[t] \in Plans
        BY <2>0, <3>3 DEF StageDoc, GoTo
      <4>2. plan'[t].todo = plan[t].todo
        BY <1>0, <3>3, <4>1 DEF StageDoc, Plans
      <4>q. QED BY <2>1, <2>3, <4>1, <4>2
    <3>4. CASE ReadDoc(t)
      <4>1. pc[t] = "readDoc" /\ plan[t] \in Plans
        BY <2>0, <3>4 DEF ReadDoc
      <4>2. plan[t].todo # {}
        BY <1>0, <1>2, <2>3, <3>4, <4>1 DEF ReadDoc, GoTo
      <4>3. PICK e \in plan[t].todo :
              \/ plan' = [plan EXCEPT ![t].todo = @ \ {e}]
              \/ Abandon(t)
              \/ plan' = [plan EXCEPT ![t].doc = e, ![t].todo = @ \ {e}, ![t].staged[e] = head[e]]
        BY <3>4, <4>2, ReadDocCases
      <4>4. ~Abandon(t)
        BY <1>0, <1>2, <2>3 DEF Abandon
      <4>5. CASE plan' = [plan EXCEPT ![t].todo = @ \ {e}]
        <5>1. plan'[t].todo = plan[t].todo \ {e}
          BY <1>0, <4>1, <4>5 DEF Plans
        <5>q. QED BY <2>1, <2>3, <4>1, <5>1
      <4>6. CASE plan' = [plan EXCEPT ![t].doc = e, ![t].todo = @ \ {e}, ![t].staged[e] = head[e]]
        <5>1. plan'[t].todo = plan[t].todo \ {e}
          BY <1>0, <4>1, <4>6 DEF Plans
        <5>q. QED BY <2>1, <2>3, <4>1, <5>1
      <4>q. QED BY <4>3, <4>4, <4>5, <4>6
    <3>q. QED BY <3>1, <3>2, <3>3, <3>4
  <2>q. QED BY <2>2, <2>3
<1>q. QED BY <1>1, <1>2 DEF HeadsListed

-------------------------------------------------------------------------------
(* The types. *)

(* No approval is carried out initially.                                    *)
LEMMA InitPlans == ApprovalInit => PlanInv
<1> SUFFICES ASSUME ApprovalInit PROVE PlanInv
  OBVIOUS
<1>1. \A t \in Threads : pc[t] = "idle"
  BY DEF ApprovalInit, Init
<1>2. TypeInv
  BY InitTypeInv DEF ApprovalInit
<1>3. PlansTyped
  BY <1>1 DEF ApprovalInit, PlansTyped, PlanFits, ApproveSteps, StagingSteps
<1>q. QED BY <1>1, <1>2, <1>3 DEF PlanInv, HeadsListed

(* The steps beside approvals are those of Publication.                     *)
LEMMA BesideApprovals ==
  ASSUME [ApprovalNext]_vars, ~\E t \in Threads : ApproveStep(t)
  PROVE  /\ [PubNext]_pubVars
         /\ \/ plan' = plan
            \/ \E p \in Procs : CrashApproval(p)
  BY DEF ApprovalNext, PubNext, vars, CrashApproval, Crashes

(* A crash takes the plans of its threads with it.                          *)
LEMMA CrashPlans ==
  ASSUME PlanInv, NEW p \in Procs, CrashApproval(p), NEW t \in Threads
  PROVE  \/ pc'[t] = "idle" /\ plan'[t] = NoJob
         \/ pc'[t] = pc[t] /\ plan'[t] = plan[t] /\ job'[t] = job[t]
  BY DEF CrashApproval, Crash

(* Every step keeps the types of an approval.                               *)
LEMMA NextPlans == PlanInv /\ [ApprovalNext]_vars => PlanInv'
<1> SUFFICES ASSUME PlanInv, [ApprovalNext]_vars PROVE PlanInv'
  OBVIOUS
<1>1. CASE \E t \in Threads : ApproveStep(t)
  BY <1>1, ApproveControl, ApproveData, ApproveListed DEF PlanInv, TypeInv
<1>2. CASE (~\E t \in Threads : ApproveStep(t)) /\ plan' = plan
  BY <1>2, BesideApprovals, PubKeepsPlans
<1>3. CASE \E p \in Procs : CrashApproval(p)
  <2>1. PICK p \in Procs : CrashApproval(p)
    BY <1>3
  <2>2. [PubNext]_pubVars /\ UNCHANGED data
    BY <2>1 DEF CrashApproval, Crash, PubNext, Crashes
  <2>3. TypeInv'
    BY <2>2, NextTypeInv DEF PlanInv
  <2>4. plan' \in [Threads -> Plans \union {NoJob}]
    BY <2>1 DEF PlanInv, PlansTyped, CrashApproval
  <2>5. \A t \in Threads : PlanFits(pc'[t], plan'[t])
    <3> SUFFICES ASSUME NEW t \in Threads PROVE PlanFits(pc'[t], plan'[t])
      OBVIOUS
    <3>1. CASE pc'[t] = "idle"
      BY <3>1 DEF PlanFits, ApproveSteps, StagingSteps
    <3>2. CASE pc'[t] = pc[t] /\ plan'[t] = plan[t]
      BY <3>2 DEF PlanInv, PlansTyped
    <3>q. QED BY <2>1, <3>1, <3>2, CrashPlans
  <2>6. HeadsListed'
    BY <2>1, <2>2, CrashPlans DEF PlanInv, HeadsListed, data
  <2>q. QED BY <2>3, <2>4, <2>5, <2>6 DEF PlanInv, PlansTyped
<1>q. QED BY <1>1, <1>2, <1>3, BesideApprovals

(* The types of an approval are invariant.                                  *)
LEMMA PlanInvAlways == ApprovalSpec => []PlanInv
  BY InitPlans, NextPlans, PTL DEF ApprovalSpec

(* Every variable keeps its type while documents are published, removed and *)
(* approved, on any number of devices and beside each other.                *)
THEOREM ApprovalTypeCorrect == ApprovalSpec => []ApprovalTypeOK
<1>1. PlanInv => ApprovalTypeOK
  BY DEF PlanInv, PlansTyped, TypeInv, ControlTyped, DataTyped, Places, ApprovalTypeOK
<1>q. QED BY <1>1, PlanInvAlways, PTL

-------------------------------------------------------------------------------
(* The writer of a document. *)

(* What an approval has read of a document is still its writer's.           *)
SameWriters ==
  \A t \in Threads : pc[t] \in ApproveSteps =>
    \A d \in Staged(t) : head[d] # NoHead /\ head[d].writer = plan[t].staged[d].writer

OwnerInv == PlanInv /\ OwnInv /\ SameWriters

(* A step of an approval writes no head that it has not staged, and to no   *)
(* other writer.                                                            *)
LEMMA ApproveKeepsWriters ==
  ASSUME OwnerInv, NEW t \in Threads, ApproveStep(t), NEW d \in Docs
  PROVE  IF head[d] = NoHead THEN head'[d] = NoHead
                             ELSE head'[d] # NoHead /\ head'[d].writer = head[d].writer
<1>1. CASE head' = head
  BY <1>1
<1>2. CASE head' # head
  <2>0. PlanInv /\ head \in [Docs -> Heads \union {NoHead}]
    BY DEF OwnerInv, PlanInv, TypeInv, DataTyped
  <2>1. pc[t] \in {"commitHeads", "restore"}
    BY <1>2, <2>0, ApproveWrites
  <2>2. PICK e \in plan[t].todo : \E h \in {plan[t].staged[e], Rescoped(t, e)} : head' = [head EXCEPT ![e] = h]
    BY <1>2, <2>0, ApproveWrites
  <2>3. /\ e \in Staged(t) /\ plan[t].staged[e] \in Heads /\ Rescoped(t, e) \in Heads
        /\ Rescoped(t, e).writer = plan[t].staged[e].writer
    BY <2>0, <2>1, <2>2, PlanKnown DEF ApproveSteps
  <2>4. head[e] # NoHead /\ head[e].writer = plan[t].staged[e].writer
    BY <2>1, <2>3 DEF OwnerInv, SameWriters, ApproveSteps
  <2>5. CASE d = e
    BY <2>0, <2>2, <2>3, <2>4, <2>5, NoHeadNotHead
  <2>6. CASE d # e
    BY <2>0, <2>2, <2>6
  <2>q. QED BY <2>5, <2>6
<1>q. QED BY <1>1, <1>2

(* A step of an approval moves its own thread only, and stages what it has  *)
(* just read.                                                               *)
LEMMA ApproveStages ==
  ASSUME PlanInv, NEW t \in Threads, ApproveStep(t)
  PROVE  /\ job' = job
         /\ \A u \in Threads : u # t => pc'[u] = pc[u] /\ plan'[u] = plan[u]
         /\ pc'[t] \in {"idle"} \union ApproveSteps
         /\ pc'[t] \in ApproveSteps =>
              \/ StagedIn(plan'[t]) = {}
              \/ pc[t] \in ApproveSteps /\ plan'[t].staged = plan[t].staged
              \/ /\ pc[t] = "readDoc" /\ head' = head
                 /\ \E d \in Docs : plan'[t].staged = [plan[t].staged EXCEPT ![d] = head[d]]
<1>0. /\ pc \in [Threads -> Places] /\ plan \in [Threads -> Plans \union {NoJob}]
      /\ pc[t] \in ApproveSteps => plan[t] \in Plans
  BY PlanKnown DEF PlanInv, TypeInv, ControlTyped, PlansTyped
<1>1. job' = job
  BY ApproveLeaves
<1>2. \A u \in Threads : u # t => pc'[u] = pc[u] /\ plan'[u] = plan[u]
  BY <1>0
     DEF ApproveStep, ApproveStart, Scan, ReadDoc, CommitHead, CommitHeadFails, Restore, Recheck, StageDoc,
         StageDocPartly, CleanScope, AbandonStaging, Activate, ActivateFails, RollBack, Abandon, GoTo
<1>3. pc'[t] \in {"idle"} \union ApproveSteps
  BY <1>0
     DEF ApproveStep, ApproveStart, Scan, ReadDoc, CommitHead, CommitHeadFails, Restore, Recheck, StageDoc,
         StageDocPartly, CleanScope, AbandonStaging, Activate, ActivateFails, RollBack, Abandon, GoTo,
         ApproveSteps, StagingSteps
<1>4. ASSUME pc'[t] \in ApproveSteps
      PROVE  \/ StagedIn(plan'[t]) = {}
             \/ pc[t] \in ApproveSteps /\ plan'[t].staged = plan[t].staged
             \/ /\ pc[t] = "readDoc" /\ head' = head
                /\ \E d \in Docs : plan'[t].staged = [plan[t].staged EXCEPT ![d] = head[d]]
  <2> USE DEF ApproveSteps, StagingSteps
  <2>0. ~Abandon(t)
    BY <1>0, <1>4 DEF Abandon
  <2>1. CASE ApproveStart(t)
    BY <1>0, <2>1 DEF ApproveStart, StagedIn
  <2>2. CASE Scan(t) \/ StageDoc(t) \/ Recheck(t)
    BY <1>0, <2>0, <2>2 DEF Scan, StageDoc, Recheck, GoTo, Plans
  <2>3. CASE ReadDoc(t)
    <3>1. pc[t] = "readDoc" /\ plan[t] \in Plans /\ head' = head
      BY <1>0, <2>3 DEF ReadDoc, data
    <3>2. CASE plan[t].todo = {}
      BY <2>3, <3>1, <3>2 DEF ReadDoc
    <3>3. CASE plan[t].todo # {}
      <4>1. PICK d \in plan[t].todo :
              \/ plan' = [plan EXCEPT ![t].todo = @ \ {d}]
              \/ plan' = [plan EXCEPT ![t].doc = d, ![t].todo = @ \ {d}, ![t].staged[d] = head[d]]
        BY <2>0, <2>3, <3>3, ReadDocCases
      <4>2. CASE plan' = [plan EXCEPT ![t].todo = @ \ {d}]
        BY <1>0, <3>1, <4>2 DEF Plans
      <4>3. CASE plan' = [plan EXCEPT ![t].doc = d, ![t].todo = @ \ {d}, ![t].staged[d] = head[d]]
        <5>1. plan'[t].staged = [plan[t].staged EXCEPT ![d] = head[d]] /\ d \in Docs
          BY <1>0, <3>1, <4>3 DEF Plans
        <5>q. QED BY <3>1, <5>1
      <4>q. QED BY <4>1, <4>2, <4>3
    <3>q. QED BY <3>2, <3>3
  <2>4. CASE CommitHead(t)
    <3>1. pc[t] = "commitHeads" /\ plan[t] \in Plans
      BY <1>0, <2>4 DEF CommitHead
    <3>2. CASE plan' = plan
      BY <3>1, <3>2
    <3>3. CASE \E d \in plan[t].todo : plan' = [plan EXCEPT ![t].todo = @ \ {d}, ![t].committed = @ \union {d}]
      BY <1>0, <3>1, <3>3 DEF Plans
    <3>q. QED BY <2>4, <3>2, <3>3 DEF CommitHead
  <2>5. CASE CommitHeadFails(t) \/ ActivateFails(t) \/ Activate(t)
    BY <1>0, <2>5 DEF CommitHeadFails, ActivateFails, Activate, RollBack, GoTo, Plans
  <2>6. CASE Restore(t) \/ CleanScope(t)
    BY <1>0, <2>0, <2>6 DEF Restore, CleanScope, GoTo, Plans
  <2>7. CASE StageDocPartly(t) \/ AbandonStaging(t)
    BY <2>0, <2>7 DEF StageDocPartly, AbandonStaging
  <2>q. QED BY <2>1, <2>2, <2>3, <2>4, <2>5, <2>6, <2>7 DEF ApproveStep
<1>q. QED BY <1>1, <1>2, <1>3, <1>4

(* Every step of an approval keeps the claims of the writers beside it.     *)
LEMMA ApproveKeepsClaims ==
  ASSUME OwnerInv, NEW t \in Threads, ApproveStep(t)
  PROVE  OwnersKept /\ WritersKnown' /\ SameWriters' /\ \A u \in Threads : Claim(u)'
<1>0. PlanInv /\ PlanInv' /\ TypeInv /\ pc \in [Threads -> Places]
  BY ApproveControl, ApproveData, ApproveListed DEF OwnerInv, PlanInv, TypeInv, ControlTyped
<1>1. /\ job' = job
      /\ \A u \in Threads : u # t => pc'[u] = pc[u] /\ plan'[u] = plan[u]
      /\ pc'[t] \in {"idle"} \union ApproveSteps
  BY <1>0, ApproveStages
<1>2. \A d \in Docs : IF head[d] = NoHead THEN head'[d] = NoHead
                      ELSE head'[d] # NoHead /\ head'[d].writer = head[d].writer
  BY ApproveKeepsWriters
<1>3. OwnersKept /\ WritersKnown'
  BY <1>2 DEF OwnersKept, WritersKnown, OwnerInv, OwnInv
<1>4. ASSUME NEW u \in Threads PROVE Claim(u)'
  <2>1. CASE pc'[u] \notin WriteSteps \union DeleteSteps
    BY <2>1 DEF Claim
  <2>2. CASE pc'[u] \in WriteSteps \union DeleteSteps
    <3>1. u # t
      BY <1>1, <2>2, ApprovalPlaces DEF WriteSteps, DeleteSteps
    <3>2. pc'[u] = pc[u] /\ job'[u] = job[u] /\ Claim(u)
      BY <1>1, <3>1 DEF OwnerInv, OwnInv
    <3>3. job[u].doc \in Docs
      BY <1>0, <2>2, <3>2, TypeInvSplit, JobFields
         DEF JobTyped, WriteSteps, SyncSteps, DeleteSteps, Working, RemoveSteps
    <3>q. QED BY <1>2, <3>2, <3>3 DEF Claim, Owns, Device
  <2>q. QED BY <2>1, <2>2
<1>5. ASSUME NEW u \in Threads, pc'[u] \in ApproveSteps, NEW d \in StagedIn(plan'[u])
      PROVE  head'[d] # NoHead /\ head'[d].writer = plan'[u].staged[d].writer
  <2>0. d \in Docs /\ plan'[u].staged[d] # NoHead
    BY DEF StagedIn
  <2>1. CASE pc[u] \in ApproveSteps /\ plan'[u].staged = plan[u].staged
    <3>1. d \in Staged(u)
      BY <2>0, <2>1 DEF Staged
    <3>2. head[d] # NoHead /\ head[d].writer = plan[u].staged[d].writer
      BY <2>1, <3>1 DEF OwnerInv, SameWriters
    <3>q. QED BY <1>2, <2>0, <2>1, <3>2
  <2>2. CASE u # t
    BY <1>1, <1>5, <2>1, <2>2
  <2>3. CASE u = t
    <3>1. CASE StagedIn(plan'[t]) = {}
      BY <1>5, <2>3, <3>1
    <3>2. CASE /\ pc[t] = "readDoc" /\ head' = head
               /\ \E e \in Docs : plan'[t].staged = [plan[t].staged EXCEPT ![e] = head[e]]
      <4>1. PICK e \in Docs : plan'[t].staged = [plan[t].staged EXCEPT ![e] = head[e]]
        BY <3>2
      <4>2. pc[t] \in ApproveSteps /\ plan[t] \in Plans
        BY <1>0, <3>2, PlanKnown DEF ApproveSteps, StagingSteps
      <4>3. plan[t].staged \in [Docs -> Heads \union {NoHead}]
        BY <4>2 DEF Plans
      <4>4. CASE d = e
        BY <2>0, <2>3, <3>2, <4>1, <4>3, <4>4
      <4>5. CASE d # e
        <5>1. plan'[t].staged[d] = plan[t].staged[d] /\ d \in Staged(t)
          BY <2>0, <2>3, <4>1, <4>3, <4>5 DEF Staged
        <5>2. head[d] # NoHead /\ head[d].writer = plan[t].staged[d].writer
          BY <4>2, <5>1 DEF OwnerInv, SameWriters
        <5>q. QED BY <2>3, <3>2, <5>1, <5>2
      <4>q. QED BY <4>4, <4>5
    <3>q. QED BY <1>0, <1>5, <2>1, <2>3, <3>1, <3>2, ApproveStages
  <2>q. QED BY <2>2, <2>3
<1>6. SameWriters'
  BY <1>5 DEF SameWriters, Staged, StagedIn
<1>q. QED BY <1>3, <1>4, <1>6

(* Every step keeps the owners, and what approvals and writers rely on.     *)
LEMMA NextOwner ==
  ASSUME OnePublisher
  PROVE  OwnerInv /\ [ApprovalNext]_vars => OwnerInv' /\ OwnersKept
<1> SUFFICES ASSUME OwnerInv, [ApprovalNext]_vars PROVE OwnerInv' /\ OwnersKept
  OBVIOUS
<1>0. PlanInv /\ PlanInv' /\ TypeInv /\ TypeInv'
  BY NextPlans DEF OwnerInv, PlanInv
<1>1. CASE \E t \in Threads : ApproveStep(t)
  BY <1>0, <1>1, ApproveKeepsClaims DEF OwnerInv, OwnInv
<1>2. CASE ~\E t \in Threads : ApproveStep(t)
  <2>1. [PubNext]_pubVars
    BY <1>2, BesideApprovals
  <2>2. OwnInv' /\ OwnersKept
    BY <2>1, NextOwn DEF OwnerInv
  <2>3. ASSUME NEW t \in Threads, pc'[t] \in ApproveSteps, NEW d \in StagedIn(plan'[t])
        PROVE  head'[d] # NoHead /\ head'[d].writer = plan'[t].staged[d].writer
    <3>1. pc'[t] # "idle" /\ pc'[t] \notin PubPlaces
      BY <2>3, ApprovalPlaces DEF PubPlaces
    <3>2. pc'[t] = pc[t]
      BY <1>0, <2>1, <3>1, PubMoves
    <3>3. plan'[t] = plan[t]
      BY <1>0, <1>2, <3>1, BesideApprovals, CrashPlans
    <3>4. d \in Docs /\ d \in Staged(t)
      BY <3>3 DEF StagedIn, Staged
    <3>5. head[d] # NoHead /\ head[d].writer = plan[t].staged[d].writer /\ head[d].writer # Nobody
      BY <2>3, <3>2, <3>4 DEF OwnerInv, SameWriters, OwnInv, WritersKnown
    <3>q. QED BY <2>2, <3>3, <3>4, <3>5 DEF OwnersKept
  <2>4. SameWriters'
    BY <2>3 DEF SameWriters, Staged, StagedIn
  <2>q. QED BY <1>0, <2>2, <2>4 DEF OwnerInv
<1>q. QED BY <1>1, <1>2

(* Approving the program's scope leaves every document to the device that   *)
(* published it first, also when documents are published, removed and       *)
(* approved by others at the same time: the heads an approval moves keep    *)
(* the writer they were read with.                                          *)
THEOREM ApprovalKeepsOwners ==
  ASSUME OnePublisher, KnownWriters
  PROVE  ApprovalSpec => OwnerForLife
<1>1. OwnerInv /\ [ApprovalNext]_vars => OwnerInv' /\ [OwnersKept]_pubVars
  BY NextOwner
<1>2. ApprovalInit => OwnerInv
  <2> SUFFICES ASSUME ApprovalInit PROVE OwnerInv
    OBVIOUS
  <2>1. \A t \in Threads : pc[t] = "idle"
    BY DEF ApprovalInit, Init
  <2>q. QED BY <2>1, InitPlans, InitOwn DEF OwnerInv, SameWriters, ApprovalInit, ApproveSteps, StagingSteps
<1>3. ApprovalSpec => [][OwnersKept]_pubVars
  <2>1. OwnerInv /\ [ApprovalNext]_vars => [OwnersKept]_pubVars
    BY <1>1
  <2>q. QED BY <1>1, <1>2, <2>1, PTL DEF ApprovalSpec
<1>q. QED BY <1>3 DEF OwnersKept, OwnerForLife

-------------------------------------------------------------------------------
(* An approval that nothing else runs beside. *)

Alone == \A t, u \in Threads : pc[t] \in ApproveSteps /\ u # t => pc[u] = "idle"

(* While an approval is carried out alone, files are edited and processes   *)
(* crash, and nothing else happens beside it.                               *)
LEMMA WhileApproving ==
  ASSUME ApproveAlone, PlanInv, Alone, [ApprovalNext]_vars, ~\E t \in Threads : ApproveStep(t), Approving
  PROVE  /\ UNCHANGED <<chunks, head, tomb, approval>>
         /\ UNCHANGED <<pc, job, plan>> \/ \E p \in Procs : CrashApproval(p)
<1>1. PICK t \in Threads : pc[t] \in ApproveSteps
  BY DEF Approving
<1>2. \A u \in Threads : pc[u] \notin SyncSteps \union RemoveSteps
  BY <1>1, ApprovalPlaces DEF Alone, PubPlaces, SyncSteps, RemoveSteps
<1>3. ~Steps /\ ~CallFails
  <2>1. ASSUME NEW u \in Threads, SyncStep(u) \/ RemoveStep(u) \/ StagePartly(u) \/ Fail(u)
        PROVE  pc[u] \in SyncSteps \union RemoveSteps
    BY <2>1
       DEF SyncStep, RemoveStep, ResolveScope, DemoteScope, ReadHead, Revive, Stage, Verify, Commit, Cleanup,
           MarkRead, MarkCommit, NextRemoval, WriteTombstone, DeleteHead, DeleteChunks, StagePartly, Fail, GoTo,
           SyncSteps, RemoveSteps
  <2>q. QED BY <1>2, <2>1 DEF Steps, CallFails
<1>4. CASE Edit /\ UNCHANGED plan
  BY <1>4 DEF Edit, EditFile, EditManifest
<1>5. CASE \E p \in Procs : CrashApproval(p)
  BY <1>5 DEF CrashApproval, Crash, data
<1>6. CASE UNCHANGED vars
  BY <1>6 DEF vars, pubVars
<1>q. QED BY <1>3, <1>4, <1>5, <1>6 DEF ApprovalNext

(* A thread begins an approval only when no other runs, and goes on with it *)
(* alone.                                                                   *)
LEMMA ApproverAlone ==
  ASSUME ApproveAlone, PlanInv, Alone, NEW t \in Threads, ApproveStep(t), NEW u \in Threads, u # t
  PROVE  pc[u] = "idle" /\ pc'[u] = "idle"
<1>1. pc'[u] = pc[u]
  BY ApproveStages
<1>2. CASE ApproveStart(t)
  BY <1>1, <1>2 DEF ApproveStart
<1>3. CASE ~ApproveStart(t)
  <2>1. pc[t] \in ApproveSteps
    BY <1>3
       DEF ApproveStep, Scan, ReadDoc, CommitHead, CommitHeadFails, Restore, Recheck, StageDoc,
           StageDocPartly, CleanScope, AbandonStaging, Activate, ActivateFails, RollBack, GoTo,
           ApproveSteps, StagingSteps
  <2>q. QED BY <1>1, <2>1 DEF Alone
<1>q. QED BY <1>2, <1>3

(* Every step leaves approvals alone.                                       *)
LEMMA NextAlone ==
  ASSUME ApproveAlone, PlanInv, Alone, [ApprovalNext]_vars
  PROVE  Alone'
<1>1. CASE \E t \in Threads : ApproveStep(t)
  <2>1. PICK t \in Threads : ApproveStep(t)
    BY <1>1
  <2>2. \A u \in Threads : u # t => pc'[u] = "idle"
    BY <2>1, ApproverAlone
  <2>3. "idle" \notin ApproveSteps
    BY DEF ApproveSteps, StagingSteps
  <2>q. QED BY <2>2, <2>3 DEF Alone
<1>2. CASE ~\E t \in Threads : ApproveStep(t)
  <2> SUFFICES ASSUME NEW t \in Threads, pc'[t] \in ApproveSteps, NEW u \in Threads, u # t
               PROVE  pc'[u] = "idle"
    BY DEF Alone
  <2>1. pc'[t] = pc[t]
    BY <1>2, BesideApprovals, PubMoves, ApprovalPlaces DEF PlanInv
  <2>2. pc[u] = "idle" /\ Approving
    BY <2>1 DEF Alone, Approving
  <2>3. CASE UNCHANGED pc
    BY <2>2, <2>3
  <2>4. CASE \E p \in Procs : CrashApproval(p)
    BY <2>2, <2>4, CrashPlans
  <2>q. QED BY <1>2, <2>2, <2>3, <2>4, WhileApproving
<1>q. QED BY <1>1, <1>2

(* Alone holds initially.                                                   *)
LEMMA InitAlone == ApprovalInit => Alone
  BY DEF ApprovalInit, Init, Alone, ApproveSteps, StagingSteps

(* Only a synchronization withdraws an approval, beside approvals.          *)
LEMMA Demotion ==
  ASSUME [PubNext]_pubVars, approval' # approval
  PROVE  \E t \in Threads : DemoteScope(t)
  BY DEF PubNext, Edit, EditFile, EditManifest, Starts, SyncStart, Remove, Prune, RemoveStart, Steps, SyncStep,
         RemoveStep, ResolveScope, ReadHead, Revive, Stage, Verify, Commit, Cleanup, MarkRead, MarkCommit,
         NextRemoval, WriteTombstone, DeleteHead, DeleteChunks, CallFails, StagePartly, Fail, Crashes, Crash,
         data, pubVars

-------------------------------------------------------------------------------
(* What an approval knows of the documents it moves. *)

Gone(d) == head[d] = NoHead \/ head[d].state = "deleted"

(* While it stages, what it has read is so, and restamped but for the       *)
(* document it is at.                                                       *)
Staging(t) ==
  pc[t] \in {"readDoc", "stageDoc", "recheck"} =>
    /\ \A d \in Staged(t) : /\ head[d] = plan[t].staged[d]
                            /\ chunks[d][KeyOf(plan[t].staged[d])] = Chunks
                            /\ \/ pc[t] = "stageDoc" /\ d = plan[t].doc
                               \/ chunks[d][Restamped(t, d)] = Chunks
    /\ \A d \in Docs \ (Staged(t) \union plan[t].todo) : Gone(d)
    /\ pc[t] = "recheck" => plan[t].todo = {}

(* While it moves heads, forth or back, both combinations are complete.     *)
Moving(t) ==
  /\ pc[t] \in {"commitHeads", "activate", "restore"} =>
       \A d \in Staged(t) : /\ head[d] \in {plan[t].staged[d], Rescoped(t, d)}
                            /\ chunks[d][KeyOf(plan[t].staged[d])] = Chunks
                            /\ chunks[d][Restamped(t, d)] = Chunks
  /\ pc[t] \in {"commitHeads", "activate"} => \A d \in Docs \ Staged(t) : Gone(d)
  /\ pc[t] = "commitHeads" => \A d \in Staged(t) \ plan[t].todo : head[d] = Rescoped(t, d)

(* When it activates, and afterwards, every head is moved.                  *)
Moved(t) ==
  /\ pc[t] \in {"activate", "clean"} =>
       \A d \in Staged(t) : head[d] = Rescoped(t, d) /\ chunks[d][Restamped(t, d)] = Chunks
  /\ pc[t] = "clean" => plan[t].todo \subseteq Superseded(t)

ApproverKnows(t) ==
  /\ pc[t] = "scan" => Staged(t) = {}
  /\ Staging(t) /\ Moving(t) /\ Moved(t)

(* The inductive invariant. *)
ProgramInv == PlanInv /\ Alone /\ SafeInv /\ \A t \in Threads : ApproverKnows(t)

(* A step that keeps what is staged keeps what it is restamped to.          *)
LEMMA SamePlan ==
  ASSUME NEW t \in Threads, plan'[t].staged = plan[t].staged, plan'[t].rev = plan[t].rev
  PROVE  /\ Staged(t)' = Staged(t) /\ Superseded(t)' = Superseded(t)
         /\ \A d : /\ Restamped(t, d)' = Restamped(t, d) /\ Rescoped(t, d)' = Rescoped(t, d)
                   /\ plan'[t].staged[d] = plan[t].staged[d]
  BY DEF Staged, Superseded, Restamped, Rescoped

(* An approval that finds nothing changed knows what it knew.               *)
LEMMA KnowsStill ==
  ASSUME NEW t \in Threads, ApproverKnows(t), UNCHANGED <<chunks, head>>, pc'[t] = pc[t], plan'[t] = plan[t]
  PROVE  ApproverKnows(t)'
<1>1. /\ Staged(t)' = Staged(t) /\ Superseded(t)' = Superseded(t)
      /\ \A d : Restamped(t, d)' = Restamped(t, d) /\ Rescoped(t, d)' = Rescoped(t, d)
  BY SamePlan
<1>q. QED BY <1>1 DEF ApproverKnows, Staging, Moving, Moved, Gone, KeyOf

(* A thread that carries out no approval knows nothing of one.              *)
LEMMA KnowsNothing ==
  ASSUME NEW t \in Threads, pc'[t] \notin ApproveSteps
  PROVE  ApproverKnows(t)'
  BY DEF ApproverKnows, Staging, Moving, Moved, ApproveSteps, StagingSteps

(* Staging: each step, what the approval knows after it.                    *)
LEMMA StagingKnows ==
  ASSUME ProgramInv, NEW t \in Threads,
         ApproveStart(t) \/ Scan(t) \/ ReadDoc(t) \/ StageDoc(t) \/ Recheck(t)
  PROVE  ApproverKnows(t)'
<1> USE DEF ApproveSteps, StagingSteps
<1>0. /\ pc \in [Threads -> Places] /\ plan \in [Threads -> Plans \union {NoJob}]
      /\ head \in [Docs -> Heads \union {NoHead}] /\ chunks \in [Docs -> [Keys -> 0..Chunks]]
      /\ ApproverKnows(t) /\ PlanInv /\ ApproveStep(t)
  BY DEF ProgramInv, PlanInv, TypeInv, ControlTyped, DataTyped, PlansTyped, ApproveStep
<1>k. pc[t] \in ApproveSteps => plan[t] \in Plans
  BY <1>0, PlanKnown
<1>a. CASE Abandon(t)
  <2>1. pc'[t] = "idle"
    BY <1>0, <1>a DEF Abandon
  <2>q. QED BY <2>1, KnowsNothing
<1>1. CASE ApproveStart(t)
  <2>1. pc'[t] = "scan" /\ Staged(t)' = {}
    BY <1>0, <1>1 DEF ApproveStart, GoTo, Staged
  <2>q. QED BY <2>1 DEF ApproverKnows, Staging, Moving, Moved
<1>2. CASE Scan(t)
  <2>1. /\ pc[t] = "scan" /\ pc'[t] = "readDoc" /\ plan[t] \in Plans /\ UNCHANGED <<head, chunks>>
        /\ plan' = [plan EXCEPT ![t].todo = {d \in Docs : head[d] # NoHead}]
    BY <1>0, <1>2, <1>k DEF Scan, GoTo, data
  <2>2. plan'[t].staged = plan[t].staged /\ plan'[t].todo = {d \in Docs : head[d] # NoHead}
    BY <1>0, <2>1 DEF Plans
  <2>3. Staged(t)' = {}
    BY <1>0, <2>1, <2>2 DEF ApproverKnows, Staged
  <2>q. QED BY <2>1, <2>2, <2>3 DEF ApproverKnows, Staging, Moving, Moved, Gone
<1>3. CASE ReadDoc(t)
  <2>0. pc[t] = "readDoc" /\ plan[t] \in Plans /\ UNCHANGED <<head, chunks>> /\ Staging(t)
    BY <1>0, <1>3, <1>k DEF ReadDoc, data, ApproverKnows
  <2>1. CASE plan[t].todo = {}
    <3>1. pc'[t] = "recheck" /\ plan' = plan
      BY <1>0, <1>3, <2>1 DEF ReadDoc, GoTo
    <3>2. /\ Staged(t)' = Staged(t)
          /\ \A d : Restamped(t, d)' = Restamped(t, d)
      BY <3>1, SamePlan
    <3>q. QED BY <2>0, <2>1, <3>1, <3>2 DEF ApproverKnows, Staging, Moving, Moved, Gone, KeyOf
  <2>2. CASE plan[t].todo # {}
    <3>1. PICK d \in plan[t].todo :
           \/ /\ Skipped(head[d]) /\ plan' = [plan EXCEPT ![t].todo = @ \ {d}] /\ UNCHANGED <<pc, job>>
           \/ Abandon(t)
           \/ /\ ~Skipped(head[d]) /\ chunks[d][KeyOf(head[d])] = Chunks /\ job' = job
              /\ pc' = [pc EXCEPT ![t] = "stageDoc"]
              /\ plan' = [plan EXCEPT ![t].doc = d, ![t].todo = @ \ {d}, ![t].staged[d] = head[d]]
      BY <1>3, <2>2, ReadDocCases
    <3>2. CASE /\ Skipped(head[d]) /\ plan' = [plan EXCEPT ![t].todo = @ \ {d}] /\ UNCHANGED <<pc, job>>
      <4>1. /\ plan'[t].staged = plan[t].staged /\ plan'[t].rev = plan[t].rev
            /\ plan'[t].todo = plan[t].todo \ {d}
        BY <1>0, <2>0, <3>2 DEF Plans
      <4>2. /\ Staged(t)' = Staged(t)
            /\ \A e : Restamped(t, e)' = Restamped(t, e)
        BY <4>1, SamePlan
      <4>3. Gone(d)
        BY <3>2 DEF Skipped, Gone
      <4>q. QED BY <2>0, <3>2, <4>1, <4>2, <4>3 DEF ApproverKnows, Staging, Moving, Moved, Gone, KeyOf
    <3>3. CASE /\ chunks[d][KeyOf(head[d])] = Chunks
               /\ pc' = [pc EXCEPT ![t] = "stageDoc"]
               /\ plan' = [plan EXCEPT ![t].doc = d, ![t].todo = @ \ {d}, ![t].staged[d] = head[d]]
      <4>1. d \in Docs /\ head[d] # NoHead
        BY <1>0, <2>0 DEF Plans, PlanInv, HeadsListed
      <4>2. /\ plan'[t].staged = [plan[t].staged EXCEPT ![d] = head[d]] /\ plan'[t].rev = plan[t].rev
            /\ plan'[t].todo = plan[t].todo \ {d} /\ plan'[t].doc = d
            /\ plan[t].staged \in [Docs -> Heads \union {NoHead}]
        BY <1>0, <2>0, <3>3 DEF Plans
      <4>3. Staged(t)' = Staged(t) \union {d}
        BY <4>1, <4>2 DEF Staged
      <4>4. \A e \in Staged(t) \ {d} : plan'[t].staged[e] = plan[t].staged[e] /\ Restamped(t, e)' = Restamped(t, e)
        BY <4>1, <4>2 DEF Staged, Restamped
      <4>5. plan'[t].staged[d] = head[d] /\ pc'[t] = "stageDoc"
        BY <1>0, <3>3, <4>1, <4>2
      <4>6. Staging(t)'
        <5>1. ASSUME NEW e \in Staged(t) \union {d}
              PROVE  /\ head[e] = plan'[t].staged[e]
                     /\ chunks[e][KeyOf(plan'[t].staged[e])] = Chunks
                     /\ e = d \/ chunks[e][Restamped(t, e)'] = Chunks
          <6>1. CASE e = d
            BY <3>3, <4>5, <6>1
          <6>2. CASE e # d
            BY <2>0, <4>4, <5>1, <6>2 DEF Staging
          <6>q. QED BY <6>1, <6>2
        <5>2. \A e \in Docs \ ((Staged(t) \union {d}) \union (plan[t].todo \ {d})) : Gone(e)
          BY <2>0 DEF Staging
        <5>q. QED BY <2>0, <4>2, <4>3, <4>5, <5>1, <5>2 DEF Staging, Gone, KeyOf
      <4>q. QED BY <4>5, <4>6 DEF ApproverKnows, Moving, Moved
    <3>q. QED BY <1>a, <3>1, <3>2, <3>3
  <2>q. QED BY <2>1, <2>2
<1>4. CASE StageDoc(t)
  <2>0. pc[t] = "stageDoc" /\ pc'[t] = "readDoc" /\ plan[t] \in Plans /\ head' = head /\ Staging(t)
    BY <1>0, <1>4, <1>k DEF StageDoc, GoTo, ApproverKnows
  <2>1. plan'[t].staged = plan[t].staged /\ plan'[t].rev = plan[t].rev /\ plan'[t].todo = plan[t].todo
    BY <1>0, <1>4, <2>0 DEF StageDoc, Plans
  <2>2. /\ Staged(t)' = Staged(t)
        /\ \A e : Restamped(t, e)' = Restamped(t, e) /\ plan'[t].staged[e] = plan[t].staged[e]
    BY <2>1, SamePlan
  <2>3. ASSUME NEW e \in Staged(t), NEW k \in Keys, chunks[e][k] = Chunks \/ (e = plan[t].doc /\ k = Restamped(t, e))
        PROVE  chunks'[e][k] = Chunks
    <3>1. e \in Docs /\ Restamped(t, plan[t].doc) \in Keys /\ plan[t].doc \in Docs
      BY <1>0, <2>0, PlanKnown
    <3>2. chunks' = [chunks EXCEPT ![plan[t].doc][Restamped(t, plan[t].doc)] = Chunks]
      BY <1>4 DEF StageDoc
    <3> HIDE DEF Restamped
    <3>q. QED BY <1>0, <2>3, <3>1, <3>2
  <2>4. \A e \in Staged(t) : KeyOf(plan[t].staged[e]) \in Keys /\ Restamped(t, e) \in Keys
    BY <1>0, <2>0, PlanKnown
  <2>5. \A e \in Staged(t) : /\ chunks'[e][KeyOf(plan[t].staged[e])] = Chunks
                             /\ chunks'[e][Restamped(t, e)] = Chunks
    BY <2>0, <2>3, <2>4 DEF Staging
  <2>q. QED BY <2>0, <2>1, <2>2, <2>5 DEF ApproverKnows, Staging, Moving, Moved, Gone, KeyOf
<1>5. CASE Recheck(t) /\ ~Abandon(t)
  <2>0. /\ pc[t] = "recheck" /\ pc'[t] = "commitHeads" /\ plan[t] \in Plans /\ UNCHANGED <<head, chunks>> /\ Staging(t)
        /\ plan' = [plan EXCEPT ![t].todo = Staged(t)]
    BY <1>0, <1>5, <1>k DEF Recheck, GoTo, ApproverKnows, data
  <2>1. plan'[t].staged = plan[t].staged /\ plan'[t].rev = plan[t].rev /\ plan'[t].todo = Staged(t)
    BY <1>0, <2>0 DEF Plans
  <2>2. /\ Staged(t)' = Staged(t)
        /\ \A e : Restamped(t, e)' = Restamped(t, e) /\ plan'[t].staged[e] = plan[t].staged[e]
    BY <2>1, SamePlan
  <2>q. QED BY <2>0, <2>1, <2>2 DEF ApproverKnows, Staging, Moving, Moved, Gone, KeyOf
<1>q. QED BY <1>a, <1>1, <1>2, <1>3, <1>4, <1>5

(* A combination an approval cleans up is none it has restamped, and none   *)
(* that a head it has moved names.                                          *)
LEMMA SupersededKeys ==
  ASSUME PlanInv, NEW t \in Threads, pc[t] \in ApproveSteps, NEW d \in Superseded(t)
  PROVE  KeyOf(plan[t].staged[d]) # Restamped(t, d) /\ d \in Staged(t)
  BY DEF Superseded, KeyOf, Restamped

(* Moving the heads, back if need be, and cleaning up.                      *)
LEMMA MovingKnows ==
  ASSUME ProgramInv, NEW t \in Threads,
         CommitHead(t) \/ CommitHeadFails(t) \/ Activate(t) \/ ActivateFails(t) \/ Restore(t) \/ CleanScope(t)
  PROVE  ApproverKnows(t)'
<1> USE DEF ApproveSteps, StagingSteps
<1>0. /\ pc \in [Threads -> Places] /\ plan \in [Threads -> Plans \union {NoJob}]
      /\ head \in [Docs -> Heads \union {NoHead}] /\ chunks \in [Docs -> [Keys -> 0..Chunks]]
      /\ ApproverKnows(t) /\ PlanInv /\ ApproveStep(t)
  BY DEF ProgramInv, PlanInv, TypeInv, ControlTyped, DataTyped, PlansTyped, ApproveStep
<1>p. pc[t] \in {"commitHeads", "activate", "restore", "clean"}
  BY DEF CommitHead, CommitHeadFails, Activate, ActivateFails, Restore, CleanScope, RollBack, GoTo
<1>k. /\ plan[t] \in Plans
      /\ pc[t] \in {"commitHeads", "restore", "clean"} => plan[t].todo \subseteq Staged(t)
      /\ \A d \in Staged(t) : /\ d \in Docs /\ KeyOf(plan[t].staged[d]) \in Keys /\ Restamped(t, d) \in Keys
                              /\ KeyOf(Rescoped(t, d)) = Restamped(t, d)
  BY <1>0, <1>p, PlanKnown
<1>a. CASE Abandon(t)
  <2>1. pc'[t] = "idle"
    BY <1>0, <1>a DEF Abandon
  <2>q. QED BY <2>1, KnowsNothing
<1>s. ASSUME plan'[t].staged = plan[t].staged, plan'[t].rev = plan[t].rev
      PROVE  /\ Staged(t)' = Staged(t) /\ Superseded(t)' = Superseded(t)
             /\ \A d : /\ Restamped(t, d)' = Restamped(t, d) /\ Rescoped(t, d)' = Rescoped(t, d)
                       /\ plan'[t].staged[d] = plan[t].staged[d]
  BY <1>s, SamePlan
<1>1. CASE CommitHead(t)
  <2>0. pc[t] = "commitHeads" /\ chunks' = chunks /\ Moving(t)
    BY <1>0, <1>1 DEF CommitHead, ApproverKnows
  <2>1. CASE plan[t].todo = {}
    <3>1. pc'[t] = "activate" /\ UNCHANGED <<head, plan>>
      BY <1>0, <1>1, <2>1 DEF CommitHead, GoTo
    <3>2. /\ Staged(t)' = Staged(t)
          /\ \A d : /\ Restamped(t, d)' = Restamped(t, d) /\ Rescoped(t, d)' = Rescoped(t, d)
                    /\ plan'[t].staged[d] = plan[t].staged[d]
      BY <1>s, <3>1
    <3>3. Moving(t)'
      BY <2>0, <3>1, <3>2 DEF Moving, Gone, KeyOf
    <3>4. Moved(t)'
      BY <2>0, <2>1, <3>1, <3>2 DEF Moving, Moved
    <3>q. QED BY <3>1, <3>3, <3>4 DEF ApproverKnows, Staging
  <2>2. CASE plan[t].todo # {}
    <3>1. PICK d \in plan[t].todo :
            /\ head' = [head EXCEPT ![d] = Rescoped(t, d)]
            /\ plan' = [plan EXCEPT ![t].todo = @ \ {d}, ![t].committed = @ \union {d}]
            /\ pc' = pc
      BY <1>1, <2>2 DEF CommitHead
    <3>2. /\ plan'[t].staged = plan[t].staged /\ plan'[t].rev = plan[t].rev
          /\ plan'[t].todo = plan[t].todo \ {d}
      BY <1>0, <1>k, <3>1 DEF Plans
    <3>3. d \in Staged(t) /\ head'[d] = Rescoped(t, d) /\ \A e \in Docs \ {d} : head'[e] = head[e]
      BY <1>0, <1>k, <2>0, <3>1
    <3>4. \A e \in Docs \ Staged(t) : head'[e] = head[e]
      BY <3>3
    <3>5. \A e \in Staged(t) : head'[e] = head[e] \/ (e = d /\ head'[e] = Rescoped(t, e))
      BY <1>k, <3>3
    <3>6. Moving(t)'
      <4>1. /\ Staged(t)' = Staged(t)
            /\ \A e : /\ Restamped(t, e)' = Restamped(t, e) /\ Rescoped(t, e)' = Rescoped(t, e)
                      /\ plan'[t].staged[e] = plan[t].staged[e]
        BY <1>s, <3>2
      <4>2. \A e \in Staged(t) : /\ head'[e] \in {plan[t].staged[e], Rescoped(t, e)}
                                 /\ chunks[e][KeyOf(plan[t].staged[e])] = Chunks
                                 /\ chunks[e][Restamped(t, e)] = Chunks
        BY <2>0, <3>5 DEF Moving
      <4>3. \A e \in Docs \ Staged(t) : Gone(e)'
        BY <2>0, <3>4 DEF Moving, Gone
      <4>4. \A e \in Staged(t) \ (plan[t].todo \ {d}) : head'[e] = Rescoped(t, e)
        BY <1>k, <2>0, <3>3, <3>5 DEF Moving
      <4>5. ASSUME NEW e \in Staged(t)
            PROVE  /\ head'[e] \in {plan'[t].staged[e], Rescoped(t, e)'}
                   /\ chunks'[e][KeyOf(plan'[t].staged[e])] = Chunks
                   /\ chunks'[e][Restamped(t, e)'] = Chunks
        <5> HIDE DEF KeyOf, Restamped, Rescoped
        <5>q. QED BY <2>0, <4>1, <4>2, <4>5
      <4>6. \A e \in Staged(t) \ plan'[t].todo : head'[e] = Rescoped(t, e)'
        BY <3>2, <4>1, <4>4
      <4> HIDE DEF Restamped, Rescoped
      <4>q. QED BY <4>1, <4>3, <4>5, <4>6 DEF Moving, KeyOf
    <3>q. QED BY <2>0, <3>1, <3>6 DEF ApproverKnows, Staging, Moved
  <2>q. QED BY <2>1, <2>2
<1>2. CASE CommitHeadFails(t) \/ ActivateFails(t)
  <2>1. /\ pc[t] \in {"commitHeads", "activate"} /\ pc'[t] = "restore" /\ chunks' = chunks
        /\ plan' = [plan EXCEPT ![t].todo = plan[t].committed] /\ Moving(t)
    BY <1>0, <1>2 DEF CommitHeadFails, ActivateFails, RollBack, GoTo, ApproverKnows
  <2>2. plan'[t].staged = plan[t].staged /\ plan'[t].rev = plan[t].rev
    BY <1>0, <1>k, <2>1 DEF Plans
  <2>3. \A e \in Staged(t) : head'[e] = head[e] \/ head'[e] = Rescoped(t, e)
    <3>1. CASE head' = head
      BY <3>1
    <3>2. CASE head' # head
      <4>1. PICK d \in plan[t].todo : head' = [head EXCEPT ![d] = Rescoped(t, d)]
        BY <1>2, <3>2 DEF CommitHeadFails, ActivateFails
      <4>q. QED BY <1>0, <1>k, <4>1
    <3>q. QED BY <3>1, <3>2
  <2>4. Moving(t)'
    BY <1>s, <2>1, <2>2, <2>3 DEF Moving, KeyOf
  <2>q. QED BY <2>1, <2>4 DEF ApproverKnows, Staging, Moved
<1>3. CASE Activate(t)
  <2>1. /\ pc[t] = "activate" /\ pc'[t] = "clean" /\ UNCHANGED <<head, chunks>> /\ Moved(t)
        /\ plan' = [plan EXCEPT ![t].todo = Superseded(t)]
    BY <1>0, <1>3 DEF Activate, GoTo, ApproverKnows
  <2>2. plan'[t].staged = plan[t].staged /\ plan'[t].rev = plan[t].rev /\ plan'[t].todo = Superseded(t)
    BY <1>0, <1>k, <2>1 DEF Plans
  <2>q. QED BY <1>s, <2>1, <2>2 DEF ApproverKnows, Staging, Moving, Moved
<1>4. CASE Restore(t) /\ ~Abandon(t)
  <2>1. pc[t] = "restore" /\ chunks' = chunks /\ Moving(t)
    BY <1>0, <1>4 DEF Restore, ApproverKnows
  <2>2. PICK d \in plan[t].todo :
          /\ head' \in {head, [head EXCEPT ![d] = plan[t].staged[d]]}
          /\ plan' = [plan EXCEPT ![t].todo = @ \ {d}] /\ UNCHANGED <<pc, job>>
    BY <1>4 DEF Restore
  <2>3. plan'[t].staged = plan[t].staged /\ plan'[t].rev = plan[t].rev
    BY <1>0, <1>k, <2>2 DEF Plans
  <2>4. \A e \in Staged(t) : head'[e] = head[e] \/ head'[e] = plan[t].staged[e]
    BY <1>0, <1>k, <2>2
  <2>5. Moving(t)'
    BY <1>s, <2>1, <2>2, <2>3, <2>4 DEF Moving, KeyOf
  <2>q. QED BY <2>1, <2>2, <2>5 DEF ApproverKnows, Staging, Moved
<1>5. CASE CleanScope(t) /\ ~Abandon(t)
  <2>1. pc[t] = "clean" /\ head' = head /\ Moved(t)
    BY <1>0, <1>5 DEF CleanScope, ApproverKnows
  <2>2. PICK d \in plan[t].todo :
          /\ \E n \in 0..chunks[d][KeyOf(plan[t].staged[d])] :
               chunks' = [chunks EXCEPT ![d][KeyOf(plan[t].staged[d])] = n]
          /\ plan' = [plan EXCEPT ![t].todo = @ \ {d}] /\ UNCHANGED <<pc, job>>
    BY <1>5 DEF CleanScope
  <2>3. /\ plan'[t].staged = plan[t].staged /\ plan'[t].rev = plan[t].rev
        /\ plan'[t].todo = plan[t].todo \ {d}
    BY <1>0, <1>k, <2>2 DEF Plans
  <2>4. d \in Superseded(t) /\ KeyOf(plan[t].staged[d]) # Restamped(t, d)
    BY <1>0, <2>1, <2>2, SupersededKeys DEF Moved
  <2>5. ASSUME NEW e \in Staged(t) PROVE chunks'[e][Restamped(t, e)] = chunks[e][Restamped(t, e)]
    <3>1. PICK n : chunks' = [chunks EXCEPT ![d][KeyOf(plan[t].staged[d])] = n]
      BY <2>2
    <3>2. e \in Docs /\ Restamped(t, e) \in Keys
      BY <1>k
    <3> HIDE DEF Restamped, KeyOf
    <3>q. QED BY <1>0, <2>4, <3>1, <3>2
  <2>6. Moved(t)'
    BY <1>s, <2>1, <2>2, <2>3, <2>5 DEF Moved
  <2>q. QED BY <2>1, <2>2, <2>6 DEF ApproverKnows, Staging, Moving
<1>q. QED BY <1>a, <1>1, <1>2, <1>3, <1>4, <1>5

(* No step of an approval leaves a head incomplete.                         *)
LEMMA ApproveComplete ==
  ASSUME ProgramInv, NEW t \in Threads, ApproveStep(t)
  PROVE  HeadComplete'
<1>0. /\ head \in [Docs -> Heads \union {NoHead}] /\ chunks \in [Docs -> [Keys -> 0..Chunks]]
      /\ ApproverKnows(t) /\ PlanInv /\ HeadComplete /\ tomb' = tomb /\ Chunks \in Nat
  BY ApproveLeaves, PublicationAssumption DEF ProgramInv, SafeInv, PlanInv, TypeInv, DataTyped
<1>1. CASE head' # head
  <2>1. pc[t] \in {"commitHeads", "restore"} /\ chunks' = chunks
    BY <1>0, <1>1, ApproveWrites, ApproveStores
  <2>2. PICK d \in plan[t].todo : \E h \in {plan[t].staged[d], Rescoped(t, d)} : head' = [head EXCEPT ![d] = h]
    BY <1>0, <1>1, ApproveWrites
  <2>3. d \in Staged(t) /\ d \in Docs /\ KeyOf(Rescoped(t, d)) = Restamped(t, d)
    BY <1>0, <2>1, <2>2, PlanKnown DEF ApproveSteps
  <2>4. /\ chunks[d][KeyOf(plan[t].staged[d])] = Chunks
        /\ chunks[d][KeyOf(Rescoped(t, d))] = Chunks
    BY <1>0, <2>1, <2>3 DEF ApproverKnows, Moving
  <2>5. /\ head'[d] \in {plan[t].staged[d], Rescoped(t, d)}
        /\ \A e \in Docs \ {d} : head'[e] = head[e]
    BY <1>0, <2>2, <2>3
  <2>q. QED BY <1>0, <2>1, <2>4, <2>5 DEF HeadComplete, KeyOf
<1>2. CASE head' = head
  <2> SUFFICES ASSUME NEW e \in Docs, head[e] # NoHead, head[e].state # "deleted", e \notin tomb
               PROVE  chunks'[e][KeyOf(head[e])] = Chunks
    BY <1>0, <1>2 DEF HeadComplete, KeyOf
  <2>0. chunks[e][KeyOf(head[e])] = Chunks /\ KeyOf(head[e]) \in Keys
    BY <1>0 DEF HeadComplete, KeyOf, Keys, Heads
  <2>1. CASE chunks' = chunks
    BY <2>0, <2>1
  <2>2. CASE chunks' # chunks /\ pc[t] = "stageDoc"
    <3>1. plan[t].doc \in Docs /\ Restamped(t, plan[t].doc) \in Keys
      BY <1>0, <2>2, PlanKnown DEF ApproveSteps, StagingSteps
    <3>2. PICK n \in chunks[plan[t].doc][Restamped(t, plan[t].doc)]..Chunks :
            chunks' = [chunks EXCEPT ![plan[t].doc][Restamped(t, plan[t].doc)] = n]
      <4>1. Chunks \in chunks[plan[t].doc][Restamped(t, plan[t].doc)]..Chunks
        BY <1>0, <3>1
      <4>q. QED BY <1>0, <2>2, <4>1, ApproveStores
    <3>3. CASE e = plan[t].doc /\ KeyOf(head[e]) = Restamped(t, plan[t].doc)
      <4>1. n = Chunks
        BY <1>0, <2>0, <3>2, <3>3
      <4>q. QED BY <1>0, <3>1, <3>2, <3>3, <4>1
    <3>4. CASE ~(e = plan[t].doc /\ KeyOf(head[e]) = Restamped(t, plan[t].doc))
      <4> HIDE DEF Restamped, KeyOf
      <4>q. QED BY <1>0, <2>0, <3>1, <3>2, <3>4
    <3>q. QED BY <3>3, <3>4
  <2>3. CASE chunks' # chunks /\ pc[t] = "clean"
    <3>1. PICK d \in plan[t].todo :
            \E n \in 0..chunks[d][KeyOf(plan[t].staged[d])] :
              chunks' = [chunks EXCEPT ![d][KeyOf(plan[t].staged[d])] = n]
      <4>2. CleanScope(t)
        BY <2>3 DEF ApproveStep, ApproveStart, Scan, ReadDoc, StageDoc, StageDocPartly, Recheck, CommitHead,
                    CommitHeadFails, Restore, Activate, ActivateFails, AbandonStaging, RollBack, GoTo, data
      <4>3. PICK d \in plan[t].todo : \E n \in 0..chunks[d][KeyOf(plan[t].staged[d])] :
              chunks' = [chunks EXCEPT ![d][KeyOf(plan[t].staged[d])] = n]
        BY <2>3, <4>2 DEF CleanScope
      <4>q. QED BY <4>3
    <3>2. d \in Superseded(t) /\ KeyOf(plan[t].staged[d]) # Restamped(t, d) /\ d \in Staged(t)
      BY <1>0, <2>3, <3>1, SupersededKeys DEF ApproverKnows, Moved, ApproveSteps
    <3>3. KeyOf(head[d]) = Restamped(t, d)
      BY <1>0, <2>3, <3>2, PlanKnown DEF ApproverKnows, Moved, ApproveSteps
    <3> HIDE DEF Restamped, KeyOf
    <3>q. QED BY <1>0, <2>0, <3>1, <3>2, <3>3
  <2>q. QED BY <1>0, <2>1, <2>2, <2>3, ApproveStores
<1>q. QED BY <1>1, <1>2

(* Beside an approval that runs alone, no thread holds a lock or has        *)
(* decided anything.                                                        *)
LEMMA ApproveKeepsSafe ==
  ASSUME ApproveAlone, ProgramInv, NEW t \in Threads, ApproveStep(t)
  PROVE  SafeInv'
<1>1. TypeInv'
  BY ApproveControl, ApproveData DEF ProgramInv, TypeInv
<1>2. \A u \in Threads : pc'[u] \in {"idle"} \union ApproveSteps
  BY ApproverAlone, ApproveStages DEF ProgramInv
<1>3. LocksHeld' /\ \A u \in Threads : DecisionHolds(u)'
  <2>1. \A u \in Threads : /\ pc'[u] \notin SyncSteps
                           /\ pc'[u] \notin {"deleteHead", "deleteChunks", "commit", "cleanup"} \union WriteSteps
    BY <1>2, ApprovalPlaces DEF PubPlaces, SyncSteps, RemoveSteps, WriteSteps
  <2>q. QED BY <2>1 DEF LocksHeld, DecisionHolds, WriteSteps
<1>4. OwnersRecorded'
  <2>0. head \in [Docs -> Heads \union {NoHead}] /\ OwnersRecorded /\ PlanInv
    BY DEF ProgramInv, SafeInv, TypeInv, DataTyped
  <2>1. CASE head' = head
    BY <2>0, <2>1 DEF OwnersRecorded, Unowned
  <2>2. CASE head' # head
    <3>1. pc[t] \in {"commitHeads", "restore"}
      BY <2>0, <2>2, ApproveWrites
    <3>2. PICK d \in plan[t].todo : \E h \in {plan[t].staged[d], Rescoped(t, d)} : head' = [head EXCEPT ![d] = h]
      BY <2>0, <2>2, ApproveWrites
    <3>3. /\ d \in Staged(t) /\ d \in Docs /\ plan[t].staged[d] \in Heads /\ Rescoped(t, d) \in Heads
          /\ Rescoped(t, d).writer = plan[t].staged[d].writer
      BY <2>0, <3>1, <3>2, PlanKnown DEF ApproveSteps
    <3>4. head[d] \in {plan[t].staged[d], Rescoped(t, d)}
      BY <3>1, <3>3 DEF ProgramInv, ApproverKnows, Moving
    <3>5. /\ head'[d] \in Heads /\ head[d] \in Heads /\ head'[d].writer = head[d].writer
          /\ \A e \in Docs \ {d} : head'[e] = head[e]
      BY <2>0, <3>2, <3>3, <3>4
    <3>q. QED BY <2>0, <3>3, <3>5, NoHeadNotHead DEF OwnersRecorded, Unowned
  <2>q. QED BY <2>1, <2>2
<1>q. QED BY <1>1, <1>3, <1>4, ApproveComplete DEF SafeInv

(* Every step keeps the invariant.                                          *)
LEMMA NextProgram ==
  ASSUME ApproveAlone, OneProcessPerDevice, OnePublisher
  PROVE  ProgramInv /\ [ApprovalNext]_vars => ProgramInv'
<1> SUFFICES ASSUME ProgramInv, [ApprovalNext]_vars PROVE ProgramInv'
  OBVIOUS
<1>1. PlanInv' /\ Alone'
  BY NextPlans, NextAlone DEF ProgramInv
<1>2. CASE \E t \in Threads : ApproveStep(t)
  <2>1. PICK t \in Threads : ApproveStep(t)
    BY <1>2
  <2>2. SafeInv'
    BY <2>1, ApproveKeepsSafe
  <2>3. ApproverKnows(t)'
    <3>1. CASE StageDocPartly(t) \/ AbandonStaging(t)
      <4>1. pc'[t] = "idle"
        BY <3>1 DEF StageDocPartly, AbandonStaging, Abandon, ProgramInv, PlanInv, TypeInv, ControlTyped
      <4>q. QED BY <4>1, KnowsNothing DEF ApproveSteps, StagingSteps
    <3>q. QED BY <2>1, <3>1, StagingKnows, MovingKnows DEF ApproveStep
  <2>4. ASSUME NEW u \in Threads, u # t PROVE ApproverKnows(u)'
    <3>1. pc'[u] = "idle"
      BY <2>1, <2>4, ApproverAlone DEF ProgramInv
    <3>q. QED BY <3>1, KnowsNothing DEF ApproveSteps, StagingSteps
  <2>q. QED BY <1>1, <2>2, <2>3, <2>4 DEF ProgramInv
<1>3. CASE ~\E t \in Threads : ApproveStep(t)
  <2>1. [PubNext]_pubVars
    BY <1>3, BesideApprovals
  <2>2. SafeInv'
    BY <2>1, NextSafe DEF ProgramInv
  <2>3. ASSUME NEW u \in Threads, pc'[u] \in ApproveSteps PROVE ApproverKnows(u)'
    <3>1. pc'[u] = pc[u]
      BY <2>1, <2>3, PubMoves, ApprovalPlaces DEF ProgramInv, PlanInv
    <3>2. "idle" \notin ApproveSteps
      BY DEF ApproveSteps, StagingSteps
    <3>3. Approving
      BY <2>3, <3>1 DEF Approving
    <3>4. /\ UNCHANGED <<chunks, head>>
          /\ UNCHANGED <<pc, job, plan>> \/ \E p \in Procs : CrashApproval(p)
      BY <1>3, <3>3, WhileApproving DEF ProgramInv
    <3>5. plan'[u] = plan[u]
      BY <2>3, <3>2, <3>4, CrashPlans DEF ProgramInv
    <3>q. QED BY <3>1, <3>4, <3>5, KnowsStill DEF ProgramInv
  <2>q. QED BY <1>1, <2>2, <2>3, KnowsNothing DEF ProgramInv
<1>q. QED BY <1>2, <1>3

(* No approval is carried out initially.                                    *)
LEMMA InitProgram == ApprovalInit => ProgramInv
<1> SUFFICES ASSUME ApprovalInit PROVE ProgramInv
  OBVIOUS
<1>1. \A t \in Threads : pc[t] \notin ApproveSteps
  BY DEF ApprovalInit, Init, ApproveSteps, StagingSteps
<1>2. \A t \in Threads : ApproverKnows(t)
  BY <1>1 DEF ApproverKnows, Staging, Moving, Moved, ApproveSteps, StagingSteps
<1>q. QED BY <1>2, InitPlans, InitAlone, InitSafe DEF ProgramInv, ApprovalInit

(* Every head that is not deleted names a combination all of whose chunks   *)
(* are stored, through approvals that are abandoned, rolled back or killed  *)
(* at any step too: staging comes before the heads are moved, the cleanup   *)
(* after them.                                                              *)
THEOREM ApprovalKeepsComplete ==
  ASSUME ApproveAlone, OneProcessPerDevice, OnePublisher
  PROVE  ApprovalSpec => []HeadComplete
<1>1. ProgramInv => HeadComplete
  BY DEF ProgramInv, SafeInv
<1>q. QED BY <1>1, InitProgram, NextProgram, PTL DEF ApprovalSpec

(* An approval becomes active only when every document of the program is    *)
(* materialized under it: from its first moment searches return every live  *)
(* document, whole.                                                         *)
THEOREM ApprovalServesProgramAlways ==
  ASSUME ApproveAlone, OneProcessPerDevice, OnePublisher
  PROVE  ApprovalSpec => ApprovalServesProgram
<1> DEFINE Serves == approval' # approval /\ approval'.by # Nobody
                       => \A d \in Docs : Live(d) =>
                            /\ Served(d)' = {<<head[d].rev, approval'.scope>>}
                            /\ chunks'[d][<<head[d].rev, approval'.scope>>] = Chunks
<1>1. ProgramInv /\ [ApprovalNext]_vars => [Serves]_vars
  <2> SUFFICES ASSUME ProgramInv, [ApprovalNext]_vars, approval' # approval, approval'.by # Nobody,
                      NEW d \in Docs, Live(d)
               PROVE  /\ Served(d)' = {<<head[d].rev, approval'.scope>>}
                      /\ chunks'[d][<<head[d].rev, approval'.scope>>] = Chunks
    OBVIOUS
  <2>1. PICK t \in Threads : ApproveStep(t)
    <3>1. ASSUME ~\E t \in Threads : ApproveStep(t) PROVE FALSE
      <4>1. PICK t \in Threads : DemoteScope(t)
        BY <3>1, BesideApprovals, Demotion
      <4>q. QED BY <4>1 DEF DemoteScope
    <3>q. QED BY <3>1
  <2>2. pc[t] = "activate" /\ approval' = NewApproval(t) /\ UNCHANGED <<head, chunks, tomb>>
    BY <2>1, ApproveRecords
  <2>3. PlanInv /\ Moving(t) /\ Moved(t)
    BY DEF ProgramInv, ApproverKnows
  <2>4. d \in Staged(t)
    BY <2>2, <2>3 DEF Live, Moving, Gone
  <2>5. head[d] = Rescoped(t, d) /\ chunks[d][Restamped(t, d)] = Chunks
    BY <2>2, <2>3, <2>4 DEF Moved
  <2>6. /\ Restamped(t, d) \in Keys /\ KeyOf(head[d]) = Restamped(t, d)
        /\ head[d].scope = plan[t].rev
    BY <2>2, <2>3, <2>4, <2>5, PlanKnown DEF ApproveSteps
  <2>7. approval' # NoApproval /\ approval'.scope = plan[t].rev
    <3>1. plan[t] \in Plans /\ Device(t) \in Devices
      BY <2>2, <2>3, PlanKnown DEF ApproveSteps
    <3>2. plan[t].rev \in Manifests
      BY <2>2, <2>3, PlanKnown DEF ApproveSteps, Plans, ApprovalPlaces
    <3>3. approval' = [scope |-> plan[t].rev, by |-> Device(t)]
      BY <2>2 DEF NewApproval
    <3>q. QED BY <3>1, <3>2, <3>3, NoApprovalIsNoRecord
  <2>8. Restamped(t, d) = <<head[d].rev, approval'.scope>>
    BY <2>6, <2>7 DEF KeyOf
  <2>9. Served(d)' = {Restamped(t, d)}
    <3>1. d \notin tomb' /\ head'[d] # NoHead /\ head'[d].state # "deleted" /\ KeyOf(head'[d]) = Restamped(t, d)
      BY <2>2, <2>6 DEF Live, KeyOf
    <3>2. chunks'[d][Restamped(t, d)] > 0
      BY <2>2, <2>5, PublicationAssumption
    <3>3. Restamped(t, d)[2] = approval'.scope
      BY <2>8
    <3>q. QED BY <2>6, <2>7, <3>1, <3>2, <3>3 DEF Served, ExpectedScope
  <2>q. QED BY <2>2, <2>5, <2>8, <2>9
<1> HIDE DEF Serves
<1>2. ApprovalSpec => [][Serves]_vars
  BY <1>1, InitProgram, NextProgram, PTL DEF ApprovalSpec
<1>q. QED BY <1>2 DEF Serves, ApprovalServesProgram

-------------------------------------------------------------------------------
(* A read and the records it reads. *)

(* A read disturbs nothing: beside it, the program behaves as without it,   *)
(* so what is proved of publications and approvals holds of this            *)
(* specification too.                                                       *)
LEMMA ReadersDisturbNothing == ReadsSpec => ApprovalSpec
<1>1. ReadsInit => ApprovalInit
  BY DEF ReadsInit
<1>2. [ReadsNext]_allVars => [ApprovalNext]_vars
  BY DEF ReadsNext, allVars
<1>q. QED BY <1>1, <1>2, PTL DEF ReadsSpec, ApprovalSpec

(* What has been looked at of the current document. *)
Looks == {<<>>} \union {<<d>> : d \in Docs} \union (Docs \X (Heads \union {NoHead}))

ReadTyped ==
  /\ reading \in {"idle", "query", "filter", "found", "manifestHead", "manifestChunks", "confirm", "told"}
  /\ wanted \in Approvals \union {NoApproval} /\ scopeNow \in Scopes \union {NoApproval}
  /\ found \in SUBSET Points /\ kept \in SUBSET Points /\ left \in SUBSET Docs
  /\ looked \in Looks /\ most \in Nat
  /\ version \in Nat /\ version <= MaxVersion + 1 /\ wantedVersion \in Nat /\ wantedVersion <= version

(* A read begins with nothing. *)
Fresh ==
  reading \in {"idle", "query", "manifestHead"} =>
    found = {} /\ left = {} /\ looked = <<>> /\ scopeNow = NoApproval /\ kept = {}

(* A read has an approval it wants. *)
Wants == reading # "idle" => wanted \in Approvals

Manifested ==
  /\ reading = "found" => left = {}
  /\ reading = "manifestChunks" =>
       \E h \in Heads : looked = <<ManifestDoc, h>> /\ h.scope = wanted.scope

ReadShape == ReadTyped /\ Fresh /\ Wants /\ Manifested

(* The document a head read for it is not deleted. *)
Visible(h) == h # NoHead /\ h.state # "deleted"

(* What a search keeps was named by a head while it went on, and so is what *)
(* the head names that it has just read.                                    *)
NamedInv ==
  /\ reading \in {"filter", "found"} => \A p \in kept : <<p[1], p[2]>> \in named
  /\ reading = "filter" /\ Len(looked) = 2 /\ Visible(looked[2])
       => <<looked[1], KeyOf(looked[2])>> \in named

(* The query returned as many points as it may. *)
Full == Cardinality(found) >= most

(* What is served all the time is served now, in the scope the search asks  *)
(* for; unless the query was full, it is among the candidates, and the      *)
(* search has kept it or has yet to look at its document, and what it has   *)
(* read of it says so.                                                      *)
SteadyInv ==
  /\ reading \in {"query", "filter"} =>
       \A r \in steady : r \in ServedNow /\ r[2][2] = wanted.scope
  /\ reading = "filter" =>
       \A r \in steady :
         /\ Full \/ r \in found
         /\ Full \/ r \in kept \/ r[1] \in left
         /\ Len(looked) = 2 /\ looked[1] = r[1] => Visible(looked[2]) /\ KeyOf(looked[2]) = r[2]
         /\ scopeNow # NoApproval => scopeNow = r[2][2]
  /\ reading = "found" => Full \/ steady \subseteq kept

(* A status is being read. *)
Asking == reading \in {"manifestHead", "manifestChunks", "confirm"}

(* While the version of the approval is the one it read first, nothing else *)
(* has been in force.                                                       *)
VersionInv ==
  /\ reading = "idle" => inForce = {}
  /\ Asking => /\ wanted \in inForce
               /\ version = wantedVersion => inForce = {wanted} /\ approval = wanted
  /\ reading = "told" => inForce = {wanted}

(* The rules that are about to be told are of the manifest wanted, and of a *)
(* revision that was published meanwhile.                                   *)
StatusInv ==
  /\ reading = "manifestChunks" => <<looked[1], KeyOf(looked[2])>> \in named
  /\ reading \in {"confirm", "told"} =>
       \A p \in kept : <<p[1], p[2]>> \in named /\ HashOf[p[2][1]] = wanted.scope /\ p[2][2] = wanted.scope

ReadInv == ReadShape /\ NamedInv /\ SteadyInv /\ VersionInv /\ StatusInv

-------------------------------------------------------------------------------
(* The steps. *)

(* What has been looked at is nothing, a document, or one with its head.    *)
LEMMA LookedAt ==
  ASSUME looked \in Looks
  PROVE  /\ Len(looked) \in 0..2
         /\ Len(looked) = 1 => looked[1] \in Docs /\ looked = <<looked[1]>>
         /\ Len(looked) = 2 => looked[1] \in Docs /\ looked[2] \in Heads \union {NoHead}
<1>1. CASE looked = <<>>
  BY <1>1
<1>2. CASE \E d \in Docs : looked = <<d>>
  BY <1>2
<1>3. CASE looked \in Docs \X (Heads \union {NoHead})
  <2>1. PICK d \in Docs, h \in Heads \union {NoHead} : looked = <<d, h>>
    BY <1>3
  <2>q. QED BY <2>1
<1>q. QED BY <1>1, <1>2, <1>3 DEF Looks

(* Appending to a sequence of one element gives the pair.                   *)
LEMMA AppendOne == \A x, y : Append(<<x>>, y) = <<x, y>>
<1> SUFFICES ASSUME NEW x, NEW y PROVE Append(<<x>>, y) = <<x, y>>
  OBVIOUS
<1> DEFINE S == {x, y}
           s == Append(<<x>>, y)
           u == <<x, y>>
<1>1. <<x>> \in Seq(S) /\ Len(<<x>>) = 1 /\ <<x>>[1] = x /\ x \in S /\ y \in S
  OBVIOUS
<1>2. u \in Seq(S) /\ Len(u) = 2 /\ u[1] = x /\ u[2] = y
  OBVIOUS
<1> HIDE DEF S, u
<1>3. s \in Seq(S) /\ Len(s) = 2 /\ s[1] = x /\ s[2] = y
  BY <1>1, AppendProperties
<1> HIDE DEF s
<1>4. Len(s) = Len(u) /\ \A i \in 1..Len(s) : s[i] = u[i]
  BY <1>2, <1>3
<1>5. s = u
  BY <1>2, <1>3, <1>4, SeqEqual, Zenon
<1>q. QED BY <1>5 DEF s, u

(* The head read is that of the document looked at.                        *)
LEMMA HeadOfLooked ==
  ASSUME NEW d \in Docs, looked = <<d>>, AsksHead
  PROVE  looked' = <<d, head[d]>>
<1>1. looked[1] = d
  OBVIOUS
<1>2. looked' = Append(looked, head[looked[1]])
  BY DEF AsksHead
<1>3. looked' = Append(<<d>>, head[d])
  BY <1>1, <1>2
<1>q. QED BY <1>3, AppendOne

(* A step of the program beside the read, or one of the read itself.        *)
LEMMA ReadSteps ==
  ASSUME [ReadsNext]_allVars
  PROVE  \/ UNCHANGED allVars
         \/ UNCHANGED readVars /\ Versioned /\ Remembers
         \/ Reads /\ UNCHANGED <<vars, version>> /\ Remembers
  BY DEF ReadsNext

(* What the histories keep of a step.                                       *)
LEMMA Memory ==
  ASSUME Remembers, reading' # "idle"
  PROVE  /\ reading = "idle" =>
              /\ named' = NamedNow
              /\ reading' \in Searches => steady' = ServedNow
         /\ reading \notin {"idle", "found", "told"} =>
              /\ named' = named \union NamedNow'
              /\ reading' \in Searches => steady' = steady \intersect ServedNow'
         /\ reading \notin {"found", "told"} /\ reading' \notin Searches => inForce' = inForce \union {approval'}
         /\ reading \in {"found", "told"} => UNCHANGED historyVars
  BY DEF Remembers

(* A read begins with nothing known.                                        *)
LEMMA InitReads == ReadsInit => ReadInv
<1> SUFFICES ASSUME ReadsInit PROVE ReadInv
  OBVIOUS
<1>1. /\ reading = "idle" /\ wanted = NoApproval /\ found = {} /\ left = {} /\ looked = <<>>
      /\ scopeNow = NoApproval /\ kept = {} /\ most = 0 /\ inForce = {} /\ wantedVersion = 0 /\ version \in {0, 1}
  BY DEF ReadsInit
<1>2. ReadShape
  BY <1>1, ReadsAssumption DEF ReadShape, ReadTyped, Looks, Fresh, Wants, Manifested
<1>q. QED BY <1>1, <1>2 DEF ReadInv, NamedInv, SteadyInv, VersionInv, StatusInv, Asking

(* The types of a read, and what it holds where.                            *)
LEMMA ReadKeepsShape ==
  ASSUME ReadShape, ApprovalTypeOK, [ReadsNext]_allVars
  PROVE  ReadShape'
<1>0. /\ approval \in Approvals \union {NoApproval} /\ head \in [Docs -> Heads \union {NoHead}]
      /\ \A h \in Heads : KeyOf(h) \in Keys
      /\ \A x \in Approvals : x.scope \in Scopes
      /\ MaxVersion \in Nat /\ Candidates \subseteq Nat
  BY ReadsAssumption DEF ApprovalTypeOK, Heads, KeyOf, Keys, Approvals, Scopes
<1>1. CASE UNCHANGED readVars /\ (UNCHANGED version \/ Versioned)
  <2>1. version \in Nat /\ MaxVersion \in Nat /\ version <= MaxVersion + 1 /\ wantedVersion \in Nat /\ wantedVersion <= version
    BY <1>0 DEF ReadShape, ReadTyped
  <2>2. version' \in Nat /\ version' <= MaxVersion + 1 /\ wantedVersion <= version'
    <3>1. version' = version \/ version' \in version..MaxVersion
      BY <1>1 DEF Versioned
    <3>q. QED BY <2>1, <3>1
  <2>q. QED BY <1>1, <2>2 DEF ReadShape, ReadTyped, Fresh, Wants, Manifested, readVars, answerVars
<1>2. CASE Reads /\ UNCHANGED version
  <2> USE DEF ReadShape, ReadTyped, Fresh, Wants, Manifested
  <2>1. CASE SearchStarts
    BY <1>0, <1>2, <2>1 DEF SearchStarts
  <2>2. CASE Query
    <3>1. found' \in SUBSET Points
      BY <1>0, <1>2, <2>2 DEF Query, Matching, Stored
    <3>2. left' = {p[1] : p \in found'} /\ \A p \in Points : p[1] \in Docs
      BY <1>0, <1>2, <2>2 DEF Query, Points
    <3>3. left' \in SUBSET Docs
      BY <3>1, <3>2
    <3>q. QED BY <1>2, <2>2, <3>1, <3>3 DEF Query
  <2>3. CASE \E d \in Docs : AsksTombstone(d)
    BY <1>0, <1>2, <2>3 DEF AsksTombstone, Looks
  <2>4. CASE AsksHead
    <3>1. PICK d \in Docs : looked = <<d>>
      BY <1>0, <1>2, <2>4, LookedAt DEF AsksHead
    <3>2. looked' = <<d, head[d]>>
      BY <1>0, <1>2, <2>4, <3>1, HeadOfLooked
    <3>3. looked' \in Looks
      BY <1>0, <3>2 DEF Looks
    <3>q. QED BY <1>0, <1>2, <2>4, <3>3 DEF AsksHead
  <2>5. CASE AsksScope
    BY <1>0, <1>2, <2>5 DEF AsksScope
  <2>6. CASE Filters
    BY <1>0, <1>2, <2>6 DEF Filters, Looks
  <2>7. CASE Returned
    BY <1>0, <1>2, <2>7 DEF Returned, NoneLeft, answerVars
  <2>8. CASE StatusStarts
    BY <1>0, <1>2, <2>8 DEF StatusStarts
  <2>9. CASE ManifestHead
    <3>1. ManifestDoc \in Docs /\ head[ManifestDoc] \in Heads
      BY <1>0, <1>2, <2>9, ReadsAssumption DEF ManifestHead
    <3>2. looked' = <<ManifestDoc, head[ManifestDoc]>> /\ looked' \in Looks
      BY <1>0, <1>2, <2>9, <3>1 DEF ManifestHead, Looks
    <3>q. QED BY <1>0, <1>2, <2>9, <3>1, <3>2 DEF ManifestHead
  <2>10. CASE ManifestChunks
    <3>1. PICK h \in Heads : looked = <<ManifestDoc, h>>
      BY <1>0, <1>2, <2>10 DEF ManifestChunks
    <3>3. kept' \in SUBSET Points
      BY <1>0, <1>2, <2>10 DEF ManifestChunks, Stored
    <3>q. QED BY <1>2, <2>10, <3>3 DEF ManifestChunks
  <2>11. CASE Confirms
    BY <1>0, <1>2, <2>11 DEF Confirms, answerVars
  <2>12. CASE ReadEnds
    BY <1>0, <1>2, <2>12 DEF ReadEnds, Looks
  <2>q. QED BY <1>2, <2>1, <2>2, <2>3, <2>4, <2>5, <2>6, <2>7, <2>8, <2>9, <2>10, <2>11, <2>12 DEF Reads
<1>q. QED BY <1>1, <1>2, ReadSteps DEF allVars, readVars

(* A search is answered by a search.                                        *)
LEMMA SearchGoesOn ==
  ASSUME [ReadsNext]_allVars, reading' \in {"filter", "found"}
  PROVE  /\ reading \in {"query", "filter", "found"}
         /\ UNCHANGED readVars \/ (UNCHANGED vars /\ Reads)
         /\ reading' # reading \/ found' # found \/ left' # left \/ looked' # looked \/ scopeNow' # scopeNow
              \/ kept' # kept
              => \/ Query \/ Filters \/ Returned \/ AsksHead \/ AsksScope
                 \/ \E d \in Docs : AsksTombstone(d)
  BY ReadSteps DEF Reads, SearchStarts, Query, AsksTombstone, AsksHead, AsksScope, Filters, Returned, StatusStarts,
                   ManifestHead, ManifestChunks, Confirms, ReadEnds, allVars, readVars, answerVars

(* What a search keeps was named.                                           *)
LEMMA ReadKeepsNamed ==
  ASSUME ReadShape, NamedInv, [ReadsNext]_allVars
  PROVE  NamedInv'
<1>1. CASE UNCHANGED allVars
  BY <1>1 DEF NamedInv, allVars, historyVars, readVars, answerVars, Visible, KeyOf
<1>2. CASE reading' \notin {"filter", "found"}
  BY <1>2 DEF NamedInv
<1>3. CASE Remembers /\ reading' \in {"filter", "found"}
  <2>0. reading \in {"query", "filter", "found"}
    BY <1>3, SearchGoesOn
  <2>1. named \subseteq named' /\ (reading # "found" => NamedNow' \subseteq named')
    BY <1>3, <2>0, Memory DEF historyVars
  <2>2. CASE UNCHANGED readVars
    BY <2>1, <2>2 DEF NamedInv, readVars, answerVars, Visible, KeyOf
  <2>3. CASE UNCHANGED vars /\ Query
    BY <2>3 DEF Query, ReadShape, Fresh, NamedInv
  <2>4. CASE UNCHANGED vars /\ AsksHead
    <3>1. PICK d \in Docs : looked = <<d>>
      BY <2>4, LookedAt DEF AsksHead, ReadShape, ReadTyped
    <3>2. looked' = <<d, head[d]>> /\ head' = head /\ kept' = kept /\ reading = "filter"
      BY <2>4, <3>1, HeadOfLooked DEF AsksHead, vars, pubVars
    <3>3. Visible(head[d]) => <<d, KeyOf(head[d])>> \in named'
      BY <2>1, <3>2 DEF NamedNow, Visible, KeyOf
    <3>q. QED BY <2>1, <3>2, <3>3 DEF NamedInv, Visible, KeyOf
  <2>5. CASE UNCHANGED vars /\ Filters
    <3>1. /\ reading = "filter" /\ Len(looked) = 2 /\ looked' = <<>>
          /\ kept' = kept \union {r \in found : r[1] = looked[1] /\ Keeps(looked[2], r[2])}
      BY <2>5 DEF Filters
    <3>2. ASSUME NEW r \in found, r[1] = looked[1], Keeps(looked[2], r[2])
          PROVE  <<r[1], r[2]>> \in named'
      <4>1. Visible(looked[2]) /\ KeyOf(looked[2]) = r[2]
        BY <3>2 DEF Keeps, Visible
      <4>q. QED BY <2>1, <3>1, <3>2, <4>1 DEF NamedInv
    <3>q. QED BY <2>1, <3>1, <3>2 DEF NamedInv
  <2>6. CASE UNCHANGED vars /\ (Returned \/ AsksScope \/ \E d \in Docs : AsksTombstone(d))
    BY <2>1, <2>6 DEF Returned, AsksScope, AsksTombstone, answerVars, NamedInv, Visible, KeyOf
  <2>q. QED BY <1>3, <2>2, <2>3, <2>4, <2>5, <2>6, SearchGoesOn DEF Reads, SearchStarts, StatusStarts,
            ManifestHead, ManifestChunks, Confirms, ReadEnds
<1>q. QED BY <1>1, <1>2, <1>3, ReadSteps

(* What is served all the time is found and kept.                           *)
LEMMA ReadKeepsSteady ==
  ASSUME ReadShape, SteadyInv, [ReadsNext]_allVars
  PROVE  SteadyInv'
<1>1. CASE UNCHANGED allVars
  <2>1. ServedNow' = ServedNow
    BY <1>1 DEF ServedNow, Stored, Served, allVars, vars, pubVars, ExpectedScope, KeyOf
  <2>q. QED BY <1>1, <2>1 DEF SteadyInv, Full, allVars, historyVars, readVars, answerVars, Visible, KeyOf
<1>2. CASE reading' \notin {"query", "filter", "found"}
  BY <1>2 DEF SteadyInv
<1>3. CASE Remembers /\ reading' = "query"
  <2>1. CASE UNCHANGED readVars
    <3>1. steady' = steady \intersect ServedNow' /\ reading = "query" /\ wanted' = wanted
      BY <1>3, <2>1, Memory DEF readVars, answerVars, Searches
    <3>q. QED BY <1>3, <3>1 DEF SteadyInv
  <2>2. CASE Reads /\ UNCHANGED vars
    <3>1. SearchStarts
      BY <1>3, <2>2 DEF Reads, Query, AsksTombstone, AsksHead, AsksScope, Filters, Returned, StatusStarts,
                        ManifestHead, ManifestChunks, Confirms, ReadEnds
    <3>2. steady' = ServedNow /\ ServedNow' = ServedNow /\ wanted' = approval
      BY <1>3, <2>2, <3>1, Memory DEF SearchStarts, Searches, ServedNow, Stored, Served, vars, pubVars, ExpectedScope, KeyOf
    <3>3. \A r \in ServedNow : r[2][2] = approval.scope
      BY DEF ServedNow, Served, ExpectedScope
    <3>q. QED BY <1>3, <3>2, <3>3 DEF SteadyInv
  <2>q. QED BY <1>1, <2>1, <2>2, ReadSteps
<1>4. CASE Remembers /\ reading' \in {"filter", "found"}
  <2>0. reading \in {"query", "filter", "found"}
    BY <1>4, SearchGoesOn
  <2>1. steady' \subseteq steady /\ (reading # "found" => steady' \subseteq ServedNow')
    BY <1>4, <2>0, Memory DEF historyVars, Searches
  <2>2. CASE UNCHANGED readVars
    BY <2>1, <2>2 DEF SteadyInv, Full, readVars, answerVars, Visible, KeyOf
  <2>3. ASSUME NEW r \in steady, reading \in {"query", "filter"}, UNCHANGED vars
        PROVE  /\ r \in Stored /\ r \in ServedNow /\ approval # NoApproval /\ r[1] \notin tomb
               /\ Visible(head[r[1]]) /\ KeyOf(head[r[1]]) = r[2]
               /\ chunks[r[1]][r[2]] > 0 /\ r[2][2] = approval.scope /\ r[2][2] = wanted.scope
    BY <2>3 DEF SteadyInv, ServedNow, Served, Visible, ExpectedScope
  <2>4. CASE UNCHANGED vars /\ Query
    <3>1. /\ reading = "query" /\ reading' = "filter" /\ wanted' = wanted /\ looked' = looked /\ scopeNow' = scopeNow
          /\ most' = most /\ found' \subseteq Matching /\ (found' = Matching \/ Cardinality(found') = most)
          /\ left' = {p[1] : p \in found'}
      BY <2>4 DEF Query
    <3>2. \A r \in steady : r \in Matching
      BY <2>3, <2>4, <3>1 DEF Matching
    <3>3. CASE found' = Matching
      <4>1. \A r \in steady : r \in found' /\ r[1] \in left'
        BY <3>1, <3>2, <3>3
      <4>2. looked' = <<>> /\ scopeNow' = NoApproval
        BY <3>1 DEF ReadShape, Fresh
      <4>q. QED BY <2>1, <2>3, <2>4, <3>1, <4>1, <4>2 DEF SteadyInv
    <3>4. CASE Cardinality(found') = most
      <4>1. Full'
        BY <3>1, <3>4 DEF Full, ReadShape, ReadTyped
      <4>2. looked' = <<>> /\ scopeNow' = NoApproval
        BY <3>1 DEF ReadShape, Fresh
      <4>q. QED BY <2>1, <2>3, <2>4, <3>1, <4>1, <4>2 DEF SteadyInv
    <3>q. QED BY <3>1, <3>3, <3>4
  <2>5. CASE UNCHANGED vars /\ \E d \in Docs : AsksTombstone(d)
    <3>1. PICK d \in Docs : AsksTombstone(d)
      BY <2>5
    <3>2. /\ reading = "filter" /\ reading' = "filter" /\ UNCHANGED <<wanted, most, found, scopeNow, kept>>
          /\ Len(looked') # 2
          /\ \A e \in left \ left' : e \in tomb
      BY <3>1 DEF AsksTombstone
    <3>3. Full' = Full /\ \A r \in steady : (Full \/ r \in found) /\ (Full \/ r \in kept \/ r[1] \in left')
      BY <2>3, <2>5, <3>2 DEF SteadyInv, Full
    <3>q. QED BY <2>1, <2>3, <2>5, <3>2, <3>3 DEF SteadyInv
  <2>6. CASE UNCHANGED vars /\ AsksHead
    <3>1. PICK d \in Docs : looked = <<d>>
      BY <2>6, LookedAt DEF AsksHead, ReadShape, ReadTyped
    <3>2. /\ looked' = <<d, head[d]>> /\ reading = "filter" /\ reading' = "filter"
          /\ UNCHANGED <<wanted, most, found, left, scopeNow, kept>>
      BY <2>6, <3>1, HeadOfLooked DEF AsksHead
    <3>3. \A r \in steady : r[1] = d => Visible(head[d]) /\ KeyOf(head[d]) = r[2]
      BY <2>3, <2>6, <3>2
    <3>q. QED BY <2>1, <2>3, <2>6, <3>2, <3>3 DEF SteadyInv, Full, Visible, KeyOf
  <2>7. CASE UNCHANGED vars /\ AsksScope
    <3>1. /\ reading = "filter" /\ reading' = "filter" /\ scopeNow' = approval.scope
          /\ UNCHANGED <<wanted, most, found, left, looked, kept>>
      BY <2>7 DEF AsksScope
    <3>q. QED BY <2>1, <2>3, <2>7, <3>1 DEF SteadyInv, Full, Visible, KeyOf
  <2>8. CASE UNCHANGED vars /\ Filters
    <3>1. /\ reading = "filter" /\ reading' = "filter" /\ Len(looked) = 2 /\ looked' = <<>> /\ scopeNow # NoApproval
          /\ kept' = kept \union {r \in found : r[1] = looked[1] /\ Keeps(looked[2], r[2])}
          /\ left' = left \ {looked[1]} /\ UNCHANGED <<wanted, most, found, scopeNow>> /\ reading' = reading
      BY <2>8 DEF Filters
    <3>2. ASSUME NEW r \in steady
          PROVE  (Full \/ r \in found) /\ (Full \/ r \in kept' \/ r[1] \in left')
      <4>1. (Full \/ r \in found) /\ (Full \/ r \in kept \/ r[1] \in left)
        BY <3>1 DEF SteadyInv
      <4>2. r[1] = looked[1] => Keeps(looked[2], r[2])
        BY <3>1 DEF SteadyInv, Keeps, Visible
      <4>q. QED BY <3>1, <4>1, <4>2
    <3>q. QED BY <2>1, <2>3, <2>8, <3>1, <3>2 DEF SteadyInv, Full
  <2>9. CASE UNCHANGED vars /\ Returned
    BY <2>1, <2>9 DEF Returned, NoneLeft, answerVars, SteadyInv, Full
  <2>q. QED BY <1>4, <2>2, <2>4, <2>5, <2>6, <2>7, <2>8, <2>9, SearchGoesOn DEF Reads, SearchStarts, StatusStarts,
            ManifestHead, ManifestChunks, Confirms, ReadEnds
<1>q. QED BY <1>1, <1>2, <1>3, <1>4, ReadSteps

(* While the version is the one read first, the approval is.                *)
LEMMA ReadKeepsVersion ==
  ASSUME ReadShape, VersionInv, [ReadsNext]_allVars
  PROVE  VersionInv'
<1>0. version \in Nat /\ wantedVersion \in Nat /\ wantedVersion <= version
  BY DEF ReadShape, ReadTyped
<1>1. CASE UNCHANGED allVars
  BY <1>1 DEF VersionInv, Asking, allVars, vars, pubVars, readVars, historyVars, answerVars
<1>2. CASE Remembers /\ reading' = "idle"
  BY <1>2 DEF VersionInv, Asking, Remembers
<1>3. CASE Remembers /\ reading' \in Searches
  BY <1>3 DEF VersionInv, Asking, Searches
<1>4. CASE reading' # "idle" /\ reading' \notin Searches /\ Remembers /\ UNCHANGED readVars /\ Versioned
  <2>1. UNCHANGED <<reading, wanted, wantedVersion>>
    BY <1>4 DEF readVars, answerVars
  <2>2. CASE reading = "told"
    BY <1>4, <2>1, <2>2, Memory DEF VersionInv, Asking, historyVars
  <2>3. CASE reading # "told"
    <3>1. inForce' = inForce \union {approval'}
      BY <1>4, <2>1, <2>3, Memory DEF Searches
    <3>2. version' = version + 1 \/ (version' = version /\ approval' = approval)
      BY <1>0, <1>4 DEF Versioned
    <3>3. version' = wantedVersion' => version = wantedVersion /\ approval' = approval
      BY <1>0, <2>1, <3>2
    <3>q. QED BY <1>4, <2>1, <2>3, <3>1, <3>3 DEF VersionInv, Asking
  <2>q. QED BY <2>2, <2>3
<1>5. CASE reading' # "idle" /\ reading' \notin Searches /\ Remembers /\ Reads /\ UNCHANGED <<vars, version>>
  <2>0. approval' = approval /\ version' = version
    BY <1>5 DEF vars, pubVars
  <2>1. StatusStarts \/ ManifestHead \/ ManifestChunks \/ Confirms
    BY <1>5 DEF Reads, SearchStarts, Query, AsksTombstone, AsksHead, AsksScope, Filters, Returned, ReadEnds, Searches
  <2>2. inForce' = inForce \union {approval}
    BY <1>5, <2>0, <2>1, Memory DEF StatusStarts, ManifestHead, ManifestChunks, Confirms
  <2>3. CASE StatusStarts
    <3>1. inForce = {} /\ reading' = "manifestHead" /\ wanted' = approval
      BY <2>3 DEF StatusStarts, VersionInv
    <3>q. QED BY <2>0, <2>2, <3>1 DEF VersionInv, Asking
  <2>4. CASE ManifestHead \/ ManifestChunks
    <3>1. Asking /\ reading' \in {"manifestChunks", "confirm"} /\ UNCHANGED <<wanted, wantedVersion>>
      BY <2>4 DEF ManifestHead, ManifestChunks, Asking
    <3>q. QED BY <2>0, <2>2, <3>1 DEF VersionInv, Asking
  <2>5. CASE Confirms
    <3>1. Asking /\ version = wantedVersion /\ reading' = "told" /\ wanted' = wanted
      BY <2>5 DEF Confirms, SameRecord, Asking, answerVars
    <3>q. QED BY <2>0, <2>2, <3>1 DEF VersionInv, Asking
  <2>q. QED BY <2>1, <2>3, <2>4, <2>5
<1>q. QED BY <1>1, <1>2, <1>3, <1>4, <1>5, ReadSteps

(* What is told is of the manifest, and was published.                      *)
LEMMA ReadKeepsStatus ==
  ASSUME ReadShape, StatusInv, [ReadsNext]_allVars
  PROVE  StatusInv'
<1>1. CASE reading' \notin {"manifestChunks", "confirm", "told"}
  BY <1>1 DEF StatusInv
<1>2. CASE UNCHANGED allVars
  BY <1>2 DEF StatusInv, allVars, readVars, historyVars, answerVars, KeyOf
<1>3. CASE reading' \in {"manifestChunks", "confirm", "told"} /\ Remembers /\ UNCHANGED readVars
  <2>1. named \subseteq named' /\ UNCHANGED <<reading, wanted, looked, kept>>
    BY <1>3, Memory DEF readVars, answerVars, historyVars
  <2>q. QED BY <1>3, <2>1 DEF StatusInv, KeyOf
<1>4. CASE reading' \in {"manifestChunks", "confirm", "told"} /\ Remembers /\ Reads /\ UNCHANGED <<vars, version>>
  <2>0. head' = head
    BY <1>4 DEF vars, pubVars
  <2>1. ManifestHead \/ ManifestChunks \/ Confirms
    BY <1>4 DEF Reads, SearchStarts, Query, AsksTombstone, AsksHead, AsksScope, Filters, Returned, StatusStarts, ReadEnds
  <2>2. reading \in {"manifestHead", "manifestChunks", "confirm"} /\ named' = named \union NamedNow'
    BY <1>4, <2>1, Memory DEF ManifestHead, ManifestChunks, Confirms
  <2>3. CASE ManifestHead
    <3>1. /\ looked' = <<ManifestDoc, head[ManifestDoc]>> /\ reading' = "manifestChunks"
          /\ Visible(head[ManifestDoc]) /\ ManifestDoc \in Docs
      BY <2>3, ReadsAssumption DEF ManifestHead, Visible
    <3>2. looked'[1] = ManifestDoc /\ looked'[2] = head[ManifestDoc]
      BY <3>1
    <3>3. <<ManifestDoc, KeyOf(head[ManifestDoc])>> \in NamedNow'
      BY <2>0, <3>1 DEF NamedNow, Visible, KeyOf
    <3>q. QED BY <2>2, <3>1, <3>2, <3>3 DEF StatusInv, KeyOf
  <2>4. CASE ManifestChunks
    <3>1. PICK h \in Heads : looked = <<ManifestDoc, h>> /\ h.scope = wanted.scope
      BY <2>4 DEF ManifestChunks, ReadShape, Manifested
    <3>2. <<ManifestDoc, KeyOf(h)>> \in named' /\ KeyOf(h)[2] = wanted.scope
      BY <2>2, <2>4, <3>1 DEF StatusInv, ManifestChunks, KeyOf
    <3>3. /\ \A p \in kept' : p[1] = ManifestDoc /\ p[2] = KeyOf(h)
          /\ HashOf[KeyOf(h)[1]] = wanted.scope /\ reading' = "confirm" /\ wanted' = wanted
      BY <2>4, <3>1 DEF ManifestChunks
    <3>q. QED BY <3>2, <3>3 DEF StatusInv
  <2>5. CASE Confirms
    <3>1. reading = "confirm" /\ reading' = "told" /\ kept' = kept /\ wanted' = wanted
      BY <2>5 DEF Confirms, answerVars
    <3>q. QED BY <2>2, <3>1 DEF StatusInv
  <2>q. QED BY <2>1, <2>3, <2>4, <2>5
<1>q. QED BY <1>1, <1>2, <1>3, <1>4, ReadSteps

-------------------------------------------------------------------------------
(* The theorems. *)

LEMMA ReadInvAlways == ReadsSpec => []ReadInv
<1>1. ReadInv /\ ApprovalTypeOK /\ [ReadsNext]_allVars => ReadInv'
  BY ReadKeepsShape, ReadKeepsNamed, ReadKeepsSteady, ReadKeepsVersion, ReadKeepsStatus DEF ReadInv
<1>2. ReadsSpec => []ApprovalTypeOK
  BY ReadersDisturbNothing, ApprovalTypeCorrect, PTL
<1>q. QED BY <1>1, <1>2, InitReads, PTL DEF ReadsSpec

(* Every variable of a read keeps its type, and a search returns only when  *)
(* it has looked at every document among its candidates.                    *)
THEOREM ReadsTypeCorrect == ReadsSpec => []ReadsTypeOK
<1>1. ReadInv /\ ApprovalTypeOK => ReadsTypeOK
  BY LookedAt DEF ReadInv, ReadShape, ReadTyped, Manifested, ReadsTypeOK
<1>2. ReadsSpec => []ApprovalTypeOK
  BY ReadersDisturbNothing, ApprovalTypeCorrect, PTL
<1>q. QED BY <1>1, <1>2, ReadInvAlways, PTL

(* filterActiveCandidates: every chunk a search returns is of a revision    *)
(* that the head of its document named at some time while it went on.       *)
THEOREM FoundWasNamedAlways == ReadsSpec => []FoundWasNamed
<1>1. ReadInv => FoundWasNamed
  BY DEF ReadInv, NamedInv, FoundWasNamed
<1>q. QED BY <1>1, ReadInvAlways, PTL

(* HiveSearch: every chunk that was served all the time is returned,        *)
(* whatever is published, removed, approved or demoted of other documents   *)
(* between its requests, unless the query had as many as it may return.     *)
THEOREM SteadyIsFoundAlways == ReadsSpec => []SteadyIsFound
<1>1. ReadInv => SteadyIsFound
  BY DEF ReadInv, SteadyInv, Full, SteadyIsFound
<1>q. QED BY <1>1, ReadInvAlways, PTL

(* ScopeStatus: the rules told are of a published revision of the manifest  *)
(* whose approval was in force, unbroken, while they were read, as far as   *)
(* every write of the approval raises its version.                          *)
THEOREM StatusInForceAlways == ReadsSpec => []StatusInForce
<1>1. ReadInv => StatusInForce
  BY DEF ReadInv, VersionInv, StatusInv, StatusInForce
<1>q. QED BY <1>1, ReadInvAlways, PTL
================================================================================
