--------------------------- MODULE PublicationProofs ---------------------------
(***************************************************************************)
(* Proofs about Publication, for any devices, processes, threads,          *)
(* documents, revisions and manifests: its types; when published heads are *)
(* complete and when a writer keeps its documents, under the deployment    *)
(* assumptions with which the protocol is safe.  A thread may also stand   *)
(* at a step of an approval, so that what is proved of a step here holds   *)
(* beside the approvals of ScopeApproval too.                              *)
(***************************************************************************)
EXTENDS ScopeApproval, TLAPS

PublishSteps == {"readHead", "stage", "verify", "commit", "cleanup", "revive"}
DecidedSteps == {"cleanup", "revive", "markCommit", "tombstone", "deleteHead",
                 "deleteChunks"}
DeleteSteps  == {"tombstone", "deleteHead", "deleteChunks"}

Places == {"idle"} \union SyncSteps \union RemoveSteps \union ApproveSteps

(* A thread at a step of Publication. *)
Working(t) == pc[t] \in SyncSteps \union RemoveSteps

(* What the step a thread stands at says of what it has read. *)
JobTyped(t) ==
  /\ Working(t) => job[t] \in Jobs
  /\ pc[t] \in SyncSteps => job[t].doc \in Workspace[Device(t)]
  /\ pc[t] \in PublishSteps => job[t].rev \in Revs
  /\ pc[t] \in DecidedSteps => job[t].old \in Heads
  /\ pc[t] \in DeleteSteps => job[t].doc \in Docs

ControlTyped ==
  /\ pc \in [Threads -> Places]
  /\ job \in [Threads -> Jobs \union {NoJob}]
  /\ \A t \in Threads : JobTyped(t)

DataTyped ==
  /\ file \in [Devices -> [Docs -> Revs \union {Missing}]]
  /\ manifest \in [Devices -> Manifests \union {Missing}]
  /\ chunks \in [Docs -> [Keys -> 0..Chunks]]
  /\ head \in [Docs -> Heads \union {NoHead}]
  /\ tomb \in SUBSET Docs
  /\ approval \in Approvals \union {NoApproval}

TypeInv == ControlTyped /\ DataTyped

-------------------------------------------------------------------------------

(* The absence of a head is no head.                                        *)
LEMMA NoHeadNotHead == NoHead \notin Heads
  BY NoHeadIsNoRecord DEF Heads, Scopes

(* A thread runs for a device.                                              *)
LEMMA DeviceTyped == \A t \in Threads : Device(t) \in Devices
  BY PublicationAssumption DEF Device

(* The files of a workspace are documents.                                  *)
LEMMA WorkspaceTyped == \A v \in Devices : Workspace[v] \subseteq Docs
  BY PublicationAssumption

(* The initial states are typed.                                            *)
LEMMA InitTypeInv == Init => TypeInv
<1> SUFFICES ASSUME Init PROVE TypeInv
  OBVIOUS
<1> USE PublicationAssumption DEF Init
<1>1. approval \in Approvals \union {NoApproval}
  OBVIOUS
<1>2. PICK r \in [Docs -> Revs] :
        LET scope == IF approval = NoApproval THEN Unapproved ELSE approval.scope
        IN  /\ head = [d \in Docs |->
                         IF Owner[d] = NoHead THEN NoHead
                         ELSE [rev |-> r[d], scope |-> scope,
                               state |-> "active", writer |-> Owner[d]]]
            /\ chunks = [d \in Docs |-> [k \in Keys |->
                           IF Owner[d] # NoHead /\ k = <<r[d], scope>> THEN Chunks ELSE 0]]
  OBVIOUS
<1>3. (IF approval = NoApproval THEN Unapproved ELSE approval.scope) \in Scopes
  BY <1>1 DEF Approvals, Scopes
<1>4. head \in [Docs -> Heads \union {NoHead}]
  BY <1>2, <1>3 DEF Heads
<1>5. chunks \in [Docs -> [Keys -> 0..Chunks]]
  BY <1>2
<1>q. QED
  BY <1>1, <1>4, <1>5
     DEF TypeInv, ControlTyped, DataTyped, Places, Working, RemoveSteps, JobTyped, SyncSteps, PublishSteps, DecidedSteps, DeleteSteps

(* The control part of the type invariant, for a step of thread t that      *)
(* leads to step x with job y.                                              *)
StepTyped(t, x, y) ==
  /\ x \in {"idle"} \union SyncSteps \union RemoveSteps
  /\ y \in Jobs \union {NoJob}
  /\ x # "idle" => y \in Jobs
  /\ x \in SyncSteps => y.doc \in Workspace[Device(t)]
  /\ x \in PublishSteps => y.rev \in Revs
  /\ x \in DecidedSteps => y.old \in Heads
  /\ x \in DeleteSteps => y.doc \in Docs

(* The types are those of the control state and those of the stored data.   *)
LEMMA TypeInvSplit == TypeInv <=> ControlTyped /\ DataTyped
  BY DEF TypeInv

(* The same of the next state.                                              *)
LEMMA TypeInvSplitPrime == TypeInv' <=> ControlTyped' /\ DataTyped'
  BY DEF TypeInv

(* A step that moves one thread to a typed place with a typed job keeps the *)
(* control state typed.                                                     *)
LEMMA ThreadStep ==
  ASSUME ControlTyped, NEW t \in Threads, NEW x, NEW y, StepTyped(t, x, y),
         pc' = [pc EXCEPT ![t] = x], job' = [job EXCEPT ![t] = y]
  PROVE  ControlTyped'
<1>1. /\ pc' \in [Threads -> Places]
      /\ job' \in [Threads -> Jobs \union {NoJob}]
  BY DEF ControlTyped, StepTyped, Places
<1>2. JobTyped(t)'
  BY DEF ControlTyped, StepTyped, JobTyped, Working, Device, SyncSteps, RemoveSteps
<1>3. ASSUME NEW u \in Threads, u # t PROVE JobTyped(u)'
  <2>1. pc'[u] = pc[u] /\ job'[u] = job[u] /\ JobTyped(u)
    BY <1>3 DEF ControlTyped
  <2>q. QED BY <2>1 DEF JobTyped, Working, Device
<1>q. QED BY <1>1, <1>2, <1>3 DEF ControlTyped

(* A return is such a step.                                                 *)
LEMMA ReturnTyped ==
  ASSUME ControlTyped, NEW t \in Threads, Return(t)
  PROVE  ControlTyped'
<1>1. StepTyped(t, "idle", NoJob)
  BY DEF StepTyped, SyncSteps, PublishSteps, DecidedSteps, DeleteSteps
<1>q. QED BY <1>1, ThreadStep DEF Return

(* A step that keeps the job. *)
LEMMA GoToTyped ==
  ASSUME ControlTyped, NEW t \in Threads, NEW x, StepTyped(t, x, job[t]),
         pc' = [pc EXCEPT ![t] = x], job' = job
  PROVE  ControlTyped'
<1>1. job' = [job EXCEPT ![t] = job[t]]
  BY DEF ControlTyped
<1>q. QED BY <1>1, ThreadStep

(* So is a step that moves no thread.                                       *)
LEMMA IdleTyped ==
  ASSUME ControlTyped, UNCHANGED <<pc, job>>
  PROVE  ControlTyped'
  BY DEF ControlTyped, JobTyped, Working, Device

-------------------------------------------------------------------------------
(* The steps keep the control part typed. *)

(* What is known of the job of a thread that runs.                          *)
LEMMA JobFields ==
  ASSUME ControlTyped, NEW t \in Threads, Working(t)
  PROVE  /\ job[t] \in Jobs
         /\ JobTyped(t)
         /\ pc[t] \in SyncSteps => job[t].doc \in Docs
  BY WorkspaceTyped, DeviceTyped DEF ControlTyped, JobTyped

(* Starting a synchronization, a removal or a prune.                        *)
LEMMA StartTyped ==
  ASSUME TypeInv, NEW t \in Threads, NEW d \in Docs,
         SyncStart(t, d) \/ Remove(t, d) \/ Prune(t)
  PROVE  ControlTyped'
<1> USE DEF Working, SyncSteps, RemoveSteps, PublishSteps, DecidedSteps, DeleteSteps
<1>0. ControlTyped /\ DataTyped
  BY TypeInvSplit
<1>1. CASE SyncStart(t, d)
  <2> DEFINE x == IF file[Device(t)][d] = Missing /\ d # ManifestDoc THEN "markRead" ELSE "resolve"
             y == [doc |-> d, rev |-> file[Device(t)][d], scope |-> Unapproved,
                   old |-> NoHead, todo |-> {}, pruning |-> FALSE]
  <2>1. file[Device(t)][d] \in Revs \union {Missing} /\ d \in Workspace[Device(t)]
    BY <1>0, <1>1, DeviceTyped DEF DataTyped, SyncStart
  <2>2. y \in Jobs
    BY <2>1 DEF Jobs, Scopes
  <2>3. StepTyped(t, x, y)
    BY <2>1, <2>2 DEF StepTyped
  <2>4. pc' = [pc EXCEPT ![t] = x] /\ job' = [job EXCEPT ![t] = y]
    BY <1>1 DEF SyncStart, GoTo
  <2> HIDE DEF x, y
  <2>q. QED BY <1>0, <2>3, <2>4, ThreadStep
<1>2. ASSUME NEW ds \in SUBSET Docs, NEW b \in BOOLEAN, RemoveStart(t, ds, b)
      PROVE  ControlTyped'
  <2>1. Removal(ds, b) \in Jobs
    BY DEF Removal, Jobs, Scopes
  <2>2. StepTyped(t, "nextRemoval", Removal(ds, b))
    BY <2>1 DEF StepTyped
  <2>q. QED BY <1>0, <1>2, <2>2, ThreadStep DEF RemoveStart, GoTo
<1>3. CASE Remove(t, d)
  BY <1>2, <1>3 DEF Remove
<1>4. CASE Prune(t)
  BY <1>2, <1>4 DEF Prune, Prunable
<1>q. QED BY <1>1, <1>3, <1>4

(* The steps of syncFileResult and MarkPendingDelete.                       *)
LEMMA SyncStepTyped ==
  ASSUME TypeInv, NEW t \in Threads, SyncStep(t) \/ StagePartly(t)
  PROVE  ControlTyped'
<1> USE DEF Working, SyncSteps, RemoveSteps, PublishSteps, DecidedSteps, DeleteSteps
<1>0. ControlTyped /\ DataTyped
  BY TypeInvSplit
<1>t. Working(t) => job[t] \in Jobs /\ JobTyped(t)
  BY <1>0, JobFields
<1>h. ASSUME pc[t] \in SyncSteps PROVE head[job[t].doc] \in Heads \union {NoHead}
  BY <1>0, <1>h, JobFields DEF DataTyped
<1>r. ASSUME job[t] \in Jobs PROVE /\ Resolved(t) \in {"markRead", "readHead"}
                                   /\ Resolved(t) = "readHead" => job[t].rev \in Revs
  BY <1>r DEF Resolved, Jobs
<1>1. CASE ResolveScope(t)
  <2>0. pc[t] = "resolve" /\ job[t] \in Jobs /\ JobTyped(t)
    BY <1>1, <1>t DEF ResolveScope, GoTo
  <2>1. CASE MustDemote(Device(t))
    <3>1. StepTyped(t, "demote", job[t])
      BY <2>0 DEF StepTyped, JobTyped
    <3>q. QED BY <1>0, <1>1, <2>1, <3>1, GoToTyped DEF ResolveScope, GoTo
  <2>2. CASE ~MustDemote(Device(t))
    <3> DEFINE y == [job[t] EXCEPT !.scope = approval.scope]
    <3>1. approval.scope \in Scopes
      BY <1>0, <2>2 DEF MustDemote, DataTyped, Approvals, Scopes
    <3>2. y \in Jobs /\ y.doc = job[t].doc /\ y.rev = job[t].rev
      BY <2>0, <3>1 DEF Jobs
    <3>3. StepTyped(t, Resolved(t), y)
      BY <1>r, <2>0, <3>2 DEF StepTyped, JobTyped
    <3>4. pc' = [pc EXCEPT ![t] = Resolved(t)] /\ job' = [job EXCEPT ![t] = y]
      BY <1>1, <2>2 DEF ResolveScope, GoTo
    <3> HIDE DEF y
    <3>q. QED BY <1>0, <3>3, <3>4, ThreadStep
  <2>q. QED BY <2>1, <2>2
<1>2. CASE DemoteScope(t)
  <2> DEFINE y == [job[t] EXCEPT !.scope = Unapproved]
  <2>0. pc[t] = "demote" /\ job[t] \in Jobs /\ JobTyped(t)
    BY <1>2, <1>t DEF DemoteScope, GoTo
  <2>2. y \in Jobs /\ y.doc = job[t].doc /\ y.rev = job[t].rev
    BY <2>0 DEF Jobs, Scopes
  <2>3. StepTyped(t, Resolved(t), y)
    BY <1>r, <2>0, <2>2 DEF StepTyped, JobTyped
  <2>4. pc' = [pc EXCEPT ![t] = Resolved(t)] /\ job' = [job EXCEPT ![t] = y]
    BY <1>2 DEF DemoteScope, GoTo
  <2> HIDE DEF y
  <2>q. QED BY <1>0, <2>3, <2>4, ThreadStep
<1>3. CASE ReadHead(t)
  <2>0. pc[t] = "readHead" /\ job[t] \in Jobs /\ JobTyped(t)
    BY <1>3, <1>t DEF ReadHead
  <2>1. CASE Return(t)
    BY <1>0, <2>1, ReturnTyped
  <2>2. CASE ~Return(t)
    <3> DEFINE y == [job[t] EXCEPT !.old = head[job[t].doc]]
    <3>1. PICK x \in {"revive", "stage"} :
            /\ pc' = [pc EXCEPT ![t] = x]
            /\ x = "revive" => head[job[t].doc] # NoHead
      BY <1>3, <2>2 DEF ReadHead, GoTo
    <3>2. job' = [job EXCEPT ![t] = y]
      BY <1>3, <2>2 DEF ReadHead
    <3>3. y \in Jobs /\ y.doc = job[t].doc /\ y.rev = job[t].rev /\ y.old = head[job[t].doc]
      BY <1>h, <2>0 DEF Jobs
    <3>4. StepTyped(t, x, y)
      BY <1>h, <2>0, <3>1, <3>3 DEF StepTyped, JobTyped
    <3> HIDE DEF y
    <3>q. QED BY <1>0, <3>1, <3>2, <3>4, ThreadStep
  <2>q. QED BY <2>1, <2>2
<1>4. CASE Revive(t) \/ StagePartly(t) \/ Cleanup(t) \/ MarkCommit(t)
  BY <1>0, <1>4, ReturnTyped DEF Revive, StagePartly, Cleanup, MarkCommit
<1>5. CASE Stage(t)
  <2>1. StepTyped(t, "verify", job[t])
    BY <1>5, <1>t DEF Stage, GoTo, StepTyped, JobTyped
  <2>q. QED BY <1>0, <1>5, <2>1, GoToTyped DEF Stage, GoTo
<1>6. CASE Verify(t)
  <2>1. StepTyped(t, "commit", job[t])
    BY <1>6, <1>t DEF Verify, StepTyped, JobTyped
  <2>q. QED BY <1>0, <1>6, <2>1, GoToTyped, ReturnTyped DEF Verify, GoTo
<1>7. CASE Commit(t)
  <2>1. CASE Return(t)
    BY <1>0, <2>1, ReturnTyped
  <2>2. CASE ~Return(t)
    <3>1. job[t].old # NoHead /\ job' = job /\ pc' = [pc EXCEPT ![t] = "cleanup"]
      BY <1>7, <2>2 DEF Commit, GoTo
    <3>2. job[t] \in Jobs /\ JobTyped(t) /\ pc[t] = "commit"
      BY <1>7, <1>t DEF Commit
    <3>3. job[t].old \in Heads
      BY <3>1, <3>2 DEF Jobs
    <3>4. StepTyped(t, "cleanup", job[t])
      BY <3>2, <3>3 DEF StepTyped, JobTyped
    <3>q. QED BY <1>0, <3>1, <3>4, GoToTyped
  <2>q. QED BY <2>1, <2>2
<1>8. CASE MarkRead(t)
  <2>0. pc[t] = "markRead" /\ job[t] \in Jobs /\ JobTyped(t)
    BY <1>8, <1>t DEF MarkRead
  <2>1. CASE Return(t)
    BY <1>0, <2>1, ReturnTyped
  <2>2. CASE ~Return(t)
    <3> DEFINE y == [job[t] EXCEPT !.old = head[job[t].doc]]
    <3>1. /\ pc' = [pc EXCEPT ![t] = "markCommit"] /\ job' = [job EXCEPT ![t] = y]
          /\ head[job[t].doc] # NoHead
      BY <1>8, <2>2 DEF MarkRead, GoTo
    <3>2. y \in Jobs /\ y.doc = job[t].doc /\ y.old = head[job[t].doc]
      BY <1>h, <2>0 DEF Jobs
    <3>3. StepTyped(t, "markCommit", y)
      BY <1>h, <2>0, <3>1, <3>2 DEF StepTyped, JobTyped
    <3> HIDE DEF y
    <3>q. QED BY <1>0, <3>1, <3>3, ThreadStep
  <2>q. QED BY <2>1, <2>2
<1>q. QED BY <1>1, <1>2, <1>3, <1>4, <1>5, <1>6, <1>7, <1>8 DEF SyncStep

(* The steps of RemoveDocument.                                             *)
LEMMA RemoveStepTyped ==
  ASSUME TypeInv, NEW t \in Threads, RemoveStep(t)
  PROVE  ControlTyped'
<1> USE DEF Working, SyncSteps, RemoveSteps, PublishSteps, DecidedSteps, DeleteSteps
<1>0. ControlTyped /\ DataTyped
  BY TypeInvSplit
<1>t. Working(t) => job[t] \in Jobs /\ JobTyped(t)
  BY <1>0, JobFields
<1>1. CASE NextRemoval(t)
  <2>0. pc[t] = "nextRemoval" /\ job[t] \in Jobs /\ job[t].todo \in SUBSET Docs
    BY <1>1, <1>t DEF NextRemoval, Jobs
  <2>1. CASE Return(t)
    BY <1>0, <2>1, ReturnTyped
  <2>2. CASE ~Return(t)
    <3>1. PICK d \in job[t].todo :
            \/ /\ job' = [job EXCEPT ![t].todo = @ \ {d}]
               /\ pc' = pc
            \/ /\ head[d] # NoHead
               /\ pc' = [pc EXCEPT ![t] = "tombstone"]
               /\ job' = [job EXCEPT ![t].doc = d, ![t].old = head[d],
                                     ![t].todo = @ \ {d}]
      BY <1>1, <2>2 DEF NextRemoval, GoTo
    <3>2. CASE job' = [job EXCEPT ![t].todo = @ \ {d}] /\ pc' = pc
      <4> DEFINE y == [job[t] EXCEPT !.todo = @ \ {d}]
      <4>1. y \in Jobs
        BY <2>0 DEF Jobs
      <4>2. pc' = [pc EXCEPT ![t] = "nextRemoval"] /\ job' = [job EXCEPT ![t] = y]
        BY <1>0, <2>0, <3>2 DEF ControlTyped
      <4>3. StepTyped(t, "nextRemoval", y)
        BY <4>1 DEF StepTyped
      <4> HIDE DEF y
      <4>q. QED BY <1>0, <4>2, <4>3, ThreadStep
    <3>3. CASE /\ head[d] # NoHead
               /\ pc' = [pc EXCEPT ![t] = "tombstone"]
               /\ job' = [job EXCEPT ![t].doc = d, ![t].old = head[d],
                                     ![t].todo = @ \ {d}]
      <4> DEFINE y == [job[t] EXCEPT !.doc = d, !.old = head[d], !.todo = @ \ {d}]
      <4>1. d \in Docs /\ head[d] \in Heads
        BY <1>0, <2>0, <3>3 DEF DataTyped
      <4>2. y \in Jobs /\ y.doc = d /\ y.old = head[d]
        BY <2>0, <4>1 DEF Jobs
      <4>3. StepTyped(t, "tombstone", y)
        BY <4>1, <4>2 DEF StepTyped
      <4>4. job' = [job EXCEPT ![t] = y]
        BY <1>0, <2>0, <3>3 DEF ControlTyped, Jobs
      <4> HIDE DEF y
      <4>q. QED BY <1>0, <3>3, <4>3, <4>4, ThreadStep
    <3>q. QED BY <3>1, <3>2, <3>3
  <2>q. QED BY <2>1, <2>2
<1>2. CASE WriteTombstone(t)
  <2>1. StepTyped(t, "deleteHead", job[t])
    BY <1>2, <1>t DEF WriteTombstone, GoTo, StepTyped, JobTyped
  <2>q. QED BY <1>0, <1>2, <2>1, GoToTyped DEF WriteTombstone, GoTo
<1>3. CASE DeleteHead(t)
  <2>1. StepTyped(t, "deleteChunks", job[t])
    BY <1>3, <1>t DEF DeleteHead, GoTo, StepTyped, JobTyped
  <2>q. QED BY <1>0, <1>3, <2>1, GoToTyped DEF DeleteHead, GoTo
<1>4. CASE DeleteChunks(t)
  <2>0. pc[t] = "deleteChunks" /\ job[t] \in Jobs
    BY <1>4, <1>t DEF DeleteChunks
  <2>1. CASE Return(t)
    BY <1>0, <2>1, ReturnTyped
  <2>2. CASE ~Return(t)
    <3>1. pc' = [pc EXCEPT ![t] = "nextRemoval"] /\ job' = [job EXCEPT ![t] = Removal(@.todo, @.pruning)]
      BY <1>4, <2>2 DEF DeleteChunks, GoTo
    <3>2. Removal(job[t].todo, job[t].pruning) \in Jobs
      BY <2>0 DEF Removal, Jobs, Scopes
    <3>3. StepTyped(t, "nextRemoval", Removal(job[t].todo, job[t].pruning))
      BY <3>2 DEF StepTyped
    <3>q. QED BY <1>0, <3>1, <3>3, ThreadStep
  <2>q. QED BY <2>1, <2>2
<1>q. QED BY <1>1, <1>2, <1>3, <1>4 DEF RemoveStep

(* A crash leaves typed threads.                                            *)
LEMMA CrashTyped ==
  ASSUME TypeInv, NEW p \in Procs, Crash(p)
  PROVE  ControlTyped'
<1>0. ControlTyped
  BY TypeInvSplit
<1>1. /\ pc' \in [Threads -> Places]
      /\ job' \in [Threads -> Jobs \union {NoJob}]
  BY <1>0 DEF ControlTyped, Crash, Places
<1>2. ASSUME NEW t \in Threads PROVE JobTyped(t)'
  <2>1. CASE ProcOf[t] = p
    BY <2>1 DEF Crash, JobTyped, Working, RemoveSteps, SyncSteps, PublishSteps, DecidedSteps, DeleteSteps
  <2>2. CASE ProcOf[t] # p
    BY <1>0, <2>2 DEF Crash, JobTyped, Working, ControlTyped, Device
  <2>q. QED BY <2>1, <2>2
<1>q. QED BY <1>1, <1>2 DEF ControlTyped

-------------------------------------------------------------------------------
(* The steps keep the stored data typed. *)

(* Writing one head.                                                        *)
LEMMA HeadWritten ==
  ASSUME DataTyped, NEW d \in Docs, NEW h \in Heads,
         head' = [head EXCEPT ![d] = h], UNCHANGED <<file, manifest, chunks, tomb, approval>>
  PROVE  DataTyped'
  BY DEF DataTyped

(* Storing or deleting chunks of one combination.                           *)
LEMMA ChunksWritten ==
  ASSUME DataTyped, NEW d \in Docs, NEW k \in Keys, NEW n \in 0..Chunks,
         chunks' = [chunks EXCEPT ![d][k] = n], UNCHANGED <<file, manifest, head, tomb, approval>>
  PROVE  DataTyped'
  BY DEF DataTyped

(* A step that only reads keeps the data typed.                             *)
LEMMA DataKept == ASSUME DataTyped, UNCHANGED data PROVE DataTyped'
  BY DEF DataTyped, data

(* Edits of files keep the data typed.                                      *)
LEMMA EditTyped == ASSUME DataTyped, Edit PROVE DataTyped'
<1>1. CASE \E v \in Devices : EditManifest(v)
  BY <1>1 DEF EditManifest, DataTyped
<1>2. CASE \E v \in Devices, d \in Docs : EditFile(v, d)
  BY <1>2 DEF EditFile, DataTyped
<1>q. QED BY <1>1, <1>2 DEF Edit

(* The steps of a thread keep the data typed.                               *)
LEMMA StepData ==
  ASSUME TypeInv, NEW t \in Threads, SyncStep(t) \/ RemoveStep(t) \/ StagePartly(t)
  PROVE  DataTyped'
<1> USE DEF Working, SyncSteps, RemoveSteps, PublishSteps, DecidedSteps, DeleteSteps
<1>0. ControlTyped /\ DataTyped
  BY TypeInvSplit
<1>t. ASSUME Working(t) PROVE job[t] \in Jobs /\ JobTyped(t) /\ Device(t) \in Devices
  BY <1>0, <1>t, JobFields, DeviceTyped
<1>d. ASSUME pc[t] \in SyncSteps PROVE job[t].doc \in Docs
  BY <1>0, <1>d, JobFields
<1>k. ASSUME pc[t] \in {"stage", "verify", "commit"} PROVE JobKey(t) \in Keys /\ job[t].scope \in Scopes
  BY <1>k, <1>t DEF JobKey, Keys, Jobs, JobTyped
<1>o. ASSUME pc[t] \in DecidedSteps PROVE KeyOf(job[t].old) \in Keys
  BY <1>o, <1>t DEF KeyOf, Keys, Heads, JobTyped
<1>1. CASE ResolveScope(t) \/ ReadHead(t) \/ Verify(t) \/ MarkRead(t) \/ NextRemoval(t)
  BY <1>0, <1>1, DataKept DEF ResolveScope, ReadHead, Verify, MarkRead, NextRemoval
<1>2. CASE DemoteScope(t)
  BY <1>0, <1>2 DEF DemoteScope, DataTyped, Approvals
<1>3. ASSUME NEW st \in {"active", "pending_delete", "deleted"}, pc[t] \in DecidedSteps
      PROVE  [job[t].old EXCEPT !.state = st, !.writer = Device(t)] \in Heads
  BY <1>3, <1>t DEF JobTyped, Heads
<1>4. CASE Revive(t)
  BY <1>0, <1>3, <1>4, <1>d, HeadWritten DEF Revive
<1>5. CASE MarkCommit(t)
  BY <1>0, <1>3, <1>5, <1>d, HeadWritten DEF MarkCommit, GoTo
<1>6. CASE DeleteHead(t)
  BY <1>0, <1>3, <1>6, <1>t, HeadWritten DEF DeleteHead, GoTo, JobTyped
<1>7. CASE Commit(t)
  <2>1. [rev |-> job[t].rev, scope |-> job[t].scope,
         state |-> "active", writer |-> Device(t)] \in Heads
    BY <1>7, <1>t, <1>k DEF Commit, JobTyped, Heads
  <2>q. QED BY <1>0, <1>7, <1>d, <2>1, HeadWritten DEF Commit
<1>8. CASE Stage(t)
  <2> DEFINE k == JobKey(t)
  <2>0. job[t].doc \in Docs /\ k \in Keys /\ Chunks \in 0..Chunks
    BY <1>8, <1>d, <1>k, PublicationAssumption DEF Stage, GoTo
  <2>1. /\ chunks' = [chunks EXCEPT ![job[t].doc][k] = Chunks]
        /\ UNCHANGED <<file, manifest, head, tomb, approval>>
    BY <1>8 DEF Stage
  <2> HIDE DEF k
  <2>q. QED BY <1>0, <2>0, <2>1, ChunksWritten
<1>9. CASE StagePartly(t)
  <2>1. chunks[job[t].doc][JobKey(t)] \in 0..Chunks
    BY <1>0, <1>9, <1>d, <1>k DEF StagePartly, DataTyped
  <2>2. PICK n \in chunks[job[t].doc][JobKey(t)]..Chunks :
          chunks' = [chunks EXCEPT ![job[t].doc][JobKey(t)] = n]
    BY <1>9 DEF StagePartly
  <2>3. n \in 0..Chunks
    BY <2>1, <2>2, PublicationAssumption
  <2>q. QED BY <1>0, <1>9, <1>d, <1>k, <2>2, <2>3, ChunksWritten DEF StagePartly
<1>10. CASE Cleanup(t)
  <2> DEFINE k == KeyOf(job[t].old)
  <2>0. job[t].doc \in Docs /\ k \in Keys
    BY <1>10, <1>d, <1>o DEF Cleanup
  <2>1. chunks[job[t].doc][k] \in 0..Chunks
    BY <1>0, <2>0 DEF DataTyped
  <2>2. PICK n \in 0..chunks[job[t].doc][k] : chunks' = [chunks EXCEPT ![job[t].doc][k] = n]
    BY <1>10 DEF Cleanup
  <2>3. n \in 0..Chunks
    BY <2>1, <2>2, PublicationAssumption
  <2> HIDE DEF k
  <2>q. QED BY <1>0, <1>10, <2>0, <2>2, <2>3, ChunksWritten DEF Cleanup
<1>11. CASE WriteTombstone(t)
  BY <1>0, <1>11, <1>t DEF WriteTombstone, GoTo, JobTyped, DataTyped
<1>12. CASE DeleteChunks(t)
  <2>1. job[t].doc \in Docs
    BY <1>12, <1>t DEF DeleteChunks, JobTyped
  <2>2. PICK left \in SUBSET Keys :
          chunks' = [chunks EXCEPT ![job[t].doc] =
                       [k \in Keys |-> IF k \in left THEN @[k] ELSE 0]]
    BY <1>12 DEF DeleteChunks
  <2>3. [k \in Keys |-> IF k \in left THEN chunks[job[t].doc][k] ELSE 0] \in [Keys -> 0..Chunks]
    BY <1>0, <2>1, PublicationAssumption DEF DataTyped
  <2>q. QED BY <1>0, <1>12, <2>2, <2>3 DEF DeleteChunks, DataTyped
<1>q. QED
  BY <1>1, <1>2, <1>4, <1>5, <1>6, <1>7, <1>8, <1>9, <1>10, <1>11, <1>12
     DEF SyncStep, RemoveStep

(* Every step keeps the types.                                              *)
LEMMA NextTypeInv == TypeInv /\ [PubNext]_pubVars => TypeInv'
<1> SUFFICES ASSUME TypeInv, [PubNext]_pubVars PROVE TypeInv'
  OBVIOUS
<1>0. ControlTyped /\ DataTyped
  BY TypeInvSplit
<1>1. CASE Edit
  <2>1. UNCHANGED <<pc, job>>
    BY <1>1 DEF Edit, EditManifest, EditFile
  <2>q. QED BY <1>0, <1>1, <2>1, IdleTyped, EditTyped, TypeInvSplitPrime
<1>2. CASE Starts
  <2>1. UNCHANGED data
    BY <1>2 DEF Starts, SyncStart, Remove, Prune, RemoveStart
  <2>2. ControlTyped'
    <3>1. CASE \E t \in Threads, d \in Docs : SyncStart(t, d) \/ Remove(t, d)
      BY <3>1, StartTyped
    <3>2. CASE \E t \in Threads : Prune(t)
      <4>1. PICK t \in Threads : Prune(t)
        BY <3>2
      <4>2. \E d \in Docs : TRUE
        BY <4>1 DEF Prune, Prunable
      <4>q. QED BY <4>1, <4>2, StartTyped
    <3>q. QED BY <1>2, <3>1, <3>2 DEF Starts
  <2>q. QED BY <1>0, <2>1, <2>2, DataKept, TypeInvSplitPrime
<1>3. CASE Steps
  BY <1>3, SyncStepTyped, RemoveStepTyped, StepData, TypeInvSplitPrime DEF Steps
<1>4. CASE CallFails
  <2>1. CASE \E t \in Threads : StagePartly(t)
    BY <2>1, SyncStepTyped, StepData, TypeInvSplitPrime
  <2>2. CASE \E t \in Threads : Fail(t)
    BY <1>0, <2>2, ReturnTyped, DataKept, TypeInvSplitPrime DEF Fail
  <2>q. QED BY <1>4, <2>1, <2>2 DEF CallFails
<1>5. CASE Crashes
  <2>1. PICK p \in Procs : Crash(p)
    BY <1>5 DEF Crashes
  <2>2. UNCHANGED data
    BY <2>1 DEF Crash
  <2>q. QED BY <1>0, <2>1, <2>2, CrashTyped, DataKept, TypeInvSplitPrime
<1>6. CASE UNCHANGED pubVars
  BY <1>0, <1>6, IdleTyped, DataKept, TypeInvSplitPrime DEF pubVars, data
<1>q. QED BY <1>1, <1>2, <1>3, <1>4, <1>5, <1>6 DEF PubNext

(* The steps that write a head.                                             *)
LEMMA HeadWriters ==
  ASSUME TypeInv, PubNext, NEW d \in Docs, head'[d] # head[d]
  PROVE  \E t \in Threads :
           /\ job[t].doc = d
           /\ Commit(t) \/ Revive(t) \/ MarkCommit(t) \/ DeleteHead(t)
<1>0. head \in [Docs -> Heads \union {NoHead}]
  BY DEF TypeInv, DataTyped
<1>1. ~Edit /\ ~Starts /\ ~CallFails /\ ~Crashes
  BY DEF Edit, EditFile, EditManifest, Starts, SyncStart, Remove, Prune, RemoveStart, CallFails,
         StagePartly, Fail, Crashes, Crash, data
<1>2. PICK t \in Threads : SyncStep(t) \/ RemoveStep(t)
  BY <1>1 DEF PubNext, Steps
<1>3. Commit(t) \/ Revive(t) \/ MarkCommit(t) \/ DeleteHead(t)
  BY <1>2 DEF SyncStep, RemoveStep, ResolveScope, DemoteScope, ReadHead, Stage, Verify, Cleanup,
              MarkRead, NextRemoval, WriteTombstone, DeleteChunks, data
<1>4. job[t].doc = d
  BY <1>0, <1>3 DEF Commit, Revive, MarkCommit, DeleteHead
<1>q. QED BY <1>3, <1>4

(* What they write is a head of the thread's device.                        *)
LEMMA WrittenHead ==
  ASSUME TypeInv, NEW t \in Threads, Commit(t) \/ Revive(t) \/ MarkCommit(t) \/ DeleteHead(t)
  PROVE  /\ job[t].doc \in Docs
         /\ \E h \in Heads : h.writer = Device(t) /\ head' = [head EXCEPT ![job[t].doc] = h]
<1> USE DEF Working, SyncSteps, RemoveSteps, PublishSteps, DecidedSteps, DeleteSteps
<1>1. pc[t] \in {"commit", "revive", "markCommit", "deleteHead"}
  BY DEF Commit, Revive, MarkCommit, DeleteHead, GoTo
<1>2. job[t] \in Jobs /\ JobTyped(t) /\ job[t].doc \in Docs /\ Device(t) \in Devices
  BY <1>1, TypeInvSplit, JobFields, DeviceTyped DEF JobTyped
<1>3. CASE Commit(t)
  <2> DEFINE h == [rev |-> job[t].rev, scope |-> job[t].scope, state |-> "active", writer |-> Device(t)]
  <2>1. pc[t] = "commit"
    BY <1>3 DEF Commit
  <2>2. h \in Heads /\ h.writer = Device(t)
    BY <1>2, <2>1 DEF JobTyped, Heads, Jobs
  <2>q. QED BY <1>2, <1>3, <2>2 DEF Commit
<1>4. CASE Revive(t) \/ MarkCommit(t) \/ DeleteHead(t)
  <2>1. PICK st \in {"active", "pending_delete", "deleted"} :
          head' = [head EXCEPT ![job[t].doc] = [job[t].old EXCEPT !.state = st, !.writer = Device(t)]]
    BY <1>4 DEF Revive, MarkCommit, DeleteHead
  <2>2. pc[t] \in DecidedSteps
    BY <1>4 DEF Revive, MarkCommit, DeleteHead, GoTo
  <2>3. /\ [job[t].old EXCEPT !.state = st, !.writer = Device(t)] \in Heads
        /\ [job[t].old EXCEPT !.state = st, !.writer = Device(t)].writer = Device(t)
    BY <1>2, <2>2 DEF JobTyped, Heads
  <2>q. QED BY <1>2, <2>1, <2>3
<1>q. QED BY <1>3, <1>4

(* A head, once written, is there for ever.                                 *)
LEMMA HeadsStay ==
  ASSUME TypeInv, [PubNext]_pubVars, NEW d \in Docs, head[d] # NoHead
  PROVE  head'[d] # NoHead
<1>1. CASE head'[d] = head[d]
  BY <1>1
<1>2. CASE PubNext /\ head'[d] # head[d]
  <2>1. PICK t \in Threads : job[t].doc = d /\ (Commit(t) \/ Revive(t) \/ MarkCommit(t) \/ DeleteHead(t))
    BY <1>2, HeadWriters
  <2>2. PICK h \in Heads : head' = [head EXCEPT ![d] = h]
    BY <2>1, WrittenHead
  <2>3. head'[d] = h
    BY <2>2 DEF TypeInv, DataTyped
  <2>q. QED BY <2>3, NoHeadNotHead
<1>q. QED BY <1>1, <1>2 DEF pubVars

(* The types, with what the jobs of running threads hold, are invariant.    *)
LEMMA TypeInvAlways == PubSpec => []TypeInv
  BY InitTypeInv, NextTypeInv, PTL DEF PubSpec

(* A step of Publication leads a thread, if it moves it, to a place of      *)
(* Publication.                                                             *)
LEMMA PlaceKept ==
  ASSUME TypeInv, [PubNext]_pubVars, NEW u \in Threads
  PROVE  pc'[u] = pc[u] \/ pc'[u] \in {"idle"} \union SyncSteps \union RemoveSteps
<1> DEFINE PubPlaces == {"idle"} \union SyncSteps \union RemoveSteps
<1>1. pc \in [Threads -> Places]
  BY DEF TypeInv, ControlTyped
<1>2. ASSUME NEW t \in Threads, NEW x \in PubPlaces, pc' = [pc EXCEPT ![t] = x]
      PROVE  pc'[u] = pc[u] \/ pc'[u] \in PubPlaces
  BY <1>1, <1>2
<1>3. CASE Steps \/ CallFails
  <2>1. PICK t \in Threads : SyncStep(t) \/ RemoveStep(t) \/ StagePartly(t) \/ Fail(t)
    BY <1>3 DEF Steps, CallFails
  <2>2. CASE NextRemoval(t)
    <3>1. pc' = pc \/ (\E x \in PubPlaces : pc' = [pc EXCEPT ![t] = x])
      BY <2>2 DEF NextRemoval, GoTo, Return, SyncSteps, RemoveSteps
    <3>q. QED BY <1>2, <3>1
  <2>3. CASE ~NextRemoval(t)
    <3>1. \E x \in PubPlaces : pc' = [pc EXCEPT ![t] = x]
      BY <2>1, <2>3
         DEF SyncStep, RemoveStep, ResolveScope, DemoteScope, ReadHead, Revive, Stage, Verify, Commit, Cleanup,
             Resolved, MarkRead, MarkCommit, WriteTombstone, DeleteHead, DeleteChunks, StagePartly, Fail, GoTo, Return,
             SyncSteps, RemoveSteps
    <3>q. QED BY <1>2, <3>1
  <2>q. QED BY <2>2, <2>3
<1>4. CASE Starts
  <2>1. \E t \in Threads, x \in PubPlaces : pc' = [pc EXCEPT ![t] = x]
    BY <1>4 DEF Starts, SyncStart, Remove, Prune, RemoveStart, GoTo, SyncSteps, RemoveSteps
  <2>q. QED BY <1>2, <2>1
<1>5. CASE Crashes
  BY <1>5 DEF Crashes, Crash
<1>6. CASE Edit \/ UNCHANGED pubVars
  BY <1>6 DEF Edit, EditFile, EditManifest, pubVars
<1>q. QED BY <1>3, <1>4, <1>5, <1>6 DEF PubNext

(* Every variable keeps its type: in particular no step leaves a thread     *)
(* with a job it does not understand, and no chunk is ever counted twice    *)
(* (chunk ids are deterministic).                                           *)
THEOREM PubTypeCorrect == PubSpec => []TypeOK
<1> DEFINE Inv == TypeInv /\ pc \in [Threads -> {"idle"} \union SyncSteps \union RemoveSteps]
<1>1. Init => Inv
  BY InitTypeInv DEF Init
<1>2. Inv /\ [PubNext]_pubVars => Inv'
  BY NextTypeInv, PlaceKept DEF TypeInv, ControlTyped
<1>3. Inv => TypeOK
  BY DEF TypeInv, ControlTyped, DataTyped, TypeOK
<1> HIDE DEF Inv
<1>q. QED BY <1>1, <1>2, <1>3, PTL DEF PubSpec

-------------------------------------------------------------------------------
(* The safety of publications. *)

(* The locks of a process are the only ones there are: a device runs one    *)
(* writer process at a time.                                                *)
OneProcessPerDevice ==
  \A t, u \in Threads : Device(t) = Device(u) => ProcOf[t] = ProcOf[u]

(* A document that no device owns yet is in the workspace of one device     *)
(* only: no two devices race to publish it first.                           *)
OnePublisher ==
  \A d \in Docs, v, w \in Devices :
    /\ Owner[d] \in {NoHead, Nobody}
    /\ d \in Workspace[v] \intersect Workspace[w]
    => v = w

(* Heads written before writer_device_id existed have been adopted.         *)
KnownWriters == \A d \in Docs : Owner[d] # Nobody

WriteSteps == {"stage", "verify", "commit", "revive", "markCommit"}

Unowned(h) == h = NoHead \/ h.writer = Nobody

LocksHeld ==
  \A t, u \in Threads :
    /\ t # u /\ ProcOf[t] = ProcOf[u]
    /\ pc[t] \in SyncSteps /\ pc[u] \in SyncSteps
    => job[t].doc # job[u].doc

(* A head without an owner was there, or absent, from the start. *)
OwnersRecorded == \A d \in Docs : Unowned(head[d]) => Owner[d] \in {NoHead, Nobody}

(* What a thread has read is still so when it writes. *)
DecisionHolds(t) ==
  LET d == job[t].doc
  IN  /\ pc[t] \in {"deleteHead", "deleteChunks"} => d \in tomb
      /\ d \notin tomb =>
           /\ pc[t] \in WriteSteps => head[d] = job[t].old /\ Owns(Device(t), head[d])
           /\ pc[t] \in {"revive", "markCommit"} => job[t].old.state # "deleted"
           /\ pc[t] = "commit" => chunks[d][JobKey(t)] = Chunks
           /\ pc[t] = "cleanup" => /\ head[d] # NoHead
                                   /\ head[d].writer = Device(t)
                                   /\ KeyOf(head[d]) # KeyOf(job[t].old)

(* The inductive invariant. *)
SafeInv ==
  /\ TypeInv
  /\ LocksHeld
  /\ OwnersRecorded
  /\ \A t \in Threads : DecisionHolds(t)
  /\ HeadComplete

-------------------------------------------------------------------------------

(* A device is never Nobody.                                                *)
LEMMA NobodyIsNoDevice == \A t \in Threads : Device(t) # Nobody
  BY DeviceTyped, PublicationAssumption

(* No two threads are about to write the head of one document. *)
LEMMA Exclusive ==
  ASSUME OneProcessPerDevice, OnePublisher, SafeInv,
         NEW t \in Threads, NEW u \in Threads,
         pc[t] \in WriteSteps, pc[u] \in WriteSteps \union {"cleanup"},
         job[t].doc = job[u].doc, job[t].doc \notin tomb
  PROVE  t = u
<1> DEFINE d == job[t].doc
<1>1. DecisionHolds(t) /\ DecisionHolds(u) /\ ControlTyped /\ DataTyped
  BY TypeInvSplit DEF SafeInv
<1>2. pc[t] \in SyncSteps /\ pc[u] \in SyncSteps
  BY DEF WriteSteps, SyncSteps
<1>3. d \in Workspace[Device(t)] /\ d \in Workspace[Device(u)] /\ d \in Docs
  BY <1>1, <1>2, JobFields DEF JobTyped, Working, SyncSteps, RemoveSteps
<1>4. Owns(Device(t), head[d])
  BY <1>1 DEF DecisionHolds
<1>5. Device(t) = Device(u)
  <2>1. CASE Unowned(head[d])
    <3>1. Owner[d] \in {NoHead, Nobody}
      BY <1>3, <2>1 DEF SafeInv, OwnersRecorded
    <3>q. QED BY <1>3, <3>1, DeviceTyped DEF OnePublisher
  <2>2. CASE ~Unowned(head[d])
    <3>1. head[d].writer = Device(t)
      BY <1>4, <2>2 DEF Owns, Unowned
    <3>2. head[d].writer = Device(u)
      BY <1>1, <2>2 DEF DecisionHolds, Owns, Unowned
    <3>q. QED BY <3>1, <3>2
  <2>q. QED BY <2>1, <2>2
<1>6. ProcOf[t] = ProcOf[u]
  BY <1>5 DEF OneProcessPerDevice
<1>q. QED BY <1>2, <1>6 DEF SafeInv, LocksHeld

(* A document with an owner initially has a head.                           *)
LEMMA InitHeads == Init => \A d \in Docs : Owner[d] # NoHead => head[d] # NoHead
<1> SUFFICES ASSUME Init, NEW d \in Docs, Owner[d] # NoHead PROVE head[d] # NoHead
  OBVIOUS
<1>1. PICK r \in Revs, s \in Scopes : head[d] = [rev |-> r, scope |-> s,
                                              state |-> "active", writer |-> Owner[d]]
  <2>1. approval \in Approvals \union {NoApproval}
    BY DEF Init
  <2>2. (IF approval = NoApproval THEN Unapproved ELSE approval.scope) \in Scopes
    BY <2>1 DEF Approvals, Scopes
  <2>q. QED BY <2>2 DEF Init
<1>q. QED BY <1>1, PublicationAssumption, NoHeadIsNoRecord DEF Scopes

(* The invariant holds initially: published documents are complete, no      *)
(* thread runs.                                                             *)
LEMMA InitSafe == Init => SafeInv
<1> SUFFICES ASSUME Init PROVE SafeInv
  OBVIOUS
<1>1. TypeInv
  BY InitTypeInv
<1>2. PICK r \in [Docs -> Revs] :
        LET scope == IF approval = NoApproval THEN Unapproved ELSE approval.scope
        IN  /\ head = [d \in Docs |->
                         IF Owner[d] = NoHead THEN NoHead
                         ELSE [rev |-> r[d], scope |-> scope,
                               state |-> "active", writer |-> Owner[d]]]
            /\ chunks = [d \in Docs |-> [k \in Keys |->
                           IF Owner[d] # NoHead /\ k = <<r[d], scope>> THEN Chunks ELSE 0]]
  BY DEF Init
<1>3. OwnersRecorded
  <2> SUFFICES ASSUME NEW d \in Docs, Unowned(head[d]), Owner[d] # NoHead
               PROVE  Owner[d] = Nobody
    BY DEF OwnersRecorded
  <2>1. head[d].writer = Owner[d]
    BY <1>2
  <2>2. head[d] # NoHead
    BY InitHeads
  <2>q. QED BY <2>1, <2>2 DEF Unowned
<1>4. HeadComplete
  <2> SUFFICES ASSUME NEW d \in Docs, head[d] # NoHead
               PROVE  chunks[d][KeyOf(head[d])] = Chunks
    BY DEF HeadComplete
  <2>1. head[d] \in Heads
    BY <1>1 DEF TypeInv, ControlTyped, DataTyped
  <2>2. KeyOf(head[d]) \in Keys
    BY <2>1 DEF Heads, KeyOf, Keys
  <2>q. QED BY <1>2, <2>2 DEF KeyOf
<1>5. \A t \in Threads : pc[t] = "idle"
  BY DEF Init
<1>6. LocksHeld
  BY <1>5 DEF LocksHeld, SyncSteps
<1>7. \A t \in Threads : DecisionHolds(t)
  BY <1>5 DEF DecisionHolds, WriteSteps
<1>q. QED BY <1>1, <1>3, <1>4, <1>6, <1>7 DEF SafeInv

-------------------------------------------------------------------------------
(* The locks. *)

SyncsContinue ==
  \A u \in Threads : pc'[u] \in SyncSteps => /\ pc[u] \in SyncSteps
                                             /\ job'[u].doc = job[u].doc

(* While threads only go on with what they synchronize, locks stay          *)
(* exclusive.                                                               *)
LEMMA LocksKept == ASSUME LocksHeld, SyncsContinue PROVE LocksHeld'
  BY DEF LocksHeld, SyncsContinue

(* A synchronization begins only when the lock of its document is free.     *)
LEMMA SyncStartTakesLock ==
  ASSUME TypeInv, LocksHeld, NEW t \in Threads, NEW d \in Docs, SyncStart(t, d)
  PROVE  LocksHeld'
<1>1. pc \in [Threads -> Places] /\ job \in [Threads -> Jobs \union {NoJob}]
  BY DEF TypeInv, ControlTyped, DataTyped
<1>2. job'[t].doc = d
  BY <1>1 DEF SyncStart
<1>3. \A u \in Threads : u # t => pc'[u] = pc[u] /\ job'[u] = job[u]
  BY <1>1 DEF SyncStart, GoTo
<1>4. \A u \in Threads : ProcOf[u] = ProcOf[t] /\ pc[u] \in SyncSteps => job[u].doc # d
  BY DEF SyncStart, LockFree
<1>q. QED BY <1>2, <1>3, <1>4 DEF LocksHeld

(* No step but the beginning of a synchronization takes a lock.             *)
LEMMA OtherStepsContinue ==
  ASSUME TypeInv, NEW t \in Threads,
         \/ SyncStep(t) \/ RemoveStep(t) \/ StagePartly(t) \/ Fail(t)
         \/ \E ds \in SUBSET Docs, b \in BOOLEAN : RemoveStart(t, ds, b)
  PROVE  SyncsContinue
<1> USE DEF SyncSteps, RemoveSteps
<1>1. pc \in [Threads -> Places] /\ job \in [Threads -> Jobs \union {NoJob}]
  BY DEF TypeInv, ControlTyped, DataTyped
<1>2. Working(t) => job[t] \in Jobs
  BY TypeInvSplit, JobFields
<1>3. CASE Return(t)
  BY <1>1, <1>3 DEF Return, SyncsContinue
<1>4. CASE ResolveScope(t) \/ DemoteScope(t) \/ ReadHead(t) \/ MarkRead(t)
  BY <1>1, <1>2, <1>3, <1>4
     DEF ResolveScope, DemoteScope, ReadHead, MarkRead, GoTo, SyncsContinue, Jobs, Working, SyncSteps, RemoveSteps
<1>5. CASE Stage(t) \/ Verify(t) \/ Commit(t)
  BY <1>1, <1>3, <1>5 DEF Stage, Verify, Commit, GoTo, SyncsContinue
<1>6. CASE Revive(t) \/ Cleanup(t) \/ MarkCommit(t) \/ StagePartly(t) \/ Fail(t)
  BY <1>3, <1>6 DEF Revive, Cleanup, MarkCommit, StagePartly, Fail
<1>7. CASE NextRemoval(t) \/ DeleteChunks(t)
  BY <1>1, <1>3, <1>7 DEF NextRemoval, DeleteChunks, GoTo, SyncsContinue
<1>8. CASE WriteTombstone(t) \/ DeleteHead(t)
  BY <1>1, <1>8 DEF WriteTombstone, DeleteHead, GoTo, SyncsContinue
<1>9. CASE \E ds \in SUBSET Docs, b \in BOOLEAN : RemoveStart(t, ds, b)
  BY <1>1, <1>9 DEF RemoveStart, GoTo, SyncsContinue
<1>q. QED BY <1>4, <1>5, <1>6, <1>7, <1>8, <1>9 DEF SyncStep, RemoveStep

(* A crash takes no lock.                                                   *)
LEMMA CrashContinues ==
  ASSUME TypeInv, NEW p \in Procs, Crash(p) PROVE SyncsContinue
  BY DEF TypeInv, ControlTyped, DataTyped, Crash, SyncsContinue, SyncSteps

-------------------------------------------------------------------------------
(* What a write of a head, and a change of the chunks, leave alone. *)

OthersStay(t) == \A u \in Threads : u # t => pc'[u] = pc[u] /\ job'[u] = job[u]

(* A step of a thread leaves the other threads where they are.              *)
LEMMA StepMovesOne ==
  ASSUME TypeInv, NEW t \in Threads,
         \/ SyncStep(t) \/ RemoveStep(t) \/ StagePartly(t) \/ Fail(t)
         \/ (\E ds \in SUBSET Docs, b \in BOOLEAN : RemoveStart(t, ds, b))
         \/ (\E d \in Docs : SyncStart(t, d))
  PROVE  OthersStay(t)
<1>1. pc \in [Threads -> Places] /\ job \in [Threads -> Jobs \union {NoJob}]
  BY DEF TypeInv, ControlTyped, DataTyped
<1>2. CASE Return(t)
  BY <1>1, <1>2 DEF Return, OthersStay
<1>3. CASE ResolveScope(t) \/ DemoteScope(t) \/ ReadHead(t) \/ MarkRead(t)
  BY <1>1, <1>2, <1>3 DEF ResolveScope, DemoteScope, ReadHead, MarkRead, GoTo, OthersStay
<1>4. CASE Stage(t) \/ Verify(t) \/ Commit(t)
  BY <1>1, <1>2, <1>4 DEF Stage, Verify, Commit, GoTo, OthersStay
<1>5. CASE Revive(t) \/ Cleanup(t) \/ MarkCommit(t) \/ StagePartly(t) \/ Fail(t)
  BY <1>2, <1>5 DEF Revive, Cleanup, MarkCommit, StagePartly, Fail
<1>6. CASE NextRemoval(t) \/ DeleteChunks(t)
  BY <1>1, <1>2, <1>6 DEF NextRemoval, DeleteChunks, GoTo, OthersStay
<1>7. CASE WriteTombstone(t) \/ DeleteHead(t)
  BY <1>1, <1>7 DEF WriteTombstone, DeleteHead, GoTo, OthersStay
<1>8. CASE \/ \E ds \in SUBSET Docs, b \in BOOLEAN : RemoveStart(t, ds, b)
           \/ \E d \in Docs : SyncStart(t, d)
  BY <1>1, <1>8 DEF RemoveStart, SyncStart, GoTo, OthersStay
<1>q. QED BY <1>3, <1>4, <1>5, <1>6, <1>7, <1>8 DEF SyncStep, RemoveStep

(* Writing a head that is complete keeps heads complete and the decisions   *)
(* of all other threads valid.                                              *)
LEMMA HeadWriteSafe ==
  ASSUME OneProcessPerDevice, OnePublisher, SafeInv, NEW t \in Threads, NEW h \in Heads,
         pc[t] \in WriteSteps \/ job[t].doc \in tomb,
         h.writer = Device(t), job[t].doc \in Docs,
         job[t].doc \notin tomb /\ h.state # "deleted" =>
           chunks[job[t].doc][KeyOf(h)] = Chunks,
         head' = [head EXCEPT ![job[t].doc] = h], UNCHANGED <<chunks, tomb>>,
         OthersStay(t)
  PROVE  /\ OwnersRecorded' /\ HeadComplete'
         /\ \A u \in Threads : u # t => DecisionHolds(u)'
<1> DEFINE d == job[t].doc
<1>0. head \in [Docs -> Heads \union {NoHead}]
  BY DEF SafeInv, TypeInv, ControlTyped, DataTyped
<1>1. head'[d] = h /\ \A e \in Docs : e # d => head'[e] = head[e]
  BY <1>0
<1>2. ~Unowned(h)
  BY NoHeadNotHead, NobodyIsNoDevice DEF Unowned
<1>3. OwnersRecorded'
  BY <1>1, <1>2 DEF SafeInv, OwnersRecorded, Unowned
<1>4. HeadComplete'
  BY <1>1 DEF SafeInv, HeadComplete
<1>5. ASSUME NEW u \in Threads, u # t PROVE DecisionHolds(u)'
  <2>1. DecisionHolds(u) /\ pc'[u] = pc[u] /\ job'[u] = job[u] /\ JobKey(u)' = JobKey(u)
    BY <1>5 DEF SafeInv, OthersStay, JobKey
  <2>2. CASE job[u].doc = d
    <3>1. CASE d \in tomb
      BY <2>1, <2>2, <3>1 DEF DecisionHolds
    <3>2. CASE d \notin tomb
      <4>1. pc[u] \notin WriteSteps \union {"cleanup"}
        BY <1>5, <2>2, <3>2, Exclusive
      <4>q. QED BY <2>1, <3>2, <4>1 DEF DecisionHolds, WriteSteps
    <3>q. QED BY <3>1, <3>2
  <2>3. CASE job[u].doc # d
    <3>1. pc[u] \in WriteSteps \union {"cleanup"} => job[u].doc \in Docs
      BY TypeInvSplit, JobFields DEF SafeInv, WriteSteps, SyncSteps, Working, RemoveSteps
    <3>2. pc[u] \in WriteSteps \union {"cleanup"} => head'[job[u].doc] = head[job[u].doc]
      BY <1>1, <2>3, <3>1
    <3>q. QED BY <2>1, <3>2 DEF DecisionHolds, WriteSteps, Device
  <2>q. QED BY <2>2, <2>3
<1>q. QED BY <1>3, <1>4, <1>5

(* The chunks of a head, and the ones a thread is about to publish, stay    *)
(* complete when nothing else may be deleted.                               *)
ChunksKept ==
  \A d \in Docs \ tomb', k \in Keys :
    chunks[d][k] = Chunks /\ chunks'[d][k] # Chunks =>
      /\ head[d] # NoHead /\ head[d].state # "deleted" => KeyOf(head[d]) # k
      /\ \A u \in Threads : ~(pc[u] = "commit" /\ job[u].doc = d)

(* So does a step that writes no head and keeps the chunks of every head.   *)
LEMMA HeadKeptSafe ==
  ASSUME SafeInv, ChunksKept, head' = head, tomb \subseteq tomb'
  PROVE  /\ OwnersRecorded' /\ HeadComplete'
         /\ \A u \in Threads : pc'[u] = pc[u] /\ job'[u] = job[u] => DecisionHolds(u)'
<1>1. OwnersRecorded'
  BY DEF SafeInv, OwnersRecorded, Unowned
<1>2. HeadComplete'
  <2> SUFFICES ASSUME NEW d \in Docs, head[d] # NoHead, head[d].state # "deleted", d \notin tomb'
               PROVE  chunks'[d][KeyOf(head[d])] = Chunks
    BY DEF HeadComplete
  <2>1. head[d] \in Heads
    BY DEF SafeInv, TypeInv, ControlTyped, DataTyped
  <2>2. KeyOf(head[d]) \in Keys
    BY <2>1 DEF Heads, KeyOf, Keys
  <2>3. chunks[d][KeyOf(head[d])] = Chunks
    BY DEF SafeInv, HeadComplete
  <2>q. QED BY <2>2, <2>3 DEF ChunksKept
<1>3. ASSUME NEW u \in Threads, pc'[u] = pc[u], job'[u] = job[u] PROVE DecisionHolds(u)'
  <2>1. DecisionHolds(u) /\ JobKey(u)' = JobKey(u)
    BY <1>3 DEF SafeInv, JobKey
  <2>2. pc[u] = "commit" => JobKey(u) \in Keys /\ job[u].doc \in Docs
    BY TypeInvSplit, JobFields
       DEF SafeInv, JobTyped, PublishSteps, SyncSteps, JobKey, Keys, Jobs, Working, RemoveSteps
  <2>3. pc[u] = "commit" /\ job[u].doc \notin tomb' =>
          chunks'[job[u].doc][JobKey(u)] = Chunks
    BY <2>1, <2>2 DEF ChunksKept, DecisionHolds
  <2>q. QED BY <1>3, <2>1, <2>3 DEF DecisionHolds, WriteSteps, Device
<1>q. QED BY <1>1, <1>2, <1>3

-------------------------------------------------------------------------------
(* One step at a time: what the thread that moves knows afterwards. *)

SafeParts == OwnersRecorded /\ HeadComplete /\ \A u \in Threads : DecisionHolds(u)

(* So does a step that changes no stored data.                              *)
LEMMA ControlStepSafe ==
  ASSUME SafeInv, NEW t \in Threads, UNCHANGED <<chunks, head, tomb>>,
         OthersStay(t), DecisionHolds(t)'
  PROVE  SafeParts'
<1>1. ChunksKept
  BY DEF ChunksKept
<1>q. QED BY <1>1, HeadKeptSafe DEF SafeParts, OthersStay

(* A thread that has returned has decided nothing.                          *)
LEMMA ReturnDecides == ASSUME TypeInv, NEW t \in Threads, Return(t) PROVE DecisionHolds(t)'
  BY DEF TypeInv, ControlTyped, DataTyped, Return, DecisionHolds, WriteSteps

(* The steps that only read or write the approval.                          *)
LEMMA ReadStepsSafe ==
  ASSUME SafeInv, NEW t \in Threads,
         \/ ResolveScope(t) \/ DemoteScope(t) \/ ReadHead(t) \/ Verify(t)
         \/ MarkRead(t) \/ NextRemoval(t) \/ Fail(t)
         \/ \E ds \in SUBSET Docs, b \in BOOLEAN : RemoveStart(t, ds, b)
         \/ \E d \in Docs : SyncStart(t, d)
  PROVE  SafeParts'
<1> USE DEF WriteSteps
<1>1. /\ pc \in [Threads -> Places]
      /\ job \in [Threads -> Jobs \union {NoJob}]
      /\ TypeInv
  BY DEF SafeInv, TypeInv, ControlTyped, DataTyped
<1>2. UNCHANGED <<chunks, head, tomb>>
  BY DEF ResolveScope, DemoteScope, ReadHead, Verify, MarkRead, NextRemoval, Fail,
         RemoveStart, SyncStart, data
<1>3. OthersStay(t)
  BY <1>1, StepMovesOne DEF SyncStep, RemoveStep
<1>4. Working(t) => job[t] \in Jobs
  BY <1>1, TypeInvSplit, JobFields
<1>5. DecisionHolds(t)'
  <2>1. CASE Return(t)
    BY <1>1, <2>1, ReturnDecides
  <2>2. CASE ResolveScope(t) \/ DemoteScope(t)
    BY <1>1, <2>2 DEF ResolveScope, DemoteScope, GoTo, Resolved, DecisionHolds
  <2>3. CASE ReadHead(t) /\ ~Return(t)
    <3>1. /\ pc'[t] \in {"revive", "stage"}
          /\ job'[t].doc = job[t].doc /\ job'[t].old = head[job[t].doc]
          /\ Owns(Device(t), head[job[t].doc])
          /\ ~(head[job[t].doc] # NoHead /\ head[job[t].doc].state = "deleted")
          /\ pc'[t] = "revive" => head[job[t].doc] # NoHead
      BY <1>1, <1>4, <2>3 DEF ReadHead, GoTo, Jobs, Working, SyncSteps, RemoveSteps
    <3>q. QED BY <1>2, <3>1 DEF DecisionHolds, Owns, Device
  <2>4. CASE Verify(t) /\ ~Return(t)
    <3>1. /\ pc[t] = "verify" /\ pc'[t] = "commit" /\ job' = job
          /\ chunks[job[t].doc][JobKey(t)] = Chunks
      BY <1>1, <2>4 DEF Verify, GoTo
    <3>2. DecisionHolds(t) /\ JobKey(t)' = JobKey(t)
      BY <3>1 DEF SafeInv, JobKey
    <3>q. QED BY <1>2, <3>1, <3>2 DEF DecisionHolds, Owns, Device
  <2>5. CASE MarkRead(t) /\ ~Return(t)
    <3>1. /\ pc'[t] = "markCommit"
          /\ job'[t].doc = job[t].doc /\ job'[t].old = head[job[t].doc]
          /\ Owns(Device(t), head[job[t].doc])
          /\ head[job[t].doc].state = "active"
      BY <1>1, <1>4, <2>5 DEF MarkRead, GoTo, Jobs, Working, SyncSteps, RemoveSteps
    <3>q. QED BY <1>2, <3>1 DEF DecisionHolds, Owns, Device
  <2>6. CASE NextRemoval(t) /\ ~Return(t)
    <3>1. pc'[t] \in {"nextRemoval", "tombstone"}
      BY <1>1, <2>6 DEF NextRemoval, GoTo
    <3>q. QED BY <3>1 DEF DecisionHolds
  <2>7. CASE \/ \E ds \in SUBSET Docs, b \in BOOLEAN : RemoveStart(t, ds, b)
             \/ \E d \in Docs : SyncStart(t, d)
    <3>1. pc'[t] \in {"nextRemoval", "markRead", "resolve"}
      BY <1>1, <2>7 DEF RemoveStart, SyncStart, GoTo
    <3>q. QED BY <3>1 DEF DecisionHolds
  <2>q. QED BY <2>1, <2>2, <2>3, <2>4, <2>5, <2>6, <2>7 DEF Fail
<1>q. QED BY <1>2, <1>3, <1>5, ControlStepSafe

(* The four writes of a head. *)
LEMMA HeadStepsSafe ==
  ASSUME OneProcessPerDevice, OnePublisher, SafeInv, NEW t \in Threads,
         Commit(t) \/ Revive(t) \/ MarkCommit(t) \/ DeleteHead(t)
  PROVE  SafeParts'
<1> USE DEF WriteSteps
<1> DEFINE d == job[t].doc
           old == job[t].old
<1>1. /\ pc \in [Threads -> Places]
      /\ job \in [Threads -> Jobs \union {NoJob}]
      /\ head \in [Docs -> Heads \union {NoHead}]
      /\ TypeInv
  BY DEF SafeInv, TypeInv, ControlTyped, DataTyped
<1>2. OthersStay(t)
  BY <1>1, StepMovesOne DEF SyncStep, RemoveStep
<1>3. job[t] \in Jobs /\ JobTyped(t) /\ d \in Docs /\ Device(t) \in Devices
  BY <1>1, TypeInvSplit, JobFields, DeviceTyped
     DEF Commit, Revive, MarkCommit, DeleteHead, GoTo, JobTyped, SyncSteps, DeleteSteps, Working, RemoveSteps
<1>4. DecisionHolds(t)
  BY DEF SafeInv
<1>5. ASSUME NEW st \in {"active", "pending_delete", "deleted"},
             pc[t] \in {"revive", "markCommit", "deleteHead"}
      PROVE  /\ [old EXCEPT !.state = st, !.writer = Device(t)] \in Heads
             /\ [old EXCEPT !.state = st, !.writer = Device(t)].writer = Device(t)
             /\ [old EXCEPT !.state = st, !.writer = Device(t)].state = st
             /\ KeyOf([old EXCEPT !.state = st, !.writer = Device(t)]) = KeyOf(old)
  <2>1. old \in Heads
    BY <1>3, <1>5 DEF JobTyped, DecidedSteps
  <2>q. QED BY <1>3, <1>5, <2>1 DEF Heads, KeyOf
<1>6. CASE Commit(t)
  <2> DEFINE h == [rev |-> job[t].rev, scope |-> job[t].scope,
                   state |-> "active", writer |-> Device(t)]
  <2>1. pc[t] = "commit" /\ head' = [head EXCEPT ![d] = h] /\ UNCHANGED <<chunks, tomb>>
    BY <1>6 DEF Commit
  <2>2. h \in Heads /\ h.writer = Device(t) /\ KeyOf(h) = JobKey(t)
    BY <1>3, <2>1 DEF JobTyped, PublishSteps, Heads, Jobs, KeyOf, JobKey
  <2>3. d \notin tomb => chunks[d][KeyOf(h)] = Chunks
    BY <1>4, <2>1, <2>2 DEF DecisionHolds
  <2>4. head'[d] = h
    BY <1>1, <1>3, <2>1
  <2> HIDE DEF h
  <2>5. /\ OwnersRecorded' /\ HeadComplete'
        /\ \A u \in Threads : u # t => DecisionHolds(u)'
    BY <1>2, <1>3, <2>1, <2>2, <2>3, HeadWriteSafe
  <2>6. DecisionHolds(t)'
    <3>1. CASE Return(t)
      BY <1>1, <3>1, ReturnDecides
    <3>2. CASE ~Return(t)
      <4>1. pc'[t] = "cleanup" /\ job' = job /\ KeyOf(old) # JobKey(t)
        BY <1>1, <1>6, <3>2 DEF Commit, GoTo
      <4>q. QED BY <2>2, <2>4, <4>1, NoHeadNotHead DEF DecisionHolds, Device
    <3>q. QED BY <3>1, <3>2
  <2>q. QED BY <2>5, <2>6 DEF SafeParts
<1>7. CASE Revive(t) \/ MarkCommit(t)
  <2>1. PICK st \in {"active", "pending_delete"} :
          head' = [head EXCEPT ![d] = [old EXCEPT !.state = st, !.writer = Device(t)]]
    BY <1>7 DEF Revive, MarkCommit
  <2>2. /\ pc[t] \in {"revive", "markCommit"} /\ Return(t)
        /\ UNCHANGED <<chunks, tomb>>
    BY <1>7 DEF Revive, MarkCommit, GoTo
  <2> DEFINE h == [old EXCEPT !.state = st, !.writer = Device(t)]
  <2>3. h \in Heads /\ h.writer = Device(t) /\ KeyOf(h) = KeyOf(old)
    BY <1>5, <2>2
  <2>4. ASSUME d \notin tomb PROVE chunks[d][KeyOf(h)] = Chunks
    <3>1. head[d] = old /\ old.state # "deleted" /\ old \in Heads
      BY <1>3, <1>4, <2>2, <2>4 DEF DecisionHolds, JobTyped, DecidedSteps
    <3>q. QED BY <1>3, <2>3, <2>4, <3>1, NoHeadNotHead DEF SafeInv, HeadComplete
  <2> HIDE DEF h
  <2>5. /\ OwnersRecorded' /\ HeadComplete'
        /\ \A u \in Threads : u # t => DecisionHolds(u)'
    BY <1>2, <1>3, <2>1, <2>2, <2>3, <2>4, HeadWriteSafe DEF h
  <2>q. QED BY <1>1, <2>2, <2>5, ReturnDecides DEF SafeParts
<1>8. CASE DeleteHead(t)
  <2> DEFINE h == [old EXCEPT !.state = "deleted", !.writer = Device(t)]
  <2>1. /\ pc[t] = "deleteHead" /\ pc'[t] = "deleteChunks"
        /\ head' = [head EXCEPT ![d] = h] /\ UNCHANGED <<chunks, tomb, job>>
    BY <1>1, <1>8 DEF DeleteHead, GoTo
  <2>2. h \in Heads /\ h.writer = Device(t) /\ d \in tomb
    BY <1>4, <1>5, <2>1 DEF DecisionHolds
  <2> HIDE DEF h
  <2>3. /\ OwnersRecorded' /\ HeadComplete'
        /\ \A u \in Threads : u # t => DecisionHolds(u)'
    BY <1>2, <1>3, <2>1, <2>2, HeadWriteSafe
  <2>4. DecisionHolds(t)'
    BY <2>1, <2>2 DEF DecisionHolds
  <2>q. QED BY <2>3, <2>4 DEF SafeParts
<1>q. QED BY <1>6, <1>7, <1>8

(* The writes of the data collection, and of the tombstone. *)
LEMMA ChunkStepsSafe ==
  ASSUME OneProcessPerDevice, OnePublisher, SafeInv, NEW t \in Threads,
         Stage(t) \/ StagePartly(t) \/ Cleanup(t) \/ WriteTombstone(t) \/ DeleteChunks(t)
  PROVE  SafeParts'
<1> USE DEF WriteSteps
<1> DEFINE d == job[t].doc
<1>1. /\ pc \in [Threads -> Places]
      /\ job \in [Threads -> Jobs \union {NoJob}]
      /\ chunks \in [Docs -> [Keys -> 0..Chunks]]
      /\ TypeInv
  BY DEF SafeInv, TypeInv, ControlTyped, DataTyped
<1>2. OthersStay(t)
  BY <1>1, StepMovesOne DEF SyncStep, RemoveStep
<1>3. job[t] \in Jobs /\ JobTyped(t) /\ d \in Docs
  BY <1>1, TypeInvSplit, JobFields
     DEF Stage, StagePartly, Cleanup, WriteTombstone, DeleteChunks, GoTo, JobTyped,
         SyncSteps, DeleteSteps, Working, RemoveSteps
<1>4. DecisionHolds(t) /\ Chunks \in Nat
  BY PublicationAssumption DEF SafeInv
<1>5. ASSUME head' = head, tomb \subseteq tomb', ChunksKept, DecisionHolds(t)'
      PROVE  SafeParts'
  BY <1>2, <1>5, HeadKeptSafe DEF SafeParts, OthersStay
<1>6. CASE Stage(t) \/ StagePartly(t)
  <2>1. /\ pc[t] = "stage" /\ UNCHANGED <<head, tomb>>
        /\ \E n \in chunks[d][JobKey(t)]..Chunks : chunks' = [chunks EXCEPT ![d][JobKey(t)] = n]
    <3>1. JobKey(t) \in Keys
      BY <1>3, <1>6 DEF Stage, StagePartly, GoTo, JobTyped, PublishSteps, Jobs, JobKey, Keys
    <3>2. chunks[d][JobKey(t)] \in 0..Chunks
      BY <1>1, <1>3, <3>1
    <3>3. Chunks \in chunks[d][JobKey(t)]..Chunks
      BY <1>4, <3>2
    <3>q. QED BY <1>6, <3>3 DEF Stage, StagePartly, GoTo
  <2>2. ChunksKept
    <3> SUFFICES ASSUME NEW e \in Docs, NEW k \in Keys, chunks[e][k] = Chunks
                 PROVE  chunks'[e][k] = Chunks
      BY DEF ChunksKept
    <3>1. PICK n \in chunks[d][JobKey(t)]..Chunks : chunks' = [chunks EXCEPT ![d][JobKey(t)] = n]
      BY <2>1
    <3>2. CASE e = d /\ k = JobKey(t)
      <4>1. n = Chunks
        BY <1>4, <3>1, <3>2
      <4>q. QED BY <1>1, <3>1, <3>2, <4>1
    <3>3. CASE ~(e = d /\ k = JobKey(t))
      BY <1>1, <3>1, <3>3
    <3>q. QED BY <3>2, <3>3
  <2>3. DecisionHolds(t)'
    <3>1. CASE Stage(t)
      <4>1. pc'[t] = "verify" /\ job' = job
        BY <1>1, <3>1 DEF Stage, GoTo
      <4>q. QED BY <1>4, <2>1, <4>1 DEF DecisionHolds, Owns, Device
    <3>2. CASE StagePartly(t)
      BY <1>1, <3>2, ReturnDecides DEF StagePartly
    <3>q. QED BY <1>6, <3>1, <3>2
  <2>q. QED BY <1>5, <2>1, <2>2, <2>3
<1>7. CASE Cleanup(t)
  <2>1. PICK n : chunks' = [chunks EXCEPT ![d][KeyOf(job[t].old)] = n]
    BY <1>7 DEF Cleanup
  <2>2. pc[t] = "cleanup" /\ Return(t) /\ UNCHANGED <<head, tomb>>
    BY <1>7 DEF Cleanup
  <2>3. ChunksKept
    <3> SUFFICES ASSUME NEW e \in Docs \ tomb, NEW k \in Keys,
                        chunks[e][k] = Chunks, chunks'[e][k] # Chunks
                 PROVE  /\ head[e] # NoHead => KeyOf(head[e]) # k
                        /\ \A u \in Threads : ~(pc[u] = "commit" /\ job[u].doc = e)
      BY <2>2 DEF ChunksKept
    <3>1. e = d /\ k = KeyOf(job[t].old)
      BY <1>1, <2>1
    <3>2. KeyOf(head[d]) # KeyOf(job[t].old)
      BY <1>4, <2>2, <3>1 DEF DecisionHolds
    <3>3. ASSUME NEW u \in Threads, pc[u] = "commit", job[u].doc = e PROVE FALSE
      <4>1. u = t
        BY <2>2, <3>1, <3>3, Exclusive
      <4>q. QED BY <2>2, <3>3, <4>1
    <3>q. QED BY <3>1, <3>2, <3>3
  <2>q. QED BY <1>1, <1>5, <2>2, <2>3, ReturnDecides
<1>8. CASE WriteTombstone(t)
  <2>1. /\ pc'[t] = "deleteHead" /\ tomb' = tomb \union {d}
        /\ UNCHANGED <<chunks, head, job>>
    BY <1>1, <1>8 DEF WriteTombstone, GoTo
  <2>2. ChunksKept
    BY <2>1 DEF ChunksKept
  <2>3. DecisionHolds(t)'
    BY <2>1 DEF DecisionHolds
  <2>q. QED BY <1>5, <2>1, <2>2, <2>3
<1>9. CASE DeleteChunks(t)
  <2>1. pc[t] = "deleteChunks" /\ UNCHANGED <<head, tomb>> /\ d \in tomb
    BY <1>4, <1>9 DEF DeleteChunks, DecisionHolds
  <2>2. \A e \in Docs : e # d => chunks'[e] = chunks[e]
    BY <1>1, <1>9 DEF DeleteChunks
  <2>3. ChunksKept
    BY <2>1, <2>2 DEF ChunksKept
  <2>4. DecisionHolds(t)'
    <3>1. CASE Return(t)
      BY <1>1, <3>1, ReturnDecides
    <3>2. CASE ~Return(t)
      <4>1. pc'[t] = "nextRemoval"
        BY <1>1, <1>9, <3>2 DEF DeleteChunks, GoTo
      <4>q. QED BY <4>1 DEF DecisionHolds
    <3>q. QED BY <3>1, <3>2
  <2>q. QED BY <1>5, <2>1, <2>3, <2>4
<1>q. QED BY <1>6, <1>7, <1>8, <1>9

(* Every step keeps the invariant.                                          *)
LEMMA NextSafe ==
  ASSUME OneProcessPerDevice, OnePublisher
  PROVE  SafeInv /\ [PubNext]_pubVars => SafeInv'
<1> SUFFICES ASSUME SafeInv, [PubNext]_pubVars PROVE SafeInv'
  OBVIOUS
<1>1. TypeInv /\ TypeInv' /\ LocksHeld
  BY NextTypeInv DEF SafeInv
<1>2. ASSUME LocksHeld', SafeParts' PROVE SafeInv'
  BY <1>1, <1>2 DEF SafeInv, SafeParts
<1>3. ASSUME UNCHANGED <<chunks, head, tomb, pc, job>> PROVE SafeInv'
  <2>1. LocksHeld'
    BY <1>1, <1>3 DEF LocksHeld
  <2>2. ChunksKept
    BY <1>3 DEF ChunksKept
  <2>3. SafeParts'
    BY <1>3, <2>2, HeadKeptSafe DEF SafeParts
  <2>q. QED BY <1>2, <2>1, <2>3
<1>4. ASSUME NEW t \in Threads,
             \/ SyncStep(t) \/ RemoveStep(t) \/ StagePartly(t) \/ Fail(t)
             \/ \E ds \in SUBSET Docs, b \in BOOLEAN : RemoveStart(t, ds, b)
      PROVE  SafeInv'
  <2>1. LocksHeld'
    BY <1>1, <1>4, OtherStepsContinue, LocksKept
  <2>2. SafeParts'
    BY <1>4, ReadStepsSafe, HeadStepsSafe, ChunkStepsSafe DEF SyncStep, RemoveStep
  <2>q. QED BY <1>2, <2>1, <2>2
<1>5. CASE Edit
  BY <1>3, <1>5 DEF Edit, EditManifest, EditFile
<1>6. CASE Starts
  <2>1. ASSUME NEW t \in Threads, NEW d \in Docs, SyncStart(t, d) PROVE SafeInv'
    <3>1. LocksHeld'
      BY <1>1, <2>1, SyncStartTakesLock
    <3>2. SafeParts'
      BY <2>1, ReadStepsSafe
    <3>q. QED BY <1>2, <3>1, <3>2
  <2>2. ASSUME NEW t \in Threads, NEW d \in Docs, Remove(t, d) PROVE SafeInv'
    BY <1>4, <2>2 DEF Remove
  <2>3. ASSUME NEW t \in Threads, Prune(t) PROVE SafeInv'
    BY <1>4, <2>3 DEF Prune, Prunable
  <2>q. QED BY <1>6, <2>1, <2>2, <2>3 DEF Starts
<1>7. CASE Steps \/ CallFails
  BY <1>4, <1>7 DEF Steps, CallFails
<1>8. CASE Crashes
  <2>1. PICK p \in Procs : Crash(p)
    BY <1>8 DEF Crashes
  <2>2. LocksHeld'
    BY <1>1, <2>1, CrashContinues, LocksKept
  <2>3. UNCHANGED <<chunks, head, tomb>>
    BY <2>1 DEF Crash, data
  <2>4. ChunksKept
    BY <2>3 DEF ChunksKept
  <2>5. ASSUME NEW u \in Threads PROVE DecisionHolds(u)'
    <3>1. CASE ProcOf[u] = p
      BY <2>1, <3>1 DEF Crash, DecisionHolds, WriteSteps
    <3>2. CASE ProcOf[u] # p
      BY <2>1, <2>3, <2>4, <3>2, HeadKeptSafe DEF Crash
    <3>q. QED BY <3>1, <3>2
  <2>6. SafeParts'
    BY <2>3, <2>4, <2>5, HeadKeptSafe DEF SafeParts
  <2>q. QED BY <1>2, <2>2, <2>6
<1>9. CASE UNCHANGED pubVars
  BY <1>3, <1>9 DEF pubVars
<1>q. QED BY <1>5, <1>6, <1>7, <1>8, <1>9 DEF PubNext

(* Every head that is not deleted names a revision all of whose chunks are  *)
(* stored, whatever fails, crashes or interleaves, if a device runs one     *)
(* writer process at a time and no two devices publish a document first.    *)
THEOREM HeadCompleteAlways ==
  ASSUME OneProcessPerDevice, OnePublisher
  PROVE  PubSpec => []HeadComplete
<1>1. SafeInv => HeadComplete
  BY DEF SafeInv
<1>q. QED BY <1>1, InitSafe, NextSafe, PTL DEF PubSpec

-------------------------------------------------------------------------------
(* The writer of a document. *)

(* A thread that is about to write a head may do so for its device. *)
Claim(t) ==
  /\ pc[t] \in WriteSteps \union DeleteSteps => Owns(Device(t), head[job[t].doc])
  /\ pc[t] \in DeleteSteps => head[job[t].doc] # NoHead

WritersKnown ==
  \A d \in Docs : IF head[d] = NoHead THEN Owner[d] = NoHead ELSE head[d].writer # Nobody

(* The inductive invariant. *)
OwnInv == TypeInv /\ WritersKnown /\ \A t \in Threads : Claim(t)

OwnersKept ==
  \A d \in Docs : head[d] # NoHead /\ head[d].writer # Nobody
     => head'[d] # NoHead /\ head'[d].writer = head[d].writer

(* The ownership invariant holds initially.                                 *)
LEMMA InitOwn == ASSUME KnownWriters PROVE Init => OwnInv
<1> SUFFICES ASSUME Init PROVE OwnInv
  OBVIOUS
<1>1. \A d \in Docs : Owner[d] = NoHead => head[d] = NoHead
  BY DEF Init
<1>2. \A d \in Docs : head[d] # NoHead => head[d].writer = Owner[d]
  BY <1>1 DEF Init
<1>3. WritersKnown
  BY <1>1, <1>2, InitHeads DEF WritersKnown, KnownWriters
<1>4. \A t \in Threads : Claim(t)
  BY DEF Init, Claim, WriteSteps, DeleteSteps
<1>q. QED BY <1>3, <1>4, InitTypeInv DEF OwnInv

(* A thread that writes a head it decided on keeps the owner.               *)
LEMMA ClaimedWrite ==
  ASSUME OnePublisher, OwnInv, NEW t \in Threads, NEW h \in Heads,
         pc[t] \in WriteSteps \union DeleteSteps, h.writer = Device(t),
         job[t].doc \in Docs, head' = [head EXCEPT ![job[t].doc] = h], OthersStay(t)
  PROVE  /\ OwnersKept /\ WritersKnown'
         /\ \A u \in Threads : u # t => Claim(u)'
         /\ Owns(Device(t), head'[job[t].doc]) /\ head'[job[t].doc] # NoHead
<1> DEFINE d == job[t].doc
<1>0. head \in [Docs -> Heads \union {NoHead}]
  BY DEF OwnInv, TypeInv, ControlTyped, DataTyped
<1>1. head'[d] = h /\ \A e \in Docs : e # d => head'[e] = head[e]
  BY <1>0
<1>2. h # NoHead /\ h.writer # Nobody
  BY NoHeadNotHead, NobodyIsNoDevice
<1>3. Claim(t)
  BY DEF OwnInv
<1>4. OwnersKept
  BY <1>1, <1>2, <1>3 DEF OwnersKept, Claim, Owns
<1>5. WritersKnown'
  BY <1>1, <1>2 DEF OwnInv, WritersKnown
<1>6. ASSUME NEW u \in Threads, u # t PROVE Claim(u)'
  <2>1. Claim(u) /\ pc'[u] = pc[u] /\ job'[u] = job[u]
    BY <1>6 DEF OwnInv, OthersStay
  <2>2. CASE pc[u] \notin WriteSteps \union DeleteSteps
    BY <2>1, <2>2 DEF Claim
  <2>3. CASE pc[u] \in WriteSteps \union DeleteSteps /\ job[u].doc # d
    <3>1. job[u].doc \in Docs
      BY <2>3, TypeInvSplit, JobFields
         DEF OwnInv, JobTyped, WriteSteps, SyncSteps, DeleteSteps, Working, RemoveSteps
    <3>q. QED BY <1>1, <2>1, <2>3, <3>1 DEF Claim, Owns, Device
  <2>4. CASE pc[u] \in WriteSteps \union DeleteSteps /\ job[u].doc = d
    <3>1. CASE head[d] # NoHead
      <4>1. head[d].writer # Nobody /\ head[d].writer = Device(t) /\ head[d].writer = Device(u)
        BY <1>3, <2>1, <2>4, <3>1 DEF OwnInv, WritersKnown, Claim, Owns
      <4>q. QED BY <1>1, <1>2, <2>1, <2>4, <4>1 DEF Claim, Owns, Device
    <3>2. CASE head[d] = NoHead
      <4>1. pc[t] \in WriteSteps /\ pc[u] \in WriteSteps
        BY <1>3, <2>1, <2>4, <3>2 DEF Claim
      <4>2. d \in Workspace[Device(t)] /\ d \in Workspace[Device(u)]
        BY <2>4, <4>1, TypeInvSplit, JobFields DEF OwnInv, JobTyped, WriteSteps, SyncSteps, Working, RemoveSteps
      <4>3. Owner[d] = NoHead
        BY <3>2 DEF OwnInv, WritersKnown
      <4>4. Device(t) = Device(u)
        BY <4>2, <4>3, DeviceTyped DEF OnePublisher
      <4>q. QED BY <1>1, <1>2, <2>1, <2>4, <4>1, <4>4 DEF Claim, Owns, Device, WriteSteps, DeleteSteps
    <3>q. QED BY <3>1, <3>2
  <2>q. QED BY <2>2, <2>3, <2>4
<1>q. QED BY <1>1, <1>2, <1>4, <1>5, <1>6 DEF Owns

(* A step that writes no head keeps every owner.                            *)
LEMMA HeadUntouched ==
  ASSUME OwnInv, head' = head
  PROVE  /\ OwnersKept /\ WritersKnown'
         /\ \A u \in Threads : pc'[u] = pc[u] /\ job'[u] = job[u] => Claim(u)'
  BY DEF OwnInv, OwnersKept, WritersKnown, Claim, Owns, Device

(* A thread that has returned claims nothing.                               *)
LEMMA ReturnClaims == ASSUME TypeInv, NEW t \in Threads, Return(t) PROVE Claim(t)'
  BY DEF TypeInv, ControlTyped, DataTyped, Return, Claim, WriteSteps, DeleteSteps

(* Every step of a thread keeps owners and claims.                          *)
LEMMA StepClaims ==
  ASSUME OnePublisher, OwnInv, NEW t \in Threads,
         \/ SyncStep(t) \/ RemoveStep(t) \/ StagePartly(t) \/ Fail(t)
         \/ \E ds \in SUBSET Docs, b \in BOOLEAN : RemoveStart(t, ds, b)
         \/ \E d \in Docs : SyncStart(t, d)
  PROVE  OwnersKept /\ WritersKnown' /\ \A u \in Threads : Claim(u)'
<1> USE DEF WriteSteps, DeleteSteps
<1>1. /\ pc \in [Threads -> Places]
      /\ job \in [Threads -> Jobs \union {NoJob}]
      /\ TypeInv
  BY DEF OwnInv, TypeInv, ControlTyped, DataTyped
<1>2. OthersStay(t)
  BY <1>1, StepMovesOne
<1>3. Claim(t) /\ (Working(t) => job[t] \in Jobs /\ JobTyped(t))
  BY <1>1, TypeInvSplit, JobFields DEF OwnInv
<1>4. ASSUME head' = head, Claim(t)'
      PROVE  OwnersKept /\ WritersKnown' /\ \A u \in Threads : Claim(u)'
  BY <1>2, <1>4, HeadUntouched DEF OthersStay
<1>5. ASSUME NEW x \in {"cleanup", "idle", "deleteChunks"}, pc'[t] = x,
             x = "deleteChunks" => job' = job,
             NEW h \in Heads, pc[t] \in WriteSteps \union DeleteSteps, h.writer = Device(t),
             head' = [head EXCEPT ![job[t].doc] = h]
      PROVE  OwnersKept /\ WritersKnown' /\ \A u \in Threads : Claim(u)'
  <2>1. job[t].doc \in Docs
    BY <1>1, <1>5, TypeInvSplit, JobFields DEF JobTyped, SyncSteps, Working, RemoveSteps
  <2>2. /\ OwnersKept /\ WritersKnown'
        /\ \A u \in Threads : u # t => Claim(u)'
        /\ Owns(Device(t), head'[job[t].doc]) /\ head'[job[t].doc] # NoHead
    BY <1>2, <1>5, <2>1, ClaimedWrite
  <2>3. Claim(t)'
    BY <1>5, <2>2 DEF Claim, Owns, Device
  <2>q. QED BY <2>2, <2>3
<1>6. ASSUME NEW st \in {"active", "pending_delete", "deleted"},
             pc[t] \in {"revive", "markCommit", "deleteHead"}
      PROVE  /\ [job[t].old EXCEPT !.state = st, !.writer = Device(t)] \in Heads
             /\ [job[t].old EXCEPT !.state = st, !.writer = Device(t)].writer = Device(t)
  BY <1>3, <1>6, DeviceTyped DEF JobTyped, DecidedSteps, Heads, Working, SyncSteps, RemoveSteps
<1>7. CASE Commit(t)
  <2> DEFINE h == [rev |-> job[t].rev, scope |-> job[t].scope,
                   state |-> "active", writer |-> Device(t)]
  <2>1. h \in Heads /\ h.writer = Device(t)
    BY <1>3, <1>7, DeviceTyped DEF Commit, JobTyped, PublishSteps, Heads, Jobs, Working, SyncSteps, RemoveSteps
  <2>2. pc'[t] \in {"cleanup", "idle"} /\ pc[t] = "commit" /\ head' = [head EXCEPT ![job[t].doc] = h]
    BY <1>1, <1>7 DEF Commit, GoTo, Return
  <2> HIDE DEF h
  <2>q. QED BY <1>5, <2>1, <2>2
<1>8. CASE Revive(t)
  <2>1. pc'[t] = "idle" /\ pc[t] = "revive"
    BY <1>1, <1>8 DEF Revive, Return
  <2>q. QED BY <1>5, <1>6, <1>8, <2>1 DEF Revive
<1>9. CASE MarkCommit(t)
  <2>1. pc'[t] = "idle" /\ pc[t] = "markCommit"
    BY <1>1, <1>9 DEF MarkCommit, Return, GoTo
  <2>q. QED BY <1>5, <1>6, <1>9, <2>1 DEF MarkCommit
<1>10. CASE DeleteHead(t)
  <2>1. pc'[t] = "deleteChunks" /\ pc[t] = "deleteHead" /\ job' = job
    BY <1>1, <1>10 DEF DeleteHead, GoTo
  <2>q. QED BY <1>5, <1>6, <1>10, <2>1 DEF DeleteHead
<1>11. CASE Return(t) /\ head' = head
  BY <1>1, <1>4, <1>11, ReturnClaims
<1>12. CASE ResolveScope(t) \/ DemoteScope(t) \/ DeleteChunks(t) \/ \E ds \in SUBSET Docs, b \in BOOLEAN : RemoveStart(t, ds, b)
  <2>1. head' = head
    BY <1>12 DEF ResolveScope, DemoteScope, DeleteChunks, RemoveStart, data
  <2>2. pc'[t] \in {"idle", "demote", "readHead", "markRead", "nextRemoval"}
    BY <1>1, <1>12 DEF ResolveScope, DemoteScope, Resolved, DeleteChunks, RemoveStart, GoTo, Return
  <2>q. QED BY <1>4, <2>1, <2>2 DEF Claim
<1>13. CASE \E d \in Docs : SyncStart(t, d)
  <2>1. head' = head /\ pc'[t] \in {"resolve", "markRead"}
    BY <1>1, <1>13 DEF SyncStart, GoTo, data
  <2>q. QED BY <1>4, <2>1 DEF Claim
<1>14. CASE (ReadHead(t) \/ MarkRead(t)) /\ ~Return(t)
  <2>1. /\ head' = head /\ job'[t].doc = job[t].doc
        /\ pc'[t] \in WriteSteps /\ Owns(Device(t), head[job[t].doc])
    BY <1>1, <1>3, <1>14 DEF ReadHead, MarkRead, GoTo, data, Jobs, Working, SyncSteps, RemoveSteps
  <2>q. QED BY <1>4, <2>1 DEF Claim, Owns, Device
<1>15. CASE (Stage(t) \/ Verify(t) \/ WriteTombstone(t)) /\ ~Return(t)
  <2>1. /\ head' = head /\ job' = job
        /\ \/ pc[t] \in WriteSteps /\ pc'[t] \in WriteSteps
           \/ pc[t] \in DeleteSteps /\ pc'[t] \in DeleteSteps
    BY <1>1, <1>15 DEF Stage, Verify, WriteTombstone, GoTo, data
  <2>q. QED BY <1>3, <1>4, <2>1 DEF Claim, Owns, Device
<1>16. CASE NextRemoval(t) /\ ~Return(t)
  <2>1. head' = head
    BY <1>16 DEF NextRemoval, data
  <2>2. PICK d \in job[t].todo :
          \/ pc' = pc
          \/ /\ head[d] # NoHead /\ Owns(Device(t), head[d])
             /\ pc'[t] = "tombstone" /\ job'[t].doc = d
    <3>1. pc[t] = "nextRemoval" /\ job[t] \in Jobs
      BY <1>3, <1>16 DEF NextRemoval, Working, SyncSteps, RemoveSteps
    <3>2. PICK d \in job[t].todo :
            \/ pc' = pc
            \/ /\ head[d] # NoHead /\ Owns(Device(t), head[d])
               /\ pc' = [pc EXCEPT ![t] = "tombstone"]
               /\ job' = [job EXCEPT ![t].doc = d, ![t].old = head[d],
                                     ![t].todo = @ \ {d}]
      BY <1>16 DEF NextRemoval, GoTo
    <3>3. CASE pc' = pc
      BY <3>3
    <3>4. CASE pc' # pc
      <4>1. job'[t].doc = d
        BY <1>1, <3>1, <3>2, <3>4 DEF Jobs
      <4>q. QED BY <1>1, <3>2, <3>4, <4>1
    <3>q. QED BY <3>2, <3>3, <3>4
  <2>q. QED BY <1>4, <1>16, <2>1, <2>2 DEF Claim, Owns, Device, NextRemoval
<1>17. CASE StagePartly(t) \/ Cleanup(t) \/ Fail(t)
  BY <1>11, <1>17 DEF StagePartly, Cleanup, Fail, data
<1>18. CASE (ReadHead(t) \/ MarkRead(t) \/ Verify(t) \/ NextRemoval(t)) /\ Return(t)
  BY <1>11, <1>18 DEF ReadHead, MarkRead, Verify, NextRemoval, data
<1>19. CASE (Stage(t) \/ WriteTombstone(t)) /\ Return(t)
  BY <1>11, <1>19 DEF Stage, WriteTombstone
<1>q. QED
  BY <1>7, <1>8, <1>9, <1>10, <1>12, <1>13, <1>14, <1>15, <1>16, <1>17, <1>18, <1>19
     DEF SyncStep, RemoveStep

(* Every step keeps the ownership invariant and every owner.                *)
LEMMA NextOwn ==
  ASSUME OnePublisher
  PROVE  OwnInv /\ [PubNext]_pubVars => OwnInv' /\ OwnersKept
<1> SUFFICES ASSUME OwnInv, [PubNext]_pubVars PROVE OwnInv' /\ OwnersKept
  OBVIOUS
<1>1. TypeInv'
  BY NextTypeInv DEF OwnInv
<1>2. CASE Edit \/ UNCHANGED pubVars
  <2>1. UNCHANGED <<head, pc, job>>
    BY <1>2 DEF Edit, EditFile, EditManifest, pubVars
  <2>q. QED BY <1>1, <2>1, HeadUntouched DEF OwnInv
<1>3. CASE Starts
  <2>1. ASSUME NEW t \in Threads, NEW d \in Docs, SyncStart(t, d) \/ Remove(t, d)
        PROVE  OwnInv' /\ OwnersKept
    BY <1>1, <2>1, StepClaims DEF OwnInv, Remove
  <2>2. ASSUME NEW t \in Threads, Prune(t) PROVE OwnInv' /\ OwnersKept
    BY <1>1, <2>2, StepClaims DEF OwnInv, Prune, Prunable
  <2>q. QED BY <1>3, <2>1, <2>2 DEF Starts
<1>4. CASE Steps \/ CallFails
  BY <1>1, <1>4, StepClaims DEF OwnInv, Steps, CallFails
<1>5. CASE Crashes
  <2>1. PICK p \in Procs : Crash(p)
    BY <1>5 DEF Crashes
  <2>2. head' = head
    BY <2>1 DEF Crash, data
  <2>3. ASSUME NEW u \in Threads PROVE Claim(u)'
    <3>1. CASE ProcOf[u] = p
      BY <2>1, <3>1 DEF Crash, Claim, WriteSteps, DeleteSteps
    <3>2. CASE ProcOf[u] # p
      BY <2>1, <2>2, <3>2, HeadUntouched DEF Crash
    <3>q. QED BY <3>1, <3>2
  <2>q. QED BY <1>1, <2>2, <2>3, HeadUntouched DEF OwnInv
<1>q. QED BY <1>2, <1>3, <1>4, <1>5 DEF PubNext

(* The device that published a document first stays its writer, through     *)
(* updates, marks and removals, retries and crashes, and even when several  *)
(* processes of one device run, if no two devices publish it first.         *)
THEOREM OwnerForLifeAlways ==
  ASSUME OnePublisher, KnownWriters
  PROVE  PubSpec => OwnerForLife
<1>1. OwnInv /\ [PubNext]_pubVars => OwnInv' /\ [OwnersKept]_pubVars
  BY NextOwn
<1>2. Init => OwnInv
  BY InitOwn
<1>3. PubSpec => [][OwnersKept]_pubVars
  BY <1>1, <1>2, PTL DEF PubSpec
<1>q. QED BY <1>3 DEF OwnersKept, OwnerForLife

-------------------------------------------------------------------------------
(* Searches go on finding a document while it is updated. *)

ScopeSteps == {"readHead", "stage", "verify", "commit"}

Approved == approval # NoApproval /\ approval.scope # Unapproved

(* While the approval of the start is in force, all that was read or        *)
(* published is of its scope: no publication brings an approval back.       *)
ScopesAgree ==
  Approved =>
    /\ \A d \in Docs : head[d] # NoHead => head[d].scope = approval.scope
    /\ \A t \in Threads :
         /\ pc[t] \in ScopeSteps => job[t].scope = approval.scope
         /\ pc[t] # "idle" /\ job[t].old # NoHead => job[t].old.scope = approval.scope

(* A thread that still goes by an approval replaces no head that was        *)
(* published since without one.                                             *)
NotOutdated(t) ==
  LET h == head[job[t].doc]
  IN  pc[t] \in ScopeSteps /\ job[t].scope # Unapproved =>
        IF pc[t] = "readHead"
        THEN \/ h = NoHead \/ h.scope # Unapproved
             \/ ~Owns(Device(t), h) \/ job[t].doc \in tomb
        ELSE job[t].old = NoHead \/ job[t].old.scope # Unapproved

SearchInv == SafeInv /\ ScopesAgree /\ \A t \in Threads : NotOutdated(t)

(* Initially every head is of the scope in force, and no thread runs.       *)
LEMMA InitSearch == Init => SearchInv
<1> SUFFICES ASSUME Init PROVE SearchInv
  OBVIOUS
<1>1. \A t \in Threads : pc[t] = "idle"
  BY DEF Init
<1>2. ASSUME Approved, NEW d \in Docs, head[d] # NoHead PROVE head[d].scope = approval.scope
  BY <1>2 DEF Init, Approved
<1>q. QED BY <1>1, <1>2, InitSafe DEF SearchInv, ScopesAgree, NotOutdated, ScopeSteps

(* What the scopes of a thread's next place must be. *)
GoesByScope(t) ==
  approval.scope # Unapproved =>
    /\ pc'[t] \in ScopeSteps => job'[t].scope = approval.scope
    /\ pc'[t] # "idle" /\ job'[t].old # NoHead => job'[t].old.scope = approval.scope

(* A step that writes no head keeps the scopes in agreement.                *)
LEMMA ReadsAgree ==
  ASSUME SearchInv, NEW t \in Threads, head' = head, tomb \subseteq tomb', OthersStay(t),
         approval' = approval \/ ~Approved', Approved => GoesByScope(t), NotOutdated(t)'
  PROVE  ScopesAgree' /\ \A u \in Threads : NotOutdated(u)'
<1>1. ScopesAgree'
  BY DEF SearchInv, ScopesAgree, Approved, GoesByScope, OthersStay
<1>2. ASSUME NEW u \in Threads, u # t PROVE NotOutdated(u)'
  BY <1>2 DEF SearchInv, NotOutdated, OthersStay, Owns, Device
<1>q. QED BY <1>1, <1>2

(* So does a write of a head by the thread that holds its lock, or removes  *)
(* the document.                                                            *)
LEMMA WritesAgree ==
  ASSUME OneProcessPerDevice, SearchInv, NEW t \in Threads, NEW h \in Heads,
         pc[t] \in SyncSteps \/ job[t].doc \in tomb, job[t].doc \in Docs,
         h.writer = Device(t), Approved => h.scope = approval.scope,
         head' = [head EXCEPT ![job[t].doc] = h], UNCHANGED <<tomb, approval>>,
         OthersStay(t), Approved => GoesByScope(t), pc'[t] \notin ScopeSteps
  PROVE  ScopesAgree' /\ \A u \in Threads : NotOutdated(u)'
<1> DEFINE d == job[t].doc
<1>0. head \in [Docs -> Heads \union {NoHead}]
  BY DEF SearchInv, SafeInv, TypeInv, ControlTyped, DataTyped
<1>1. head'[d] = h /\ \A e \in Docs : e # d => head'[e] = head[e]
  BY <1>0
<1>2. ScopesAgree'
  BY <1>1 DEF SearchInv, ScopesAgree, Approved, GoesByScope, OthersStay
<1>3. ASSUME NEW u \in Threads PROVE NotOutdated(u)'
  <2>1. CASE u = t
    BY <2>1 DEF NotOutdated
  <2>2. CASE u # t
    <3>1. pc'[u] = pc[u] /\ job'[u] = job[u] /\ NotOutdated(u)
      BY <2>2 DEF OthersStay, SearchInv
    <3>2. CASE pc[u] # "readHead"
      BY <3>1, <3>2 DEF NotOutdated
    <3>3. CASE pc[u] = "readHead" /\ job[u].doc # d
      <4>1. job[u].doc \in Docs
        BY <3>3, TypeInvSplit, JobFields DEF SearchInv, SafeInv, SyncSteps, Working, RemoveSteps
      <4>q. QED BY <1>1, <3>1, <3>3, <4>1 DEF NotOutdated, Owns, Device
    <3>4. CASE pc[u] = "readHead" /\ job[u].doc = d /\ d \in tomb
      BY <3>1, <3>4 DEF NotOutdated
    <3>5. CASE pc[u] = "readHead" /\ job[u].doc = d /\ d \notin tomb
      <4>1. ProcOf[u] # ProcOf[t]
        BY <2>2, <3>5 DEF SearchInv, SafeInv, LocksHeld, SyncSteps
      <4>2. ~Owns(Device(u), h)
        BY <4>1, NobodyIsNoDevice, NoHeadNotHead DEF Owns, OneProcessPerDevice
      <4>q. QED BY <1>1, <3>1, <3>5, <4>2 DEF NotOutdated, Device, Owns
    <3>q. QED BY <3>2, <3>3, <3>4, <3>5
  <2>q. QED BY <2>1, <2>2
<1>q. QED BY <1>2, <1>3

(* The steps of a thread, one after the other.                              *)
LEMMA StepAgrees ==
  ASSUME OneProcessPerDevice, SearchInv, NEW t \in Threads,
         \/ SyncStep(t) \/ RemoveStep(t) \/ StagePartly(t) \/ Fail(t)
         \/ (\E ds \in SUBSET Docs, b \in BOOLEAN : RemoveStart(t, ds, b))
         \/ (\E d \in Docs : SyncStart(t, d))
  PROVE  ScopesAgree' /\ \A u \in Threads : NotOutdated(u)'
<1> DEFINE d == job[t].doc
           old == job[t].old
<1>1. /\ pc \in [Threads -> Places]
      /\ job \in [Threads -> Jobs \union {NoJob}]
      /\ head \in [Docs -> Heads \union {NoHead}]
      /\ TypeInv
  BY DEF SearchInv, SafeInv, TypeInv, ControlTyped, DataTyped
<1>2. OthersStay(t)
  BY <1>1, StepMovesOne
<1>3. Working(t) => job[t] \in Jobs /\ JobTyped(t) /\ (pc[t] \in SyncSteps => d \in Docs)
  BY <1>1, TypeInvSplit, JobFields
<1>4. /\ NotOutdated(t) /\ DecisionHolds(t)
      /\ Approved => /\ pc[t] \in ScopeSteps => job[t].scope = approval.scope
                     /\ pc[t] # "idle" /\ old # NoHead => old.scope = approval.scope
  BY DEF SearchInv, SafeInv, ScopesAgree
<1>5. CASE Return(t) /\ head' = head /\ tomb' = tomb /\ approval' = approval
  <2>1. pc'[t] = "idle"
    BY <1>1, <1>5 DEF Return
  <2>2. GoesByScope(t) /\ NotOutdated(t)'
    BY <2>1 DEF GoesByScope, NotOutdated, ScopeSteps
  <2>q. QED BY <1>2, <1>5, <2>2, ReadsAgree
<1>6. CASE Fail(t) \/ StagePartly(t) \/ Cleanup(t)
  BY <1>5, <1>6 DEF Fail, StagePartly, Cleanup, data
<1>7. CASE Stage(t) \/ (Verify(t) /\ ~Return(t)) \/ WriteTombstone(t)
  <2>1. /\ pc[t] # "idle" /\ pc[t] # "readHead" /\ pc'[t] # "readHead"
        /\ pc'[t] \in ScopeSteps => pc[t] \in ScopeSteps
        /\ job' = job /\ head' = head /\ tomb \subseteq tomb' /\ approval' = approval
    BY <1>1, <1>7 DEF Stage, Verify, WriteTombstone, GoTo, ScopeSteps, data
  <2>2. (Approved => GoesByScope(t)) /\ NotOutdated(t)'
    BY <1>4, <2>1 DEF GoesByScope, NotOutdated
  <2>q. QED BY <1>2, <2>1, <2>2, ReadsAgree
<1>8. CASE ResolveScope(t)
  <2>1. UNCHANGED data /\ pc[t] = "resolve" /\ pc'[t] \in {"demote", "readHead", "markRead"}
    BY <1>1, <1>8 DEF ResolveScope, Resolved, GoTo
  <2>2. /\ job'[t].doc = d /\ job'[t].old = old
        /\ pc'[t] = "readHead" => approval # NoApproval /\ job'[t].scope = approval.scope
    BY <1>1, <1>3, <1>8, <2>1 DEF ResolveScope, GoTo, MustDemote, Jobs, Working, SyncSteps, RemoveSteps
  <2>3. Approved => GoesByScope(t)
    BY <1>4, <2>1, <2>2 DEF GoesByScope, ScopeSteps
  <2>4. NotOutdated(t)'
    <3>1. pc'[t] = "readHead" /\ job'[t].scope # Unapproved => Approved /\ d \in Docs
      BY <1>3, <2>1, <2>2 DEF Approved, SyncSteps, Working, RemoveSteps
    <3>2. Approved /\ d \in Docs => head[d] = NoHead \/ head[d].scope # Unapproved
      BY DEF SearchInv, ScopesAgree, Approved
    <3>q. QED BY <2>1, <2>2, <3>1, <3>2 DEF NotOutdated, ScopeSteps, data
  <2>q. QED BY <1>2, <2>1, <2>3, <2>4, ReadsAgree DEF data
<1>9. CASE DemoteScope(t)
  <2>1. /\ job'[t].scope = Unapproved /\ ~Approved' /\ UNCHANGED <<head, tomb>>
    BY <1>1, <1>3, <1>9 DEF DemoteScope, GoTo, Approved, Jobs, Working, SyncSteps
  <2>2. NotOutdated(t)'
    BY <2>1 DEF NotOutdated
  <2>3. ScopesAgree'
    BY <2>1 DEF ScopesAgree
  <2>4. ASSUME NEW u \in Threads, u # t PROVE NotOutdated(u)'
    BY <1>2, <2>1, <2>4 DEF SearchInv, NotOutdated, OthersStay, Owns, Device
  <2>q. QED BY <2>2, <2>3, <2>4
<1>10. CASE ReadHead(t) /\ ~Return(t)
  <2>1. /\ UNCHANGED data /\ pc[t] = "readHead" /\ pc'[t] \in {"revive", "stage"}
        /\ Owns(Device(t), head[d]) /\ d \notin tomb
        /\ job'[t].doc = d /\ job'[t].old = head[d] /\ job'[t].scope = job[t].scope
    BY <1>1, <1>3, <1>10 DEF ReadHead, GoTo, Jobs, Working, SyncSteps, RemoveSteps
  <2>2. Approved => GoesByScope(t)
    <3>1. d \in Docs
      BY <1>3, <2>1 DEF SyncSteps, Working, RemoveSteps
    <3>q. QED BY <1>4, <2>1, <3>1 DEF SearchInv, ScopesAgree, GoesByScope, ScopeSteps
  <2>3. NotOutdated(t)'
    BY <1>4, <2>1 DEF NotOutdated, ScopeSteps
  <2>q. QED BY <1>2, <2>1, <2>2, <2>3, ReadsAgree DEF data
<1>11. CASE (MarkRead(t) \/ NextRemoval(t)) /\ ~Return(t)
  <2>1. UNCHANGED data /\ pc[t] # "idle" /\ pc'[t] \notin ScopeSteps
    BY <1>1, <1>11 DEF MarkRead, NextRemoval, GoTo, ScopeSteps
  <2>2. job'[t].old = old \/ \E e \in Docs : job'[t].old = head[e]
    <3>1. CASE MarkRead(t)
      BY <1>1, <1>3, <1>11, <3>1 DEF MarkRead, GoTo, Jobs, SyncSteps, Working, RemoveSteps
    <3>2. CASE NextRemoval(t)
      <4>1. job[t] \in Jobs /\ job[t].todo \subseteq Docs
        BY <1>3, <3>2 DEF NextRemoval, Jobs, Working, SyncSteps, RemoveSteps
      <4>2. PICK e \in job[t].todo :
              \/ job' = [job EXCEPT ![t].todo = @ \ {e}]
              \/ job' = [job EXCEPT ![t].doc = e, ![t].old = head[e], ![t].todo = @ \ {e}]
        BY <1>11, <3>2 DEF NextRemoval
      <4>3. CASE job' = [job EXCEPT ![t].todo = @ \ {e}]
        BY <1>1, <4>1, <4>3 DEF Jobs
      <4>4. CASE job' = [job EXCEPT ![t].doc = e, ![t].old = head[e], ![t].todo = @ \ {e}]
        BY <1>1, <4>1, <4>4 DEF Jobs
      <4>q. QED BY <4>2, <4>3, <4>4
    <3>q. QED BY <1>11, <3>1, <3>2
  <2>3. Approved => GoesByScope(t)
    BY <1>4, <2>1, <2>2 DEF SearchInv, ScopesAgree, GoesByScope
  <2>4. NotOutdated(t)'
    BY <2>1 DEF NotOutdated
  <2>q. QED BY <1>2, <2>1, <2>3, <2>4, ReadsAgree DEF data
<1>12. CASE \/ \E ds \in SUBSET Docs, b \in BOOLEAN : RemoveStart(t, ds, b)
            \/ \E e \in Docs : SyncStart(t, e)
            \/ DeleteChunks(t) /\ ~Return(t)
  <2>1. /\ pc'[t] \notin ScopeSteps /\ job'[t].old = NoHead
        /\ UNCHANGED <<head, tomb, approval>>
    <3>1. ASSUME NEW ds \in SUBSET Docs, NEW b \in BOOLEAN, RemoveStart(t, ds, b)
          PROVE  pc'[t] = "nextRemoval" /\ job'[t].old = NoHead /\ UNCHANGED <<head, tomb, approval>>
      BY <1>1, <3>1 DEF RemoveStart, GoTo, Removal, data
    <3>2. ASSUME NEW e \in Docs, SyncStart(t, e)
          PROVE  pc'[t] \in {"markRead", "resolve"} /\ job'[t].old = NoHead /\ UNCHANGED <<head, tomb, approval>>
      BY <1>1, <3>2 DEF SyncStart, GoTo, data
    <3>3. ASSUME DeleteChunks(t), ~Return(t)
          PROVE  pc'[t] = "nextRemoval" /\ job'[t].old = NoHead /\ UNCHANGED <<head, tomb, approval>>
      BY <1>1, <3>3 DEF DeleteChunks, GoTo, Removal
    <3>q. QED BY <1>12, <3>1, <3>2, <3>3 DEF ScopeSteps
  <2>2. GoesByScope(t) /\ NotOutdated(t)'
    BY <2>1 DEF GoesByScope, NotOutdated
  <2>q. QED BY <1>2, <2>1, <2>2, ReadsAgree
<1>13. CASE Commit(t)
  <2> DEFINE h == [rev |-> job[t].rev, scope |-> job[t].scope,
                   state |-> "active", writer |-> Device(t)]
  <2>1. /\ pc[t] = "commit" /\ head' = [head EXCEPT ![d] = h] /\ UNCHANGED <<tomb, approval>>
        /\ pc'[t] \in {"idle", "cleanup"} /\ (pc'[t] = "cleanup" => job' = job)
    BY <1>1, <1>13 DEF Commit, GoTo, Return
  <2>2. h \in Heads /\ h.writer = Device(t) /\ h.scope = job[t].scope /\ d \in Docs
    BY <1>3, <2>1, DeviceTyped DEF JobTyped, PublishSteps, Heads, Jobs, SyncSteps, Working, RemoveSteps
  <2>3. (Approved => h.scope = approval.scope /\ GoesByScope(t)) /\ pc'[t] \notin ScopeSteps
    BY <1>4, <2>1, <2>2 DEF GoesByScope, ScopeSteps
  <2>4. pc[t] \in SyncSteps
    BY <2>1 DEF SyncSteps
  <2> HIDE DEF h
  <2>q. QED BY <1>2, <2>1, <2>2, <2>3, <2>4, WritesAgree
<1>14. CASE Revive(t) \/ MarkCommit(t) \/ DeleteHead(t)
  <2>1. PICK st \in {"active", "pending_delete", "deleted"} :
          head' = [head EXCEPT ![d] = [old EXCEPT !.state = st, !.writer = Device(t)]]
    BY <1>14 DEF Revive, MarkCommit, DeleteHead
  <2> DEFINE h == [old EXCEPT !.state = st, !.writer = Device(t)]
  <2>2. /\ pc[t] \in {"revive", "markCommit", "deleteHead"} /\ UNCHANGED <<tomb, approval>>
        /\ pc'[t] \in {"idle", "deleteChunks"} /\ (pc'[t] = "deleteChunks" => job' = job)
    BY <1>1, <1>14 DEF Revive, MarkCommit, DeleteHead, GoTo, Return
  <2>3. old \in Heads /\ d \in Docs
    BY <1>3, <2>2 DEF JobTyped, DecidedSteps, DeleteSteps, SyncSteps, Working, RemoveSteps
  <2>4. h \in Heads /\ h.writer = Device(t) /\ h.scope = old.scope
    BY <2>3, DeviceTyped DEF Heads
  <2>5. pc[t] \in SyncSteps \/ d \in tomb
    BY <1>4, <2>2 DEF SyncSteps, DecisionHolds
  <2>6. (Approved => h.scope = approval.scope /\ GoesByScope(t)) /\ pc'[t] \notin ScopeSteps
    BY <1>4, <2>2, <2>3, <2>4, NoHeadNotHead DEF GoesByScope, ScopeSteps
  <2> HIDE DEF h
  <2>q. QED BY <1>2, <2>1, <2>2, <2>3, <2>4, <2>5, <2>6, WritesAgree DEF h
<1>15. CASE /\ Return(t)
            /\ Verify(t) \/ ReadHead(t) \/ MarkRead(t) \/ NextRemoval(t) \/ DeleteChunks(t)
  BY <1>5, <1>15 DEF Verify, ReadHead, MarkRead, NextRemoval, DeleteChunks, data
<1>q. QED
  BY <1>6, <1>7, <1>8, <1>9, <1>10, <1>11, <1>12, <1>13, <1>14, <1>15 DEF SyncStep, RemoveStep

(* Every step keeps the invariant.                                          *)
LEMMA NextSearch ==
  ASSUME OneProcessPerDevice, OnePublisher
  PROVE  SearchInv /\ [PubNext]_pubVars => SearchInv'
<1> SUFFICES ASSUME SearchInv, [PubNext]_pubVars PROVE ScopesAgree' /\ \A u \in Threads : NotOutdated(u)'
  BY NextSafe DEF SearchInv
<1>1. CASE Edit \/ UNCHANGED pubVars
  <2>1. UNCHANGED <<head, tomb, approval, pc, job>>
    BY <1>1 DEF Edit, EditFile, EditManifest, pubVars
  <2>q. QED BY <2>1 DEF SearchInv, ScopesAgree, Approved, NotOutdated, Owns, Device
<1>2. CASE Starts
  BY <1>2, StepAgrees DEF Starts, Remove, Prune, Prunable
<1>3. CASE Steps \/ CallFails
  BY <1>3, StepAgrees DEF Steps, CallFails
<1>4. CASE Crashes
  <2>1. PICK p \in Procs : Crash(p)
    BY <1>4 DEF Crashes
  <2>2. /\ UNCHANGED <<head, tomb, approval>>
        /\ \A u \in Threads : pc'[u] = "idle" \/ (pc'[u] = pc[u] /\ job'[u] = job[u])
    BY <2>1 DEF Crash, data
  <2>q. QED BY <2>2 DEF SearchInv, ScopesAgree, Approved, NotOutdated, ScopeSteps, Owns, Device
<1>q. QED BY <1>1, <1>2, <1>3, <1>4 DEF PubNext

(* A head that is written stays of the scope that is searched.              *)
LEMMA WriteStaysFound ==
  ASSUME OneProcessPerDevice, OnePublisher, SearchInv, NEW t \in Threads,
         Commit(t) \/ Revive(t) \/ MarkCommit(t) \/ DeleteHead(t),
         job[t].doc \notin tomb, approval # NoApproval,
         head[job[t].doc] # NoHead, head[job[t].doc].scope = approval.scope
  PROVE  LET h == head'[job[t].doc]
         IN  h # NoHead /\ h.state # "deleted" /\ h.scope = approval.scope
<1> DEFINE d == job[t].doc
           old == job[t].old
<1>1. head \in [Docs -> Heads \union {NoHead}] /\ TypeInv /\ DecisionHolds(t) /\ NotOutdated(t)
  BY DEF SearchInv, SafeInv, TypeInv, ControlTyped, DataTyped
<1>2. pc[t] \in {"commit", "revive", "markCommit"} /\ ~DeleteHead(t)
  BY <1>1 DEF Commit, Revive, MarkCommit, DeleteHead, DecisionHolds, GoTo
<1>3. d \in Docs /\ head[d] = old /\ job[t] \in Jobs /\ JobTyped(t)
  BY <1>1, <1>2, TypeInvSplit, JobFields DEF DecisionHolds, WriteSteps, SyncSteps, Working, RemoveSteps
<1>4. CASE Commit(t)
  <2> DEFINE h == [rev |-> job[t].rev, scope |-> job[t].scope,
                   state |-> "active", writer |-> Device(t)]
  <2>1. pc[t] = "commit" /\ head'[d] = h
    BY <1>1, <1>3, <1>4 DEF Commit
  <2>2. h \in Heads
    BY <1>3, <2>1, DeviceTyped DEF JobTyped, PublishSteps, Heads, Jobs
  <2>3. job[t].scope = approval.scope
    <3>1. CASE Approved
      BY <2>1, <3>1 DEF SearchInv, ScopesAgree, ScopeSteps
    <3>2. CASE ~Approved
      BY <1>1, <1>3, <2>1, <3>2 DEF Approved, NotOutdated, ScopeSteps
    <3>q. QED BY <3>1, <3>2
  <2>q. QED BY <2>1, <2>2, <2>3, NoHeadNotHead
<1>5. CASE Revive(t) \/ MarkCommit(t)
  <2>1. PICK st \in {"active", "pending_delete"} :
          head' = [head EXCEPT ![d] = [old EXCEPT !.state = st, !.writer = Device(t)]]
    BY <1>5 DEF Revive, MarkCommit
  <2> DEFINE h == [old EXCEPT !.state = st, !.writer = Device(t)]
  <2>2. old \in Heads
    BY <1>1, <1>3
  <2>3. h \in Heads /\ h.state = st /\ h.scope = old.scope
    BY <2>2, DeviceTyped DEF Heads
  <2>4. head'[d] = h
    BY <1>1, <1>3, <2>1
  <2>q. QED BY <1>3, <2>3, <2>4, NoHeadNotHead
<1>q. QED BY <1>2, <1>4, <1>5

(* Under the same two assumptions, a document that searches return is       *)
(* returned by every search until it is removed or the approval of the      *)
(* program changes, whatever updates, marks, failures and crashes happen.   *)
THEOREM UpdateNeverHidesAlways ==
  ASSUME OneProcessPerDevice, OnePublisher
  PROVE  PubSpec => UpdateNeverHides
<1> DEFINE Stays == \A d \in Docs : Served(d) # {} /\ Served(d)' = {}
                                      => d \in tomb' \/ approval' # approval
<1>1. SearchInv /\ [PubNext]_pubVars => [Stays]_pubVars
  <2> SUFFICES ASSUME SearchInv, PubNext, NEW d \in Docs, Served(d) # {},
                      d \notin tomb', approval' = approval
               PROVE  Served(d)' # {}
    OBVIOUS
  <2>1. SearchInv'
    BY NextSearch
  <2>2. /\ approval # NoApproval /\ head[d] # NoHead /\ head[d].state # "deleted"
        /\ KeyOf(head[d])[2] = approval.scope
    BY DEF Served, ExpectedScope
  <2>3. head[d].scope = approval.scope /\ d \notin tomb
    BY <2>2 DEF KeyOf, Served
  <2>4. /\ head'[d] # NoHead /\ head'[d].state # "deleted" /\ head'[d].scope = approval.scope
    BY <2>2, <2>3, HeadWriters, WriteStaysFound DEF SearchInv, SafeInv
  <2>5. chunks'[d][KeyOf(head'[d])] = Chunks /\ head'[d] \in Heads
    BY <2>1, <2>4 DEF SearchInv, SafeInv, HeadComplete, TypeInv, ControlTyped, DataTyped
  <2>6. KeyOf(head'[d]) \in Keys /\ KeyOf(head'[d])[2] = approval.scope
    BY <2>4, <2>5 DEF KeyOf, Keys, Heads
  <2>7. KeyOf(head'[d]) \in Served(d)'
    BY <2>2, <2>4, <2>5, <2>6, PublicationAssumption DEF Served, ExpectedScope
  <2>q. QED BY <2>7
<1> HIDE DEF Stays
<1>2. PubSpec => [][Stays]_pubVars
  BY <1>1, InitSearch, NextSearch, PTL DEF PubSpec
<1>q. QED BY <1>2 DEF Stays, UpdateNeverHides
===============================================================================
