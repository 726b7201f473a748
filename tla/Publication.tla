------------------------------ MODULE Publication ------------------------------
(***************************************************************************)
(* Publication of recon documents by hive_mind writers                     *)
(* (server/revision.go, and resolveActiveScope of server/scope.go).        *)
(*                                                                         *)
(* A writer process runs threads: the workers of SyncWorkspace, the        *)
(* goroutines of the watcher, the HTTP handlers, a CLI command.  A thread  *)
(* synchronizes a document (SyncFileState), marks it pending_delete when   *)
(* its file is gone, or removes it (RemoveDocument, PrunePending).  Every  *)
(* call to Qdrant is an action of its own, so threads, processes and       *)
(* devices interleave between calls, and any call may fail.                *)
(*                                                                         *)
(* The model is about one program.  A revision is the content of the file  *)
(* with the parser and chunker fingerprints; a scope is the hash of a      *)
(* manifest, or Unapproved.  upsertControl is one atomic action here; the  *)
(* protocol inside it is the subject of ControlRecord.                     *)
(***************************************************************************)
EXTENDS Integers, FiniteSets

CONSTANTS
  Threads,     \* threads of control of the writer processes
  Procs,       \* writer processes
  Devices,     \* HIVE_DEVICE_ID values
  ProcOf,      \* the process of a thread
  DeviceOf,    \* the device of a process
  Docs,        \* document ids of the program
  ManifestDoc, \* the id of programs/<program>/scope.json
  Revs,        \* document revisions a file may produce
  Manifests,   \* hashes of the scope.json files
  Workspace,   \* the documents a device's HIVE_DATA_DIR may hold
  Owner,       \* writer of the head a document has initially, or NoHead
  Chunks       \* chunk_count of a revision

CONSTANTS Missing, Unapproved, Nobody, NoHead, NoApproval, NoJob

ASSUME PublicationAssumption ==
  /\ ProcOf \in [Threads -> Procs]
  /\ DeviceOf \in [Procs -> Devices]
  /\ Workspace \in [Devices -> SUBSET Docs]
  /\ Owner \in [Docs -> Devices \union {Nobody, NoHead}]
  /\ Chunks \in Nat \ {0}
  /\ Missing \notin Revs \union Manifests
  /\ Unapproved \notin Manifests \union {Missing}
  /\ Nobody \notin Devices
  /\ NoHead \notin Devices \union {Nobody}

ASSUME NoHeadIsNoRecord ==
  \A r \in Revs, s \in Manifests \union {Unapproved}, w \in Devices \union {Nobody} :
    \A st \in {"active", "pending_delete", "deleted"} :
      NoHead # [rev |-> r, scope |-> s, state |-> st, writer |-> w]

ASSUME NoApprovalIsNoRecord ==
  \A s \in Manifests \union {Unapproved}, w \in Devices \union {Nobody} :
    NoApproval # [scope |-> s, by |-> w]

VARIABLES
  file,      \* content of each document in each device's HIVE_DATA_DIR
  manifest,  \* scope.json in each device's HIVE_DATA_DIR
  chunks,    \* data collection: stored chunks of each (revision, scope)
  head,      \* control collection: document_head records
  tomb,      \* control collection: documents with a tombstone record
  approval,  \* control collection: the scope_approval record
  pc,        \* where each thread stands
  job        \* what each thread has read so far

pubVars == <<file, manifest, chunks, head, tomb, approval, pc, job>>

Device(t) == DeviceOf[ProcOf[t]]

Scopes == Manifests \union {Unapproved}
Keys   == Revs \X Scopes
Heads  == [rev : Revs, scope : Scopes,
           state : {"active", "pending_delete", "deleted"},
           writer : Devices \union {Nobody}]

Approvals == {[scope |-> Unapproved, by |-> Nobody]}
             \union [scope : Manifests, by : Devices]

SyncSteps   == {"resolve", "demote", "readHead", "stage", "verify", "commit",
                "cleanup", "revive", "markRead", "markCommit"}
RemoveSteps == {"nextRemoval", "tombstone", "deleteHead", "deleteChunks"}

Jobs == [doc : Docs \union {Missing}, rev : Revs \union {Missing}, scope : Scopes,
         old : Heads \union {NoHead}, todo : SUBSET Docs, pruning : BOOLEAN]

KeyOf(h) == <<h.rev, h.scope>>

(* Mutant: the owner of a head is not checked. *)
OwnsAnything(dev, h) == TRUE

Owns(dev, h) == h = NoHead \/ h.writer \in {Nobody, dev}

(* What controlScopeRevision answers to a search. *)
ExpectedScope == approval.scope

(* Mutant: only active heads are searched. *)
ServedActive(d) ==
  IF approval = NoApproval \/ d \in tomb \/ head[d] = NoHead \/ head[d].state # "active"
  THEN {}
  ELSE {k \in Keys : chunks[d][k] > 0 /\ k = KeyOf(head[d]) /\ k[2] = ExpectedScope}

(* filterActiveCandidates: the chunks of d that a search may return.  It is *)
(* an error, and nothing is returned, while there is no approval record.    *)
Served(d) ==
  IF approval = NoApproval \/ d \in tomb \/ head[d] = NoHead \/ head[d].state = "deleted"
  THEN {}
  ELSE {k \in Keys : chunks[d][k] > 0 /\ k = KeyOf(head[d]) /\ k[2] = ExpectedScope}

-------------------------------------------------------------------------------

TypeOK ==
  /\ file \in [Devices -> [Docs -> Revs \union {Missing}]]
  /\ manifest \in [Devices -> Manifests \union {Missing}]
  /\ chunks \in [Docs -> [Keys -> 0..Chunks]]
  /\ head \in [Docs -> Heads \union {NoHead}]
  /\ tomb \in SUBSET Docs
  /\ approval \in Approvals \union {NoApproval}
  /\ pc \in [Threads -> {"idle"} \union SyncSteps \union RemoveSteps]
  /\ job \in [Threads -> Jobs \union {NoJob}]

(* Published documents are complete under the scope in force; the approver *)
(* still has the manifest it approved.                                     *)
Init ==
  /\ file \in {f \in [Devices -> [Docs -> Revs \union {Missing}]] :
                 \A v \in Devices, d \in Docs : d \notin Workspace[v] => f[v][d] = Missing}
  /\ manifest \in [Devices -> Manifests \union {Missing}]
  /\ approval \in {a \in Approvals : a.by # Nobody => manifest[a.by] = a.scope}
                  \union (IF \A d \in Docs : Owner[d] = NoHead THEN {NoApproval} ELSE {})
  /\ \E r \in [Docs -> Revs] :
       LET scope == IF approval = NoApproval THEN Unapproved ELSE approval.scope
       IN  /\ head = [d \in Docs |->
                        IF Owner[d] = NoHead THEN NoHead
                        ELSE [rev |-> r[d], scope |-> scope,
                              state |-> "active", writer |-> Owner[d]]]
           /\ chunks = [d \in Docs |-> [k \in Keys |->
                          IF Owner[d] # NoHead /\ k = <<r[d], scope>> THEN Chunks ELSE 0]]
  /\ tomb = {}
  /\ pc = [t \in Threads |-> "idle"]
  /\ job = [t \in Threads |-> NoJob]

-------------------------------------------------------------------------------
(* Files are edited, created and deleted by the people who use the hive.    *)

EditFile(v, d) ==
  /\ d \in Workspace[v]
  /\ \E c \in (Revs \union {Missing}) \ {file[v][d]} :
       file' = [file EXCEPT ![v][d] = c]
  /\ UNCHANGED <<manifest, chunks, head, tomb, approval, pc, job>>

EditManifest(v) ==
  /\ \E m \in (Manifests \union {Missing}) \ {manifest[v]} :
       manifest' = [manifest EXCEPT ![v] = m]
  /\ UNCHANGED <<file, chunks, head, tomb, approval, pc, job>>

-------------------------------------------------------------------------------
(* Control flow of a thread. *)

data == <<file, manifest, chunks, head, tomb, approval>>

GoTo(t, from, to) == pc[t] = from /\ pc' = [pc EXCEPT ![t] = to]

Return(t) ==
  /\ pc' = [pc EXCEPT ![t] = "idle"]
  /\ job' = [job EXCEPT ![t] = NoJob]

(* Mutant: no lock. *)
LockIgnored(t, d) == TRUE

(* documentSyncLocks: within a process, one synchronization per document.   *)
LockFree(t, d) ==
  \A u \in Threads :
    ProcOf[u] = ProcOf[t] /\ pc[u] \in SyncSteps => job[u].doc # d

(* syncFileResult, up to the content of the file; a missing scope.json has   *)
(* its approval withdrawn before it is marked.                               *)
SyncStart(t, d) ==
  LET content == file[Device(t)][d]
  IN  /\ d \in Workspace[Device(t)]
      /\ LockFree(t, d)
      /\ GoTo(t, "idle", IF content = Missing /\ d # ManifestDoc THEN "markRead" ELSE "resolve")
      /\ job' = [job EXCEPT ![t] = [doc |-> d, rev |-> content, scope |-> Unapproved,
                                    old |-> NoHead, todo |-> {}, pruning |-> FALSE]]
      /\ UNCHANGED data

(* resolveActiveScope reads the approval.  The approving device holds it to *)
(* its own scope.json; other devices take the recorded revision.            *)
MustDemote(v) ==
  \/ approval = NoApproval
  \/ approval.by = v /\ manifest[v] # approval.scope

Resolved(t) == IF job[t].rev = Missing THEN "markRead" ELSE "readHead"

ResolveScope(t) ==
  /\ IF MustDemote(Device(t))
     THEN GoTo(t, "resolve", "demote") /\ job' = job
     ELSE /\ GoTo(t, "resolve", Resolved(t))
          /\ job' = [job EXCEPT ![t].scope = approval.scope]
  /\ UNCHANGED data

(* It creates the record, or invalidates the approval it read before. *)
DemoteScope(t) ==
  /\ GoTo(t, "demote", Resolved(t))
  /\ approval' = [scope |-> Unapproved, by |-> Nobody]
  /\ job' = [job EXCEPT ![t].scope = Unapproved]
  /\ UNCHANGED <<file, manifest, chunks, head, tomb>>

JobKey(t) == <<job[t].rev, job[t].scope>>

(* Mutant: a document is unchanged when its content is. *)
CurrentContent(t, h) == h.rev = job[t].rev

Current(t, h) == KeyOf(h) = JobKey(t)

(* The decisions syncFileResult takes on the head and the tombstone. *)
ReadHead(t) ==
  LET d == job[t].doc
      h == head[d]
      refused   == ~Owns(Device(t), h) \/ d \in tomb \/ (h # NoHead /\ h.state = "deleted")
      same      == h # NoHead /\ Current(t, h)
      unchanged == same /\ h.state = "active"
  IN  /\ pc[t] = "readHead"
      /\ IF refused \/ unchanged
         THEN Return(t)
         ELSE /\ GoTo(t, "readHead", IF same THEN "revive" ELSE "stage")
              /\ job' = [job EXCEPT ![t].old = h]
      /\ UNCHANGED data

(* The same revision is still published: only the mark is withdrawn. *)
Revive(t) ==
  LET d == job[t].doc
  IN  /\ pc[t] = "revive"
      /\ head' = [head EXCEPT ![d] = [job[t].old EXCEPT !.state = "active",
                                                        !.writer = Device(t)]]
      /\ Return(t)
      /\ UNCHANGED <<file, manifest, chunks, tomb, approval>>

(* Mutant: chunk ids are not deterministic, so staging again adds chunks. *)
StageAgain(t) ==
  /\ GoTo(t, "stage", "verify")
  /\ chunks' = [chunks EXCEPT ![job[t].doc][JobKey(t)] = @ + Chunks]
  /\ UNCHANGED <<file, manifest, head, tomb, approval, job>>

Stage(t) ==
  /\ GoTo(t, "stage", "verify")
  /\ chunks' = [chunks EXCEPT ![job[t].doc][JobKey(t)] = Chunks]
  /\ UNCHANGED <<file, manifest, head, tomb, approval, job>>

(* The call fails and leaves some of the points behind. *)
StagePartly(t) ==
  LET d == job[t].doc
  IN  /\ pc[t] = "stage"
      /\ \E n \in chunks[d][JobKey(t)]..Chunks :
           chunks' = [chunks EXCEPT ![d][JobKey(t)] = n]
      /\ Return(t)
      /\ UNCHANGED <<file, manifest, head, tomb, approval>>

Verify(t) ==
  /\ pc[t] = "verify"
  /\ IF chunks[job[t].doc][JobKey(t)] = Chunks
     THEN GoTo(t, "verify", "commit") /\ job' = job
     ELSE Return(t)
  /\ UNCHANGED data

(* The head moves to the new revision. *)
Commit(t) ==
  LET d   == job[t].doc
      old == job[t].old
  IN  /\ pc[t] = "commit"
      /\ head' = [head EXCEPT ![d] = [rev |-> job[t].rev, scope |-> job[t].scope,
                                      state |-> "active", writer |-> Device(t)]]
      /\ IF old # NoHead /\ KeyOf(old) # JobKey(t)
         THEN GoTo(t, "commit", "cleanup") /\ job' = job
         ELSE Return(t)
      /\ UNCHANGED <<file, manifest, chunks, tomb, approval>>

(* The chunks of the head read before are deleted, or only some of them. *)
Cleanup(t) ==
  LET d == job[t].doc
      k == KeyOf(job[t].old)
  IN  /\ pc[t] = "cleanup"
      /\ \E n \in 0..chunks[d][k] : chunks' = [chunks EXCEPT ![d][k] = n]
      /\ Return(t)
      /\ UNCHANGED <<file, manifest, head, tomb, approval>>

-------------------------------------------------------------------------------
(* MarkPendingDelete, called by the synchronization of a missing file. *)

MarkRead(t) ==
  LET h == head[job[t].doc]
  IN  /\ pc[t] = "markRead"
      /\ IF h # NoHead /\ Owns(Device(t), h) /\ h.state = "active"
         THEN GoTo(t, "markRead", "markCommit") /\ job' = [job EXCEPT ![t].old = h]
         ELSE Return(t)
      /\ UNCHANGED data

MarkCommit(t) ==
  /\ pc[t] = "markCommit"
  /\ head' = [head EXCEPT ![job[t].doc] = [job[t].old EXCEPT !.state = "pending_delete",
                                                             !.writer = Device(t)]]
  /\ Return(t)
  /\ UNCHANGED <<file, manifest, chunks, tomb, approval>>

-------------------------------------------------------------------------------
(* RemoveDocument, for one document an operator names or, one after the     *)
(* other, for the pending documents whose grace period PrunePending finds   *)
(* elapsed.  No lock is taken.                                              *)

Removal(ds, pruning) ==
  [doc |-> Missing, rev |-> Missing, scope |-> Unapproved, old |-> NoHead,
   todo |-> ds, pruning |-> pruning]

RemoveStart(t, ds, pruning) ==
  /\ GoTo(t, "idle", "nextRemoval")
  /\ job' = [job EXCEPT ![t] = Removal(ds, pruning)]
  /\ UNCHANGED data

Remove(t, d) == RemoveStart(t, {d}, FALSE)

Prunable(v) == {d \in Docs : /\ head[d] # NoHead
                             /\ head[d].state = "pending_delete"
                             /\ Owns(v, head[d])}

Prune(t) == \E ds \in SUBSET Prunable(Device(t)) : ds # {} /\ RemoveStart(t, ds, TRUE)

NextRemoval(t) ==
  /\ pc[t] = "nextRemoval"
  /\ IF job[t].todo = {}
     THEN Return(t)
     ELSE \E d \in job[t].todo :
            IF head[d] = NoHead
            THEN /\ job' = [job EXCEPT ![t].todo = @ \ {d}]
                 /\ pc' = pc
            ELSE IF ~Owns(Device(t), head[d])
            THEN Return(t)
            ELSE /\ GoTo(t, "nextRemoval", "tombstone")
                 /\ job' = [job EXCEPT ![t].doc = d, ![t].old = head[d],
                                       ![t].todo = @ \ {d}]
  /\ UNCHANGED data

WriteTombstone(t) ==
  /\ GoTo(t, "tombstone", "deleteHead")
  /\ tomb' = tomb \union {job[t].doc}
  /\ UNCHANGED <<file, manifest, chunks, head, approval, job>>

DeleteHead(t) ==
  /\ GoTo(t, "deleteHead", "deleteChunks")
  /\ head' = [head EXCEPT ![job[t].doc] = [job[t].old EXCEPT !.state = "deleted",
                                                             !.writer = Device(t)]]
  /\ UNCHANGED <<file, manifest, chunks, tomb, approval, job>>

(* All chunks of the document are deleted, and counted; a deletion that is  *)
(* incomplete ends the removal.                                             *)
DeleteChunks(t) ==
  /\ pc[t] = "deleteChunks"
  /\ \E left \in SUBSET Keys :
       /\ chunks' = [chunks EXCEPT ![job[t].doc] =
                       [k \in Keys |-> IF k \in left THEN @[k] ELSE 0]]
       /\ IF left = {}
          THEN /\ GoTo(t, "deleteChunks", "nextRemoval")
               /\ job' = [job EXCEPT ![t] = Removal(@.todo, @.pruning)]
          ELSE Return(t)
  /\ UNCHANGED <<file, manifest, head, tomb, approval>>

-------------------------------------------------------------------------------

(* Any call may fail or be cancelled: the operation returns an error.  That *)
(* a call took effect and its answer was lost is the step, then Fail.       *)
Fail(t) ==
  /\ pc[t] \in SyncSteps \union RemoveSteps
  /\ Return(t)
  /\ UNCHANGED data

(* A process is killed and restarted. *)
Crash(p) ==
  /\ \E t \in Threads : ProcOf[t] = p /\ pc[t] # "idle"
  /\ pc' = [t \in Threads |-> IF ProcOf[t] = p THEN "idle" ELSE pc[t]]
  /\ job' = [t \in Threads |-> IF ProcOf[t] = p THEN NoJob ELSE job[t]]
  /\ UNCHANGED data

SyncStep(t) ==
  \/ ResolveScope(t) \/ DemoteScope(t) \/ ReadHead(t) \/ Revive(t)
  \/ Stage(t) \/ Verify(t) \/ Commit(t) \/ Cleanup(t)
  \/ MarkRead(t) \/ MarkCommit(t)

RemoveStep(t) ==
  NextRemoval(t) \/ WriteTombstone(t) \/ DeleteHead(t) \/ DeleteChunks(t)

CallFails == \E t \in Threads : StagePartly(t) \/ Fail(t)

Crashes == \E p \in Procs : Crash(p)

Edit == \E v \in Devices : EditManifest(v) \/ \E d \in Docs : EditFile(v, d)

Starts == \E t \in Threads : \/ \E d \in Docs : SyncStart(t, d) \/ Remove(t, d)
                             \/ Prune(t)

Steps == \E t \in Threads : SyncStep(t) \/ RemoveStep(t)

PubNext == Edit \/ Starts \/ Steps \/ CallFails \/ Crashes

PubSpec == Init /\ [][PubNext]_pubVars

-------------------------------------------------------------------------------

(* A head that is not deleted names a revision all of whose chunks are      *)
(* stored, whatever fails or crashes: a commit comes after the verified     *)
(* staging, a cleanup never deletes the combination in force (the commit    *)
(* and cleanup steps of syncFileResult).                                    *)
HeadComplete ==
  \A d \in Docs :
    head[d] # NoHead /\ head[d].state # "deleted" /\ d \notin tomb
      => chunks[d][KeyOf(head[d])] = Chunks

(* A document that searches return goes on being returned while it is       *)
(* updated, marked, revived, or its update fails: only a removal, or a      *)
(* change of the program's approval, hides it.                              *)
UpdateNeverHides ==
  [][\A d \in Docs : Served(d) # {} /\ Served(d)' = {}
                      => d \in tomb' \/ approval' # approval]_pubVars

(* The device that published the first revision stays the writer of the     *)
(* head for ever (ownsHead; headPayload).                                   *)
OwnerForLife ==
  [][\A d \in Docs : head[d] # NoHead /\ head[d].writer # Nobody
       => head'[d] # NoHead /\ head'[d].writer = head[d].writer]_pubVars

(* A prune removes only documents that are marked for deletion in the head  *)
(* their removal reads again (the comment on PrunePending).                 *)
PruneRemovesPending ==
  [][\A t \in Threads :
       pc[t] = "tombstone" /\ pc'[t] = "deleteHead" /\ job[t].pruning
         => job[t].old.state # "active"]_pubVars
===============================================================================
