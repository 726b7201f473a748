-------------------------------- MODULE Machines --------------------------------
(***************************************************************************)
(* The machines of the system that share no state, side by side: the audit *)
(* trail, the reconciliation of the infrastructure, the ingestion of a     *)
(* workspace, documents sent by members, and a session of an agent.  A     *)
(* behaviour is a behaviour of one of them, its part; the others stay in   *)
(* one of their initial states.  So a run of this module is a run of each. *)
(***************************************************************************)
EXTENDS AuditLog, Infrastructure, WorkspaceSync, RemoteDocument, McpSession

VARIABLE part

Parts == {"audit", "infrastructure", "workspace", "remote", "mcp"}

\* Where a machine has several initial states, the resting one has this.
Resting ==
  /\ part = "audit" \/ \A p \in AuditProcs :
       (age[<<p, MaxRotations>>] = "old") = (p = CHOOSE q \in AuditProcs : TRUE)
  /\ \/ part = "infrastructure"
     \/ manifest = Absent /\ \A p \in InfraProcs : setup[p] = CHOOSE s \in Setups : TRUE
  /\ part = "mcp" \/ mayApprove = FALSE

MachinesInit ==
  /\ part \in Parts
  /\ AuditInit /\ InfraInit /\ WorkspaceInit /\ RemoteInit /\ McpInit
  /\ Resting

MachinesNext ==
  /\ \/ part = "audit" /\ AuditNext /\ UNCHANGED <<infraVars, workspaceVars, remoteVars, mcpVars>>
     \/ part = "infrastructure" /\ InfraNext /\ UNCHANGED <<auditVars, workspaceVars, remoteVars, mcpVars>>
     \/ part = "workspace" /\ WorkspaceNext /\ UNCHANGED <<auditVars, infraVars, remoteVars, mcpVars>>
     \/ part = "remote" /\ RemoteNext /\ UNCHANGED <<auditVars, infraVars, workspaceVars, mcpVars>>
     \/ part = "mcp" /\ McpNext /\ UNCHANGED <<auditVars, infraVars, workspaceVars, remoteVars>>
  /\ UNCHANGED part

machinesVars == <<part, auditVars, infraVars, workspaceVars, remoteVars, mcpVars>>

MachinesFairness ==
  /\ \A t \in Auditors : WF_auditVars(part = "audit" /\ AuditStep(t))
  /\ \A c \in InfraCallers : WF_infraVars(part = "infrastructure" /\ (InfraStep(c) \/ InfraFails(c)))
  /\ \A c \in SharedCallers : SF_infraVars(part = "infrastructure" /\ LockInfra(c))
  /\ WF_workspaceVars(part = "workspace" /\ WorkspaceStep)
  /\ \A w \in Pool : WF_workspaceVars(part = "workspace" /\ Synchronized(w))
  /\ \A r \in Sends : WF_remoteVars(part = "remote" /\ RequestStep(r))
  /\ \A a \in Publishers : WF_remoteVars(part = "remote" /\ CommitHead(a))
  /\ \A r \in Sends : SF_remoteVars(part = "remote" /\ ReadVisible(r))
  /\ WF_mcpVars(part = "mcp" /\ (Dispatch \/ InputEnds)) /\ WF_mcpVars(part = "mcp" /\ Shutdown)
  /\ \A i \in 1..MaxMessages : WF_mcpVars(part = "mcp" /\ ToolAnswers(i))

MachinesSpec == MachinesInit /\ [][MachinesNext]_machinesVars /\ MachinesFairness
----------------------------------------------------------------------------
\* The types of the five machines.
MachinesTypeOK == AuditTypeOK /\ InfraTypeOK /\ WorkspaceTypeOK /\ RemoteTypeOK /\ McpTypeOK

(***************************************************************************)
(* Whoever calls one of the machines is answered, and a process ends when  *)
(* its agent has left, although mutexes and channels are shared, calls     *)
(* fail, contexts end and peers come and go at any moment.                 *)
(***************************************************************************)
MachinesReturn ==
  ProcessEnds /\ RequestAnswered /\ RecordReturns /\ InfraReturns /\ IngestReturns /\ SendsAnswered
================================================================================
