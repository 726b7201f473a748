SPECIFICATION ReadsSpec
CONSTANTS
  t1 = t1  t2 = t2  pa = pa  a = a  d1 = d1  r1 = r1  r2 = r2  m1 = m1
  Threads = {t1}
  Procs = {pa}
  Devices = {a}
  ProcOf <- MCProcOf
  DeviceOf <- MCDeviceOf
  Docs = {d1}
  Revs = {r1}
  Manifests = {m1}
  Workspace <- MCWorkspace
  Owner <- MCOwner
  Chunks = 2
  ApproveAlone = TRUE
  ManifestDoc = d1
  Candidates = {1, 3}
  MaxVersion = 3
  HashOf <- MCHashOf
  Missing = Missing  Unapproved = Unapproved  Nobody = Nobody
  NoHead = NoHead  NoApproval = NoApproval  NoJob = NoJob
INVARIANTS ReadsTypeOK FoundWasNamed SteadyIsFound StatusInForce
