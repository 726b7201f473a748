SPECIFICATION IngestSpec
CONSTANTS
  t1 = t1  t2 = t2  t3 = t3  pa = pa  pb = pb  a = a
  d1 = d1  d2 = d2  r1 = r1  m1 = m1  m2 = m2
  Threads = {t1, t2, t3}
  Procs = {pa, pb}
  Command = pa
  Devices = {a}
  ProcOf <- MCProcOf
  DeviceOf <- MCDeviceOf
  Docs = {d1, d2}
  ManifestDoc = d1
  Revs = {r1}
  Manifests = {m1, m2}
  Workspace <- MCWorkspace
  Owner <- MCOwner
  Chunks = 1
  Missing = Missing  Unapproved = Unapproved  Nobody = Nobody
  NoHead = NoHead  NoApproval = NoApproval  NoJob = NoJob
INVARIANT IngestServes
PROPERTY IngestEnds
