SPECIFICATION PubSpec
CONSTANTS
  t1 = t1  t2 = t2  t3 = t3  pa = pa  pb = pb  a = a  b = b
  d1 = d1  d2 = d2  r1 = r1  r2 = r2  m1 = m1
  Threads = {t1, t3}
  Procs = {pa, pb}
  Devices = {a}
  ProcOf <- MCProcOf
  DeviceOf <- MCDeviceOf
  Docs = {d1}
  ManifestDoc = d2
  Revs = {r1, r2}
  Manifests = {m1}
  Workspace <- MCWorkspace
  Owner <- MCOwner
  Chunks = 1
  Missing = Missing  Unapproved = Unapproved  Nobody = Nobody
  NoHead = NoHead  NoApproval = NoApproval  NoJob = NoJob
INVARIANT HeadComplete
