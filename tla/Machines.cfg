SPECIFICATION MachinesSpec
CONSTANTS
  Auditors <- MCGoroutines
  AuditProcs = {"p1", "p2"}
  AuditProc <- MCProcOf
  MaxRecords = 1
  MaxRotations = 2
  MaxOps = 3
  InfraCallers <- MCGoroutines
  InfraProcs = {"p1", "p2"}
  InfraProc <- MCProcOf
  Fingerprints = {"f1", "f2", "f3"}
  Dimension <- MCDimension
  Setups <- MCSetups
  Absent = Absent
  Found = 2
  Pool = {"w1", "w2"}
  Sends = {"s1", "s2", "s3"}
  Path <- MCPath
  Bytes <- MCBytes
  Paths = {"doc", "scope"}
  Manifests = {"scope"}
  Nothing = "nothing"
  Foreign = "foreign"
  MaxSends = 2
  MaxEdits = 1
  MaxMessages = 2
  Breaks = TRUE
INVARIANTS MachinesTypeOK NothingAfterGap ReadyIsCompatible ReportHonest AnsweredOnce
PROPERTIES YoungFilesKept DocumentsKept MachinesReturn
CHECK_DEADLOCK FALSE
