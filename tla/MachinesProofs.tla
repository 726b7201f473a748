----------------------------- MODULE MachinesProofs -----------------------------
(***************************************************************************)
(* Theorems about the five machines of module Machines, for any numbers of *)
(* processes, goroutines, files, requests, messages and configurations.    *)
(*                                                                         *)
(* FileAudit: nothing is recorded after a gap because the gap and the      *)
(* latch arise together (Latches).  A young renamed file is safe because a *)
(* name is used once (Unused), so that a file found old under it can only  *)
(* have gone meanwhile (Condemned).                                        *)
(*                                                                         *)
(* EnsureInfrastructure: a step of a goroutine rests on what earlier steps *)
(* saw (Seen), and that stays true: those who may still write the manifest *)
(* would write what is there, or two of different settings have raced      *)
(* (Agreed); and a process is ready only after the last step.              *)
(*                                                                         *)
(* SyncWorkspace: a file is in one hand at most and not finished before    *)
(* (InHand, Untouched), so that its one result speaks of its own head      *)
(* (Honest), and the sending loop leaves nothing over (Complete).          *)
(*                                                                         *)
(* IngestRemoteDocument: what a request has got done is there as it was    *)
(* sent, unless a person came between (Faithful).  A session of an agent:  *)
(* a message is answered by whoever runs it, and by nobody else (Dialogue).*)
(***************************************************************************)
EXTENDS Machines, FiniteSetTheorems, SequenceTheorems, TLAPS

-----------------------------------------------------------------------------
(***************************************************************************)
(* The audit trail.                                                        *)
(***************************************************************************)
Places == {"idle", "check", "record", "expire", "remove", "lost", "act"}

AuditTypes ==
  /\ AuditTypeOK
  /\ gap \in [AuditProcs -> BOOLEAN] /\ DOMAIN event = Auditors /\ DOMAIN intact = Auditors

\* A process that lost a record is latched, and none recorded after that.
Latches ==
  /\ \A p \in AuditProcs : gap[p] => failed[p]
  /\ \A t \in Auditors : intact[t] = TRUE

\* The next name to rename to is not in use; the last name belongs to an earlier session.
Unused ==
  \A p \in AuditProcs : \A i \in (rotated[p] + 1)..(MaxRotations - 1) : age[<<p, i>>] = "none"

\* The file has been renamed, or is an earlier session's.
Renamed(f) == f[2] # 0 /\ (f[2] <= rotated[f[1]] \/ f[2] = MaxRotations)

\* A file about to be removed is a current one, or was renamed, and is old or gone.
Condemned ==
  \A t \in Auditors : where[t] = "remove" =>
    /\ doomed[t] \in AuditFiles
    /\ doomed[t][2] # 0 => Renamed(doomed[t]) /\ age[doomed[t]] # "young"

AuditInv == AuditTypes /\ Latches /\ Unused /\ Condemned

-----------------------------------------------------------------------------
\* A file is a process and a number, and the pair is the file.
LEMMA FilesArePairs ==
  /\ \A f \in AuditFiles : f[1] \in AuditProcs /\ f[2] \in 0..MaxRotations /\ f = <<f[1], f[2]>>
  /\ \A p \in AuditProcs : \A i \in 0..MaxRotations : <<p, i>> \in AuditFiles
  /\ \A p \in AuditProcs : Current(p) \in AuditFiles /\ Current(p)[2] = 0
BY AuditAssumption DEF AuditFiles, Current

\* NewFileAudit: there may be a file of an earlier session.
LEMMA AuditStarts == AuditInit => AuditInv
<1> SUFFICES ASSUME AuditInit PROVE AuditInv
  OBVIOUS
<1>1. PICK f \in AuditProcs \X {MaxRotations} :
        age = [g \in AuditFiles |-> IF g = f THEN "old" ELSE "none"]
  BY DEF AuditInit
<1>2. AuditTypes /\ Latches /\ Condemned
  BY <1>1, AuditAssumption DEF AuditInit, AuditTypes, AuditTypeOK, Latches, Condemned
<1>3. Unused
  <2> SUFFICES ASSUME NEW p \in AuditProcs, NEW i \in (rotated[p] + 1)..(MaxRotations - 1)
               PROVE  age[<<p, i>>] = "none"
    BY DEF Unused
  <2>1. rotated[p] = 0
    BY DEF AuditInit
  <2>2. <<p, i>> \in AuditFiles /\ i # MaxRotations
    BY <2>1, AuditAssumption DEF AuditFiles
  <2>3. <<p, i>> # f
    BY <2>2
  <2> QED BY <1>1, <2>2, <2>3
<1> QED BY <1>2, <1>3 DEF AuditInv

\* Steps that touch no file and no latch.
LEMMA ElsewhereKeeps ==
  ASSUME AuditInv, NEW t \in Auditors,
         BeginOp(t) \/ CheckLatch(t) \/ Recorded(t) \/ NotRecorded(t) \/ TakeEffect(t)
  PROVE  AuditInv'
<1>1. /\ UNCHANGED <<age, rotated, room, failed, gap, intact, todo, doomed>>
      /\ where' \in [Auditors -> Places] /\ where'[t] # "remove"
      /\ \A u \in Auditors \ {t} : where'[u] = where[u]
  BY DEF AuditInv, AuditTypes, AuditTypeOK, Places, AuditGo, dirVars, latchVars,
         BeginOp, CheckLatch, Recorded, NotRecorded, TakeEffect
<1>2. DOMAIN event' = Auditors
  BY DEF AuditInv, AuditTypes, BeginOp, CheckLatch, Recorded, NotRecorded, TakeEffect
<1>3. life' \in [AuditProcs -> {"new", "starting", "up", "down"}] /\ blocked' \in [AuditProcs -> BOOLEAN]
  <2>1. CASE BeginOp(t)
    <3>1. PICK e \in EventsOf(AuditProc[t]) :
            life' = [life EXCEPT ![AuditProc[t]] =
                       CASE e = "started" -> "starting" [] e = "stopped" -> "down" [] OTHER -> @]
      BY <2>1 DEF BeginOp
    <3>2. life \in [AuditProcs -> {"new", "starting", "up", "down"}] /\ AuditProc[t] \in AuditProcs
          /\ blocked' = blocked
      BY <2>1, AuditAssumption DEF BeginOp, AuditInv, AuditTypes, AuditTypeOK
    <3>3. CASE e = "started"
      BY <3>1, <3>2, <3>3 DEF AuditInv, AuditTypes, AuditTypeOK
    <3>4. CASE e = "stopped"
      BY <3>1, <3>2, <3>4 DEF AuditInv, AuditTypes, AuditTypeOK
    <3>5. CASE e \notin {"started", "stopped"}
      <4>1. life' = [life EXCEPT ![AuditProc[t]] = life[AuditProc[t]]]
        BY <3>1, <3>5
      <4> QED BY <4>1, <3>2 DEF AuditInv, AuditTypes, AuditTypeOK
    <3> QED BY <3>3, <3>4, <3>5
  <2>2. CASE CheckLatch(t) \/ TakeEffect(t)
    BY <2>2 DEF CheckLatch, TakeEffect, latchVars, AuditInv, AuditTypes, AuditTypeOK
  <2>3. CASE Recorded(t)
    BY <2>3 DEF Recorded, AuditInv, AuditTypes, AuditTypeOK
  <2>4. CASE NotRecorded(t)
    BY <2>4 DEF NotRecorded, AuditInv, AuditTypes, AuditTypeOK
  <2> QED BY <2>1, <2>2, <2>3, <2>4
<1>4. AuditTypes'
  BY <1>1, <1>2, <1>3 DEF AuditInv, AuditTypes, AuditTypeOK, Places
<1>5. Latches' /\ Unused' /\ Condemned'
  BY <1>1 DEF AuditInv, Latches, Unused, Condemned, Renamed
<1> QED BY <1>4, <1>5 DEF AuditInv

\* A record is lost: the gap and the latch arise together.
LEMMA LosingKeeps ==
  ASSUME AuditInv, NEW t \in Auditors, LoseRecord(t),
         UNCHANGED <<dirVars, life, blocked, event, intact, ops>>
  PROVE  AuditInv'
<1>1. /\ where' \in [Auditors -> Places] /\ where'[t] = "lost"
      /\ \A u \in Auditors \ {t} : where'[u] = where[u] /\ doomed'[u] = doomed[u]
  BY DEF LoseRecord, AuditGo, AuditInv, AuditTypes, AuditTypeOK, Places
<1>2. AuditTypes'
  BY <1>1 DEF LoseRecord, dirVars, AuditInv, AuditTypes, AuditTypeOK, Places
<1>3. Latches'
  BY AuditAssumption DEF LoseRecord, AuditInv, AuditTypes, AuditTypeOK, Latches
<1>4. Unused' /\ Condemned'
  BY <1>1 DEF dirVars, AuditInv, Unused, Condemned, Renamed
<1> QED BY <1>2, <1>3, <1>4 DEF AuditInv

\* A record is appended: its process is not latched, and a full file gets a name not in use.
LEMMA AppendKeeps ==
  ASSUME AuditInv, NEW t \in Auditors, AppendRecord(t)
  PROVE  AuditInv'
<1> DEFINE p       == AuditProc[t]
           renamed == <<p, rotated[p] + 1>>
<1>1. /\ p \in AuditProcs /\ rotated[p] \in 0..MaxRotations /\ room[p] \in 0..MaxRecords
      /\ AuditTypes /\ Latches /\ Unused /\ Condemned
  BY AuditAssumption DEF AuditInv, AuditTypes, AuditTypeOK
<1>2. gap[p] = FALSE
  BY <1>1 DEF AppendRecord, Latched, Latches, AuditTypes, AuditTypeOK
<1>3. FileIsFull(p) => rotated[p] + 1 < MaxRotations /\ renamed \in AuditFiles
  BY <1>1, AuditAssumption DEF AppendRecord, AuditFiles
<1>4. /\ age' \in [AuditFiles -> {"none", "young", "old"}]
      /\ \A f \in AuditFiles :
           age'[f] = IF f = Current(p) THEN "young"
                     ELSE IF FileIsFull(p) /\ f = renamed THEN age[Current(p)] ELSE age[f]
  <2>1. age \in [AuditFiles -> {"none", "young", "old"}] /\ Current(p) \in AuditFiles
    BY <1>1, FilesArePairs DEF AuditTypes, AuditTypeOK
  <2>2. CASE FileIsFull(p)
    <3>1. age' = [[age EXCEPT ![renamed] = age[Current(p)]] EXCEPT ![Current(p)] = "young"]
      BY <2>2 DEF AppendRecord
    <3> QED BY <1>3, <2>1, <2>2, <3>1
  <2>3. CASE ~FileIsFull(p)
    <3>1. age' = [age EXCEPT ![Current(p)] = "young"]
      BY <2>3 DEF AppendRecord
    <3> QED BY <2>1, <2>3, <3>1
  <2> QED BY <2>2, <2>3
<1>5. /\ rotated' \in [AuditProcs -> 0..MaxRotations]
      /\ \A q \in AuditProcs : rotated'[q] = IF q = p /\ FileIsFull(p) THEN rotated[q] + 1 ELSE rotated[q]
  <2>1. rotated' = [rotated EXCEPT ![p] = IF FileIsFull(p) THEN rotated[p] + 1 ELSE rotated[p]]
    BY DEF AppendRecord
  <2> QED BY <1>1, <1>3, <2>1, AuditAssumption DEF AuditTypes, AuditTypeOK
<1>6. room' \in [AuditProcs -> 0..MaxRecords]
  <2>1. room' = [room EXCEPT ![p] = IF FileIsFull(p) THEN MaxRecords - 1 ELSE room[p] - 1]
    BY DEF AppendRecord
  <2>2. (IF FileIsFull(p) THEN MaxRecords - 1 ELSE room[p] - 1) \in 0..MaxRecords
    BY <1>1, AuditAssumption DEF FileIsFull
  <2> QED BY <1>1, <2>1, <2>2 DEF AuditTypes, AuditTypeOK
<1>7. /\ where' = [where EXCEPT ![t] = "expire"] /\ intact' = [intact EXCEPT ![t] = ~gap[p]]
      /\ UNCHANGED <<life, failed, blocked, event, doomed, gap>>
  BY DEF AppendRecord, AuditGo, latchVars
<1>8. todo' \in [Auditors -> SUBSET AuditFiles]
  <2>1. PICK S \in SUBSET AuditFiles : todo' = [todo EXCEPT ![t] = S]
    BY DEF AppendRecord
  <2> QED BY <1>1, <2>1 DEF AuditTypes, AuditTypeOK
<1>9. AuditTypes'
  BY <1>1, <1>4, <1>5, <1>6, <1>7, <1>8 DEF AuditTypes, AuditTypeOK
<1>10. Latches'
  BY <1>1, <1>2, <1>7 DEF Latches, AuditTypes
<1>11. Unused'
  <2> SUFFICES ASSUME NEW q \in AuditProcs, NEW i \in (rotated'[q] + 1)..(MaxRotations - 1)
               PROVE  age'[<<q, i>>] = "none"
    BY DEF Unused
  <2>1. i \in (rotated[q] + 1)..(MaxRotations - 1) /\ <<q, i>> \in AuditFiles
    BY <1>1, <1>5, AuditAssumption DEF AuditTypes, AuditTypeOK, AuditFiles
  <2>2. <<q, i>> # Current(p) /\ (FileIsFull(p) => <<q, i>> # renamed)
    BY <1>1, <1>5, <2>1 DEF Current, AuditTypes, AuditTypeOK
  <2> QED BY <1>1, <1>4, <2>1, <2>2 DEF Unused
<1>12. Condemned'
  <2> SUFFICES ASSUME NEW u \in Auditors, where'[u] = "remove"
               PROVE  /\ doomed[u] \in AuditFiles
                      /\ doomed[u][2] # 0 => Renamed(doomed[u])' /\ age'[doomed[u]] # "young"
    BY <1>7 DEF Condemned, Renamed
  <2>1. where[u] = "remove"
    BY <1>1, <1>7 DEF AuditTypes, AuditTypeOK
  <2>2. doomed[u] \in AuditFiles
    BY <1>1, <2>1 DEF Condemned
  <2>3. ASSUME doomed[u][2] # 0 PROVE Renamed(doomed[u])' /\ age'[doomed[u]] # "young"
    <3>1. Renamed(doomed[u]) /\ age[doomed[u]] # "young" /\ doomed[u][1] \in AuditProcs
          /\ doomed[u][2] \in 0..MaxRotations
      BY <1>1, <2>1, <2>2, <2>3, FilesArePairs DEF Condemned
    <3>2. Renamed(doomed[u])'
      BY <1>1, <1>5, <1>7, <3>1, AuditAssumption DEF Renamed, AuditTypes, AuditTypeOK
    <3>3. doomed[u] # Current(p)
      BY <2>3 DEF Current
    <3>4. FileIsFull(p) => doomed[u] # renamed
      BY <1>1, <1>3, <3>1, AuditAssumption DEF Renamed
    <3> QED BY <1>4, <2>2, <3>1, <3>2, <3>3, <3>4
  <2> QED BY <2>2, <2>3
<1> QED BY <1>9, <1>10, <1>11, <1>12 DEF AuditInv

\* expire: a file found old has been renamed, or is a current one.
LEMMA LookKeeps ==
  ASSUME AuditInv, NEW t \in Auditors, LookAtFile(t)
  PROVE  AuditInv'
<1>1. PICK f \in todo[t] :
        IF age[f] = "none" THEN LoseRecord(t)
        ELSE /\ todo' = [todo EXCEPT ![t] = @ \ {f}] /\ UNCHANGED <<failed, gap>>
             /\ IF Expired(f)
                  THEN AuditGo(t, "remove") /\ doomed' = [doomed EXCEPT ![t] = f]
                  ELSE UNCHANGED <<where, doomed>>
  BY DEF LookAtFile
<1>2. UNCHANGED <<dirVars, life, blocked, event, intact, ops>>
  BY DEF LookAtFile
<1>3. f \in AuditFiles /\ AuditTypes /\ Latches /\ Unused /\ Condemned
  BY DEF AuditInv, AuditTypes, AuditTypeOK
<1>4. CASE age[f] = "none"
  BY <1>1, <1>2, <1>4, LosingKeeps
<1>5. CASE age[f] # "none"
  <2>1. todo' = [todo EXCEPT ![t] = todo[t] \ {f}] /\ UNCHANGED <<failed, gap>>
    BY <1>1, <1>5
  <2>2. Latches' /\ Unused'
    BY <1>2, <1>3, <2>1 DEF Latches, Unused, dirVars
  <2>3. CASE ~Expired(f)
    <3>1. UNCHANGED <<where, doomed>>
      BY <1>1, <1>5, <2>3
    <3> QED BY <1>2, <1>3, <2>1, <2>2, <3>1
            DEF AuditInv, AuditTypes, AuditTypeOK, Condemned, Renamed, dirVars
  <2>4. CASE Expired(f)
    <3>1. where' = [where EXCEPT ![t] = "remove"] /\ doomed' = [doomed EXCEPT ![t] = f]
      BY <1>1, <1>5, <2>4 DEF AuditGo
    <3>2. AuditTypes'
      BY <1>2, <1>3, <2>1, <3>1 DEF AuditTypes, AuditTypeOK, dirVars
    <3>3. f[2] # 0 => Renamed(f)
      <4>1. f[1] \in AuditProcs /\ f[2] \in 0..MaxRotations /\ f = <<f[1], f[2]>>
        BY <1>3, FilesArePairs
      <4>2. rotated[f[1]] \in Nat
        BY <1>3, <4>1 DEF AuditTypes, AuditTypeOK
      <4>3. f[2] \notin (rotated[f[1]] + 1)..(MaxRotations - 1)
        BY <1>3, <1>5, <4>1 DEF Unused
      <4> QED BY <4>1, <4>2, <4>3, AuditAssumption DEF Renamed
    <3>4. Condemned'
      <4> SUFFICES ASSUME NEW u \in Auditors, where'[u] = "remove"
                   PROVE  /\ doomed'[u] \in AuditFiles
                          /\ doomed'[u][2] # 0 => Renamed(doomed'[u]) /\ age[doomed'[u]] # "young"
        BY <1>2 DEF Condemned, Renamed, dirVars
      <4>1. CASE u = t
        BY <1>3, <2>4, <3>1, <3>3, <4>1 DEF Expired, AuditTypes, AuditTypeOK
      <4>2. CASE u # t
        BY <1>3, <3>1, <4>2 DEF Condemned, AuditTypes, AuditTypeOK
      <4> QED BY <4>1, <4>2
    <3> QED BY <2>2, <3>2, <3>4 DEF AuditInv
  <2> QED BY <2>3, <2>4
<1> QED BY <1>4, <1>5

\* A file goes, or has gone, or grows old: none becomes young.
LEMMA AgingKeeps ==
  ASSUME AuditInv, (\E t \in Auditors : RemoveFile(t)) \/ Elapse
  PROVE  AuditInv'
<1>0. AuditTypes /\ Latches /\ Unused /\ Condemned
  BY DEF AuditInv
<1>1. ASSUME NEW t \in Auditors, RemoveFile(t) PROVE AuditInv'
  <2>1. CASE age[doomed[t]] = "none"
    BY <1>1, <2>1, LosingKeeps DEF RemoveFile, dirVars
  <2>2. CASE age[doomed[t]] # "none"
    <3>1. /\ age' = [age EXCEPT ![doomed[t]] = "none"] /\ where' = [where EXCEPT ![t] = "expire"]
          /\ doomed' = [doomed EXCEPT ![t] = NoFile]
          /\ UNCHANGED <<failed, gap, todo, room, rotated, life, blocked, event, intact>>
      BY <1>1, <2>2 DEF RemoveFile, AuditGo
    <3>2. AuditTypes'
      BY <1>0, <3>1 DEF AuditTypes, AuditTypeOK
    <3>3. \A f \in AuditFiles : age'[f] \in {age[f], "none"}
      BY <1>0, <3>1 DEF AuditTypes, AuditTypeOK
    <3>4. Unused'
      <4> SUFFICES ASSUME NEW p \in AuditProcs, NEW i \in (rotated[p] + 1)..(MaxRotations - 1)
                   PROVE  age'[<<p, i>>] = "none"
        BY <3>1 DEF Unused
      <4>1. <<p, i>> \in AuditFiles
        BY <1>0, AuditAssumption DEF AuditTypes, AuditTypeOK, AuditFiles
      <4> QED BY <1>0, <3>3, <4>1 DEF Unused
    <3>5. Latches'
      BY <1>0, <3>1 DEF Latches
    <3>6. Condemned'
      BY <1>0, <3>1, <3>3 DEF Condemned, Renamed, AuditTypes, AuditTypeOK
    <3> QED BY <3>2, <3>4, <3>5, <3>6 DEF AuditInv
  <2> QED BY <2>1, <2>2
<1>2. ASSUME Elapse PROVE AuditInv'
  <2>1. PICK f \in AuditFiles : age[f] = "young" /\ age' = [age EXCEPT ![f] = "old"]
    BY <1>2 DEF Elapse
  <2>2. UNCHANGED <<room, rotated, latchVars, where, event, todo, doomed, gap, intact>>
    BY <1>2 DEF Elapse
  <2>3. AuditTypes'
    BY <1>0, <2>1, <2>2 DEF AuditTypes, AuditTypeOK, latchVars
  <2>4. /\ \A g \in AuditFiles : age[g] = "none" => age'[g] = "none"
        /\ \A g \in AuditFiles : age[g] # "young" => age'[g] # "young"
    BY <1>0, <2>1 DEF AuditTypes, AuditTypeOK
  <2>5. Unused'
    <3> SUFFICES ASSUME NEW p \in AuditProcs, NEW i \in (rotated[p] + 1)..(MaxRotations - 1)
                 PROVE  age'[<<p, i>>] = "none"
      BY <2>2 DEF Unused
    <3>1. <<p, i>> \in AuditFiles
      BY <1>0, AuditAssumption DEF AuditTypes, AuditTypeOK, AuditFiles
    <3> QED BY <1>0, <2>4, <3>1 DEF Unused
  <2>6. Latches' /\ Condemned'
    BY <1>0, <2>2, <2>4 DEF Latches, Condemned, Renamed, latchVars
  <2> QED BY <2>3, <2>5, <2>6 DEF AuditInv
<1> QED BY <1>1, <1>2

\* Every step keeps the invariant.
LEMMA AuditStepKeeps == AuditInv /\ [AuditNext]_auditVars => AuditInv'
<1> SUFFICES ASSUME AuditInv, [AuditNext]_auditVars PROVE AuditInv'
  OBVIOUS
<1>1. CASE UNCHANGED auditVars
  BY <1>1 DEF auditVars, dirVars, latchVars, AuditInv, AuditTypes, AuditTypeOK, Latches, Unused,
              Condemned, Renamed
<1>2. ASSUME NEW t \in Auditors, AppendFails(t) PROVE AuditInv'
  BY <1>2, LosingKeeps DEF AppendFails
<1>3. ASSUME NEW t \in Auditors, BeginOp(t) \/ AuditStep(t) PROVE AuditInv'
  BY <1>2, <1>3, ElsewhereKeeps, AppendKeeps, LookKeeps, AgingKeeps DEF AuditStep
<1>4. CASE Elapse
  BY <1>4, AgingKeeps
<1> QED BY <1>1, <1>3, <1>4 DEF AuditNext

\* The invariant holds of every behaviour.
LEMMA AuditInvariant == AuditSpec => []AuditInv
BY AuditStarts, AuditStepKeeps, PTL DEF AuditSpec

-----------------------------------------------------------------------------
(***************************************************************************)
(* The types: no file takes more than it holds, and no name is used twice. *)
(***************************************************************************)
THEOREM AuditTypeCorrect == AuditSpec => []AuditTypeOK
<1>1. AuditInv => AuditTypeOK
  BY DEF AuditInv, AuditTypes
<1> QED BY <1>1, AuditInvariant, PTL

(***************************************************************************)
(* IngestionWorker.audit and Record: no operation is let through that had  *)
(* not recorded its preparation while the audit of its process was whole.  *)
(***************************************************************************)
THEOREM NothingAfterGapAlways == AuditSpec => []NothingAfterGap
<1>1. AuditInv => NothingAfterGap
  BY DEF AuditInv, Latches, NothingAfterGap
<1> QED BY <1>1, AuditInvariant, PTL

\* What a step leaves of the young renamed files.
YoungKept == \A p \in AuditProcs : \A i \in 1..rotated[p] :
               age[<<p, i>>] = "young" => age'[<<p, i>>] # "none"

\* Only a condemned file is removed, and that is not young.
LEMMA YoungKeptByStep == AuditInv /\ [AuditNext]_auditVars => [YoungKept]_auditVars
<1> SUFFICES ASSUME AuditInv, AuditNext, NEW p \in AuditProcs, NEW i \in 1..rotated[p],
                    age[<<p, i>>] = "young"
             PROVE  age'[<<p, i>>] # "none"
  BY DEF YoungKept
<1>1. /\ AuditTypes /\ Condemned /\ rotated[p] \in 0..MaxRotations /\ i \in 1..MaxRotations
      /\ <<p, i>> \in AuditFiles
  BY AuditAssumption DEF AuditInv, AuditTypes, AuditTypeOK, AuditFiles
<1>2. CASE UNCHANGED age
  BY <1>2
<1>3. ASSUME NEW t \in Auditors, AppendRecord(t) PROVE age'[<<p, i>>] # "none"
  <2> DEFINE q == AuditProc[t]
  <2>1. q \in AuditProcs /\ rotated[q] \in 0..MaxRotations
    BY <1>1, AuditAssumption DEF AuditTypes, AuditTypeOK
  <2>2. <<p, i>> # Current(q) /\ <<p, i>> # <<q, rotated[q] + 1>>
    BY <1>1, <2>1 DEF Current
  <2>3. \/ age' = [[age EXCEPT ![<<q, rotated[q] + 1>>] = age[Current(q)]] EXCEPT ![Current(q)] = "young"]
        \/ age' = [age EXCEPT ![Current(q)] = "young"]
    BY <1>3 DEF AppendRecord
  <2> QED BY <1>1, <2>2, <2>3 DEF AuditTypes, AuditTypeOK
<1>4. ASSUME NEW t \in Auditors, RemoveFile(t) PROVE age'[<<p, i>>] # "none"
  <2>1. doomed[t] # <<p, i>>
    BY <1>1, <1>4 DEF RemoveFile, Condemned
  <2> QED BY <1>1, <1>4, <2>1 DEF RemoveFile, AuditTypes, AuditTypeOK
<1>5. CASE Elapse
  BY <1>1, <1>5 DEF Elapse, AuditTypes, AuditTypeOK
<1>6. ASSUME NEW t \in Auditors,
             BeginOp(t) \/ CheckLatch(t) \/ AppendFails(t) \/ LookAtFile(t) \/ Recorded(t)
               \/ NotRecorded(t) \/ TakeEffect(t)
      PROVE  UNCHANGED age
  BY <1>6 DEF BeginOp, CheckLatch, AppendFails, LookAtFile, Recorded, NotRecorded, TakeEffect, dirVars
<1> QED BY <1>2, <1>3, <1>4, <1>5, <1>6 DEF AuditNext, AuditStep

(***************************************************************************)
(* expire: a renamed file is not removed while it is younger than the      *)
(* retention, although between the look at a file and its removal peers    *)
(* rename, remove and append.                                              *)
(***************************************************************************)
THEOREM YoungFilesKeptAlways == AuditSpec => YoungFilesKept
<1>1. AuditSpec => [][YoungKept]_auditVars
  BY YoungKeptByStep, AuditInvariant, PTL DEF AuditSpec
<1> QED BY <1>1 DEF YoungKept, YoungFilesKept

-----------------------------------------------------------------------------
(***************************************************************************)
(* The reconciliation of the infrastructure.                               *)
(***************************************************************************)
\* The manifest is that of the fingerprint, or two writers have raced to make it.
Under(f) == manifest = f \/ (raced = TRUE /\ manifest # Absent)

Beyond == {"control", "makeControl", "indexes", "manifest", "makeManifest", "registration", "capabilities"}
Made   == {"indexes", "manifest", "makeManifest", "registration", "capabilities"}
Steps  == {"idle", "wait", "data", "makeData"} \union Beyond

InfraTypes ==
  /\ InfraTypeOK /\ setup \in [InfraProcs -> Setups]

\* What a goroutine has seen on its way here, of the data, the control collection and the manifest.
Seen ==
  \A c \in InfraCallers :
    /\ doing[c] \in Beyond => dataCollection = Dimension[Mine(c)]
    /\ doing[c] \in Made => controlMade = TRUE
    /\ doing[c] = "makeManifest" => raced = TRUE \/ manifest \in {Absent, Mine(c)}
    /\ doing[c] \in {"registration", "capabilities"} => Under(Mine(c))
    /\ doing[c] = "capabilities" => InfraProc[c] \in ready

\* Unless two have raced, all who may write the manifest would write the same one.  A
\* manifest is there only after the collections.
Agreed ==
  /\ \A c, d \in InfraCallers :
       doing[c] = "makeManifest" /\ doing[d] = "makeManifest" => raced = TRUE \/ Mine(c) = Mine(d)
  /\ manifest # Absent => dataCollection # Absent

\* What is true of a process that is ready, and of one that serves.
Entered ==
  /\ \A p \in ready : /\ dataCollection = Dimension[setup[p].fingerprint] /\ controlMade = TRUE
                      /\ Under(setup[p].fingerprint) /\ registered # {}
                      /\ setup[p].role = "writer" => p \in registered
  /\ serving \subseteq ready
  /\ \A p \in serving : setup[p].credential = (IF setup[p].role = "writer" THEN "write" ELSE "read")

InfraInv == InfraTypes /\ Seen /\ Agreed /\ Entered

-----------------------------------------------------------------------------
\* A configuration has a fingerprint, and a fingerprint is not Absent.
LEMMA SetupsFit ==
  ASSUME InfraTypes, NEW p \in InfraProcs
  PROVE  /\ setup[p].fingerprint \in Fingerprints /\ setup[p].fingerprint # Absent
         /\ Dimension[setup[p].fingerprint] # Absent
         /\ setup[p].role \in {"writer", "reader"} /\ setup[p].credential \in {"read", "write"}
<1>1. setup[p] \in Setups
  BY DEF InfraTypes
<1>2. setup[p] \in [fingerprint : Fingerprints, role : {"writer", "reader"}, credential : {"read", "write"}]
  BY <1>1, InfraAssumption
<1> QED BY <1>2, InfraAssumption

\* InfraInit: nothing is there, or somebody founded it all before.
LEMMA InfraStarts == InfraInit => InfraInv
<1> SUFFICES ASSUME InfraInit PROVE InfraInv
  OBVIOUS
<1>1. /\ setup \in [InfraProcs -> Setups] /\ ready = {} /\ serving = {} /\ raced = FALSE
      /\ doing = [c \in InfraCallers |-> "idle"]
  BY DEF InfraInit
<1>2. Seen /\ Entered
  BY <1>1 DEF Seen, Entered, Beyond, Made
<1> DEFINE Fits == /\ dataCollection \in {Absent} \union {Dimension[f] : f \in Fingerprints}
                   /\ controlMade \in BOOLEAN /\ manifest \in Fingerprints \union {Absent}
                   /\ registered \subseteq InfraProcs /\ Agreed
<1>3. Fits
  <2>1. CASE dataCollection = Absent /\ controlMade = FALSE /\ manifest = Absent /\ registered = {}
    BY <1>1, <2>1 DEF Agreed
  <2>2. ASSUME NEW f \in Fingerprints, Founded(f), \E p \in InfraProcs : registered = {p}
        PROVE  Fits
    BY <1>1, <2>2, InfraAssumption DEF Agreed, Founded
  <2> QED BY <2>1, <2>2 DEF InfraInit
<1>4. InfraTypes
  BY <1>1, <1>3 DEF InfraTypes, InfraTypeOK
<1> QED BY <1>2, <1>3, <1>4 DEF InfraInv

\* Steps that move one goroutine and write nothing: what it has seen now is what it rests on.
LEMMA QuietKeeps ==
  ASSUME InfraInv, NEW c \in InfraCallers, NEW step \in Steps, GoTo(c, step),
         UNCHANGED <<setup, stored, ready, serving>>,
         raced' \in BOOLEAN, raced = TRUE => raced' = TRUE,
         step \in Beyond => dataCollection = Dimension[Mine(c)],
         step \in Made => controlMade = TRUE,
         step = "makeManifest" =>
           /\ raced' = TRUE \/ manifest \in {Absent, Mine(c)}
           /\ raced' = TRUE \/ \A d \in InfraCallers : doing[d] = "makeManifest" => Mine(d) = Mine(c),
         step \in {"registration", "capabilities"} => Under(Mine(c)),
         step = "capabilities" => InfraProc[c] \in ready
  PROVE  InfraInv'
<1>1. doing \in [InfraCallers -> Steps]
  BY DEF InfraInv, InfraTypes, InfraTypeOK, Steps, Beyond
<1>2. doing' \in [InfraCallers -> Steps]
  BY <1>1 DEF GoTo
<1>3. InfraTypes'
  BY <1>2 DEF InfraInv, InfraTypes, InfraTypeOK, Steps, Beyond, stored
<1>4. \A d \in InfraCallers : doing'[d] = IF d = c THEN step ELSE doing[d]
  BY <1>1 DEF GoTo
<1>5. Seen'
  <2> SUFFICES ASSUME NEW d \in InfraCallers
               PROVE  /\ doing'[d] \in Beyond => dataCollection = Dimension[Mine(d)]
                      /\ doing'[d] \in Made => controlMade = TRUE
                      /\ doing'[d] = "makeManifest" => raced' = TRUE \/ manifest \in {Absent, Mine(d)}
                      /\ doing'[d] \in {"registration", "capabilities"} => Under(Mine(d))
                      /\ doing'[d] = "capabilities" => InfraProc[d] \in ready
    BY DEF Seen, stored, Mine, Under, Beyond, Made
  <2>1. CASE d = c
    BY <1>4, <2>1
  <2>2. CASE d # c
    BY <1>4, <2>2 DEF InfraInv, Seen
  <2> QED BY <2>1, <2>2
<1>6. Agreed'
  <2> SUFFICES ASSUME NEW d \in InfraCallers, NEW e \in InfraCallers,
                      doing'[d] = "makeManifest", doing'[e] = "makeManifest"
               PROVE  raced' = TRUE \/ Mine(d) = Mine(e)
    BY DEF InfraInv, Agreed, Mine, stored
  <2> QED BY <1>4 DEF InfraInv, Agreed
<1>7. Entered'
  BY DEF InfraInv, Entered, Under, stored
<1> QED BY <1>3, <1>5, <1>6, <1>7 DEF InfraInv

\* Calls that ask or that write only what is unimportant here, and the way out.
LEMMA AskingKeeps ==
  ASSUME InfraInv, NEW c \in InfraCallers,
         CallInfra(c) \/ LockInfra(c) \/ InfraFails(c) \/ SeesData(c) \/ SeesControl(c)
           \/ MakesIndexes(c) \/ SeesManifest(c)
  PROVE  InfraInv'
<1>0. /\ InfraProc[c] \in InfraProcs
      /\ doing[c] \in Beyond => dataCollection = Dimension[Mine(c)]
      /\ doing[c] \in Made => controlMade = TRUE
      /\ InfraTypes /\ Agreed /\ raced \in BOOLEAN
  BY InfraAssumption DEF InfraInv, Seen, InfraTypes, InfraTypeOK
<1>1. CASE CallInfra(c)
  BY <1>0, <1>1, QuietKeeps DEF CallInfra, Steps, Beyond, Made
<1>2. CASE LockInfra(c)
  <2>1. CASE InfraProc[c] \in ready
    <3>1. /\ dataCollection = Dimension[Mine(c)] /\ controlMade = TRUE /\ Under(Mine(c))
          /\ GoTo(c, "capabilities") /\ UNCHANGED <<setup, raced, stored, ready, serving>>
      BY <1>2, <2>1 DEF LockInfra, InfraInv, Entered, Mine
    <3> QED BY <1>0, <2>1, <3>1, QuietKeeps DEF Steps, Beyond, Made
  <2>2. CASE InfraProc[c] \notin ready
    BY <1>0, <1>2, <2>2, QuietKeeps DEF LockInfra, Steps, Beyond, Made
  <2> QED BY <2>1, <2>2
<1>3. CASE InfraFails(c)
  BY <1>0, <1>3, QuietKeeps DEF InfraFails, Steps, Beyond, Made
<1>4. CASE SeesData(c)
  <2>1. UNCHANGED <<setup, raced, stored, ready, serving>>
    BY <1>4 DEF SeesData
  <2>2. CASE SameSchema(c) /\ GoTo(c, "control")
    BY <1>0, <2>1, <2>2, QuietKeeps DEF SameSchema, Steps, Beyond, Made
  <2>3. CASE GoTo(c, "makeData")
    BY <1>0, <2>1, <2>3, QuietKeeps DEF Steps, Beyond, Made
  <2> QED BY <1>4, <2>2, <2>3 DEF SeesData
<1>5. CASE SeesControl(c)
  <2>1. UNCHANGED <<setup, raced, stored, ready, serving>> /\ dataCollection = Dimension[Mine(c)]
    BY <1>0, <1>5 DEF SeesControl, At, Beyond
  <2>2. CASE controlMade /\ GoTo(c, "indexes")
    BY <2>1, <2>2, <1>0, QuietKeeps DEF Steps, Beyond, Made, InfraTypes, InfraTypeOK
  <2>3. CASE controlMade /\ GoTo(c, "manifest")
    BY <2>1, <2>3, <1>0, QuietKeeps DEF Steps, Beyond, Made, InfraTypes, InfraTypeOK
  <2>4. CASE GoTo(c, "makeControl")
    BY <1>0, <2>1, <2>4, QuietKeeps DEF Steps, Beyond, Made
  <2> QED BY <1>5, <2>2, <2>3, <2>4 DEF SeesControl
<1>6. CASE MakesIndexes(c)
  BY <1>0, <1>6, QuietKeeps DEF MakesIndexes, At, Steps, Beyond, Made
<1>7. CASE SeesManifest(c)
  <2>1. /\ UNCHANGED <<setup, stored, ready, serving>> /\ dataCollection = Dimension[Mine(c)]
        /\ controlMade = TRUE
    BY <1>0, <1>7 DEF SeesManifest, At, Beyond, Made
  <2>2. CASE Compatible(c) /\ GoTo(c, "registration") /\ UNCHANGED raced
    BY <1>0, <2>1, <2>2, QuietKeeps DEF Compatible, Under, Steps, Beyond, Made
  <2>3. CASE /\ Missing(c) /\ GoTo(c, "makeManifest")
             /\ raced' = IF \E d \in InfraCallers : At(d, "makeManifest") /\ Mine(d) # Mine(c)
                         THEN TRUE ELSE raced
    <3>1. /\ raced' \in BOOLEAN /\ (raced = TRUE => raced' = TRUE)
          /\ raced' = TRUE \/ \A d \in InfraCallers : doing[d] = "makeManifest" => Mine(d) = Mine(c)
      BY <1>0, <2>3 DEF At
    <3> QED BY <1>0, <2>1, <2>3, <3>1, QuietKeeps DEF Missing, Steps, Beyond, Made
  <2> QED BY <1>7, <2>2, <2>3 DEF SeesManifest
<1> QED BY <1>1, <1>2, <1>3, <1>4, <1>5, <1>6, <1>7

\* A writer makes what is missing: whoever has seen it there keeps what it saw.
LEMMA MakingKeeps ==
  ASSUME InfraInv, NEW c \in InfraCallers, MakesData(c) \/ MakesControl(c) \/ MakesManifest(c)
  PROVE  InfraInv'
<1>0. /\ InfraProc \in [InfraCallers -> InfraProcs] /\ InfraTypes /\ Seen /\ Agreed /\ Entered
      /\ \A d \in InfraCallers : Mine(d) \in Fingerprints /\ Dimension[Mine(d)] # Absent /\ Mine(d) # Absent
  BY InfraAssumption, SetupsFit DEF InfraInv, Mine
<1>1. doing \in [InfraCallers -> Steps]
  BY <1>0 DEF InfraTypes, InfraTypeOK, Steps, Beyond
<1>2. CASE MakesData(c)
  <2>1. /\ dataCollection = Absent /\ dataCollection' = Dimension[Mine(c)]
        /\ UNCHANGED <<setup, raced, controlMade, manifest, registered, ready, serving>>
        /\ doing' \in [InfraCallers -> Steps]
        /\ \A d \in InfraCallers : doing'[d] = IF d = c THEN "control" ELSE doing[d]
    BY <1>1, <1>2 DEF MakesData, VectorSize, GoTo, Steps, Beyond
  <2>2. manifest = Absent /\ ready = {} /\ \A d \in InfraCallers : doing[d] \notin Beyond
    <3>1. manifest = Absent
      BY <1>0, <2>1 DEF Agreed
    <3>2. ready = {}
      BY <1>0, <2>1, SetupsFit DEF Entered, InfraTypes, InfraTypeOK
    <3> QED BY <1>0, <2>1, <3>1, <3>2 DEF Seen
  <2>3. InfraTypes'
    BY <1>0, <2>1 DEF InfraTypes, InfraTypeOK, Steps, Beyond
  <2>4. Seen'
    BY <2>1, <2>2 DEF Seen, Mine, Beyond, Made
  <2>5. Agreed' /\ Entered'
    BY <1>0, <2>1, <2>2 DEF Agreed, Entered, Beyond
  <2> QED BY <2>3, <2>4, <2>5 DEF InfraInv
<1>3. CASE MakesControl(c)
  <2>1. /\ controlMade' = TRUE /\ dataCollection = Dimension[Mine(c)]
        /\ UNCHANGED <<setup, raced, dataCollection, manifest, registered, ready, serving>>
        /\ doing' \in [InfraCallers -> Steps]
        /\ \A d \in InfraCallers : doing'[d] = IF d = c THEN "indexes" ELSE doing[d]
    BY <1>0, <1>1, <1>3 DEF MakesControl, Seen, At, GoTo, Steps, Beyond
  <2>2. InfraTypes'
    BY <1>0, <2>1 DEF InfraTypes, InfraTypeOK, Steps, Beyond
  <2>3. Seen'
    BY <1>0, <2>1 DEF Seen, Mine, Under, Beyond, Made
  <2>4. Agreed' /\ Entered'
    BY <1>0, <2>1 DEF Agreed, Entered, Mine, Under
  <2> QED BY <2>2, <2>3, <2>4 DEF InfraInv
<1>4. CASE MakesManifest(c)
  <2>1. /\ manifest' = Mine(c) /\ dataCollection = Dimension[Mine(c)] /\ controlMade = TRUE
        /\ doing[c] = "makeManifest" /\ (raced = TRUE \/ manifest \in {Absent, Mine(c)})
        /\ UNCHANGED <<setup, raced, dataCollection, controlMade, registered, ready, serving>>
        /\ doing' \in [InfraCallers -> Steps]
        /\ \A d \in InfraCallers : doing'[d] = IF d = c THEN "registration" ELSE doing[d]
    BY <1>0, <1>1, <1>4 DEF MakesManifest, Seen, At, GoTo, Steps, Beyond, Made
  <2>2. \A d \in InfraCallers : doing[d] = "makeManifest" => raced = TRUE \/ Mine(d) = Mine(c)
    BY <1>0, <2>1 DEF Agreed
  <2>a. \A f \in Fingerprints : Under(f) => Under(f)'
    BY <1>0, <2>1, InfraAssumption DEF Under
  <2>3. InfraTypes'
    BY <1>0, <2>1 DEF InfraTypes, InfraTypeOK, Steps, Beyond
  <2>4. Seen'
    <3>1. \A d \in InfraCallers : Mine(d)' = Mine(d)
      BY <2>1 DEF Mine
    <3>2. \A d \in InfraCallers : doing'[d] \in {"registration", "capabilities"} => Under(Mine(d))'
      <4>1. Under(Mine(c))'
        BY <2>1, <3>1 DEF Under
      <4>2. ASSUME NEW d \in InfraCallers, d # c, doing'[d] \in {"registration", "capabilities"}
            PROVE  Under(Mine(d))'
        BY <1>0, <2>1, <2>a, <3>1, <4>2 DEF Seen, Under
      <4> QED BY <4>1, <4>2
    <3> QED BY <1>0, <2>1, <2>2, <3>1, <3>2 DEF Seen, Beyond, Made
  <2>5. Agreed'
    BY <1>0, <2>1 DEF Agreed, Mine
  <2>6. Entered'
    <3>1. \A p \in ready : setup[p].fingerprint \in Fingerprints
      BY <1>0, SetupsFit DEF InfraTypes, InfraTypeOK
    <3> QED BY <1>0, <2>1, <2>a, <3>1 DEF Entered, Under
  <2> QED BY <2>3, <2>4, <2>5, <2>6 DEF InfraInv
<1> QED BY <1>2, <1>3, <1>4

\* The last two steps: a process becomes ready, and serves.
LEMMA EnteringKeeps ==
  ASSUME InfraInv, NEW c \in InfraCallers, Registers(c) \/ Validates(c)
  PROVE  InfraInv'
<1>0. /\ InfraProc[c] \in InfraProcs /\ InfraTypes /\ Seen /\ Agreed /\ Entered
      /\ Mine(c) = setup[InfraProc[c]].fingerprint /\ Mine(c) # Absent
  BY InfraAssumption, SetupsFit DEF InfraInv, Mine
<1>1. doing \in [InfraCallers -> Steps]
  BY <1>0 DEF InfraTypes, InfraTypeOK, Steps, Beyond
<1>2. CASE Registers(c)
  <2>1. /\ ready' = ready \union {InfraProc[c]} /\ Under(Mine(c))
        /\ UNCHANGED <<setup, raced, dataCollection, controlMade, manifest, serving>>
        /\ doing' \in [InfraCallers -> Steps]
        /\ \A d \in InfraCallers : doing'[d] = IF d = c THEN "capabilities" ELSE doing[d]
    BY <1>0, <1>1, <1>2 DEF Registers, Seen, At, GoTo, Steps, Beyond
  <2>2. /\ registered \subseteq registered' /\ registered' \subseteq InfraProcs /\ registered' # {}
        /\ setup[InfraProc[c]].role = "writer" => InfraProc[c] \in registered'
    BY <1>0, <1>2 DEF Registers, Writes, InfraTypes, InfraTypeOK
  <2>3. dataCollection = Dimension[Mine(c)] /\ controlMade = TRUE
    BY <1>0, <1>2 DEF Registers, Seen, At, Beyond, Made
  <2>4. InfraTypes'
    BY <1>0, <2>1, <2>2 DEF InfraTypes, InfraTypeOK, Steps, Beyond
  <2>5. Seen'
    BY <1>0, <2>1, <2>3 DEF Seen, Mine, Under, Beyond, Made
  <2>6. Agreed'
    BY <1>0, <2>1 DEF Agreed, Mine
  <2>7. Entered'
    <3>1. \A p \in ready' : /\ dataCollection = Dimension[setup[p].fingerprint] /\ controlMade = TRUE
                            /\ Under(setup[p].fingerprint)
                            /\ setup[p].role = "writer" => p \in registered'
      BY <1>0, <2>1, <2>2, <2>3 DEF Entered
    <3> QED BY <1>0, <2>1, <2>2, <3>1 DEF Entered, Under
  <2> QED BY <2>4, <2>5, <2>6, <2>7 DEF InfraInv
<1>3. CASE Validates(c)
  <2>1. /\ InfraProc[c] \in ready /\ serving' = serving \union {InfraProc[c]}
        /\ UNCHANGED <<setup, raced, dataCollection, controlMade, manifest, registered, ready>>
        /\ doing' \in [InfraCallers -> Steps]
        /\ \A d \in InfraCallers : doing'[d] = IF d = c THEN "idle" ELSE doing[d]
    BY <1>0, <1>1, <1>3 DEF Validates, Seen, At, GoTo, Steps, Beyond, stored
  <2>2. setup[InfraProc[c]].credential
          = (IF setup[InfraProc[c]].role = "writer" THEN "write" ELSE "read")
    BY <1>3 DEF Validates, Writes
  <2>3. InfraTypes'
    BY <1>0, <2>1 DEF InfraTypes, InfraTypeOK, Steps, Beyond
  <2>4. Seen'
    BY <1>0, <2>1 DEF Seen, Mine, Under, Beyond, Made
  <2>5. Agreed' /\ Entered'
    BY <1>0, <2>1, <2>2 DEF Agreed, Entered, Mine, Under
  <2> QED BY <2>3, <2>4, <2>5 DEF InfraInv
<1> QED BY <1>2, <1>3

\* A crash forgets what the process was about, and only that.
LEMMA CrashKeeps ==
  ASSUME InfraInv, NEW p \in InfraProcs, InfraCrash(p)
  PROVE  InfraInv'
<1>1. /\ ready' = ready \ {p} /\ serving' = serving \ {p}
      /\ UNCHANGED <<setup, raced, dataCollection, controlMade, manifest, registered>>
      /\ \A c \in InfraCallers : doing'[c] = IF InfraProc[c] = p THEN "idle" ELSE doing[c]
  BY DEF InfraCrash, stored
<1>2. doing' \in [InfraCallers -> Steps]
  BY DEF InfraCrash, InfraInv, InfraTypes, InfraTypeOK, Steps, Beyond
<1>3. InfraTypes'
  BY <1>1, <1>2 DEF InfraInv, InfraTypes, InfraTypeOK, Steps, Beyond
<1>4. Seen'
  BY <1>1 DEF InfraInv, Seen, Mine, Under, Beyond, Made
<1>5. Agreed' /\ Entered'
  BY <1>1 DEF InfraInv, Agreed, Entered, Mine, Under
<1> QED BY <1>3, <1>4, <1>5 DEF InfraInv

\* Every step keeps the invariant.
LEMMA InfraStepKeeps == InfraInv /\ [InfraNext]_infraVars => InfraInv'
<1> SUFFICES ASSUME InfraInv, [InfraNext]_infraVars PROVE InfraInv'
  OBVIOUS
<1>1. CASE UNCHANGED infraVars
  BY <1>1 DEF infraVars, stored, InfraInv, InfraTypes, InfraTypeOK, Seen, Agreed, Entered, Under,
              Mine, Beyond, Made
<1>2. ASSUME NEW c \in InfraCallers, CallInfra(c) \/ InfraStep(c) \/ InfraFails(c) PROVE InfraInv'
  BY <1>2, AskingKeeps, MakingKeeps, EnteringKeeps DEF InfraStep
<1>3. ASSUME NEW p \in InfraProcs, InfraCrash(p) PROVE InfraInv'
  BY <1>3, CrashKeeps
<1> QED BY <1>1, <1>2, <1>3 DEF InfraNext

\* The invariant holds of every behaviour.
LEMMA InfraInvariant == InfraSpec => []InfraInv
BY InfraStarts, InfraStepKeeps, PTL DEF InfraSpec

(***************************************************************************)
(* The types, whatever fails or crashes and whoever founds: what is stored *)
(* was made for some configuration.                                        *)
(***************************************************************************)
THEOREM InfraTypeCorrect == InfraSpec => []InfraTypeOK
<1>1. InfraInv => InfraTypeOK
  BY DEF InfraInv, InfraTypes
<1> QED BY <1>1, InfraInvariant, PTL

(***************************************************************************)
(* EnsureInfrastructure and the start of a process: who is ready works on  *)
(* collections of its dimension and, unless two writers of different       *)
(* settings raced to found the hive, under the manifest of its settings;   *)
(* who serves has the credential of its role.  Any founders, any failures  *)
(* and crashes.                                                            *)
(***************************************************************************)
THEOREM ReadyIsCompatibleAlways == InfraSpec => []ReadyIsCompatible
<1>1. InfraInv => ReadyIsCompatible
  BY DEF InfraInv, Entered, Under, ReadyIsCompatible
<1> QED BY <1>1, InfraInvariant, PTL

-----------------------------------------------------------------------------
(***************************************************************************)
(* The ingestion of a workspace.                                           *)
(***************************************************************************)
Sending == {"idle", "check", "offer"}
Outcomes == Done \union Undone

\* A file has one goroutine at most, and until that is done its outcome is the preset one.
InHand ==
  /\ \A w \in Pool : hand[w] # 0 => outcome[hand[w]] = "cancelled"
  /\ \A v, w \in Pool : hand[v] = hand[w] /\ hand[v] # 0 => v = w

\* While files are handed over, no file from next on has been touched.
Untouched ==
  phase \in Sending =>
    /\ pruneRun = FALSE
    /\ \A i \in next..Found : i \notin moved /\ outcome[i] = "cancelled" /\ \A w \in Pool : hand[w] # i

\* Before anything is listed nothing is under way; goroutines exit with empty hands.
Pristine ==
  /\ phase = "idle" => exited = {} /\ next = 1 /\ listed = {} /\ \A w \in Pool : hand[w] = 0
  /\ \A w \in exited : hand[w] = 0

\* What was confirmed was moved, and what was moved is not said to be untouched.
Honest ==
  /\ confirmed \subseteq moved
  /\ \A i \in moved : outcome[i] \in {"created", "updated"} \union Undone

\* The loop ends with all files handed over, or the context ended; a prune finds everything done.
Complete ==
  /\ phase \in {"check", "offer", "drain"} => listed = Files
  /\ phase = "offer" => next <= Found
  /\ phase = "drain" => ended \/ next > Found
  /\ pruneRun => /\ phase \in {"prune", "returned"} /\ next > Found
                 /\ \A w \in Pool : hand[w] = 0
                 /\ \A i \in Files : outcome[i] \in Done

WorkspaceInv == WorkspaceTypeOK /\ InHand /\ Untouched /\ Pristine /\ Honest /\ Complete

\* Before an invocation nothing is listed, handed over or moved.
LEMMA WorkspaceStarts == WorkspaceInit => WorkspaceInv
<1> SUFFICES ASSUME WorkspaceInit PROVE WorkspaceInv
  OBVIOUS
<1> USE WorkspaceAssumption DEF WorkspaceInit
<1>1. WorkspaceTypeOK
  <2>1. next \in 1..(Found + 1) /\ hand \in [Pool -> 0..Found] /\ outcome \in [Files -> Done \union Undone]
    BY DEF Undone
  <2> QED BY <2>1 DEF WorkspaceTypeOK
<1>2. InHand /\ Honest /\ Pristine
  BY DEF InHand, Honest, Pristine
<1>3. Untouched /\ Complete
  BY DEF Untouched, Complete, Files
<1> QED BY <1>1, <1>2, <1>3 DEF WorkspaceInv

\* Steps that touch no file: only the phase and what goes with it.
LEMMA PhasesKeep ==
  ASSUME WorkspaceInv, ContextDies \/ ScanFails \/ Scan \/ LeavesLoop \/ Offers \/ Prunes \/ ReportsPath
  PROVE  WorkspaceInv'
<1> USE WorkspaceAssumption DEF WorkspaceInv
<1>1. WorkspaceTypeOK'
  BY DEF WorkspaceTypeOK, ContextDies, ScanFails, Scan, LeavesLoop, Offers, Prunes, ReportsPath, Closes,
         MoreFiles, scan, report, Files
<1>2. InHand' /\ Honest'
  BY DEF InHand, Honest, ContextDies, ScanFails, Scan, LeavesLoop, Offers, Prunes, ReportsPath, Closes, scan, report
<1>3. Untouched' /\ Pristine'
  BY DEF Untouched, Pristine, Sending, ContextDies, ScanFails, Scan, LeavesLoop, Offers, Prunes, ReportsPath,
         Closes, scan, report
<1>4. Complete'
  <2>1. phase \in Sending => ~pruneRun
    BY DEF Untouched
  <2>2. CASE ContextDies \/ Offers \/ LeavesLoop
    BY <2>1, <2>2 DEF Complete, Sending, WorkspaceTypeOK, ContextDies, Offers, LeavesLoop, Closes, MoreFiles, scan, report
  <2>3. CASE ScanFails \/ Scan
    BY <2>1, <2>3 DEF Complete, Sending, ScanFails, Scan, scan, report
  <2>4. CASE Prunes
    BY <2>4 DEF Complete, Prunes, scan
  <2>5. CASE ReportsPath
    BY <2>5 DEF Complete, ReportsPath, scan
  <2> QED BY <2>2, <2>3, <2>4, <2>5
<1> QED BY <1>1, <1>2, <1>3, <1>4

\* A goroutine takes the next file, moves its head, reports it, or leaves.
LEMMA PoolKeeps ==
  ASSUME WorkspaceInv, NEW w \in Pool, Takes(w) \/ ExitsLoop(w) \/ MovesHead(w)
  PROVE  WorkspaceInv'
<1> USE WorkspaceAssumption DEF WorkspaceInv
<1>1. CASE Takes(w)
  <2>1. /\ phase = "offer" /\ hand[w] = 0 /\ w \notin exited /\ next \in Files
        /\ hand' = [hand EXCEPT ![w] = next] /\ next' = next + 1 /\ phase' = "check"
        /\ UNCHANGED <<ended, prune, listed, open, exited, outcome, confirmed, moved, report>>
    BY <1>1 DEF Takes, Complete, WorkspaceTypeOK, Files
  <2>2. hand'[w] = next /\ \A v \in Pool \ {w} : hand'[v] = hand[v]
    BY <2>1 DEF WorkspaceTypeOK
  <2>3. WorkspaceTypeOK'
    BY <2>1 DEF WorkspaceTypeOK, Files, report
  <2>4. \A v \in Pool : hand[v] # next
    BY <2>1 DEF Untouched, Sending, Files
  <2>5. InHand'
    BY <2>1, <2>2, <2>4 DEF InHand, Untouched, Sending, Files
  <2>6. Untouched' /\ Pristine'
    BY <2>1, <2>2 DEF Untouched, Pristine, Sending, Files, report, WorkspaceTypeOK
  <2>7. Honest' /\ Complete'
    BY <2>1 DEF Honest, Complete, report, Untouched, Sending
  <2> QED BY <2>3, <2>5, <2>6, <2>7
<1>2. CASE ExitsLoop(w)
  BY <1>2 DEF ExitsLoop, WorkspaceTypeOK, InHand, Untouched, Pristine, Honest, Complete, report
<1>3. CASE MovesHead(w)
  <2>1. /\ hand[w] # 0 /\ moved' = moved \union {hand[w]} /\ hand[w] \in Files
        /\ UNCHANGED <<ended, phase, scan, hand, outcome, confirmed, report>>
    BY <1>3 DEF MovesHead, WorkspaceTypeOK, Files
  <2>2. WorkspaceTypeOK' /\ InHand' /\ Complete' /\ Honest'
    BY <2>1 DEF WorkspaceTypeOK, InHand, Complete, Honest, scan, report, Undone
  <2>3. Untouched' /\ Pristine'
    BY <2>1 DEF Untouched, Pristine, scan, report
  <2> QED BY <2>2, <2>3
<1> QED BY <1>1, <1>2, <1>3

\* The result of a file: what it says agrees with the head.
LEMMA ResultKeeps ==
  ASSUME WorkspaceInv, NEW w \in Pool, Synchronized(w)
  PROVE  WorkspaceInv'
<1> USE WorkspaceAssumption DEF WorkspaceInv
<1> DEFINE i == hand[w]
<1>1. PICK res \in Results(i) : outcome' = [outcome EXCEPT ![i] = res[1]] /\ Confirms(i, res[2])
  BY DEF Synchronized
<1>2. /\ i # 0 /\ i \in Files /\ hand' = [hand EXCEPT ![w] = 0]
      /\ UNCHANGED <<ended, phase, scan, moved, report>>
  BY DEF Synchronized, WorkspaceTypeOK, Files
<1>3. /\ res[1] \in Done \union Undone
      /\ i \in moved => res[1] \in {"created", "updated"} \union Undone
      /\ i \notin moved => res[2] = FALSE
  <2>1. Failure \subseteq Undone
    BY DEF Failure, Undone
  <2>2. CASE i \in moved
    <3>1. PICK o \in {"created", "updated"} \union Undone, b \in BOOLEAN : res = <<o, b>>
      BY <1>1, <2>1, <2>2 DEF Results
    <3>2. res[1] = o
      BY <3>1
    <3> QED BY <2>2, <3>1, <3>2 DEF Done
  <2>3. CASE i \notin moved
    <3>1. PICK o \in {"unchanged", "ignored", "foreign", "missing"} \union Undone : res = <<o, FALSE>>
      BY <1>1, <2>1, <2>3 DEF Results
    <3>2. res[1] = o /\ res[2] = FALSE
      BY <3>1
    <3>3. o \in Done \union Undone
      BY DEF Done
    <3> QED BY <2>3, <3>2, <3>3
  <2> QED BY <2>2, <2>3
<1>4. confirmed' \in {confirmed, confirmed \union {i}} /\ (i \notin moved => confirmed' = confirmed)
  BY <1>1, <1>3 DEF Confirms
<1>5. outcome'[i] = res[1] /\ \A j \in Files \ {i} : outcome'[j] = outcome[j]
  BY <1>1, <1>2 DEF WorkspaceTypeOK
<1>6. hand'[w] = 0 /\ \A v \in Pool \ {w} : hand'[v] = hand[v]
  BY <1>2 DEF WorkspaceTypeOK
<1>7. WorkspaceTypeOK'
  BY <1>1, <1>2, <1>3, <1>4 DEF WorkspaceTypeOK, scan, report
<1>8. InHand'
  <2>1. \A v \in Pool : hand[v] # 0 => hand[v] \in Files
    BY DEF WorkspaceTypeOK, Files
  <2> QED BY <1>2, <1>5, <1>6, <2>1 DEF InHand
<1>9. Untouched' /\ Pristine'
  <2>1. phase \in Sending => i \notin next..Found
    BY DEF Untouched
  <2>2. \A j \in next..Found : j \in Files
    BY DEF WorkspaceTypeOK, Files
  <2>3. phase # "idle" /\ \A v \in exited : hand'[v] = 0
    BY <1>2, <1>6 DEF Pristine, WorkspaceTypeOK, scan
  <2>4. \A j \in next..Found : \A v \in Pool : hand[v] # j => hand'[v] # j
    BY <1>6, <2>2 DEF WorkspaceTypeOK, Files
  <2> QED BY <1>2, <1>5, <2>1, <2>2, <2>3, <2>4 DEF Untouched, Pristine, Sending, scan, report
<1>10. Honest'
  BY <1>2, <1>3, <1>4, <1>5 DEF Honest, WorkspaceTypeOK
<1>11. Complete'
  BY <1>2 DEF Complete, scan, report
<1> QED BY <1>7, <1>8, <1>9, <1>10, <1>11

\* What tallyOutcomes counts of one outcome.
LEMMA TallyCounts ==
  ASSUME WorkspaceTypeOK, NEW o \in Done \union Undone
  PROVE  /\ IsFiniteSet({i \in listed : outcome[i] = o}) /\ Tally[o] \in Nat
         /\ Tally[o] = Cardinality({i \in listed : outcome[i] = o})
<1> DEFINE S == {i \in listed : outcome[i] = o}
<1>1. IsFiniteSet(S)
  <2>1. IsFiniteSet(1..Found)
    BY FS_Interval, WorkspaceAssumption
  <2>2. S \subseteq 1..Found
    BY DEF WorkspaceTypeOK, Files
  <2> QED BY <2>1, <2>2, FS_Subset
<1>2. Tally[o] = Cardinality(S)
  BY DEF Tally
<1> QED BY <1>1, <1>2, FS_CardinalityType

\* A scan without a failed or cancelled file has done every file.
LEMMA NothingIncomplete ==
  ASSUME WorkspaceTypeOK, listed = Files, ~Incomplete
  PROVE  \A i \in Files : outcome[i] \in Done
<1>1. Tally["failed"] \in Nat /\ Tally["cancelled"] \in Nat
  BY TallyCounts DEF Undone
<1>2. Tally["failed"] = 0 /\ Tally["cancelled"] = 0
  BY <1>1 DEF Incomplete
<1>3. ASSUME NEW o \in Undone PROVE {i \in listed : outcome[i] = o} = {}
  <2>1. Tally[o] = 0
    BY <1>2 DEF Undone
  <2> QED BY <2>1, TallyCounts, FS_EmptySet
<1> QED BY <1>3 DEF WorkspaceTypeOK

\* Every file listed has one of the eight outcomes.
LEMMA TallyIsComplete ==
  ASSUME WorkspaceTypeOK
  PROVE  Cardinality(listed) = Tally["created"] + Tally["updated"] + Tally["unchanged"] + Tally["ignored"]
                               + Tally["foreign"] + Tally["missing"] + Tally["failed"] + Tally["cancelled"]
<1> DEFINE Of(o) == {i \in listed : outcome[i] = o}
           Up2 == Of("created") \union Of("updated")
           Up3 == Up2 \union Of("unchanged")
           Up4 == Up3 \union Of("ignored")
           Up5 == Up4 \union Of("foreign")
           Up6 == Up5 \union Of("missing")
           Up7 == Up6 \union Of("failed")
<1>1. \A o \in Done \union Undone :
        IsFiniteSet(Of(o)) /\ Tally[o] \in Nat /\ Tally[o] = Cardinality(Of(o))
  BY TallyCounts
<1>2. ASSUME NEW S, IsFiniteSet(S), NEW o \in Done \union Undone, S \intersect Of(o) = {}
      PROVE  IsFiniteSet(S \union Of(o)) /\ Cardinality(S \union Of(o)) = Cardinality(S) + Tally[o]
  <2>1. Cardinality(S \intersect Of(o)) = 0
    BY <1>2, FS_EmptySet
  <2>2. Cardinality(S) \in Nat
    BY <1>2, FS_CardinalityType
  <2>3. IsFiniteSet(Of(o)) /\ Tally[o] \in Nat /\ Tally[o] = Cardinality(Of(o))
    BY <1>1, <1>2
  <2> HIDE DEF Of
  <2>4. /\ IsFiniteSet(S \union Of(o))
        /\ Cardinality(S \union Of(o)) = Cardinality(S) + Cardinality(Of(o)) - Cardinality(S \intersect Of(o))
    BY <1>2, <2>3, FS_Union
  <2> QED BY <2>1, <2>2, <2>3, <2>4
<1>3. listed = Up7 \union Of("cancelled")
  BY DEF WorkspaceTypeOK, Done, Undone
<1>4. /\ Of("created") \intersect Of("updated") = {} /\ Up2 \intersect Of("unchanged") = {}
      /\ Up3 \intersect Of("ignored") = {} /\ Up4 \intersect Of("foreign") = {}
      /\ Up5 \intersect Of("missing") = {} /\ Up6 \intersect Of("failed") = {}
      /\ Up7 \intersect Of("cancelled") = {}
  OBVIOUS
<1>5. IsFiniteSet(Of("created")) /\ Cardinality(Of("created")) = Tally["created"]
  BY <1>1 DEF Done
<1> HIDE DEF Of
<1>6. IsFiniteSet(Up2) /\ Cardinality(Up2) = Tally["created"] + Tally["updated"]
  BY <1>2, <1>4, <1>5 DEF Done
<1> HIDE DEF Up2
<1>7. IsFiniteSet(Up3) /\ Cardinality(Up3) = Cardinality(Up2) + Tally["unchanged"]
  BY <1>2, <1>4, <1>6 DEF Done
<1> HIDE DEF Up3
<1>8. IsFiniteSet(Up4) /\ Cardinality(Up4) = Cardinality(Up3) + Tally["ignored"]
  BY <1>2, <1>4, <1>7 DEF Done
<1> HIDE DEF Up4
<1>9. IsFiniteSet(Up5) /\ Cardinality(Up5) = Cardinality(Up4) + Tally["foreign"]
  BY <1>2, <1>4, <1>8 DEF Done
<1> HIDE DEF Up5
<1>10. IsFiniteSet(Up6) /\ Cardinality(Up6) = Cardinality(Up5) + Tally["missing"]
  BY <1>2, <1>4, <1>9 DEF Done
<1> HIDE DEF Up6
<1>11. IsFiniteSet(Up7) /\ Cardinality(Up7) = Cardinality(Up6) + Tally["failed"]
  BY <1>2, <1>4, <1>10 DEF Undone
<1> HIDE DEF Up7
<1>12. Cardinality(listed) = Cardinality(Up7) + Tally["cancelled"]
  BY <1>2, <1>3, <1>4, <1>11 DEF Undone
<1> QED BY <1>6, <1>7, <1>8, <1>9, <1>10, <1>11, <1>12

\* The summary: a prune is only begun after a complete scan.
LEMMA SummaryKeeps ==
  ASSUME WorkspaceInv, Summarizes
  PROVE  WorkspaceInv'
<1> USE WorkspaceAssumption DEF WorkspaceInv
<1>1. /\ phase = "drain" /\ exited = Pool /\ UNCHANGED <<ended, scan, hand, outcome, confirmed, moved>>
      /\ phase' \in {"prune", "returned"}
      /\ \/ UNCHANGED report
         \/ ~ended /\ ~Incomplete /\ pruneRun' = prune /\ ok' = ~prune
  BY DEF Summarizes
<1>2. WorkspaceTypeOK' /\ InHand' /\ Untouched' /\ Pristine' /\ Honest'
  BY <1>1 DEF WorkspaceTypeOK, InHand, Untouched, Pristine, Honest, Sending, scan, report
<1>3. Complete'
  <2>1. CASE UNCHANGED report
    BY <1>1, <2>1 DEF Complete, scan, report
  <2>2. CASE ~ended /\ ~Incomplete
    <3>1. listed = Files /\ next > Found /\ \A w \in Pool : hand[w] = 0
      BY <1>1, <2>2 DEF Complete, Pristine
    <3>2. \A i \in Files : outcome[i] \in Done
      BY <2>2, <3>1, NothingIncomplete
    <3> QED BY <1>1, <3>1, <3>2 DEF Complete, scan
  <2> QED BY <1>1, <2>1, <2>2
<1> QED BY <1>2, <1>3

\* One file alone, from the start.
LEMMA PathKeeps ==
  ASSUME WorkspaceInv, IngestPath
  PROVE  WorkspaceInv'
<1> USE WorkspaceAssumption DEF WorkspaceInv
<1>1. PICK w \in Pool, i \in Files : hand' = [hand EXCEPT ![w] = i] /\ listed' = {i}
  BY DEF IngestPath
<1>2. /\ phase = "idle" /\ phase' = "single"
      /\ UNCHANGED <<ended, prune, next, open, exited, outcome, confirmed, moved, report>>
  BY DEF IngestPath
<1>3. \A v \in Pool : hand[v] = 0 /\ hand'[v] = (IF v = w THEN i ELSE 0)
  BY <1>1, <1>2 DEF Pristine, WorkspaceTypeOK, Files
<1>4. exited = {}
  BY <1>2 DEF Pristine
<1>5. WorkspaceTypeOK'
  BY <1>1, <1>2 DEF WorkspaceTypeOK, Files, report
<1>6. outcome[i] = "cancelled"
  BY <1>2 DEF Pristine, Untouched, Sending, Files
<1>7. InHand' /\ Untouched' /\ Pristine'
  <2>1. InHand'
    BY <1>2, <1>3, <1>6 DEF InHand, Files
  <2>2. Untouched' /\ Pristine'
    BY <1>2, <1>4 DEF Untouched, Pristine, Sending
  <2> QED BY <2>1, <2>2
<1>8. Honest' /\ Complete'
  BY <1>2 DEF Honest, Complete, Untouched, Sending, report
<1> QED BY <1>5, <1>7, <1>8

\* Every step keeps the invariant.
LEMMA WorkspaceStepKeeps == WorkspaceInv /\ [WorkspaceNext]_workspaceVars => WorkspaceInv'
<1> SUFFICES ASSUME WorkspaceInv, [WorkspaceNext]_workspaceVars PROVE WorkspaceInv'
  OBVIOUS
<1>1. CASE UNCHANGED workspaceVars
  BY <1>1 DEF workspaceVars, scan, report, WorkspaceInv, WorkspaceTypeOK, InHand, Untouched, Pristine, Honest, Complete
<1>2. CASE WorkspaceNext
  BY <1>2, PhasesKeep, PoolKeeps, ResultKeeps, SummaryKeeps, PathKeeps DEF WorkspaceNext, WorkspaceStep
<1> QED BY <1>1, <1>2

(***************************************************************************)
(* SyncWorkspace and its reports, for any number of files and goroutines   *)
(* and wherever the context ends: what is told of each file is so, each is *)
(* counted once, and a prune follows a complete scan only.                 *)
(***************************************************************************)
THEOREM ReportHonestAlways == WorkspaceSpec => []ReportHonest
<1>1. WorkspaceInv => ReportHonest
  BY TallyIsComplete DEF WorkspaceInv, Honest, Complete, ReportHonest, ReportIsTrue, PruneAfterFullScan
<1> QED BY <1>1, WorkspaceStarts, WorkspaceStepKeeps, PTL DEF WorkspaceSpec

-----------------------------------------------------------------------------
(***************************************************************************)
(* Documents sent by members.                                              *)
(***************************************************************************)
Stages == {"idle", "draft", "write", "expose", "publish", "commit"}

RemoteTypes == RemoteTypeOK /\ disturbed \in [Sends -> BOOLEAN] /\ edits \in Nat

\* What a request has got done is there as it was sent, unless a person came between.
Faithful ==
  \A r \in Sends :
    /\ stand[r] = "expose" => draft[r] = Bytes[r]
    /\ Path[r] \notin Manifests /\ ~disturbed[r] =>
         /\ stand[r] = "publish" => visible[Path[r]] = Bytes[r]
         /\ stand[r] = "commit" => read[r] = Bytes[r]

RemoteInv == RemoteTypes /\ Faithful

\* Requests and paths are different publishers; a document's bytes are neither nothing nor a part.
LEMMA PublishersApart ==
  /\ \A r \in Sends : r \in Publishers /\ PathOf(r) = Path[r] /\ Path[r] \in Paths /\ r \notin Paths
  /\ \A r \in Sends : Bytes[r] \in Contents /\ Bytes[r] # Nothing
  /\ \A p \in Paths : p \in Publishers /\ PathOf(p) = p /\ p \notin Sends
  /\ \A a \in Publishers : PathOf(a) \in Paths
BY RemoteAssumption DEF Publishers, PathOf, Contents

\* At the start no request is under way.
LEMMA RemoteStarts == RemoteInit => RemoteInv
<1> SUFFICES ASSUME RemoteInit PROVE RemoteInv
  OBVIOUS
<1>1. RemoteTypes
  BY DEF RemoteInit, RemoteTypes, RemoteTypeOK
<1>2. Faithful
  BY PublishersApart DEF RemoteInit, Faithful
<1> QED BY <1>1, <1>2 DEF RemoteInv

\* How a call of Ends leaves a publisher and its answer.
LEMMA EndsStands ==
  ASSUME RemoteTypes, NEW a \in Publishers, NEW result, Ends(a, result)
  PROVE  /\ stand' = [stand EXCEPT ![a] = "idle"]
         /\ a \notin Sends => answered' = answered
         /\ a \in Sends => answered' = [answered EXCEPT ![a] = Confirm(a, result)]
         /\ answered' \in [Sends -> {"none", "failed", "confirmed"}]
<1>1. CASE a \in Sends
  <2>1. Confirm(a, result) \in {"confirmed", "failed"}
    BY DEF Confirm
  <2> QED BY <1>1, <2>1 DEF Ends, Answers, Stands, RemoteTypes, RemoteTypeOK
<1>2. CASE a \notin Sends
  BY <1>2 DEF Ends, Stands, RemoteTypes, RemoteTypeOK
<1> QED BY <1>1, <1>2

\* A request before it is exposed.
LEMMA DraftKeeps ==
  ASSUME RemoteInv, NEW r \in Sends, SendDocument(r) \/ OpenDraft(r) \/ WriteDraft(r) \/ SaveFails(r)
  PROVE  RemoteInv'
<1> USE PublishersApart DEF RemoteInv, RemoteTypes, RemoteTypeOK
<1>1. /\ UNCHANGED <<visible, head, read, edits>>
      /\ stand' \in [Publishers -> Stages] /\ stand'[r] \notin {"publish", "commit"}
      /\ \A b \in Publishers \ {r} : stand'[b] = stand[b]
  BY DEF SendDocument, OpenDraft, WriteDraft, SaveFails, Answers, Stands, Stages
<1>2. /\ draft' \in [Sends -> Contents \union {Nothing, Partial}]
      /\ \A q \in Sends \ {r} : draft'[q] = draft[q]
      /\ stand'[r] = "expose" => draft'[r] = Bytes[r]
  BY DEF SendDocument, OpenDraft, WriteDraft, SaveFails, Answers, Stands
<1>3. /\ disturbed' \in [Sends -> BOOLEAN] /\ \A q \in Sends \ {r} : disturbed'[q] = disturbed[q]
      /\ answered' \in [Sends -> {"none", "failed", "confirmed"}]
  BY DEF SendDocument, OpenDraft, WriteDraft, SaveFails, Answers, Stands
<1>4. RemoteTypes'
  BY <1>1, <1>2, <1>3 DEF Stages
<1>5. Faithful'
  <2> SUFFICES ASSUME NEW q \in Sends
               PROVE  /\ stand'[q] = "expose" => draft'[q] = Bytes[q]
                      /\ Path[q] \notin Manifests /\ ~disturbed'[q] =>
                           /\ stand'[q] = "publish" => visible'[Path[q]] = Bytes[q]
                           /\ stand'[q] = "commit" => read'[q] = Bytes[q]
    BY DEF Faithful
  <2>1. CASE q = r
    BY <1>1, <1>2, <2>1
  <2>2. CASE q # r
    BY <1>1, <1>2, <1>3, <2>2 DEF Faithful
  <2> QED BY <2>1, <2>2
<1> QED BY <1>4, <1>5

\* A whole file becomes visible, where nothing or the same was, or for a manifest.
LEMMA ExposeKeeps ==
  ASSUME RemoteInv, NEW r \in Sends, Expose(r)
  PROVE  RemoteInv'
<1> USE PublishersApart DEF RemoteInv, RemoteTypes, RemoteTypeOK
<1>1. /\ stand[r] = "expose" /\ draft[r] = Bytes[r] /\ draft' = [draft EXCEPT ![r] = Nothing]
      /\ UNCHANGED <<head, read, disturbed, sent, edits>>
  BY DEF Expose, Faithful
<1>2. /\ \/ Replaces(r) /\ visible' = [visible EXCEPT ![Path[r]] = Bytes[r]]
         \/ ~Replaces(r) /\ visible' = visible
      /\ \/ stand' = [stand EXCEPT ![r] = "publish"] /\ visible'[Path[r]] = Bytes[r]
         \/ stand' = [stand EXCEPT ![r] = "idle"]
  BY <1>1 DEF Expose, SameFile, Answers, Stands
<1>3. answered' \in [Sends -> {"none", "failed", "confirmed"}]
  BY DEF Expose, Answers
<1>4. RemoteTypes'
  BY <1>1, <1>2, <1>3
<1>5. Faithful'
  <2> SUFFICES ASSUME NEW q \in Sends
               PROVE  /\ stand'[q] = "expose" => draft'[q] = Bytes[q]
                      /\ Path[q] \notin Manifests /\ ~disturbed[q] =>
                           /\ stand'[q] = "publish" => visible'[Path[q]] = Bytes[q]
                           /\ stand'[q] = "commit" => read[q] = Bytes[q]
    BY <1>1 DEF Faithful
  <2>1. CASE q = r
    BY <1>1, <1>2, <2>1
  <2>2. CASE q # r
    <3>1. stand'[q] = stand[q] /\ draft'[q] = draft[q]
      BY <1>1, <1>2, <2>2
    <3>2. Path[q] \notin Manifests /\ visible[Path[q]] = Bytes[q] => visible'[Path[q]] = Bytes[q]
      BY <1>2 DEF Replaces
    <3> QED BY <3>1, <3>2 DEF Faithful
  <2> QED BY <2>1, <2>2
<1> QED BY <1>4, <1>5

\* A publisher reads, notices, or commits: the files stay.
LEMMA PublisherKeeps ==
  ASSUME RemoteInv, NEW a \in Publishers,
         ReadVisible(a) \/ CommitHead(a) \/ (a \in Paths /\ Notice(a))
  PROVE  RemoteInv'
<1> USE PublishersApart DEF RemoteInv, RemoteTypes, RemoteTypeOK
<1>1. UNCHANGED <<visible, draft, disturbed, edits>>
  BY DEF ReadVisible, CommitHead, Notice
<1>2. CASE a \in Paths /\ Notice(a)
  <2>1. stand' = [stand EXCEPT ![a] = "publish"] /\ UNCHANGED <<head, read, answered>>
    BY <1>2 DEF Notice, Stands
  <2>2. \A r \in Sends : stand'[r] = stand[r]
    BY <1>2, <2>1
  <2>3. RemoteTypes'
    BY <1>1, <2>1
  <2>4. Faithful'
    BY <1>1, <2>1, <2>2 DEF Faithful
  <2> QED BY <2>3, <2>4
<1>3. CASE ReadVisible(a)
  <2>1. PathOf(a) \in Paths /\ UNCHANGED head /\ stand[a] = "publish"
    BY <1>3 DEF ReadVisible
  <2>2. \/ stand' = [stand EXCEPT ![a] = "idle"] /\ read' = read
        \/ stand' = [stand EXCEPT ![a] = "commit"] /\ read' = [read EXCEPT ![a] = visible[PathOf(a)]]
    BY <1>3, EndsStands DEF ReadVisible, Stands
  <2>3. answered' \in [Sends -> {"none", "failed", "confirmed"}]
    BY <1>3, EndsStands DEF ReadVisible
  <2>4. RemoteTypes'
    BY <1>1, <2>1, <2>2, <2>3
  <2>5. Faithful'
    <3> SUFFICES ASSUME NEW q \in Sends
                 PROVE  /\ stand'[q] = "expose" => draft[q] = Bytes[q]
                        /\ Path[q] \notin Manifests /\ ~disturbed[q] =>
                             /\ stand'[q] = "publish" => visible[Path[q]] = Bytes[q]
                             /\ stand'[q] = "commit" => read'[q] = Bytes[q]
      BY <1>1 DEF Faithful
    <3>1. CASE q = a
      BY <2>1, <2>2, <3>1 DEF Faithful
    <3>2. CASE q # a
      BY <2>2, <3>2 DEF Faithful
    <3> QED BY <3>1, <3>2
  <2> QED BY <2>4, <2>5
<1>4. CASE CommitHead(a)
  <2>1. /\ read' = [read EXCEPT ![a] = Nothing] /\ PathOf(a) \in Paths
        /\ \/ head' = [head EXCEPT ![PathOf(a)] = read[a]]
           \/ head' = head
    BY <1>4 DEF CommitHead
  <2>2. /\ stand' = [stand EXCEPT ![a] = "idle"]
        /\ answered' \in [Sends -> {"none", "failed", "confirmed"}]
    BY <1>4, EndsStands DEF CommitHead
  <2>3. RemoteTypes'
    BY <1>1, <2>1, <2>2
  <2>4. Faithful'
    BY <1>1, <2>1, <2>2 DEF Faithful
  <2> QED BY <2>3, <2>4
<1> QED BY <1>2, <1>3, <1>4

\* People touch a file and thereby every request for its path; a crash leaves no request.
LEMMA WorldKeeps ==
  ASSUME RemoteInv, PersonEdits \/ WriterCrash
  PROVE  RemoteInv'
<1> USE PublishersApart DEF RemoteInv, RemoteTypes, RemoteTypeOK
<1>1. CASE PersonEdits
  <2>1. PICK p \in Paths, b \in {Foreign, Nothing} :
          /\ visible' = [visible EXCEPT ![p] = b]
          /\ disturbed' = [r \in Sends |-> disturbed[r] \/ Path[r] = p]
    BY <1>1 DEF PersonEdits
  <2>2. edits' = edits + 1 /\ UNCHANGED <<draft, head, stand, read, answered, sent>>
    BY <1>1 DEF PersonEdits
  <2>3. b \in Contents \union {Nothing}
    BY DEF Contents
  <2>4. RemoteTypes'
    BY <2>1, <2>2, <2>3
  <2>5. Faithful'
    BY <2>1, <2>2 DEF Faithful
  <2> QED BY <2>4, <2>5
<1>2. CASE WriterCrash
  BY <1>2 DEF WriterCrash, Faithful
<1> QED BY <1>1, <1>2

\* Every step keeps the invariant.
LEMMA RemoteStepKeeps == RemoteInv /\ [RemoteNext]_remoteVars => RemoteInv'
<1> SUFFICES ASSUME RemoteInv, [RemoteNext]_remoteVars PROVE RemoteInv'
  OBVIOUS
<1>1. CASE UNCHANGED remoteVars
  BY <1>1 DEF remoteVars, RemoteInv, RemoteTypes, RemoteTypeOK, Faithful
<1>2. CASE RemoteNext
  BY <1>2, DraftKeeps, ExposeKeeps, PublisherKeeps, WorldKeeps, PublishersApart DEF RemoteNext, RequestStep
<1> QED BY <1>1, <1>2

\* A step that confirms a document does so with the head at its bytes.
LEMMA ConfirmationHonest ==
  ASSUME RemoteInv, RemoteNext, NEW r \in Sends,
         answered'[r] = "confirmed", answered[r] # "confirmed", Path[r] \notin Manifests, ~disturbed[r]
  PROVE  head'[Path[r]] = Bytes[r]
<1> USE PublishersApart DEF RemoteInv, RemoteTypes, RemoteTypeOK
<1>1. PICK a \in Publishers : ReadVisible(a) \/ CommitHead(a)
  <2>1. ASSUME NEW q \in Sends, SendDocument(q) \/ RequestStep(q) PROVE FALSE
    BY <2>1 DEF SendDocument, RequestStep, OpenDraft, WriteDraft, Expose, SaveFails, Answers
  <2>2. ASSUME (\E p \in Paths : Notice(p)) \/ PersonEdits \/ WriterCrash PROVE FALSE
    BY <2>2 DEF Notice, PersonEdits, WriterCrash
  <2> QED BY <2>1, <2>2 DEF RemoteNext
<1>2. CASE ReadVisible(a)
  <2> DEFINE bytes == visible[PathOf(a)]
  <2>1. CASE bytes = Nothing
    <3>1. Ends(a, "missing")
      BY <1>2, <2>1 DEF ReadVisible
    <3> QED BY <3>1, EndsStands DEF Confirm
  <2>2. CASE bytes # Nothing /\ bytes = head[PathOf(a)]
    <3>1. Ends(a, "unchanged") /\ head' = head /\ stand[a] = "publish"
      BY <1>2, <2>2 DEF ReadVisible
    <3>2. a = r
      BY <3>1, EndsStands
    <3> QED BY <2>2, <3>1, <3>2 DEF Faithful
  <2>3. CASE bytes # Nothing /\ bytes # head[PathOf(a)]
    BY <1>2, <2>3 DEF ReadVisible
  <2> QED BY <2>1, <2>2, <2>3
<1>3. CASE CommitHead(a)
  <2>1. PICK result \in {"published", "failed"} :
          /\ Ends(a, result)
          /\ \/ head' = [head EXCEPT ![PathOf(a)] = read[a]]
             \/ result = "failed" /\ head' = head
    BY <1>3 DEF CommitHead
  <2>2. stand[a] = "commit"
    BY <1>3 DEF CommitHead
  <2>3. a = r /\ result = "published"
    BY <2>1, EndsStands DEF Confirm
  <2> QED BY <2>1, <2>2, <2>3 DEF Faithful
<1> QED BY <1>1, <1>2, <1>3

\* Only a person changes a document that is there.
LEMMA ReplacedByPeople ==
  ASSUME RemoteInv, RemoteNext, NEW p \in Paths \ Manifests, visible[p] # Nothing, visible'[p] # visible[p]
  PROVE  edits' # edits
<1> USE PublishersApart DEF RemoteInv, RemoteTypes, RemoteTypeOK
<1>1. ASSUME NEW r \in Sends, Expose(r) PROVE FALSE
  BY <1>1 DEF Expose, Replaces
<1>2. PersonEdits
  BY <1>1 DEF RemoteNext, SendDocument, RequestStep, OpenDraft, WriteDraft, SaveFails, Notice, ReadVisible,
              CommitHead, WriterCrash
<1> QED BY <1>2 DEF PersonEdits

\* The action properties follow from the invariant.
LEMMA DocumentsKeptBySteps == []RemoteInv /\ [][RemoteNext]_remoteVars => DocumentsKept
<1>1. RemoteInv /\ [RemoteNext]_remoteVars =>
        [\A r \in Sends :
           /\ answered'[r] = "confirmed" /\ answered[r] # "confirmed"
           /\ Path[r] \notin Manifests /\ ~disturbed[r]
           => head'[Path[r]] = Bytes[r]]_remoteVars
  BY ConfirmationHonest
<1>2. RemoteInv /\ [RemoteNext]_remoteVars =>
        [\A p \in Paths \ Manifests :
           visible[p] # Nothing /\ visible'[p] # visible[p] => edits' # edits]_remoteVars
  BY ReplacedByPeople
<1> QED BY <1>1, <1>2, PTL DEF DocumentsKept, ConfirmedIsPublished, DocumentsNotReplaced

(***************************************************************************)
(* IngestRemoteDocument, for any requests and paths: a member who is told  *)
(* that a document is published may rely on it, and a file that a person   *)
(* has put there is never replaced, whatever the watcher, other requests   *)
(* and crashes do in between.                                              *)
(***************************************************************************)
THEOREM DocumentsKeptAlways == RemoteSpec => DocumentsKept
<1>1. RemoteSpec => []RemoteInv
  BY RemoteStarts, RemoteStepKeeps, PTL DEF RemoteSpec
<1>2. []RemoteInv /\ [][RemoteNext]_remoteVars => DocumentsKept
  BY DocumentsKeptBySteps
<1> QED BY <1>1, <1>2, PTL DEF RemoteSpec

-----------------------------------------------------------------------------
(***************************************************************************)
(* A session of an agent.                                                  *)
(***************************************************************************)
\* Only a process that is up listens, what runs waits for its one answer.
Dialogue ==
  /\ listener \in {"on", "stuck"} => process = "up"
  /\ replies \in Seq(1..decoded)
  /\ \A i \in running : Expects(i)

McpInv == McpTypeOK /\ Dialogue /\ AnsweredOnce

\* A sequence over a set has its elements there, and is one over a larger set.
LEMMA ElementsOf ==
  ASSUME NEW n, NEW s \in Seq(n)
  PROVE  /\ \A x \in Range(s) : x \in n
         /\ \A m : n \subseteq m => s \in Seq(m)
<1>1. Len(s) \in Nat /\ DOMAIN s = 1..Len(s) /\ s \in [1..Len(s) -> n]
  OBVIOUS
<1>2. \A x \in Range(s) : x \in n
  BY <1>1 DEF Range
<1>3. ASSUME NEW m, n \subseteq m PROVE s \in Seq(m)
  <2>1. s \in [1..Len(s) -> m]
    BY <1>1, <1>3
  <2> QED BY <1>1, <2>1, SeqDef
<1> QED BY <1>2, <1>3

\* One more answer, to a message that has none.
LEMMA ReplyOnce ==
  ASSUME NEW i, NEW n, NEW s \in Seq(n), NEW m, i \in m, n \subseteq m,
         IsInjective(s), i \notin Range(s)
  PROVE  /\ Append(s, i) \in Seq(m) /\ IsInjective(Append(s, i))
         /\ Range(Append(s, i)) = Range(s) \union {i}
<1> DEFINE t == Append(s, i)
<1>1. Len(s) \in Nat /\ DOMAIN s = 1..Len(s) /\ \A j \in DOMAIN s : s[j] \in n
  OBVIOUS
<1>2. t \in Seq(m)
  <2>1. s \in Seq(m)
    BY ElementsOf
  <2> QED BY <2>1
<1>3. Len(t) = Len(s) + 1 /\ DOMAIN t = 1..(Len(s) + 1)
  BY <1>1
<1>4. t[Len(s) + 1] = i /\ \A j \in DOMAIN s : t[j] = s[j]
  BY <1>1
<1> HIDE DEF t
<1>5. IsInjective(t)
  BY <1>1, <1>3, <1>4 DEF IsInjective, Range
<1>6. Range(t) = Range(s) \union {i}
  <2>1. DOMAIN t = DOMAIN s \union {Len(s) + 1}
    BY <1>1, <1>3
  <2> QED BY <1>1, <1>4, <2>1 DEF Range
<1> QED BY <1>2, <1>5, <1>6 DEF t

\* A process that starts listens to nobody.
LEMMA McpStarts == McpInit => McpInv
<1> SUFFICES ASSUME McpInit PROVE McpInv
  OBVIOUS
<1> USE DEF McpInit
<1>1. McpTypeOK
  <2>1. wire \in Seq(MessageKinds) /\ Len(wire) = 0
    OBVIOUS
  <2>2. decoded \in 0..Len(wire) /\ running \subseteq 1..decoded
    BY <2>1
  <2> QED BY <2>1, <2>2 DEF McpTypeOK
<1>2. Dialogue /\ AnsweredOnce
  BY DEF Dialogue, AnsweredOnce, IsInjective, Range
<1> QED BY <1>1, <1>2 DEF McpInv

\* The agent, logins, signals and the start: nothing is dispatched or answered.
LEMMA OutsideKeeps ==
  ASSUME McpInv, \/ AgentLeaves \/ LoginChanges \/ Signal \/ StartFails \/ InputEnds
                 \/ \E role \in {"writer", "reader", "remote"} : Serves(role)
  PROVE  McpInv'
<1>1. UNCHANGED <<wire, decoded, running, replies>>
  BY DEF AgentLeaves, LoginChanges, Signal, StartFails, InputEnds, Serves
<1>2. McpTypeOK'
  <2> USE DEF McpInv, Dialogue, McpTypeOK
  <2>1. CASE AgentLeaves
    BY <2>1 DEF AgentLeaves
  <2>2. CASE LoginChanges
    BY <2>2 DEF LoginChanges
  <2>3. CASE Signal
    BY <2>3 DEF Signal
  <2>6. CASE StartFails
    BY <2>6 DEF StartFails
  <2>4. CASE InputEnds
    BY <2>4 DEF InputEnds, AfterEnd
  <2>5. CASE \E role \in {"writer", "reader", "remote"} : Serves(role)
    BY <2>5 DEF Serves
  <2> QED BY <2>1, <2>2, <2>3, <2>4, <2>5, <2>6
<1>3. Dialogue'
  BY <1>1 DEF McpInv, Dialogue, Expects, AgentLeaves, LoginChanges, Signal, StartFails, InputEnds, Serves, AfterEnd
<1>4. AnsweredOnce'
  BY <1>1 DEF McpInv, AnsweredOnce, Expects
<1> QED BY <1>2, <1>3, <1>4 DEF McpInv

\* Another message: those before it stay as they are.
LEMMA SendingKeeps ==
  ASSUME McpInv, AgentSends
  PROVE  McpInv'
<1>1. PICK k \in MessageKinds : wire' = Append(wire, k)
  BY DEF AgentSends
<1>2. UNCHANGED <<decoded, listener, running, replies, process>>
  BY DEF AgentSends
<1>3. /\ wire' \in Seq(MessageKinds) /\ Len(wire') = Len(wire) + 1
      /\ \A i \in 1..Len(wire) : wire'[i] = wire[i]
  BY <1>1 DEF McpInv, McpTypeOK
<1>4. \A i \in 1..decoded : Expects(i)' = Expects(i)
  BY <1>2, <1>3 DEF Expects, McpInv, McpTypeOK
<1>5. McpTypeOK'
  BY <1>2, <1>3 DEF AgentSends, McpInv, McpTypeOK
<1>6. Dialogue'
  BY <1>2, <1>4 DEF Dialogue, McpInv, McpTypeOK
<1>7. AnsweredOnce'
  <2>1. \A i \in Range(replies) : i \in 1..decoded
    BY ElementsOf DEF McpInv, Dialogue
  <2> QED BY <1>2, <1>4, <2>1 DEF AnsweredOnce, McpInv
<1> QED BY <1>5, <1>6, <1>7 DEF McpInv

\* One message more is dispatched: it has no answer yet, and gets one here or is left running.
LEMMA DispatchKeeps ==
  ASSUME McpInv, Dispatch
  PROVE  McpInv'
<1> DEFINE i == decoded + 1
<1>1. /\ decoded \in Nat /\ Len(wire) \in Nat /\ i <= Len(wire) /\ process = "up"
      /\ wire[i] \in MessageKinds
  BY DEF Dispatch, McpInv, McpTypeOK, Dialogue
<1>2. /\ decoded' = i /\ UNCHANGED <<wire, client, listener, mayApprove, process, signalled, watching>>
      /\ running' \in {running, running \union {i}}
      /\ \/ replies' = replies
         \/ replies' = Append(replies, i) /\ Expects(i) /\ running' = running
      /\ running' # running => Expects(i)
  BY DEF Dispatch, Reply, Expects
<1>3. \A j \in Range(replies) : j \in 1..decoded
  BY ElementsOf DEF McpInv, Dialogue
<1>4. i \notin Range(replies) /\ i \notin running /\ 1..decoded \subseteq 1..i /\ i \in 1..i
  BY <1>1, <1>3 DEF McpInv, McpTypeOK
<1>5. McpTypeOK'
  BY <1>1, <1>2 DEF McpInv, McpTypeOK
<1>6. CASE replies' = replies
  <2>1. replies \in Seq(1..i)
    BY <1>4, ElementsOf DEF McpInv, Dialogue
  <2>2. Dialogue'
    BY <1>2, <1>6, <2>1 DEF McpInv, Dialogue, Expects
  <2>3. AnsweredOnce'
    BY <1>1, <1>2, <1>3, <1>4, <1>6 DEF McpInv, AnsweredOnce, Expects
  <2> QED BY <1>5, <2>2, <2>3 DEF McpInv
<1>7. CASE replies' = Append(replies, i) /\ Expects(i) /\ running' = running
  <2>1. /\ Append(replies, i) \in Seq(1..i) /\ IsInjective(Append(replies, i))
        /\ Range(Append(replies, i)) = Range(replies) \union {i}
    BY <1>4, ReplyOnce DEF McpInv, Dialogue, AnsweredOnce
  <2>2. Dialogue'
    BY <1>2, <1>7, <2>1 DEF McpInv, Dialogue, Expects
  <2>3. AnsweredOnce'
    BY <1>1, <1>2, <1>3, <1>4, <1>7, <2>1 DEF McpInv, AnsweredOnce, Expects
  <2> QED BY <1>5, <2>2, <2>3 DEF McpInv
<1> QED BY <1>2, <1>6, <1>7

\* A tool that returns is the only one to answer its message.
LEMMA ToolKeeps ==
  ASSUME McpInv, NEW i \in running, ToolAnswers(i)
  PROVE  McpInv'
<1>1. /\ running' = running \ {i} /\ replies' = Append(replies, i)
      /\ UNCHANGED <<wire, decoded, client, listener, mayApprove, process, signalled, watching>>
  BY DEF ToolAnswers, Returns, Reply
<1>2. i \in 1..decoded /\ i \notin Range(replies) /\ Expects(i) /\ i <= decoded
  BY DEF McpInv, McpTypeOK, AnsweredOnce, Dialogue
<1>3. /\ Append(replies, i) \in Seq(1..decoded) /\ IsInjective(Append(replies, i))
      /\ Range(Append(replies, i)) = Range(replies) \union {i}
  BY <1>2, ReplyOnce DEF McpInv, Dialogue, AnsweredOnce
<1>4. McpTypeOK'
  BY <1>1 DEF McpInv, McpTypeOK
<1>5. Dialogue'
  BY <1>1, <1>3 DEF McpInv, Dialogue, Expects
<1>6. AnsweredOnce'
  BY <1>1, <1>2, <1>3 DEF McpInv, AnsweredOnce, Expects
<1> QED BY <1>4, <1>5, <1>6 DEF McpInv

\* The process goes down with whatever still runs.
LEMMA ShutdownKeeps ==
  ASSUME McpInv, Shutdown
  PROVE  McpInv'
<1>1. /\ process' = "down" /\ watching' = FALSE /\ running' = {} /\ listener' = "done"
      /\ UNCHANGED <<wire, decoded, client, replies, mayApprove, signalled>>
  BY DEF Shutdown, WatchersEnd
<1>2. McpTypeOK' /\ Dialogue'
  BY <1>1 DEF McpInv, McpTypeOK, Dialogue
<1>3. AnsweredOnce'
  BY <1>1 DEF McpInv, AnsweredOnce, Expects
<1> QED BY <1>2, <1>3 DEF McpInv

\* Every step keeps the invariant.
LEMMA McpStepKeeps == McpInv /\ [McpNext]_mcpVars => McpInv'
<1> SUFFICES ASSUME McpInv, [McpNext]_mcpVars PROVE McpInv'
  OBVIOUS
<1>1. CASE UNCHANGED mcpVars
  BY <1>1 DEF mcpVars, McpInv, McpTypeOK, Dialogue, AnsweredOnce, Expects
<1>2. CASE McpNext
  BY <1>2, OutsideKeeps, SendingKeeps, DispatchKeeps, ToolKeeps, ShutdownKeeps DEF McpNext, McpStep
<1> QED BY <1>1, <1>2

(***************************************************************************)
(* handleMCPMethod, for any number of messages: in whatever order the      *)
(* goroutines finish, a message is answered once at most, and only one     *)
(* that expects an answer and has no goroutine any more.                   *)
(***************************************************************************)
THEOREM AnsweredOnceAlways == McpSpec => []AnsweredOnce
<1>1. McpInv => AnsweredOnce
  BY DEF McpInv
<1> QED BY <1>1, McpStarts, McpStepKeeps, PTL DEF McpSpec

-----------------------------------------------------------------------------
(***************************************************************************)
(* The machines side by side.                                              *)
(***************************************************************************)
MachinesInv == AuditInv /\ InfraInv /\ WorkspaceInv /\ RemoteInv /\ McpInv

\* A step of the machines is a step of one of them, or of none.
LEMMA OneMachineSteps ==
  ASSUME [MachinesNext]_machinesVars
  PROVE  /\ [AuditNext]_auditVars /\ [InfraNext]_infraVars /\ [WorkspaceNext]_workspaceVars
         /\ [RemoteNext]_remoteVars /\ [McpNext]_mcpVars
BY DEF MachinesNext, machinesVars

\* All the invariants hold of all the machines together.
LEMMA MachinesInvariant == MachinesSpec => []MachinesInv
<1>1. MachinesInit => MachinesInv
  BY AuditStarts, InfraStarts, WorkspaceStarts, RemoteStarts, McpStarts DEF MachinesInit, MachinesInv
<1>2. MachinesInv /\ [MachinesNext]_machinesVars => MachinesInv'
  BY OneMachineSteps, AuditStepKeeps, InfraStepKeeps, WorkspaceStepKeeps, RemoteStepKeeps, McpStepKeeps
     DEF MachinesInv
<1> QED BY <1>1, <1>2, PTL DEF MachinesSpec

\* The five machines keep to their types, whichever of them runs.
THEOREM MachinesTypeCorrect == MachinesSpec => []MachinesTypeOK
<1>1. MachinesInv => MachinesTypeOK
  BY DEF MachinesInv, AuditInv, AuditTypes, InfraInv, InfraTypes, WorkspaceInv, RemoteInv,
         RemoteTypes, McpInv, MachinesTypeOK
<1> QED BY <1>1, MachinesInvariant, PTL

\* What a file's result, an audit record or an answer has to satisfy at any moment.
MachinesSafe == NothingAfterGap /\ ReadyIsCompatible /\ ReportHonest /\ AnsweredOnce

(***************************************************************************)
(* The promises of the single machines hold of all of them side by side,   *)
(* the specification that is model-checked.                                *)
(***************************************************************************)
THEOREM MachinesKeepTheirPromises == MachinesSpec => []MachinesSafe /\ YoungFilesKept /\ DocumentsKept
<1>1. MachinesInv => MachinesSafe
  BY TallyIsComplete
     DEF MachinesInv, MachinesSafe, AuditInv, Latches, NothingAfterGap, McpInv,
         InfraInv, Entered, Under, ReadyIsCompatible,
         WorkspaceInv, Honest, Complete, ReportHonest, ReportIsTrue, PruneAfterFullScan
<1>2. MachinesSpec => [][AuditNext]_auditVars /\ [][RemoteNext]_remoteVars
  BY OneMachineSteps, PTL DEF MachinesSpec
<1>3. MachinesInv => AuditInv /\ RemoteInv
  BY DEF MachinesInv
<1>4. MachinesSpec => [][YoungKept]_auditVars
  BY <1>2, <1>3, MachinesInvariant, YoungKeptByStep, PTL
<1>5. MachinesSpec => YoungFilesKept
  BY <1>4 DEF YoungKept, YoungFilesKept
<1>6. MachinesSpec => DocumentsKept
  BY <1>2, <1>3, MachinesInvariant, DocumentsKeptBySteps, PTL
<1> QED BY <1>1, <1>5, <1>6, MachinesInvariant, PTL
================================================================================
