-------------------------------- MODULE AuditLog --------------------------------
(***************************************************************************)
(* FileAudit and IngestionWorker.audit (server/audit.go): the audit trail. *)
(*                                                                         *)
(* Every process appends to a file of its own in one directory, renames it *)
(* when it is full, and after each record removes what the retention has   *)
(* outlived, files of other processes included.  A critical operation      *)
(* records that it is prepared, takes effect, and records that it is       *)
(* committed; a record that fails latches the audit of its process.        *)
(***************************************************************************)
EXTENDS Integers, FiniteSets

CONSTANTS
  Auditors,      \* goroutines that record events
  AuditProcs,    \* processes
  AuditProc,     \* the process of each goroutine
  MaxRecords,    \* records that fit into a file: maxBytes
  MaxRotations,  \* bound: renamed files of a process
  MaxOps         \* bound: operations begun, and files that grow old

ASSUME AuditAssumption ==
  /\ AuditProc \in [Auditors -> AuditProcs]
  /\ MaxRecords \in Nat \ {0} /\ MaxRotations \in Nat /\ MaxOps \in Nat

\* The file a process appends to, and those it has renamed (by a fresh uuid); the
\* last number is a file of an earlier session.
AuditFiles == AuditProcs \X (0..MaxRotations)
Current(p) == <<p, 0>>

VARIABLES
  age,       \* of each file: "none", "young", or "old" by its modification time
  room,      \* records the current file of a process still takes
  rotated,   \* files it has renamed
  life,      \* the process is "new", "up" or "down"
  failed,    \* FileAudit.failed
  blocked,   \* IngestionWorker.auditFailed
  where, event,   \* of a goroutine: where it stands, and what it records
  todo, doomed,   \* of its expire: the files to look at, and the one to remove
  gap,       \* history: the process has lost a record
  intact,    \* history: its process had lost none when the goroutine recorded
  ops        \* operations begun

dirVars   == <<age, room, rotated>>
latchVars == <<life, failed, blocked>>
auditVars == <<dirVars, latchVars, where, event, todo, doomed, gap, intact, ops>>

NoFile == <<>>

AuditInit ==
  /\ \E f \in AuditProcs \X {MaxRotations} :
       age = [g \in AuditFiles |-> IF g = f THEN "old" ELSE "none"]
  /\ room = [p \in AuditProcs |-> MaxRecords] /\ rotated = [p \in AuditProcs |-> 0]
  /\ life = [p \in AuditProcs |-> "new"]
  /\ failed = [p \in AuditProcs |-> FALSE] /\ blocked = [p \in AuditProcs |-> FALSE]
  /\ where = [t \in Auditors |-> "idle"] /\ event = [t \in Auditors |-> "none"]
  /\ todo = [t \in Auditors |-> {}] /\ doomed = [t \in Auditors |-> NoFile]
  /\ gap = [p \in AuditProcs |-> FALSE] /\ intact = [t \in Auditors |-> TRUE]
  /\ ops = 0

\* FileAudit.mu
MutexFree(p) == \A t \in Auditors : AuditProc[t] = p => where[t] \notin {"expire", "remove"}

AuditGo(t, place) == where' = [where EXCEPT ![t] = place]

(***************************************************************************)
(* The first record of a process opens its audit, and the last closes it;  *)
(* a "note" is a diagnostic or a usage record, which blocks nothing.       *)
(***************************************************************************)
EventsOf(p) ==
  CASE life[p] = "new" -> {"started"}
    [] life[p] = "up"  -> {"note", "prepared", "stopped"}
    [] OTHER           -> {}

Alone(t) == \A u \in Auditors \ {t} : AuditProc[u] = AuditProc[t] => where[u] = "idle"

BeginOp(t) ==
  /\ where[t] = "idle" /\ ops < MaxOps /\ ops' = ops + 1
  /\ \E e \in EventsOf(AuditProc[t]) :
       /\ e \in {"started", "stopped"} => Alone(t)
       /\ event' = [event EXCEPT ![t] = e]
       /\ AuditGo(t, IF e \in {"started", "stopped"} THEN "record" ELSE "check")
       /\ life' = [life EXCEPT ![AuditProc[t]] =
                     CASE e = "started" -> "starting" [] e = "stopped" -> "down" [] OTHER -> @]
  /\ UNCHANGED <<dirVars, failed, blocked, todo, doomed, gap, intact>>

\* IngestionWorker.audit asks without FileAudit's mutex.
CheckLatch(t) ==
  /\ where[t] = "check"
  /\ AuditGo(t, IF blocked[AuditProc[t]] THEN "lost" ELSE "record")
  /\ UNCHANGED <<dirVars, latchVars, event, todo, doomed, gap, intact, ops>>

(* Mutant: the latch is not asked again under the mutex. *)
NeverLatched(p) == FALSE

Latched(p) == failed[p]

FileIsFull(p) == room[p] = 0

(***************************************************************************)
(* record, up to expire: the file is renamed if it is full, and the record *)
(* is written and synchronized.                                            *)
(***************************************************************************)
AppendRecord(t) ==
  LET p    == AuditProc[t]
      full == FileIsFull(p)
      kept == IF full THEN [age EXCEPT ![<<p, rotated[p] + 1>>] = age[Current(p)]] ELSE age
      now  == [kept EXCEPT ![Current(p)] = "young"]
  IN  /\ where[t] = "record" /\ MutexFree(p) /\ ~Latched(p)
      /\ full => rotated[p] + 1 < MaxRotations
      /\ age' = now /\ rotated' = [rotated EXCEPT ![p] = IF full THEN @ + 1 ELSE @]
      /\ room' = [room EXCEPT ![p] = IF full THEN MaxRecords - 1 ELSE @ - 1]
      /\ todo' = [todo EXCEPT ![t] = {f \in AuditFiles : now[f] # "none"} \ {Current(p)}]
      /\ intact' = [intact EXCEPT ![t] = ~gap[p]]
      /\ AuditGo(t, "expire") /\ UNCHANGED <<latchVars, event, doomed, gap, ops>>

LoseRecord(t) ==
  /\ failed' = [failed EXCEPT ![AuditProc[t]] = TRUE]
  /\ gap' = [gap EXCEPT ![AuditProc[t]] = TRUE]
  /\ AuditGo(t, "lost")
  /\ todo' = [todo EXCEPT ![t] = {}] /\ doomed' = [doomed EXCEPT ![t] = NoFile]

\* A system call fails, or the latch is closed.
AppendFails(t) ==
  /\ where[t] = "record" /\ MutexFree(AuditProc[t]) /\ LoseRecord(t)
  /\ UNCHANGED <<dirVars, life, blocked, event, intact, ops>>

(***************************************************************************)
(* expire: a file is looked at, and removed if it was too old.  One that a *)
(* peer removes in between makes the record fail.                          *)
(***************************************************************************)
(* Mutant: whatever is not in use is removed. *)
NotInUse(f) == TRUE

Expired(f) == age[f] = "old"

LookAtFile(t) ==
  /\ where[t] = "expire"
  /\ \E f \in todo[t] :
       IF age[f] = "none" THEN LoseRecord(t)
       ELSE /\ todo' = [todo EXCEPT ![t] = @ \ {f}] /\ UNCHANGED <<failed, gap>>
            /\ IF Expired(f)
                 THEN AuditGo(t, "remove") /\ doomed' = [doomed EXCEPT ![t] = f]
                 ELSE UNCHANGED <<where, doomed>>
  /\ UNCHANGED <<dirVars, life, blocked, event, intact, ops>>

RemoveFile(t) ==
  /\ where[t] = "remove"
  /\ IF age[doomed[t]] = "none" THEN LoseRecord(t) /\ UNCHANGED age
     ELSE /\ age' = [age EXCEPT ![doomed[t]] = "none"] /\ AuditGo(t, "expire")
          /\ doomed' = [doomed EXCEPT ![t] = NoFile] /\ UNCHANGED <<failed, gap, todo>>
  /\ UNCHANGED <<room, rotated, life, blocked, event, intact, ops>>

(***************************************************************************)
(* The caller: a prepared operation may go on, and only then.              *)
(***************************************************************************)
Recorded(t) ==
  LET p == AuditProc[t]
  IN  /\ where[t] = "expire" /\ todo[t] = {}
      /\ AuditGo(t, IF event[t] = "prepared" THEN "act" ELSE "idle")
      /\ life' = [life EXCEPT ![p] = IF event[t] = "started" THEN "up" ELSE @]
      /\ UNCHANGED <<dirVars, failed, blocked, event, todo, doomed, gap, intact, ops>>

NotRecorded(t) ==
  LET p == AuditProc[t]
  IN  /\ where[t] = "lost" /\ AuditGo(t, "idle")
      /\ blocked' = [blocked EXCEPT ![p] = @ \/ event[t] \notin {"started", "stopped"}]
      /\ life' = [life EXCEPT ![p] = IF event[t] = "started" THEN "down" ELSE @]
      /\ UNCHANGED <<dirVars, failed, event, todo, doomed, gap, intact, ops>>

\* The control write, which may fail.
TakeEffect(t) ==
  /\ where[t] = "act"
  /\ \/ AuditGo(t, "check") /\ event' = [event EXCEPT ![t] = "committed"]
     \/ AuditGo(t, "idle") /\ UNCHANGED event
  /\ UNCHANGED <<dirVars, latchVars, todo, doomed, gap, intact, ops>>

\* Nothing is written for longer than the retention.
Elapse ==
  /\ ops < MaxOps /\ ops' = ops + 1
  /\ \E f \in AuditFiles : age[f] = "young" /\ age' = [age EXCEPT ![f] = "old"]
  /\ UNCHANGED <<room, rotated, latchVars, where, event, todo, doomed, gap, intact>>

AuditStep(t) ==
  \/ CheckLatch(t) \/ AppendRecord(t) \/ AppendFails(t) \/ LookAtFile(t) \/ RemoveFile(t)
  \/ Recorded(t) \/ NotRecorded(t) \/ TakeEffect(t)

AuditNext == (\E t \in Auditors : BeginOp(t) \/ AuditStep(t)) \/ Elapse

\* Goroutines run; whoever waits for the mutex meets at most MaxOps others.
AuditFairness == \A t \in Auditors : WF_auditVars(AuditStep(t))

AuditSpec == AuditInit /\ [][AuditNext]_auditVars /\ AuditFairness
----------------------------------------------------------------------------
\* The types.  A current file never holds more than its limit.
AuditTypeOK ==
  /\ age \in [AuditFiles -> {"none", "young", "old"}] /\ room \in [AuditProcs -> 0..MaxRecords]
  /\ rotated \in [AuditProcs -> 0..MaxRotations]
  /\ life \in [AuditProcs -> {"new", "starting", "up", "down"}]
  /\ failed \in [AuditProcs -> BOOLEAN] /\ blocked \in [AuditProcs -> BOOLEAN]
  /\ where \in [Auditors -> {"idle", "check", "record", "expire", "remove", "lost", "act"}]
  /\ doomed \in [Auditors -> AuditFiles \union {NoFile}] /\ todo \in [Auditors -> SUBSET AuditFiles]

(***************************************************************************)
(* IngestionWorker.audit and FileAudit.Record: once a record is lost, even *)
(* one that blocks nothing itself, no operation of the process is let      *)
(* through that had not recorded its preparation before, although the      *)
(* goroutines ask the worker's latch without a lock.                       *)
(***************************************************************************)
NothingAfterGap == \A t \in Auditors : where[t] = "act" => intact[t]

(***************************************************************************)
(* expire: a renamed file that is younger than the retention is not        *)
(* removed, by its own process or by a peer, although others rename,       *)
(* remove and append between the look at a file and its removal.           *)
(***************************************************************************)
YoungFilesKept ==
  [][\A p \in AuditProcs : \A i \in 1..rotated[p] :
       age[<<p, i>>] = "young" => age'[<<p, i>>] # "none"]_auditVars

\* Record: whoever records is told, although expire holds the mutex over file system calls.
RecordReturns == \A t \in Auditors : where[t] = "check" ~> where[t] \in {"idle", "act"}
================================================================================
