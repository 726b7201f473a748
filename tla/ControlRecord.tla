----------------------------- MODULE ControlRecord -----------------------------
(***************************************************************************)
(* upsertControl (server/revision.go): the optimistic write of one record  *)
(* of the control collection, through the retrying gRPC interceptor        *)
(* (server/retry.go), by several writers at once.                          *)
(*                                                                         *)
(* A writer reads the record, sends an upsert that names the version it    *)
(* expects (none when there was no record), reads the record again, and    *)
(* reports success when it finds its own payload.  Requests and answers    *)
(* may be lost; a request that timed out may still be executed; the        *)
(* interceptor repeats an attempt that failed.  Two payloads are never     *)
(* equal: they carry the writer and the time.                              *)
(***************************************************************************)
EXTENDS Integers, FiniteSets

CONSTANTS
  Clients,      \* threads that write the record
  MaxAttempts,  \* serviceRetryPolicy.MaxAttempts
  MaxWrites,    \* bound: calls of upsertControl per client
  Initial,      \* version of the record in the first state, 0 when absent
  NoValue       \* payload of the initial or absent record

ASSUME ControlRecordAssumption ==
  /\ MaxAttempts \in Nat \ {0}
  /\ MaxWrites \in Nat
  /\ Initial \in Nat
  /\ NoValue \notin Clients \X Nat

VARIABLES
  rec,      \* the stored record: control_version (0: no record) and payload
  net,      \* upsert requests under way to the server
  pc, calls, seen, attempt, answered,   \* per client
  applied,  \* history: the writes that took effect
  acked     \* history: the writes upsertControl reported as committed

serverVars == <<rec, applied>>
clientVars == <<pc, calls, seen, attempt, answered>>
controlVars == <<serverVars, net, clientVars, acked>>

Writes == Clients \X (1..MaxWrites)

Requests == [write : Writes, expected : Nat]

Write(c) == <<c, calls[c]>>

ControlInit ==
  /\ rec = [version |-> Initial, value |-> NoValue]
  /\ net = {}
  /\ pc = [c \in Clients |-> "idle"]
  /\ calls = [c \in Clients |-> 0]
  /\ seen = [c \in Clients |-> 0]
  /\ attempt = [c \in Clients |-> 0]
  /\ answered = [c \in Clients |-> FALSE]
  /\ applied = {}
  /\ acked = {}

GoTo(c, from, to) == pc[c] = from /\ pc' = [pc EXCEPT ![c] = to]

(* controlRows, then the payload gets the next version. *)
Read(c) ==
  /\ calls[c] < MaxWrites
  /\ GoTo(c, "idle", "prepare")
  /\ calls' = [calls EXCEPT ![c] = @ + 1]
  /\ seen' = [seen EXCEPT ![c] = rec.version]
  /\ attempt' = [attempt EXCEPT ![c] = 0]
  /\ answered' = [answered EXCEPT ![c] = FALSE]
  /\ UNCHANGED <<serverVars, net, acked>>

(* The "prepared" audit record is written before anything is sent. *)
Prepare(c) ==
  /\ GoTo(c, "prepare", "send")
  /\ UNCHANGED <<serverVars, net, calls, seen, attempt, answered, acked>>

MayRetry(c) == attempt[c] < MaxAttempts

Send(c) ==
  /\ MayRetry(c)
  /\ GoTo(c, "send", "wait")
  /\ attempt' = [attempt EXCEPT ![c] = @ + 1]
  /\ net' = net \union {[write |-> Write(c), expected |-> seen[c]]}
  /\ UNCHANGED <<serverVars, calls, seen, answered, acked>>

(* Mutant: an update is sent without its filter. *)
MatchesAlways(m) == TRUE

(* An update names the version it replaces; the creation of a record that   *)
(* was absent is an upsert without a filter.                                *)
Matches(m) == m.expected = 0 \/ rec.version = m.expected

(* Qdrant executes a request, whether or not its client still waits.  An    *)
(* upsert whose filter does not match changes nothing and is no error.      *)
Execute(m) ==
  LET c == m.write[1]
  IN  /\ net' = net \ {m}
      /\ IF Matches(m)
         THEN /\ rec' = [version |-> m.expected + 1, value |-> m.write]
              /\ applied' = applied \union {m.write}
         ELSE UNCHANGED serverVars
      /\ answered' = [answered EXCEPT ![c] =
                        @ \/ (m.write = Write(c) /\ pc[c] = "wait")]
      /\ UNCHANGED <<pc, calls, seen, attempt, acked>>

Lose(m) ==
  /\ net' = net \ {m}
  /\ UNCHANGED <<serverVars, clientVars, acked>>

Answer(c) ==
  /\ answered[c]
  /\ GoTo(c, "wait", "verify")
  /\ answered' = [answered EXCEPT ![c] = FALSE]
  /\ UNCHANGED <<serverVars, net, calls, seen, attempt, acked>>

(* The attempt fails with a transient code, though it may have been or may  *)
(* yet be executed.                                                         *)
Retry(c) ==
  /\ MayRetry(c)
  /\ GoTo(c, "wait", "send")
  /\ answered' = [answered EXCEPT ![c] = FALSE]
  /\ UNCHANGED <<serverVars, net, calls, seen, attempt, acked>>

(* Mutant: the second read compares the version only. *)
StoredVersion(c) == rec.version = seen[c] + 1

(* The second read finds the payload just written, or a conflict. *)
Stored(c) == rec = [version |-> seen[c] + 1, value |-> Write(c)]

Verify(c) ==
  /\ GoTo(c, "verify", IF Stored(c) THEN "commit" ELSE "idle")
  /\ UNCHANGED <<serverVars, net, calls, seen, attempt, answered, acked>>

(* The "committed" audit record, and success. *)
Commit(c) ==
  /\ GoTo(c, "commit", "idle")
  /\ acked' = acked \union {Write(c)}
  /\ UNCHANGED <<serverVars, net, calls, seen, attempt, answered>>

(* A read, the last attempt or a write of the audit fails. *)
Fail(c) ==
  /\ pc[c] # "idle"
  /\ pc' = [pc EXCEPT ![c] = "idle"]
  /\ UNCHANGED <<serverVars, net, calls, seen, attempt, answered, acked>>

ClientStep(c) ==
  \/ Read(c) \/ Prepare(c) \/ Send(c) \/ Answer(c) \/ Retry(c)
  \/ Verify(c) \/ Commit(c) \/ Fail(c)

ControlNext ==
  \/ \E c \in Clients : ClientStep(c)
  \/ \E m \in net : Execute(m) \/ Lose(m)

ControlSpec == ControlInit /\ [][ControlNext]_controlVars

-------------------------------------------------------------------------------

ControlTypeOK ==
  /\ rec \in [version : Nat, value : Writes \union {NoValue}]
  /\ net \in SUBSET Requests
  /\ pc \in [Clients -> {"idle", "prepare", "send", "wait", "verify", "commit"}]
  /\ calls \in [Clients -> 0..MaxWrites]
  /\ seen \in [Clients -> Nat]
  /\ attempt \in [Clients -> 0..MaxAttempts]
  /\ answered \in [Clients -> BOOLEAN]
  /\ applied \in SUBSET Writes
  /\ acked \in SUBSET Writes

(* A write that was reported as committed replaced the very version its     *)
(* writer had read, and only a later write may have replaced it: while the  *)
(* record stands at a version a committed write could have produced, it is  *)
(* that write's.  Two writers are never both told they wrote one version    *)
(* (the update filter and the second read of upsertControl).                *)
CommittedIsStored ==
  \A c \in Clients :
    pc[c] = "commit" =>
      /\ Write(c) \in applied
      /\ rec.version >= seen[c] + 1
      /\ rec.version = seen[c] + 1 => rec.value = Write(c)

Register == INSTANCE VersionedRegister WITH
  version <- rec.version, value <- rec.value

(* The protocol implements the register: no retry, late request or second   *)
(* writer makes a write take effect twice or undoes a version.              *)
ImplementsRegister == Register!Spec
===============================================================================
