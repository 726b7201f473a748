------------------------------ MODULE WorkerProofs ------------------------------
(***************************************************************************)
(* Theorems about the parts of an IngestionWorker, for any callers, limits,*)
(* capacities and numbers of points, flushes, files and changes, for       *)
(* control records with any number of clients, attempts and writes, and    *)
(* for the worker that has them all.                                       *)
(*                                                                         *)
(* A control record: from one that exists the protocol implements the      *)
(* VersionedRegister, because a request under way expects no version above *)
(* the record's, and one whose version has passed can never match again.   *)
(*                                                                         *)
(* The embedding controller: every slot counted as active has a holder or  *)
(* was lost (SlotsAccounted), because each channel is queued once, by a    *)
(* caller that waits for it (Orderly).                                     *)
(*                                                                         *)
(* The batch upserter: what it promises follows from where the points are  *)
(* (PointsAccounted): the wait group cannot be empty while a point that was*)
(* added before a flush is still on its way.                               *)
(*                                                                         *)
(* The consumer of the watcher: what it promises follows from where a      *)
(* reported change is (ChangeReachesSync); that its status tells the truth *)
(* needs also that a path whose timer runs is marked (NumberedArePending)  *)
(* and that each goroutine is counted once (SyncsCounted).                 *)
(***************************************************************************)
EXTENDS Worker, SequenceTheorems, FiniteSetTheorems, TLAPS

-----------------------------------------------------------------------------
(***************************************************************************)
(* Control records.                                                        *)
(***************************************************************************)
(* A client that is not idle has made a call, so its write has an identity. *)
Started == \A c \in Clients : pc[c] # "idle" => calls[c] >= 1

TypeInv == ControlTypeOK /\ Started

-------------------------------------------------------------------------------

(* The initial record and clients are typed.                                *)
LEMMA InitTypeInv == ControlInit => TypeInv
  BY ControlRecordAssumption DEF ControlInit, TypeInv, ControlTypeOK, Started, Writes, Requests

(* A client that has begun a call of upsertControl has a write.             *)
LEMMA WriteTyped ==
  ASSUME TypeInv, NEW c \in Clients, pc[c] # "idle"
  PROVE  Write(c) \in Writes
  BY ControlRecordAssumption DEF TypeInv, ControlTypeOK, Started, Write, Writes

(* Every step of a client, of Qdrant or of the network keeps the types.     *)
LEMMA NextTypeInv == TypeInv /\ [ControlNext]_controlVars => TypeInv'
<1> SUFFICES ASSUME TypeInv, [ControlNext]_controlVars PROVE TypeInv'
  OBVIOUS
<1> USE ControlRecordAssumption
<1> USE DEF TypeInv, ControlTypeOK, Started, serverVars, clientVars
<1>1. ASSUME NEW c \in Clients, Read(c) PROVE TypeInv'
  BY <1>1 DEF Read, GoTo
<1>2. ASSUME NEW c \in Clients, Prepare(c) PROVE TypeInv'
  BY <1>2 DEF Prepare, GoTo
<1>3. ASSUME NEW c \in Clients, Send(c) PROVE TypeInv'
  <2>1. [write |-> Write(c), expected |-> seen[c]] \in Requests
    BY <1>3, WriteTyped DEF Send, GoTo, Requests
  <2>2. QED BY <1>3, <2>1 DEF Send, GoTo, MayRetry
<1>4. ASSUME NEW c \in Clients, Answer(c) PROVE TypeInv'
  BY <1>4 DEF Answer, GoTo
<1>5. ASSUME NEW c \in Clients, Retry(c) PROVE TypeInv'
  BY <1>5 DEF Retry, GoTo
<1>6. ASSUME NEW c \in Clients, Verify(c) PROVE TypeInv'
  BY <1>6 DEF Verify, GoTo
<1>7. ASSUME NEW c \in Clients, Commit(c) PROVE TypeInv'
  BY <1>7, WriteTyped DEF Commit, GoTo
<1>8. ASSUME NEW c \in Clients, Fail(c) PROVE TypeInv'
  BY <1>8 DEF Fail
<1>9. ASSUME NEW m \in net, Execute(m) PROVE TypeInv'
  <2>1. m.write \in Writes /\ m.expected \in Nat
    BY DEF Requests
  <2>2. rec' \in [version : Nat, value : Writes \union {NoValue}] /\ applied' \in SUBSET Writes
    BY <1>9, <2>1 DEF Execute
  <2>3. answered' \in [Clients -> BOOLEAN]
    BY <1>9 DEF Execute
  <2>4. net' \in SUBSET Requests
    BY <1>9 DEF Execute
  <2>5. QED BY <1>9, <2>2, <2>3, <2>4 DEF Execute
<1>10. ASSUME NEW m \in net, Lose(m) PROVE TypeInv'
  BY <1>10 DEF Lose
<1>11. CASE UNCHANGED controlVars
  BY <1>11 DEF controlVars
<1>q. QED
  BY <1>1, <1>2, <1>3, <1>4, <1>5, <1>6, <1>7, <1>8, <1>9, <1>10, <1>11
     DEF ControlNext, ClientStep

(* Every variable keeps its type, in every behaviour. *)
THEOREM TypeCorrect == ControlSpec => []ControlTypeOK
<1>1. TypeInv => ControlTypeOK
  BY DEF TypeInv
<1>q. QED BY <1>1, InitTypeInv, NextTypeInv, PTL DEF ControlSpec

-------------------------------------------------------------------------------
(* A request names the version it expects.  Until it takes effect the       *)
(* record may stand at that version; once it has, the record has moved past *)
(* it, so that a repeated or late request no longer matches.                *)
Expires(write, expected) ==
  /\ expected >= 1
  /\ expected <= rec.version
  /\ write \in applied => expected < rec.version

RequestsExpire == \A m \in net : Expires(m.write, m.expected)

ClientsExpire == \A c \in Clients : pc[c] # "idle" => Expires(Write(c), seen[c])

(* The writes of calls to come are nowhere to be seen. *)
NoFutureWrites ==
  /\ \A m \in net : m.write[2] <= calls[m.write[1]]
  /\ \A w \in applied : w[2] <= calls[w[1]]

(* What is stored took effect, unless it is the initial record. *)
StoredTookEffect ==
  /\ rec.version >= 1
  /\ rec.value # NoValue => rec.value \in applied

IInv ==
  /\ TypeInv
  /\ RequestsExpire
  /\ ClientsExpire
  /\ NoFutureWrites
  /\ StoredTookEffect
  /\ CommittedIsStored

(* The invariant holds of an existing record nobody has written yet.        *)
LEMMA InitIInv == Initial >= 1 /\ ControlInit => IInv
  BY InitTypeInv, ControlRecordAssumption
     DEF ControlInit, IInv, RequestsExpire, ClientsExpire, NoFutureWrites, StoredTookEffect,
         CommittedIsStored

(* A request that is executed and matches raises the version by one, past   *)
(* everything that was expected before.                                     *)
LEMMA ExecuteMatching ==
  ASSUME IInv, NEW m \in net, Execute(m), Matches(m)
  PROVE  /\ m.write \in Writes
         /\ m.write \notin applied
         /\ rec' = [version |-> rec.version + 1, value |-> m.write]
         /\ applied' = applied \union {m.write}
<1>1. m.write \in Writes /\ m.expected \in Nat /\ rec.version \in Nat
  BY DEF IInv, TypeInv, ControlTypeOK, Requests
<1>2. m.expected >= 1 /\ (m.write \in applied => m.expected < rec.version)
  BY DEF IInv, RequestsExpire, Expires
<1>3. m.expected = rec.version
  BY <1>1, <1>2 DEF Matches
<1>q. QED BY <1>1, <1>2, <1>3 DEF Execute

(* The execution of a request, matching or not, keeps the invariant: what   *)
(* other clients expect of the record is outdated for ever.                 *)
LEMMA ExecuteIInv ==
  ASSUME IInv, TypeInv', NEW m \in net, Execute(m)
  PROVE  IInv'
<1> USE DEF IInv
<1>1. CASE ~Matches(m)
  BY <1>1 DEF Execute, serverVars, RequestsExpire, ClientsExpire, Expires, NoFutureWrites,
              StoredTookEffect, CommittedIsStored, Write
<1>2. CASE Matches(m)
  <2>1. /\ m.write \in Writes /\ rec.version \in Nat
        /\ rec' = [version |-> rec.version + 1, value |-> m.write]
        /\ applied' = applied \union {m.write}
        /\ net' \subseteq net
        /\ UNCHANGED <<pc, calls, seen>>
    BY <1>2, ExecuteMatching DEF Execute, TypeInv, ControlTypeOK
  <2>2. \A n \in net : n.expected \in Nat /\ n.write \in Writes
    BY DEF TypeInv, ControlTypeOK, Requests
  <2>3. \A c \in Clients : seen[c] \in Nat
    BY DEF TypeInv, ControlTypeOK
  <2>4. RequestsExpire'
    BY <2>1, <2>2 DEF RequestsExpire, Expires
  <2>5. ClientsExpire'
    BY <2>1, <2>3 DEF ClientsExpire, Expires, Write
  <2>6. NoFutureWrites'
    BY <2>1 DEF NoFutureWrites
  <2>7. StoredTookEffect'
    BY <2>1 DEF StoredTookEffect
  <2>8. CommittedIsStored'
    BY <2>1, <2>3 DEF CommittedIsStored, Write
  <2>q. QED BY <2>4, <2>5, <2>6, <2>7, <2>8
<1>q. QED BY <1>1, <1>2

(* A call that begins reads a version no request under way may overtake.    *)
LEMMA ReadIInv ==
  ASSUME IInv, TypeInv', NEW c \in Clients, Read(c)
  PROVE  IInv'
<1> USE DEF IInv, serverVars
<1>1. /\ calls[c] \in Nat /\ rec.version \in Nat
      /\ calls' = [calls EXCEPT ![c] = @ + 1]
      /\ seen' = [seen EXCEPT ![c] = rec.version]
      /\ pc' = [pc EXCEPT ![c] = "prepare"]
      /\ UNCHANGED <<rec, applied, net>>
  BY ControlRecordAssumption DEF TypeInv, ControlTypeOK, Read, GoTo
<1>2. /\ pc \in [Clients -> {"idle", "prepare", "send", "wait", "verify", "commit"}]
      /\ calls \in [Clients -> Nat]
      /\ seen \in [Clients -> Nat]
      /\ \A n \in net : n.write \in Clients \X Nat
      /\ \A w \in applied : w \in Clients \X Nat
  BY ControlRecordAssumption DEF TypeInv, ControlTypeOK, Requests, Writes
<1>3. <<c, calls[c] + 1>> \notin applied
  BY <1>1 DEF NoFutureWrites
<1>4. RequestsExpire'
  BY <1>1 DEF RequestsExpire, Expires
<1>5. ClientsExpire'
  <2>1. Expires(Write(c), seen[c])'
    BY <1>1, <1>2, <1>3 DEF Expires, Write, StoredTookEffect
  <2>2. \A d \in Clients : d # c /\ pc'[d] # "idle" => Expires(Write(d), seen[d])'
    BY <1>1, <1>2 DEF ClientsExpire, Expires, Write
  <2>q. QED BY <2>1, <2>2 DEF ClientsExpire
<1>6. NoFutureWrites'
  <2>1. \A d \in Clients : calls[d] <= calls'[d] /\ calls[d] \in Nat /\ calls'[d] \in Nat
    BY <1>1, <1>2
  <2>q. QED BY <1>1, <1>2, <2>1 DEF NoFutureWrites
<1>7. StoredTookEffect' /\ CommittedIsStored'
  BY <1>1, <1>2 DEF StoredTookEffect, CommittedIsStored, Write
<1>q. QED BY <1>4, <1>5, <1>6, <1>7

(* The second read commits a write only when the record is that write.      *)
LEMMA VerifyIInv ==
  ASSUME IInv, TypeInv', NEW c \in Clients, Verify(c)
  PROVE  IInv'
<1> USE DEF IInv, serverVars, Verify, GoTo
<1>1. pc \in [Clients -> {"idle", "prepare", "send", "wait", "verify", "commit"}]
  BY DEF TypeInv, ControlTypeOK
<1>2. RequestsExpire' /\ NoFutureWrites' /\ StoredTookEffect'
  BY DEF RequestsExpire, Expires, NoFutureWrites, StoredTookEffect
<1>3. ClientsExpire'
  BY <1>1 DEF ClientsExpire, Expires, Write
<1>4. CommittedIsStored'
  <2>1. CASE Stored(c)
    <3>1. Write(c) # NoValue
      BY ControlRecordAssumption DEF Write, TypeInv, ControlTypeOK
    <3>2. Write(c) \in applied /\ rec.version = seen[c] + 1 /\ rec.value = Write(c)
      BY <2>1, <3>1 DEF Stored, StoredTookEffect
    <3>3. rec.version \in Nat
      BY DEF TypeInv, ControlTypeOK
    <3>q. QED BY <1>1, <3>2, <3>3 DEF CommittedIsStored, Write
  <2>2. CASE ~Stored(c)
    BY <1>1, <2>2 DEF CommittedIsStored, Write
  <2>q. QED BY <2>1, <2>2
<1>q. QED BY <1>2, <1>3, <1>4

(* Every step keeps the invariant.                                          *)
LEMMA NextIInv == IInv /\ [ControlNext]_controlVars => IInv'
<1> SUFFICES ASSUME IInv, [ControlNext]_controlVars PROVE IInv'
  OBVIOUS
<1>0. TypeInv'
  BY NextTypeInv DEF IInv
<1>1. ASSUME NEW c \in Clients, Read(c) PROVE IInv'
  BY <1>0, <1>1, ReadIInv
<1>2. ASSUME NEW c \in Clients, Verify(c) PROVE IInv'
  BY <1>0, <1>2, VerifyIInv
<1>3. ASSUME NEW m \in net, Execute(m) PROVE IInv'
  BY <1>0, <1>3, ExecuteIInv
<1> USE DEF IInv, RequestsExpire, ClientsExpire, NoFutureWrites, StoredTookEffect,
            CommittedIsStored, Expires, Write, serverVars, clientVars, GoTo
<1>p. pc \in [Clients -> {"idle", "prepare", "send", "wait", "verify", "commit"}]
  BY DEF TypeInv, ControlTypeOK
<1>4. ASSUME NEW c \in Clients, Send(c) PROVE IInv'
  <2>1. calls[c] <= calls[c] /\ pc[c] # "idle"
    BY <1>4, ControlRecordAssumption DEF Send, TypeInv, ControlTypeOK
  <2>2. Expires(Write(c), seen[c])
    BY <2>1
  <2>q. QED BY <1>0, <1>4, <1>p, <2>1, <2>2 DEF Send
<1>5. ASSUME NEW c \in Clients, Prepare(c) \/ Answer(c) \/ Retry(c) PROVE IInv'
  BY <1>0, <1>5, <1>p DEF Prepare, Answer, Retry
<1>6. ASSUME NEW c \in Clients, Commit(c) \/ Fail(c) PROVE IInv'
  BY <1>0, <1>6, <1>p DEF Commit, Fail
<1>7. ASSUME NEW m \in net, Lose(m) PROVE IInv'
  BY <1>0, <1>7 DEF Lose
<1>8. CASE UNCHANGED controlVars
  BY <1>0, <1>8 DEF controlVars
<1>q. QED
  BY <1>1, <1>2, <1>3, <1>4, <1>5, <1>6, <1>7, <1>8 DEF ControlNext, ClientStep

(* What upsertControl reports as committed was applied, at the version its  *)
(* writer computed, and only a later version replaces it: two writers are   *)
(* never both told that they wrote one version of an existing record.       *)
THEOREM CommittedIsStoredAlways == Initial >= 1 /\ ControlSpec => []CommittedIsStored
<1>1. IInv => CommittedIsStored
  BY DEF IInv
<1>q. QED BY <1>1, InitIInv, NextIInv, PTL DEF ControlSpec

-------------------------------------------------------------------------------

(* An initial state of the protocol is one of the register.                 *)
LEMMA InitRefines == ControlInit => Register!Init
  BY ControlRecordAssumption DEF ControlInit, Register!Init

(* A matching execution is TakeEffect, a commit is Acknowledge, and every   *)
(* other step stutters.                                                     *)
LEMMA NextRefines == IInv /\ [ControlNext]_controlVars => [Register!Next]_(Register!vars)
<1> SUFFICES ASSUME IInv, [ControlNext]_controlVars
             PROVE  Register!Next \/ UNCHANGED <<rec, applied, acked>>
  BY DEF Register!vars
<1> USE DEF serverVars, clientVars
<1>1. ASSUME NEW m \in net, Execute(m)
      PROVE  Register!Next \/ UNCHANGED <<rec, applied, acked>>
  <2>1. CASE Matches(m)
    <3>1. /\ m.write \in Writes
          /\ m.write \notin applied
          /\ rec' = [version |-> rec.version + 1, value |-> m.write]
          /\ applied' = applied \union {m.write}
      BY <1>1, <2>1, ExecuteMatching
    <3>2. acked' = acked
      BY <1>1 DEF Execute
    <3>3. Register!TakeEffect(m.write)
      BY <3>1, <3>2 DEF Register!TakeEffect
    <3>q. QED BY <3>1, <3>3 DEF Register!Next
  <2>2. CASE ~Matches(m)
    BY <1>1, <2>2 DEF Execute
  <2>q. QED BY <2>1, <2>2
<1>2. ASSUME NEW c \in Clients, Commit(c)
      PROVE  Register!Next \/ UNCHANGED <<rec, applied, acked>>
  <2>1. Write(c) \in Writes
    BY <1>2, WriteTyped DEF IInv, Commit, GoTo
  <2>2. Register!Acknowledge(Write(c))
    BY <1>2 DEF Register!Acknowledge, Commit, GoTo, IInv, CommittedIsStored
  <2>q. QED BY <2>1, <2>2 DEF Register!Next
<1>q. QED
  BY <1>1, <1>2 DEF ControlNext, ClientStep, controlVars, Read, Prepare, Send, Answer, Retry, Verify,
                    Fail, Lose

(* From a record that exists, upsertControl with its retries implements the *)
(* versioned register, for any number of writers.                           *)
THEOREM Refinement == Initial >= 1 /\ ControlSpec => ImplementsRegister
<1>q. QED
  BY InitRefines, InitIInv, NextIInv, NextRefines, PTL DEF ControlSpec, ImplementsRegister, Register!Spec

-----------------------------------------------------------------------------
(***************************************************************************)
(* The limit on embedding requests.                                        *)
(***************************************************************************)
Distinct(q) == \A i, j \in 1..Len(q) : q[i] = q[j] => i = j

Controlled ==
  /\ currentLimit \in 1..MaxLimit /\ activeCount \in Int
  /\ waiters \in Seq(Callers) /\ successStreak \in 0..(Streak - 1)
  /\ place \in [Callers -> Where] /\ tries \in [Callers -> 1..MaxTries]
  /\ ended \in [Callers -> BOOLEAN] /\ lost \in Nat
  /\ \A c \in Callers : place[c] = "backoff" => tries[c] < MaxTries

\* Each channel is queued once, by a caller that waits for it.
Orderly == Distinct(waiters) /\ \A i \in 1..Len(waiters) : place[waiters[i]] = "wait"

SlotInv == Controlled /\ Orderly /\ SlotsAccounted /\ NoIdleSlot

-------------------------------------------------------------------------------
\* Sequences of waiting callers.

(* The members of a sequence.                                              *)
LEMMA Members ==
  ASSUME NEW q \in Seq(Callers), NEW c
  PROVE  c \in Range(q) <=> \E i \in 1..Len(q) : q[i] = c
<1>1. DOMAIN q = 1..Len(q)
  BY LenProperties
<1>2. QED BY <1>1 DEF Range

(* The branch of Acquire that leaves the queue removes one channel of its  *)
(* own and keeps the others in order.                                      *)
LEMMA WithoutFacts ==
  ASSUME NEW q \in Seq(Callers), NEW c \in Callers, Distinct(q)
  PROVE  /\ Without(q, c) \in Seq(Callers)
         /\ Distinct(Without(q, c))
         /\ \A d : d \in Range(Without(q, c)) <=> d \in Range(q) /\ d # c
         /\ q = <<>> => Without(q, c) = <<>>
<1>1. CASE c \notin Range(q)
  BY <1>1 DEF Without
<1>2. CASE c \in Range(q)
  <2> DEFINE i == CHOOSE i \in DOMAIN q : q[i] = c
             s == SubSeq(q, 1, i - 1)
             u == SubSeq(q, i + 1, Len(q))
  <2>1. DOMAIN q = 1..Len(q) /\ Len(q) \in Nat /\ \A j \in 1..Len(q) : q[j] \in Callers
    BY LenProperties
  <2>2. i \in 1..Len(q) /\ q[i] = c
    BY <1>2, <2>1, Members
  <2> DEFINE w == s \o u
  <2>5. Without(q, c) = w
    BY <1>2 DEF Without, i
  <2> HIDE DEF i, s, u, w
  <2>3. s \in Seq(Callers) /\ Len(s) = i - 1 /\ \A j \in 1..(i - 1) : s[j] = q[j]
    <3>1. \A j \in 1..(i - 1) : q[j] \in Callers
      BY <2>1, <2>2
    <3>2. /\ s \in Seq(Callers)
          /\ Len(s) = IF 1 <= i - 1 THEN (i - 1) - 1 + 1 ELSE 0
          /\ \A j \in 1..((i - 1) - 1 + 1) : s[j] = q[1 + j - 1]
      <4>1. 1 \in Int /\ i - 1 \in Int
        BY <2>2
      <4>2. QED BY <3>1, <4>1, SubSeqProperties DEF s
    <3>3. QED BY <3>2, <2>2
  <2>4. /\ u \in Seq(Callers) /\ Len(u) = Len(q) - i
        /\ \A j \in 1..(Len(q) - i) : u[j] = q[i + j]
    <3>1. \A j \in (i + 1)..Len(q) : q[j] \in Callers
      BY <2>1, <2>2
    <3>2. /\ u \in Seq(Callers)
          /\ Len(u) = IF i + 1 <= Len(q) THEN Len(q) - (i + 1) + 1 ELSE 0
          /\ \A j \in 1..(Len(q) - (i + 1) + 1) : u[j] = q[(i + 1) + j - 1]
      <4>1. i + 1 \in Int /\ Len(q) \in Int
        BY <2>1, <2>2
      <4>2. QED BY <3>1, <4>1, SubSeqProperties DEF u
    <3>3. Len(q) - (i + 1) + 1 = Len(q) - i
      BY <2>1, <2>2
    <3>4. Len(u) = Len(q) - i
      <4>1. Len(u) = IF i + 1 <= Len(q) THEN Len(q) - (i + 1) + 1 ELSE 0
        BY <3>2
      <4>2. CASE i + 1 <= Len(q)
        BY <4>1, <4>2, <3>3
      <4>3. CASE ~(i + 1 <= Len(q))
        <5>1. Len(q) \in Nat /\ i \in 1..Len(q)
          BY <2>1, <2>2
        <5>2. Len(q) - i = 0
          BY <5>1, <4>3
        <5>3. QED BY <5>2, <4>1, <4>3
      <4>4. QED BY <4>2, <4>3
    <3>5. ASSUME NEW j \in 1..(Len(q) - i) PROVE u[j] = q[i + j]
      <4>1. (i + 1) + j - 1 = i + j
        BY <2>1, <2>2
      <4>2. u[j] = q[(i + 1) + j - 1]
        BY <3>2, <3>3
      <4>3. QED BY <4>1, <4>2
    <3>6. QED BY <3>2, <3>4, <3>5
  <2>6. /\ w \in Seq(Callers) /\ Len(w) = Len(q) - 1
        /\ \A j \in 1..(Len(q) - 1) : w[j] = IF j < i THEN q[j] ELSE q[j + 1]
    <3>1. /\ w \in Seq(Callers) /\ Len(w) = Len(s) + Len(u)
          /\ \A j \in 1..(Len(s) + Len(u)) :
               w[j] = IF j <= Len(s) THEN s[j] ELSE u[j - Len(s)]
      BY <2>3, <2>4, ConcatProperties DEF w
    <3>2. Len(s) + Len(u) = Len(q) - 1
      BY <2>1, <2>2, <2>3, <2>4
    <3>3. ASSUME NEW j \in 1..(Len(q) - 1)
          PROVE  w[j] = IF j < i THEN q[j] ELSE q[j + 1]
      <4>1. CASE j < i
        BY <4>1, <3>1, <3>2, <3>3, <2>1, <2>2, <2>3
      <4>2. CASE ~(j < i)
        <5>1. w[j] = u[j - (i - 1)]
          BY <4>2, <3>1, <3>2, <3>3, <2>1, <2>2, <2>3
        <5>2. j - (i - 1) \in 1..(Len(q) - i) /\ i + (j - (i - 1)) = j + 1
          BY <4>2, <3>3, <2>1, <2>2
        <5>3. QED BY <5>1, <5>2, <4>2, <2>4
      <4>3. QED BY <4>1, <4>2
    <3>4. QED BY <3>1, <3>2, <3>3
  <2>7. Distinct(w)
    <3> SUFFICES ASSUME NEW j \in 1..Len(w), NEW k \in 1..Len(w), w[j] = w[k]
                 PROVE  j = k
      BY DEF Distinct
    <3>1. j \in 1..(Len(q) - 1) /\ k \in 1..(Len(q) - 1)
      BY <2>6
    <3>2. PICK m \in 1..Len(q) : m = IF j < i THEN j ELSE j + 1
      BY <3>1, <2>1, <2>2
    <3>3. PICK n \in 1..Len(q) : n = IF k < i THEN k ELSE k + 1
      BY <3>1, <2>1, <2>2
    <3>4. q[m] = q[n]
      BY <2>6, <3>1, <3>2, <3>3
    <3>5. m = n
      BY <3>4 DEF Distinct
    <3>6. QED BY <3>1, <3>2, <3>3, <3>5, <2>1, <2>2
  <2>8. ASSUME NEW d PROVE d \in Range(w) <=> d \in Range(q) /\ d # c
    <3>1. d \in Range(w) <=> \E j \in 1..Len(w) : w[j] = d
      BY <2>6, Members
    <3>2. d \in Range(q) <=> \E j \in 1..Len(q) : q[j] = d
      BY Members
    <3>3. ASSUME NEW j \in 1..Len(w), w[j] = d PROVE d \in Range(q) /\ d # c
      <4>1. j \in 1..(Len(q) - 1)
        BY <2>6
      <4>2. PICK m \in 1..Len(q) : m # i /\ q[m] = d
        BY <4>1, <3>3, <2>1, <2>2, <2>6
      <4>3. QED BY <4>2, <3>2, <2>2 DEF Distinct
    <3>4. ASSUME NEW j \in 1..Len(q), q[j] = d, d # c PROVE \E k \in 1..Len(w) : w[k] = d
      <4>1. CASE j < i
        <5>1. j \in 1..(Len(q) - 1)
          BY <4>1, <2>1, <2>2
        <5>2. QED BY <5>1, <4>1, <3>4, <2>6
      <4>2. CASE j > i
        <5>1. j - 1 \in 1..(Len(q) - 1) /\ ~(j - 1 < i) /\ (j - 1) + 1 = j
          BY <4>2, <2>1, <2>2
        <5>2. w[j - 1] = q[j]
          BY <5>1, <2>6
        <5>3. QED BY <5>1, <5>2, <3>4, <2>6
      <4>3. j # i
        BY <3>4, <2>2
      <4>4. QED BY <4>1, <4>2, <4>3, <2>1, <2>2
    <3>5. QED BY <3>1, <3>2, <3>3, <3>4
  <2>9. q # <<>>
    BY <2>2, <2>1, EmptySeq
  <2>10. QED BY <2>5, <2>6, <2>7, <2>8, <2>9
<1>3. QED BY <1>1, <1>2

(* The queue without its first n members: what notifyWaiters leaves, and   *)
(* how many callers it wakes.                                              *)
LEMMA WokenFacts ==
  ASSUME NEW q \in Seq(Callers), Distinct(q), NEW n \in 0..Len(q),
         NEW r \in Seq(Callers), Len(r) = Len(q) - n,
         \A j \in 1..(Len(q) - n) : r[j] = q[n + j]
  PROVE  LET G == {q[i] : i \in 1..n}
         IN  /\ IsFiniteSet(G) /\ Cardinality(G) = n /\ G \subseteq Range(q)
             /\ Distinct(r)
             /\ \A d : d \in Range(r) <=> d \in Range(q) /\ d \notin G
<1> DEFINE G == {q[i] : i \in 1..n}
<1>1. Len(q) \in Nat /\ n \in Nat /\ n <= Len(q) /\ \A i \in 1..Len(q) : q[i] \in Callers
  BY LenProperties
<1>2. IsFiniteSet(G) /\ Cardinality(G) = n
  <2> DEFINE f == [i \in 1..n |-> q[i]]
  <2>1. IsFiniteSet(1..n) /\ Cardinality(1..n) = n
    <3>1. 1 \in Int /\ n \in Int
      BY <1>1
    <3>2. IsFiniteSet(1..n) /\ Cardinality(1..n) = IF 1 > n THEN 0 ELSE n - 1 + 1
      BY <3>1, FS_Interval
    <3>3. QED BY <3>2, <1>1
  <2>2. f \in [1..n -> G]
    OBVIOUS
  <2>3. \A i, j \in 1..n : f[i] = f[j] => i = j
    BY <1>1 DEF Distinct
  <2>4. \A g \in G : \E i \in 1..n : f[i] = g
    OBVIOUS
  <2>5. f \in Bijection(1..n, G)
    BY <2>2, <2>3, <2>4 DEF Bijection, Injection, Surjection, IsInjective
  <2>6. ExistsBijection(1..n, G)
    BY <2>5 DEF ExistsBijection
  <2>7. QED BY <2>1, <2>6, FS_Bijection
<1>3. \A d : d \in Range(q) <=> \E i \in 1..Len(q) : q[i] = d
  BY Members
<1>4. \A d : d \in Range(r) <=> \E j \in 1..(Len(q) - n) : r[j] = d
  BY Members
<1>5. G \subseteq Range(q)
  BY <1>1, <1>3
<1>6. Distinct(r)
  <2> SUFFICES ASSUME NEW j \in 1..Len(r), NEW k \in 1..Len(r), r[j] = r[k]
               PROVE  j = k
    BY DEF Distinct
  <2>1. n + j \in 1..Len(q) /\ n + k \in 1..Len(q)
    BY <1>1
  <2>2. q[n + j] = q[n + k]
    OBVIOUS
  <2>3. n + j = n + k
    BY <2>1, <2>2 DEF Distinct
  <2>4. QED BY <2>3, <1>1
<1>7. ASSUME NEW d PROVE d \in Range(r) <=> d \in Range(q) /\ d \notin G
  <2>1. ASSUME NEW j \in 1..(Len(q) - n), r[j] = d PROVE d \in Range(q) /\ d \notin G
    <3>1. n + j \in 1..Len(q) /\ q[n + j] = d /\ n + j > n
      BY <2>1, <1>1
    <3>2. \A i \in 1..n : q[i] # d
      BY <3>1, <1>1 DEF Distinct
    <3>3. QED BY <3>1, <3>2, <1>3
  <2>2. ASSUME NEW i \in 1..Len(q), q[i] = d, d \notin G
        PROVE  \E j \in 1..(Len(q) - n) : r[j] = d
    <3>1. i > n
      BY <2>2, <1>1
    <3>2. i - n \in 1..(Len(q) - n) /\ n + (i - n) = i
      BY <3>1, <1>1
    <3>3. r[i - n] = d
      BY <3>2, <2>2
    <3>4. QED BY <3>2, <3>3
  <2>3. QED BY <2>1, <2>2, <1>3, <1>4
<1>8. QED BY <1>2, <1>5, <1>6, <1>7

(* notifyWaiters wakes callers from the head of the queue until the limit  *)
(* is reached or the queue is empty.                                       *)
LEMMA NotifyFacts ==
  ASSUME waiters \in Seq(Callers), NEW a \in Int, NEW l \in Int, NotifyWaiters(a, l)
  PROVE  \E n \in 0..Len(waiters) :
           /\ activeCount' = a + n
           /\ waiters' \in Seq(Callers) /\ Len(waiters') = Len(waiters) - n
           /\ \A j \in 1..(Len(waiters) - n) : waiters'[j] = waiters[n + j]
           /\ waiters' # <<>> => activeCount' >= l
<1> DEFINE n == Granted(a, l, waiters)
<1>1. Len(waiters) \in Nat /\ \A i \in 1..Len(waiters) : waiters[i] \in Callers
  BY LenProperties
<1>2. n \in 0..Len(waiters) /\ (n = Len(waiters) \/ a + n >= l)
  BY <1>1 DEF Granted, Smaller
<1>3. activeCount' = a + n /\ waiters' = SubSeq(waiters, n + 1, Len(waiters))
  BY DEF NotifyWaiters
<1> HIDE DEF n
<1>4. /\ waiters' \in Seq(Callers) /\ Len(waiters') = Len(waiters) - n
      /\ \A j \in 1..(Len(waiters) - n) : waiters'[j] = waiters[n + j]
  <2>1. n + 1 \in Int /\ Len(waiters) \in Int /\ \A i \in (n + 1)..Len(waiters) : waiters[i] \in Callers
    BY <1>1, <1>2
  <2>2. /\ waiters' \in Seq(Callers)
        /\ Len(waiters') = IF n + 1 <= Len(waiters) THEN Len(waiters) - (n + 1) + 1 ELSE 0
        /\ \A j \in 1..(Len(waiters) - (n + 1) + 1) : waiters'[j] = waiters[(n + 1) + j - 1]
    BY <2>1, <1>3, SubSeqProperties
  <2>3. Len(waiters') = Len(waiters) - n /\ Len(waiters) - (n + 1) + 1 = Len(waiters) - n
    <3>1. Len(waiters) \in Nat /\ n \in 0..Len(waiters)
      BY <1>1, <1>2
    <3>2. Len(waiters') = IF n + 1 <= Len(waiters) THEN Len(waiters) - (n + 1) + 1 ELSE 0
      BY <2>2
    <3>3. QED BY <3>1, <3>2
  <2>4. ASSUME NEW j \in 1..(Len(waiters) - n) PROVE waiters'[j] = waiters[n + j]
    <3>1. (n + 1) + j - 1 = n + j
      BY <1>1, <1>2
    <3>2. waiters'[j] = waiters[(n + 1) + j - 1]
      BY <2>2, <2>3
    <3>3. QED BY <3>1, <3>2
  <2>5. QED BY <2>2, <2>3, <2>4
<1>5. waiters' # <<>> => a + n >= l
  <2>1. waiters' # <<>> => Len(waiters') \in Nat \ {0}
    BY <1>4, EmptySeq
  <2>2. QED BY <2>1, <1>1, <1>2, <1>4
<1>6. QED BY <1>2, <1>3, <1>4, <1>5

-------------------------------------------------------------------------------
\* Counting holders and releasing callers.

(* There are finitely many holders and releasing callers.                  *)
LEMMA Countable ==
  /\ IsFiniteSet(Holders) /\ Cardinality(Holders) \in Nat
  /\ IsFiniteSet(Releasing) /\ Cardinality(Releasing) \in Nat
<1>1. Holders \in SUBSET Callers /\ Releasing \in SUBSET Callers
  BY DEF Holders, Releasing
<1>2. QED BY <1>1, SlotsAssumption, FS_Subset, FS_CardinalityType

(* A caller that has an answer is about to release its slot.               *)
LEMMA ReleasingEnter ==
  ASSUME place \in [Callers -> Where], NEW c \in Callers, place[c] = "request",
         NEW w \in {"release", "releaseRetry"}, Goto(c, w)
  PROVE  Cardinality(Releasing') = Cardinality(Releasing) + 1
<1>1. Releasing' = Releasing \union {c} /\ c \notin Releasing
  BY DEF Releasing, Goto
<1>2. QED BY <1>1, Countable, FS_AddElement

(* A caller that releases its slot is no longer about to.                  *)
LEMMA ReleasingLeave ==
  ASSUME place \in [Callers -> Where], NEW c \in Callers, c \in Releasing,
         NEW w \in {"idle", "backoff"}, Goto(c, w)
  PROVE  Cardinality(Releasing') = Cardinality(Releasing) - 1
<1>1. Releasing' = Releasing \ {c}
  BY DEF Releasing, Goto
<1>2. QED BY <1>1, Countable, FS_RemoveElement

(* notifyWaiters turns as many waiters into holders as it counts.          *)
LEMMA WokenHold ==
  ASSUME Controlled, Orderly, NEW n \in 0..Len(waiters),
         waiters' \in Seq(Callers), Len(waiters') = Len(waiters) - n,
         \A j \in 1..(Len(waiters) - n) : waiters'[j] = waiters[n + j],
         NEW c \in Callers, place[c] # "wait", NEW w \in Where, w # "wait", Goto(c, w)
  PROVE  /\ Orderly'
         /\ \E G \in SUBSET Callers :
              /\ IsFiniteSet(G) /\ Cardinality(G) = n
              /\ G \intersect Holders = {} /\ c \notin G
              /\ \A d \in Callers \ {c} : d \in Holders' <=> d \in Holders \union G
<1> DEFINE G == {waiters[i] : i \in 1..n}
<1>1. waiters \in Seq(Callers) /\ Distinct(waiters)
  BY DEF Controlled, Orderly
<1>2. Len(waiters) \in Nat /\ \A i \in 1..Len(waiters) : waiters[i] \in Callers
  BY <1>1, LenProperties
<1>3. /\ IsFiniteSet(G) /\ Cardinality(G) = n /\ G \subseteq Range(waiters)
      /\ Distinct(waiters')
      /\ \A d : d \in Range(waiters') <=> d \in Range(waiters) /\ d \notin G
  BY <1>1, WokenFacts
<1>4. \A d \in Range(waiters) : place[d] = "wait" /\ d \in Callers
  BY <1>1, <1>2, Members DEF Orderly
<1>5. G \in SUBSET Callers /\ G \intersect Holders = {} /\ c \notin G
  BY <1>3, <1>4 DEF Holders, Queued
<1>6. place' = [place EXCEPT ![c] = w] /\ place \in [Callers -> Where]
  BY DEF Goto, Controlled
<1>7. ASSUME NEW d \in Callers \ {c} PROVE d \in Holders' <=> d \in Holders \union G
  <2>1. place'[d] = place[d]
    BY <1>6
  <2>2. Queued(d)' <=> Queued(d) /\ d \notin G
    BY <1>3 DEF Queued
  <2>3. d \in G => place[d] = "wait"
    BY <1>3, <1>4
  <2>4. QED BY <2>1, <2>2, <2>3 DEF Holders
<1>8. Orderly'
  <2>1. ASSUME NEW j \in 1..Len(waiters') PROVE place'[waiters'[j]] = "wait"
    <3>1. n + j \in 1..Len(waiters) /\ waiters'[j] = waiters[n + j]
      BY <1>2
    <3>2. place[waiters'[j]] = "wait" /\ waiters'[j] \in Callers
      BY <3>1, <1>2 DEF Orderly
    <3>3. QED BY <3>2, <1>6
  <2>2. QED BY <2>1, <1>3 DEF Orderly, Distinct
<1>9. QED BY <1>3, <1>5, <1>7, <1>8

-------------------------------------------------------------------------------
\* Every step keeps the invariant.

(* The controller starts with all slots free and nobody waiting.           *)
LEMMA InitSlot == SlotsInit => SlotInv
<1> SUFFICES ASSUME SlotsInit PROVE SlotInv
  OBVIOUS
<1>1. Controlled
  BY SlotsAssumption, EmptySeq DEF SlotsInit, Controlled, Where
<1>2. Orderly
  BY EmptySeq DEF SlotsInit, Orderly, Distinct
<1>3. Holders = {}
  BY DEF SlotsInit, Holders
<1>4. SlotsAccounted
  BY <1>3, FS_EmptySet DEF SlotsInit, SlotsAccounted
<1>5. NoIdleSlot
  BY DEF SlotsInit, NoIdleSlot
<1>6. QED BY <1>1, <1>2, <1>4, <1>5 DEF SlotInv

(* A step that leaves the controller and the holders alone.                *)
LEMMA QuietSlot ==
  ASSUME SlotInv, Controlled', UNCHANGED <<controller, lost>>,
         Holders' = Holders, Releasing' = Releasing,
         \A d \in Callers : place[d] = "wait" /\ Queued(d) => place'[d] = "wait"
  PROVE  SlotInv'
<1>1. waiters \in Seq(Callers) /\ waiters' = waiters /\ activeCount' = activeCount
      /\ currentLimit' = currentLimit /\ lost' = lost
  BY DEF SlotInv, Controlled, controller
<1>2. \A i \in 1..Len(waiters) : waiters[i] \in Callers /\ Queued(waiters[i])
  BY <1>1, LenProperties, Members DEF Queued
<1>3. Orderly'
  BY <1>1, <1>2 DEF SlotInv, Orderly, Distinct
<1>4. SlotsAccounted'
  BY <1>1 DEF SlotInv, SlotsAccounted
<1>5. NoIdleSlot'
  BY <1>1 DEF SlotInv, NoIdleSlot
<1>6. QED BY <1>3, <1>4, <1>5 DEF SlotInv

(* Call, the end of a context, waking up and waiting for a retry.          *)
LEMMA CallerSlot ==
  ASSUME SlotInv, NEW c \in Callers, Call(c) \/ ContextEnds(c) \/ Wake(c) \/ Backoff(c)
  PROVE  SlotInv'
<1>1. /\ place \in [Callers -> Where] /\ tries \in [Callers -> 1..MaxTries]
      /\ \A d \in Callers : place[d] = "backoff" => tries[d] < MaxTries
  BY DEF SlotInv, Controlled
<1>2. UNCHANGED <<controller, lost>>
  BY DEF Call, ContextEnds, Wake, Backoff
<1>3. Controlled'
  <2>1. CASE Call(c)
    BY <2>1, <1>1, SlotsAssumption DEF SlotInv, Controlled, Call, Goto, Where, controller
  <2>2. CASE ContextEnds(c)
    BY <2>2, <1>1 DEF SlotInv, Controlled, ContextEnds, controller
  <2>3. CASE Wake(c)
    BY <2>3, <1>1 DEF SlotInv, Controlled, Wake, Goto, Where, controller
  <2>4. CASE Backoff(c)
    <3>1. tries' \in [Callers -> 1..MaxTries]
      <4>1. tries[c] + 1 \in 1..MaxTries
        BY <2>4, <1>1, SlotsAssumption DEF Backoff
      <4>2. QED BY <4>1, <2>4, <1>1 DEF Backoff
    <3>2. \E w \in {"acquire", "idle"} : place' = [place EXCEPT ![c] = w]
      BY <2>4 DEF Backoff, Goto
    <3>3. place' \in [Callers -> Where] /\ place'[c] # "backoff"
      BY <3>2, <1>1 DEF Where
    <3>4. \A d \in Callers : place'[d] = "backoff" => tries'[d] < MaxTries
      <4>1. ASSUME NEW d \in Callers, place'[d] = "backoff" PROVE tries'[d] < MaxTries
        <5>1. d # c /\ place[d] = "backoff"
          BY <4>1, <3>2, <3>3, <1>1
        <5>2. tries'[d] = tries[d]
          BY <5>1, <2>4, <1>1 DEF Backoff
        <5>3. QED BY <5>1, <5>2, <1>1
      <4>2. QED BY <4>1
    <3>5. QED BY <3>1, <3>3, <3>4, <2>4 DEF SlotInv, Controlled, Backoff, controller
  <2>5. QED BY <2>1, <2>2, <2>3, <2>4
<1>4. Holders' = Holders /\ Releasing' = Releasing
  <2>1. \A d \in Callers : Queued(d)' <=> Queued(d)
    BY <1>2 DEF Queued, controller
  <2>2. CASE Call(c)
    BY <2>1, <2>2, <1>1 DEF Call, Goto, Holders, Releasing
  <2>3. CASE ContextEnds(c)
    BY <2>1, <2>3, <1>1 DEF ContextEnds, Holders, Releasing
  <2>4. CASE Wake(c)
    BY <2>1, <2>4, <1>1 DEF Wake, Goto, Holders, Releasing
  <2>5. CASE Backoff(c)
    BY <2>1, <2>5, <1>1 DEF Backoff, Goto, Holders, Releasing
  <2>6. QED BY <2>2, <2>3, <2>4, <2>5
<1>5. \A d \in Callers : place[d] = "wait" /\ Queued(d) => place'[d] = "wait"
  BY <1>1 DEF Call, ContextEnds, Wake, Backoff, Goto
<1>6. QED BY <1>2, <1>3, <1>4, <1>5, QuietSlot

(* Acquire takes a slot that is free, or joins the queue.                  *)
LEMMA AcquireSlot == ASSUME SlotInv, NEW c \in Callers, Acquire(c) PROVE SlotInv'
<1>1. /\ place \in [Callers -> Where] /\ place[c] = "acquire"
      /\ waiters \in Seq(Callers) /\ activeCount \in Int /\ currentLimit \in Int
      /\ tries' = tries /\ lost' = lost /\ currentLimit' = currentLimit
  BY DEF SlotInv, Controlled, Acquire
<1>2. Len(waiters) \in Nat /\ \A i \in 1..Len(waiters) : waiters[i] \in Callers
  BY <1>1, LenProperties
<1>3. c \notin Holders /\ ~Queued(c)
  BY <1>1, Members DEF SlotInv, Orderly, Holders, Queued
<1>4. CASE activeCount < currentLimit
  <2>1. activeCount' = activeCount + 1 /\ place' = [place EXCEPT ![c] = "request"]
        /\ waiters' = waiters
    BY <1>4 DEF Acquire, Goto
  <2>2. Controlled'
    BY <2>1, <1>1 DEF SlotInv, Controlled, Acquire, Where
  <2>3. Orderly'
    BY <2>1, <1>1, <1>2 DEF SlotInv, Orderly, Distinct
  <2>4. Holders' = Holders \union {c}
    BY <2>1, <1>1 DEF Holders, Queued
  <2>5. SlotsAccounted'
    <3>1. activeCount = Cardinality(Holders) + lost /\ lost \in Nat
      BY DEF SlotInv, Controlled, SlotsAccounted
    <3>2. Cardinality(Holders') = Cardinality(Holders) + 1
      BY <2>4, <1>3, Countable, FS_AddElement
    <3>3. QED BY <3>1, <3>2, <2>1, <1>1, Countable DEF SlotsAccounted
  <2>6. Releasing' = Releasing
    BY <2>1, <1>1 DEF Releasing
  <2>7. NoIdleSlot'
    BY <2>1, <2>6, <1>1, Countable DEF SlotInv, NoIdleSlot
  <2>8. QED BY <2>2, <2>3, <2>5, <2>7 DEF SlotInv
<1>5. CASE ~(activeCount < currentLimit)
  <2>1. activeCount' = activeCount /\ place' = [place EXCEPT ![c] = "wait"]
        /\ waiters' = Append(waiters, c)
    BY <1>5 DEF Acquire, Goto
  <2>2. /\ waiters' \in Seq(Callers) /\ Len(waiters') = Len(waiters) + 1
        /\ \A i \in 1..Len(waiters) : waiters'[i] = waiters[i]
        /\ waiters'[Len(waiters) + 1] = c
    BY <2>1, <1>1, AppendProperties
  <2>3. Controlled'
    BY <2>1, <2>2, <1>1 DEF SlotInv, Controlled, Acquire, Where
  <2>4. \A i \in 1..Len(waiters) : waiters[i] # c
    BY <1>1, <1>3, Members DEF Queued
  <2>5. Distinct(waiters')
    BY <2>2, <2>4, <1>2 DEF SlotInv, Orderly, Distinct
  <2>6. \A i \in 1..Len(waiters') : place'[waiters'[i]] = "wait"
    <3>1. ASSUME NEW i \in 1..Len(waiters) PROVE place'[waiters'[i]] = "wait"
      BY <2>1, <2>2, <2>4, <1>1, <1>2 DEF SlotInv, Orderly
    <3>2. place'[waiters'[Len(waiters) + 1]] = "wait"
      BY <2>1, <2>2, <1>1
    <3>3. QED BY <3>1, <3>2, <2>2, <1>2
  <2>7. \A d : Queued(d)' <=> Queued(d) \/ d = c
    <3>1. \A d : Queued(d)' <=> \E i \in 1..Len(waiters') : waiters'[i] = d
      BY <2>2, Members DEF Queued
    <3>2. \A d : Queued(d) <=> \E i \in 1..Len(waiters) : waiters[i] = d
      BY <1>1, Members DEF Queued
    <3>3. ASSUME NEW d, NEW i \in 1..Len(waiters'), waiters'[i] = d
          PROVE  d = c \/ \E j \in 1..Len(waiters) : waiters[j] = d
      BY <3>3, <2>2, <1>2
    <3>4. ASSUME NEW d, NEW i \in 1..Len(waiters), waiters[i] = d
          PROVE  \E j \in 1..Len(waiters') : waiters'[j] = d
      <4>1. i \in 1..Len(waiters') /\ waiters'[i] = d
        BY <3>4, <2>2, <1>2
      <4>2. QED BY <4>1
    <3>5. Len(waiters) + 1 \in 1..Len(waiters')
      BY <2>2, <1>2
    <3>6. QED BY <3>1, <3>2, <3>3, <3>4, <3>5, <2>2
  <2>8. Holders' = Holders
    BY <2>1, <2>7, <1>1, <1>3 DEF Holders
  <2>9. SlotsAccounted'
    BY <2>1, <2>8, <1>1 DEF SlotInv, SlotsAccounted
  <2>10. Releasing' = Releasing
    BY <2>1, <1>1 DEF Releasing
  <2>11. NoIdleSlot'
    BY <2>1, <2>10, <1>1, <1>5, Countable DEF SlotInv, NoIdleSlot
  <2>12. QED BY <2>3, <2>5, <2>6, <2>9, <2>11 DEF SlotInv, Orderly
<1>6. QED BY <1>4, <1>5

(* A caller whose context ends leaves the queue, or loses its grant.       *)
LEMMA GiveUpSlot == ASSUME SlotInv, NEW c \in Callers, GiveUp(c) PROVE SlotInv'
<1>1. /\ place \in [Callers -> Where] /\ place[c] = "wait" /\ place' = [place EXCEPT ![c] = "idle"]
      /\ waiters \in Seq(Callers) /\ Distinct(waiters) /\ waiters' = Without(waiters, c)
      /\ activeCount \in Int /\ activeCount' = activeCount /\ lost \in Nat
      /\ tries' = tries /\ currentLimit' = currentLimit
  BY DEF SlotInv, Controlled, Orderly, GiveUp, Goto
<1>2. /\ waiters' \in Seq(Callers) /\ Distinct(waiters')
      /\ \A d : Queued(d)' <=> Queued(d) /\ d # c
      /\ waiters = <<>> => waiters' = <<>>
  BY <1>1, WithoutFacts DEF Queued
<1>3. lost' = IF Queued(c) THEN lost ELSE lost + 1
  BY DEF GiveUp
<1>4. Controlled'
  BY <1>1, <1>2, <1>3 DEF SlotInv, Controlled, GiveUp, Where
<1>5. Orderly'
  <2>1. ASSUME NEW i \in 1..Len(waiters') PROVE place'[waiters'[i]] = "wait"
    <3>1. waiters'[i] \in Range(waiters')
      BY <1>2, Members
    <3>2. Queued(waiters'[i]) /\ waiters'[i] # c
      BY <3>1, <1>1, WithoutFacts DEF Queued
    <3>3. PICK j \in 1..Len(waiters) : waiters[j] = waiters'[i]
      BY <3>2, <1>1, Members DEF Queued
    <3>4. waiters[j] \in Callers /\ place[waiters[j]] = "wait"
      BY <1>1, LenProperties DEF SlotInv, Orderly
    <3>5. QED BY <3>2, <3>3, <3>4, <1>1
  <2>2. QED BY <2>1, <1>2 DEF Orderly
<1>6. Holders' = Holders \ {c} /\ (c \in Holders <=> ~Queued(c))
  BY <1>1, <1>2 DEF Holders
<1>7. SlotsAccounted'
  <2>1. activeCount = Cardinality(Holders) + lost
    BY DEF SlotInv, SlotsAccounted
  <2>2. Cardinality(Holders') = IF Queued(c) THEN Cardinality(Holders) ELSE Cardinality(Holders) - 1
    BY <1>6, Countable, FS_RemoveElement
  <2>3. QED BY <2>1, <2>2, <1>1, <1>3, Countable DEF SlotsAccounted
<1>8. Releasing' = Releasing
  BY <1>1 DEF Releasing
<1>9. NoIdleSlot'
  BY <1>1, <1>2, <1>8 DEF SlotInv, NoIdleSlot
<1>10. QED BY <1>4, <1>5, <1>7, <1>9 DEF SlotInv

(* A fast answer may raise the limit, and its caller will release.         *)
LEMMA SuccessSlot == ASSUME SlotInv, NEW c \in Callers, RecordSuccess(c) PROVE SlotInv'
<1>1. /\ place \in [Callers -> Where] /\ place[c] = "request" /\ Goto(c, "release")
      /\ place' = [place EXCEPT ![c] = "release"]
      /\ waiters \in Seq(Callers) /\ waiters' = waiters /\ activeCount' = activeCount
      /\ activeCount \in Int /\ lost' = lost /\ tries' = tries
  BY DEF SlotInv, Controlled, RecordSuccess, Goto
<1>2. currentLimit' \in 1..MaxLimit /\ currentLimit' <= currentLimit + 1
  BY SlotsAssumption DEF SlotInv, Controlled, RecordSuccess, Smaller
<1>3. successStreak' \in 0..(Streak - 1)
  <2>1. successStreak + 1 \in Nat /\ Streak \in Nat \ {0}
    BY SlotsAssumption DEF SlotInv, Controlled
  <2>2. \A m \in Nat, k \in Nat \ {0} : m % k \in 0..(k - 1)
    OBVIOUS
  <2>3. QED BY <2>1, <2>2 DEF RecordSuccess
<1>4. Controlled'
  BY <1>1, <1>2, <1>3 DEF SlotInv, Controlled, RecordSuccess, Where
<1>5. Orderly'
  <2>1. \A i \in 1..Len(waiters) : waiters[i] \in Callers
    BY <1>1, LenProperties
  <2>2. QED BY <2>1, <1>1 DEF SlotInv, Orderly
<1>6. Holders' = Holders
  BY <1>1 DEF Holders, Queued
<1>7. SlotsAccounted'
  BY <1>1, <1>6 DEF SlotInv, SlotsAccounted
<1>8. Cardinality(Releasing') = Cardinality(Releasing) + 1
  BY <1>1, ReleasingEnter
<1>9. NoIdleSlot'
  BY <1>1, <1>2, <1>8, Countable DEF SlotInv, Controlled, NoIdleSlot
<1>10. QED BY <1>4, <1>5, <1>7, <1>9 DEF SlotInv

(* A slow or failed request halves the limit, wakes those still within it  *)
(* and leaves its caller about to release.                                 *)
LEMMA FailureSlot ==
  ASSUME SlotInv, NEW c \in Callers, NEW w \in {"release", "releaseRetry"},
         RecordFailure(c, w)
  PROVE  SlotInv'
<1>1. /\ place \in [Callers -> Where] /\ place[c] = "request" /\ Goto(c, w)
      /\ place' = [place EXCEPT ![c] = w] /\ w \in Where /\ w # "wait"
      /\ waiters \in Seq(Callers) /\ activeCount \in Int
      /\ currentLimit \in 1..MaxLimit
      /\ lost \in Nat /\ lost' = lost /\ tries' = tries /\ ended' = ended
      /\ successStreak' = 0 /\ currentLimit' = Halved(currentLimit)
  BY DEF SlotInv, Controlled, RecordFailure, DecreaseLimit, Goto, Where
<1>2. currentLimit' \in 1..MaxLimit /\ currentLimit' <= currentLimit
  <2>1. currentLimit \in Nat /\ MaxLimit \in Nat /\ currentLimit <= MaxLimit
    BY <1>1, SlotsAssumption
  <2>2. QED BY <2>1, <1>1 DEF Halved
<1>3. PICK n \in 0..Len(waiters) :
        /\ activeCount' = activeCount + n
        /\ waiters' \in Seq(Callers) /\ Len(waiters') = Len(waiters) - n
        /\ \A j \in 1..(Len(waiters) - n) : waiters'[j] = waiters[n + j]
        /\ waiters' # <<>> => \/ activeCount' >= currentLimit'
                              \/ activeCount' = activeCount /\ waiters' = waiters
  <2>1. CASE currentLimit > 1
    <3>1. NotifyWaiters(activeCount, currentLimit')
      BY <2>1, <1>1 DEF RecordFailure, DecreaseLimit
    <3>2. currentLimit' \in Int
      BY <1>2
    <3>3. QED BY <3>1, <3>2, <1>1, NotifyFacts
  <2>2. CASE ~(currentLimit > 1)
    <3>1. activeCount' = activeCount /\ waiters' = waiters
      BY <2>2, <1>1 DEF RecordFailure, DecreaseLimit
    <3>2. Len(waiters) \in Nat
      BY <1>1, LenProperties
    <3>3. 0 \in 0..Len(waiters) /\ activeCount' = activeCount + 0
          /\ Len(waiters') = Len(waiters) - 0
          /\ \A j \in 1..(Len(waiters) - 0) : waiters'[j] = waiters[0 + j]
      BY <3>1, <3>2, <1>1
    <3>4. QED BY <3>1, <3>3, <1>1
  <2>3. QED BY <2>1, <2>2
<1>4. /\ Orderly'
      /\ \E G \in SUBSET Callers :
           /\ IsFiniteSet(G) /\ Cardinality(G) = n
           /\ G \intersect Holders = {} /\ c \notin G
           /\ \A d \in Callers \ {c} : d \in Holders' <=> d \in Holders \union G
  <2>1. Controlled /\ Orderly /\ place[c] # "wait"
    BY <1>1 DEF SlotInv
  <2>2. QED BY <2>1, <1>1, <1>3, WokenHold
<1>5. PICK G \in SUBSET Callers :
        /\ IsFiniteSet(G) /\ Cardinality(G) = n
        /\ G \intersect Holders = {} /\ c \notin G
        /\ \A d \in Callers \ {c} : d \in Holders' <=> d \in Holders \union G
  BY <1>4
<1>6. Controlled'
  <2>1. activeCount' \in Int /\ successStreak' \in 0..(Streak - 1)
    <3>1. n \in Int
      BY <1>1, LenProperties
    <3>2. QED BY <3>1, <1>1, <1>3, SlotsAssumption
  <2>2. place' \in [Callers -> Where] /\ \A d \in Callers : place'[d] = "backoff" => place[d] = "backoff"
    BY <1>1
  <2>3. QED BY <2>1, <2>2, <1>1, <1>2, <1>3 DEF SlotInv, Controlled
<1>7. SlotsAccounted'
  <2>1. c \in Holders /\ c \in Holders'
    BY <1>1 DEF Holders
  <2>2. Holders' \subseteq Callers /\ Holders \subseteq Callers
    BY DEF Holders
  <2>3. Holders' = Holders \union G
    BY <1>5, <2>1, <2>2
  <2>4. Cardinality(Holders') = Cardinality(Holders) + n
    <3>1. Cardinality(Holders \intersect G) = 0
      BY <1>5, FS_EmptySet
    <3>2. Cardinality(Holders \union G)
            = Cardinality(Holders) + Cardinality(G) - Cardinality(Holders \intersect G)
      BY <1>5, Countable, FS_Union
    <3>3. n \in Int
      BY <1>1, LenProperties
    <3>4. QED BY <3>1, <3>2, <3>3, <2>3, <1>5, Countable
  <2>5. activeCount = Cardinality(Holders) + lost
    BY DEF SlotInv, SlotsAccounted
  <2>6. n \in Int
    BY <1>1, LenProperties
  <2>7. QED BY <2>4, <2>5, <2>6, <1>1, <1>3, Countable DEF SlotsAccounted
<1>8. NoIdleSlot'
  <2>1. Cardinality(Releasing') = Cardinality(Releasing) + 1
    BY <1>1, ReleasingEnter
  <2>2. Cardinality(Releasing) \in Nat /\ activeCount' \in Int
        /\ currentLimit \in Int /\ currentLimit' \in Int
    BY <1>1, <1>2, <1>6, Countable DEF Controlled
  <2>3. CASE waiters' # <<>> /\ activeCount' >= currentLimit'
    BY <2>1, <2>2, <2>3 DEF NoIdleSlot
  <2>4. CASE waiters' # <<>> /\ activeCount' = activeCount /\ waiters' = waiters
    <3>1. currentLimit - activeCount <= Cardinality(Releasing)
      BY <2>4 DEF SlotInv, NoIdleSlot
    <3>2. QED BY <3>1, <2>1, <2>2, <2>4, <1>2, <1>1 DEF NoIdleSlot
  <2>5. QED BY <2>3, <2>4, <1>3 DEF NoIdleSlot
<1>9. QED BY <1>4, <1>6, <1>7, <1>8 DEF SlotInv

(* Release passes the slot to the head of the queue, or frees it.          *)
LEMMA ReleaseSlot == ASSUME SlotInv, NEW c \in Callers, Release(c) PROVE SlotInv'
<1> DEFINE w == IF place[c] = "releaseRetry" /\ tries[c] < MaxTries THEN "backoff" ELSE "idle"
<1>1. /\ place \in [Callers -> Where] /\ place[c] \in {"release", "releaseRetry"} /\ Goto(c, w)
      /\ place' = [place EXCEPT ![c] = w]
      /\ waiters \in Seq(Callers) /\ activeCount \in Int
      /\ currentLimit \in 1..MaxLimit /\ currentLimit' = currentLimit
      /\ lost \in Nat /\ lost' = lost /\ tries' = tries /\ ended' = ended
      /\ successStreak' = successStreak
      /\ NotifyWaiters(activeCount - 1, currentLimit)
  BY DEF SlotInv, Controlled, Release, Goto
<1>2. w \in {"backoff", "idle"} /\ w \in Where /\ w # "wait"
      /\ (w = "backoff" => tries[c] < MaxTries)
  BY DEF Where
<1> HIDE DEF w
<1>3. PICK n \in 0..Len(waiters) :
        /\ activeCount' = (activeCount - 1) + n
        /\ waiters' \in Seq(Callers) /\ Len(waiters') = Len(waiters) - n
        /\ \A j \in 1..(Len(waiters) - n) : waiters'[j] = waiters[n + j]
        /\ waiters' # <<>> => activeCount' >= currentLimit
  <2>1. activeCount - 1 \in Int /\ currentLimit \in Int
    BY <1>1
  <2>2. QED BY <2>1, <1>1, NotifyFacts
<1>4. /\ Orderly'
      /\ \E G \in SUBSET Callers :
           /\ IsFiniteSet(G) /\ Cardinality(G) = n
           /\ G \intersect Holders = {} /\ c \notin G
           /\ \A d \in Callers \ {c} : d \in Holders' <=> d \in Holders \union G
  <2>1. Controlled /\ Orderly /\ place[c] # "wait"
    BY <1>1 DEF SlotInv
  <2>2. QED BY <2>1, <1>1, <1>2, <1>3, WokenHold
<1>5. PICK G \in SUBSET Callers :
        /\ IsFiniteSet(G) /\ Cardinality(G) = n
        /\ G \intersect Holders = {} /\ c \notin G
        /\ \A d \in Callers \ {c} : d \in Holders' <=> d \in Holders \union G
  BY <1>4
<1>6. n \in Int
  BY <1>1, LenProperties
<1>7. Controlled'
  <2>1. activeCount' \in Int
    BY <1>1, <1>3, <1>6
  <2>2. place' \in [Callers -> Where]
    BY <1>1, <1>2
  <2>3. ASSUME NEW d \in Callers, place'[d] = "backoff" PROVE tries'[d] < MaxTries
    <3>1. CASE d = c
      BY <3>1, <2>3, <1>1, <1>2
    <3>2. CASE d # c
      BY <3>2, <2>3, <1>1 DEF SlotInv, Controlled
    <3>3. QED BY <3>1, <3>2
  <2>4. QED BY <2>1, <2>2, <2>3, <1>1, <1>3 DEF SlotInv, Controlled
<1>8. SlotsAccounted'
  <2>1. c \in Holders /\ c \notin Holders'
    BY <1>1, <1>2 DEF Holders
  <2>2. Holders' \subseteq Callers /\ Holders \subseteq Callers
    BY DEF Holders
  <2>3. Holders' = (Holders \ {c}) \union G
    BY <1>5, <2>1, <2>2
  <2>4. IsFiniteSet(Holders \ {c}) /\ Cardinality(Holders \ {c}) = Cardinality(Holders) - 1
    BY <2>1, Countable, FS_RemoveElement
  <2>5. Cardinality(Holders') = Cardinality(Holders) - 1 + n
    <3>1. Cardinality((Holders \ {c}) \intersect G) = 0
      <4>1. (Holders \ {c}) \intersect G = {}
        BY <1>5
      <4>2. QED BY <4>1, FS_EmptySet
    <3>2. Cardinality((Holders \ {c}) \union G)
            = Cardinality(Holders \ {c}) + Cardinality(G)
              - Cardinality((Holders \ {c}) \intersect G)
      BY <1>5, <2>4, FS_Union
    <3>3. QED BY <3>1, <3>2, <2>3, <2>4, <1>5, <1>6, Countable
  <2>6. activeCount = Cardinality(Holders) + lost
    BY DEF SlotInv, SlotsAccounted
  <2>7. QED BY <2>5, <2>6, <1>1, <1>3, <1>6, Countable DEF SlotsAccounted
<1>9. NoIdleSlot'
  <2>1. Cardinality(Releasing') \in Nat
    <3>1. c \in Releasing
      BY <1>1 DEF Releasing
    <3>2. Releasing' = Releasing \ {c}
      BY <1>1, <1>2 DEF Releasing
    <3>3. QED BY <3>2, Countable, FS_RemoveElement, FS_CardinalityType
  <2>2. QED BY <2>1, <1>1, <1>3, <1>7 DEF Controlled, NoIdleSlot
<1>10. QED BY <1>4, <1>7, <1>8, <1>9 DEF SlotInv

(* Every step of a caller keeps the invariant.                             *)
LEMMA NextSlot == SlotInv /\ [SlotsNext]_slotVars => SlotInv'
<1> SUFFICES ASSUME SlotInv, [SlotsNext]_slotVars PROVE SlotInv'
  OBVIOUS
<1>1. CASE SlotsNext
  <2>1. PICK c \in Callers : Call(c) \/ ContextEnds(c) \/ CallerStep(c)
    BY <1>1 DEF SlotsNext
  <2>2. CASE Call(c) \/ ContextEnds(c) \/ Wake(c) \/ Backoff(c)
    BY <2>2, CallerSlot
  <2>3. CASE Acquire(c)
    BY <2>3, AcquireSlot
  <2>4. CASE GiveUp(c)
    BY <2>4, GiveUpSlot
  <2>5. CASE Release(c)
    BY <2>5, ReleaseSlot
  <2>6. CASE RecordSuccess(c)
    BY <2>6, SuccessSlot
  <2>7. CASE \E w \in {"release", "releaseRetry"} : RecordFailure(c, w)
    BY <2>7, FailureSlot
  <2>8. QED BY <2>1, <2>2, <2>3, <2>4, <2>5, <2>6, <2>7 DEF CallerStep
<1>2. CASE UNCHANGED slotVars
  BY <1>2 DEF slotVars, controller, SlotInv, Controlled, Orderly, Distinct,
     SlotsAccounted, NoIdleSlot, Holders, Releasing, Queued
<1>3. QED BY <1>1, <1>2

(* The inductive invariant holds of every behaviour.                       *)
LEMMA SlotInvAlways == SlotsSpec => []SlotInv
<1>1. QED BY InitSlot, NextSlot, PTL DEF SlotsSpec

-------------------------------------------------------------------------------
\* The count of active slots is a number.
LEMMA SlotsTyped == SlotInv => SlotsTypeOK
<1> SUFFICES ASSUME SlotInv PROVE SlotsTypeOK
  OBVIOUS
<1>1. activeCount \in Nat
  BY Countable DEF SlotInv, Controlled, SlotsAccounted
<1>2. QED BY <1>1 DEF SlotInv, Controlled, SlotsTypeOK

(* Types of ConcurrencyController are kept: its limit never leaves         *)
(* 1..maxLimit, and Release never takes activeCount below zero.            *)
THEOREM SlotsTypeCorrect == SlotsSpec => []SlotsTypeOK
BY SlotsTyped, SlotInvAlways, PTL

(* activeCount is the number of callers that hold a slot and of grants     *)
(* that were lost to an ended context, whatever the interleaving.          *)
THEOREM SlotsAccountedAlways == SlotsSpec => []SlotsAccounted
<1>1. SlotInv => SlotsAccounted
  BY DEF SlotInv
<1>2. QED BY <1>1, SlotInvAlways, PTL

(* While a caller waits, the free slots are no more than the callers about *)
(* to call Release, although RecordSuccess wakes nobody.                   *)
THEOREM NoIdleSlotAlways == SlotsSpec => []NoIdleSlot
<1>1. SlotInv => NoIdleSlot
  BY DEF SlotInv
<1>2. QED BY <1>1, SlotInvAlways, PTL

-----------------------------------------------------------------------------
(***************************************************************************)
(* The batch upserter.                                                     *)
(***************************************************************************)
Counts ==
  /\ added \in 0..MaxPoints /\ settled \in Nat /\ before \in 0..added
  /\ adding \in Nat /\ queued \in 0..(2 * BatchSize) /\ batch \in Nat /\ pending \in Nat

Places ==
  /\ loop \in {"select", "drain", "store", "exited"} /\ flush \in {"idle", "ask", "reply", "wait"}

BatchInv == Counts /\ Places /\ PointsAccounted

\* NewBatchUpserter: nothing is anywhere.
LEMMA BatchStarts == BatchInit => BatchInv
BY BatchAssumption DEF BatchInit, BatchInv, Counts, Places, PointsAccounted

\* Add: a point is counted, and then handed over or dropped.
LEMMA AddKeeps == BatchInv /\ (BeginAdd \/ HandOver) => BatchInv'
<1> USE BatchAssumption DEF BatchInv, Counts, Places, PointsAccounted
<1>1. ASSUME BatchInv, BeginAdd PROVE BatchInv'
  BY <1>1 DEF BeginAdd, flusher
<1>2. ASSUME BatchInv, HandOver PROVE BatchInv'
  <2>1. /\ adding > 0 /\ adding' = adding - 1
        /\ UNCHANGED <<added, batch, loop, flush, before>>
    BY <1>2 DEF HandOver, flusher
  <2>2. CASE HasRoom /\ queued' = queued + 1 /\ UNCHANGED <<pending, settled>>
    BY <1>2, <2>1, <2>2 DEF HasRoom
  <2>3. CASE DropsPoint /\ settled' = settled + 1 /\ UNCHANGED queued
    BY <1>2, <2>1, <2>3 DEF DropsPoint
  <2> QED BY <1>2, <2>2, <2>3 DEF HandOver
<1> QED BY <1>1, <1>2

\* The goroutine: points move into its batch, and are settled from there.
LEMMA LoopKeeps == BatchInv /\ LoopStep => BatchInv'
<1> SUFFICES ASSUME BatchInv, LoopStep PROVE BatchInv'
  OBVIOUS
<1> USE BatchAssumption DEF BatchInv, adders, flusher
<1>1. CASE ReceivePoint
  <2>1. Counts' /\ PointsAccounted'
    BY <1>1 DEF ReceivePoint, Counts, PointsAccounted
  <2>2. Places'
    BY <1>1 DEF ReceivePoint, Flushes, Places
  <2> QED BY <2>1, <2>2
<1>2. CASE TickerFires \/ SeesCancel \/ MeetFlush
  <2>1. UNCHANGED <<added, adding, queued, batch, pending, settled, before>>
    BY <1>2 DEF TickerFires, SeesCancel, MeetFlush
  <2>2. Places'
    BY <1>2 DEF TickerFires, SeesCancel, MeetFlush, Flushes, Places
  <2> QED BY <2>1, <2>2 DEF Counts, PointsAccounted
<1>3. CASE DrainQueue
  <2>1. Counts' /\ PointsAccounted'
    BY <1>3 DEF DrainQueue, Counts, PointsAccounted
  <2>2. Places'
    BY <1>3 DEF DrainQueue, EndsFlush, Places
  <2> QED BY <2>1, <2>2
<1>4. CASE StoreBatch
  <2>1. Counts' /\ PointsAccounted'
    BY <1>4 DEF StoreBatch, Counts, PointsAccounted
  <2>2. Places'
    BY <1>4 DEF StoreBatch, EndsFlush, Places
  <2> QED BY <2>1, <2>2
<1> QED BY <1>1, <1>2, <1>3, <1>4 DEF LoopStep

\* Flush and Close move no point.
LEMMA CallsKeep == BatchInv /\ (CallFlush \/ FindsDone \/ ReturnFlush \/ CallClose) => BatchInv'
BY DEF BatchInv, Counts, Places, PointsAccounted, CallFlush, FindsDone, ReturnFlush, CallClose,
       adders, flusher

\* Every step keeps the invariant.
LEMMA BatchStepKeeps == BatchInv /\ [BatchNext]_batchVars => BatchInv'
<1> SUFFICES ASSUME BatchInv, [BatchNext]_batchVars PROVE BatchInv'
  OBVIOUS
<1>1. CASE UNCHANGED batchVars
  BY <1>1 DEF batchVars, BatchInv, Counts, Places, PointsAccounted
<1> QED BY <1>1, AddKeeps, LoopKeeps, CallsKeep DEF BatchNext

\* The invariant holds of every behaviour.
LEMMA BatchInvariant == BatchSpec => []BatchInv
BY BatchStarts, BatchStepKeeps, PTL DEF BatchSpec

\* What is counted is bounded by the points there are.
LEMMA BatchTyped == BatchInv => BatchTypeOK
<1> SUFFICES ASSUME BatchInv PROVE BatchTypeOK
  OBVIOUS
<1>1. /\ added \in 0..MaxPoints /\ adding \in 0..MaxPoints /\ pending \in 0..MaxPoints
      /\ settled \in 0..MaxPoints /\ before \in 0..MaxPoints /\ batch \in 0..MaxPoints
  BY BatchAssumption DEF BatchInv, Counts, PointsAccounted
<1> QED BY <1>1 DEF BatchInv, Counts, Places, BatchTypeOK

(***************************************************************************)
(* The types: no counter passes its bound or falls below zero, the wait    *)
(* group's, which would panic, included.                                   *)
(***************************************************************************)
THEOREM BatchTypeCorrect == BatchSpec => []BatchTypeOK
BY BatchTyped, BatchInvariant, PTL

(***************************************************************************)
(* Add, flush and Close: the wait group counts every point that is on its  *)
(* way, once, whichever way it leaves.                                     *)
(***************************************************************************)
THEOREM PointsAccountedAlways == BatchSpec => []PointsAccounted
<1>1. BatchInv => PointsAccounted
  BY DEF BatchInv
<1> QED BY <1>1, BatchInvariant, PTL

\* What the return of a flush says.
FlushSettles == flush = "wait" /\ flush' = "idle" => settled >= before

\* A flush returns only with an empty wait group.
LEMMA FlushSettlesByStep == BatchInv /\ [BatchNext]_batchVars => [FlushSettles]_batchVars
<1> SUFFICES ASSUME BatchInv, BatchNext, flush = "wait", flush' = "idle" PROVE settled >= before
  BY DEF FlushSettles
<1>1. NonePending
  BY DEF BatchNext, BeginAdd, HandOver, LoopStep, ReceivePoint, TickerFires, SeesCancel, MeetFlush,
         DrainQueue, StoreBatch, EndsFlush, CallFlush, FindsDone, ReturnFlush, CallClose, flusher
<1> QED BY <1>1, BatchAssumption DEF NonePending, BatchInv, Counts, PointsAccounted

(***************************************************************************)
(* Flush: when it returns after a reply, all points added before it are    *)
(* settled, in whatever order points, ticks, flushes and Close arrive.     *)
(***************************************************************************)
THEOREM FlushMeansSettledAlways == BatchSpec => FlushMeansSettled
<1>1. BatchSpec => [][FlushSettles]_batchVars
  BY FlushSettlesByStep, BatchInvariant, PTL DEF BatchSpec
<1> QED BY <1>1 DEF FlushSettles, FlushMeansSettled

-----------------------------------------------------------------------------
(***************************************************************************)
(* The watcher and its consumer.                                           *)
(***************************************************************************)
\* fsnotify reports changes that were made.
ReportsFollow == \A p \in Paths : told[p] <= edits[p]

\* A path that has a timer's number is shown as pending, until the server is asked to stop.
NumberedArePending == ~cancelled => \A p \in Paths : timers[p] # 0 => p \in pendingFiles

\* The goroutines of synchronizations, those of a path numbered from 1.
Triples == Paths \X {"begun", "reading"} \X Nat
Below(b, r, g) == g[3] # 0 /\ g[3] <= (IF g[2] = "begun" THEN b[g[1]] ELSE r[g[1]])
Goroutines(b, r) == {g \in Triples : Below(b, r, g)}
Syncs == Goroutines(begun, reading)

SyncsCounted == IsFiniteSet(Syncs) /\ activeSyncs = Cardinality(Syncs)

DiskTypes ==
  /\ edits \in [Paths -> Nat] /\ told \in [Paths -> Nat] /\ synced \in [Paths -> Nat]
  /\ folder \in {"none", "made", "watched"}
  /\ cancelled \in BOOLEAN /\ watcherUp \in BOOLEAN /\ consumerUp \in BOOLEAN

NoticeTypes == notices \in Seq(Paths \union {Directory})
EventTypes  == eventChan \in Seq(Paths) /\ Len(eventChan) <= EventCap
FiredTypes  == fired \in Seq(Numbered) /\ Len(fired) <= FiredCap
HandTypes   == sending \in Paths \union {NoPath} /\ received \in Paths \union {NoPath}

TimerTypes ==
  /\ sequence \in Nat /\ timers \in [Paths -> Nat] /\ pendingFiles \subseteq Paths
  /\ armed \subseteq Numbered /\ expired \subseteq Numbered

SyncTypes == begun \in [Paths -> Nat] /\ reading \in [Paths -> Nat]

WatchTypes ==
  DiskTypes /\ NoticeTypes /\ EventTypes /\ FiredTypes /\ HandTypes /\ TimerTypes /\ SyncTypes

WatchInv ==
  WatchTypes /\ ReportsFollow /\ NumberedArePending /\ SyncsCounted /\ ChangeReachesSync

\* A sequence that is appended to holds one thing more.
LEMMA RangeOfAppend ==
  ASSUME NEW S, NEW s \in Seq(S), NEW e \in S
  PROVE  /\ Append(s, e) \in Seq(S) /\ Len(Append(s, e)) = Len(s) + 1
         /\ Range(Append(s, e)) = Range(s) \union {e}
<1>1. Append(s, e) \in Seq(S) /\ Len(Append(s, e)) = Len(s) + 1
  OBVIOUS
<1>2. DOMAIN Append(s, e) = 1..(Len(s) + 1) /\ DOMAIN s = 1..Len(s) /\ Len(s) \in Nat
  OBVIOUS
<1>3. Append(s, e)[Len(s) + 1] = e /\ \A i \in 1..Len(s) : Append(s, e)[i] = s[i]
  OBVIOUS
<1>4. ASSUME NEW x PROVE x \in Range(Append(s, e)) <=> x \in Range(s) \union {e}
  <2>1. x \in Range(Append(s, e)) <=> \E i \in 1..(Len(s) + 1) : Append(s, e)[i] = x
    BY <1>2 DEF Range
  <2>2. x \in Range(s) <=> \E i \in 1..Len(s) : s[i] = x
    BY <1>2 DEF Range
  <2> QED BY <1>2, <1>3, <2>1, <2>2
<1> QED BY <1>1, <1>4

\* What a sequence holds is its head, or in its tail.
LEMMA RangeOfTail ==
  ASSUME NEW S, NEW s \in Seq(S), s # <<>>
  PROVE  /\ Tail(s) \in Seq(S) /\ Len(Tail(s)) = Len(s) - 1 /\ Len(s) \in Nat /\ Head(s) \in S
         /\ Range(s) = Range(Tail(s)) \union {Head(s)}
<1>1. Tail(s) \in Seq(S) /\ Len(Tail(s)) = Len(s) - 1 /\ Len(s) \in Nat \ {0} /\ Head(s) \in S
  OBVIOUS
<1>2. DOMAIN Tail(s) = 1..(Len(s) - 1) /\ DOMAIN s = 1..Len(s)
  BY <1>1
<1>3. Head(s) = s[1] /\ \A i \in 1..(Len(s) - 1) : Tail(s)[i] = s[i + 1]
  BY <1>1
<1>4. ASSUME NEW x PROVE x \in Range(s) <=> x \in Range(Tail(s)) \union {Head(s)}
  <2>1. x \in Range(Tail(s)) <=> \E i \in 1..(Len(s) - 1) : s[i + 1] = x
    BY <1>2, <1>3 DEF Range
  <2>2. x \in Range(s) <=> \E i \in 1..Len(s) : s[i] = x
    BY <1>2 DEF Range
  <2>3. ASSUME NEW i \in 1..Len(s), i # 1 PROVE i - 1 \in 1..(Len(s) - 1) /\ (i - 1) + 1 = i
    BY <1>1, <2>3
  <2>4. \A i \in 1..(Len(s) - 1) : i + 1 \in 1..Len(s)
    BY <1>1
  <2> QED BY <1>1, <1>3, <2>1, <2>2, <2>3, <2>4
<1> QED BY <1>1, <1>4

\* A path that is reported joins fsnotify's queue.
LEMMA NoticeAdded ==
  ASSUME NoticeTypes, NEW e \in Paths \union {Directory}, notices' = Append(notices, e)
  PROVE  NoticeTypes' /\ Range(notices') = Range(notices) \union {e}
BY RangeOfAppend DEF NoticeTypes

\* A path that is forwarded joins the event channel, if it has room.
LEMMA EventAdded ==
  ASSUME EventTypes, NEW e \in Paths, Len(eventChan) < EventCap, eventChan' = Append(eventChan, e)
  PROVE  EventTypes' /\ Range(eventChan') = Range(eventChan) \union {e}
<1>1. /\ eventChan' \in Seq(Paths) /\ Len(eventChan') = Len(eventChan) + 1
      /\ Range(eventChan') = Range(eventChan) \union {e} /\ Len(eventChan) \in Nat
  BY RangeOfAppend DEF EventTypes
<1> QED BY <1>1, WatchAssumption DEF EventTypes

\* A timer that has expired joins the fired channel, if it has room.
LEMMA TimerSent ==
  ASSUME FiredTypes, NEW e \in Numbered, Len(fired) < FiredCap, fired' = Append(fired, e)
  PROVE  FiredTypes' /\ Range(fired') = Range(fired) \union {e}
<1>1. /\ fired' \in Seq(Numbered) /\ Len(fired') = Len(fired) + 1
      /\ Range(fired') = Range(fired) \union {e} /\ Len(fired) \in Nat
  BY RangeOfAppend DEF FiredTypes
<1> QED BY <1>1, WatchAssumption DEF FiredTypes

\* fsnotify's queue, when WatchLoop takes its head.
LEMMA NoticeTaken ==
  ASSUME NoticeTypes, notices # <<>>, notices' = Tail(notices)
  PROVE  /\ NoticeTypes' /\ Head(notices) \in Paths \union {Directory}
         /\ Range(notices) = Range(notices') \union {Head(notices)}
BY RangeOfTail DEF NoticeTypes

\* The event channel, when the consumer takes its head.
LEMMA EventTaken ==
  ASSUME EventTypes, eventChan # <<>>, eventChan' = Tail(eventChan)
  PROVE  /\ EventTypes' /\ Head(eventChan) \in Paths
         /\ Range(eventChan) = Range(eventChan') \union {Head(eventChan)}
<1>1. /\ eventChan' \in Seq(Paths) /\ Len(eventChan') = Len(eventChan) - 1 /\ Len(eventChan) \in Nat
      /\ Head(eventChan) \in Paths /\ Range(eventChan) = Range(eventChan') \union {Head(eventChan)}
  BY RangeOfTail DEF EventTypes
<1> QED BY <1>1, WatchAssumption DEF EventTypes

\* The fired channel, when the consumer takes its head.
LEMMA TimerTaken ==
  ASSUME FiredTypes, fired # <<>>, fired' = Tail(fired)
  PROVE  /\ FiredTypes' /\ Head(fired) \in Numbered
         /\ Range(fired) = Range(fired') \union {Head(fired)}
<1>1. /\ fired' \in Seq(Numbered) /\ Len(fired') = Len(fired) - 1 /\ Len(fired) \in Nat
      /\ Head(fired) \in Numbered /\ Range(fired) = Range(fired') \union {Head(fired)}
  BY RangeOfTail DEF FiredTypes
<1> QED BY <1>1, WatchAssumption DEF FiredTypes

\* NewIngestionConsumer and WatchLoop start with nothing under way.
LEMMA WatchStarts == WatchInit => WatchInv
<1> SUFFICES ASSUME WatchInit PROVE WatchInv
  OBVIOUS
<1>1. DiskTypes /\ HandTypes /\ TimerTypes /\ SyncTypes
  BY DEF WatchInit, DiskTypes, HandTypes, TimerTypes, SyncTypes
<1>2. NoticeTypes /\ EventTypes /\ FiredTypes
  BY WatchAssumption DEF WatchInit, NoticeTypes, EventTypes, FiredTypes
<1>3. ReportsFollow /\ NumberedArePending /\ ChangeReachesSync
  BY DEF WatchInit, ReportsFollow, NumberedArePending, ChangeReachesSync
<1>4. Syncs = {}
  BY DEF WatchInit, Syncs, Goroutines, Below, Triples
<1> QED BY <1>1, <1>2, <1>3, <1>4, FS_EmptySet DEF WatchInit, WatchInv, WatchTypes, SyncsCounted

\* One more goroutine that has not read: the next number.
LEMMA BegunMore ==
  ASSUME NEW b \in [Paths -> Nat], NEW r \in [Paths -> Nat], NEW p \in Paths,
         NEW c, c = [b EXCEPT ![p] = b[p] + 1]
  PROVE  /\ <<p, "begun", b[p] + 1>> \notin Goroutines(b, r)
         /\ Goroutines(c, r) = Goroutines(b, r) \union {<<p, "begun", b[p] + 1>>}
<1> DEFINE n == <<p, "begun", b[p] + 1>>
<1>1. c[p] = b[p] + 1 /\ \A q \in Paths \ {p} : c[q] = b[q]
  OBVIOUS
<1>2. n \in Triples /\ ~Below(b, r, n) /\ Below(c, r, n)
  BY <1>1 DEF Triples, Below
<1>3. ASSUME NEW g \in Triples, g # n PROVE Below(c, r, g) <=> Below(b, r, g)
  <2>1. g[1] \in Paths /\ g[3] \in Nat /\ (g[1] = p /\ g[2] = "begun" => g[3] # b[p] + 1)
    BY <1>3 DEF Triples
  <2> QED BY <1>1, <2>1 DEF Below
<1> QED BY <1>2, <1>3 DEF Goroutines

\* One fewer that has not read: the last number.
LEMMA BegunLess ==
  ASSUME NEW b \in [Paths -> Nat], NEW r \in [Paths -> Nat], NEW p \in Paths,
         NEW c, c = [b EXCEPT ![p] = b[p] - 1], b[p] > 0
  PROVE  /\ <<p, "begun", b[p]>> \in Goroutines(b, r)
         /\ Goroutines(c, r) = Goroutines(b, r) \ {<<p, "begun", b[p]>>}
<1> DEFINE n == <<p, "begun", b[p]>>
<1>1. c[p] = b[p] - 1 /\ \A q \in Paths \ {p} : c[q] = b[q]
  OBVIOUS
<1>2. n \in Triples /\ Below(b, r, n) /\ ~Below(c, r, n)
  BY <1>1 DEF Triples, Below
<1>3. ASSUME NEW g \in Triples, g # n PROVE Below(c, r, g) <=> Below(b, r, g)
  <2>1. g[1] \in Paths /\ g[3] \in Nat /\ (g[1] = p /\ g[2] = "begun" => g[3] # b[p])
    BY <1>3 DEF Triples
  <2> QED BY <1>1, <2>1 DEF Below
<1> QED BY <1>2, <1>3 DEF Goroutines

\* One more that has read.
LEMMA ReadingMore ==
  ASSUME NEW b \in [Paths -> Nat], NEW p \in Paths, reading \in [Paths -> Nat],
         reading' = [reading EXCEPT ![p] = reading[p] + 1]
  PROVE  /\ <<p, "reading", reading[p] + 1>> \notin Goroutines(b, reading)
         /\ Goroutines(b, reading') =
              Goroutines(b, reading) \union {<<p, "reading", reading[p] + 1>>}
<1> DEFINE n == <<p, "reading", reading[p] + 1>>
<1>1. reading'[p] = reading[p] + 1 /\ \A q \in Paths \ {p} : reading'[q] = reading[q]
  OBVIOUS
<1>2. n \in Triples /\ ~Below(b, reading, n) /\ Below(b, reading', n)
  BY <1>1 DEF Triples, Below
<1>3. ASSUME NEW g \in Triples, g # n PROVE Below(b, reading', g) <=> Below(b, reading, g)
  <2>1. /\ g[1] \in Paths /\ g[3] \in Nat
        /\ g[1] = p /\ g[2] # "begun" => g[3] # reading[p] + 1
    BY <1>3 DEF Triples
  <2> QED BY <1>1, <2>1 DEF Below
<1> QED BY <1>2, <1>3 DEF Goroutines

\* One fewer that has read.
LEMMA ReadingLess ==
  ASSUME NEW p \in Paths, reading \in [Paths -> Nat], reading[p] > 0,
         reading' = [reading EXCEPT ![p] = reading[p] - 1]
  PROVE  /\ <<p, "reading", reading[p]>> \in Goroutines(begun, reading)
         /\ Goroutines(begun, reading') =
              Goroutines(begun, reading) \ {<<p, "reading", reading[p]>>}
<1> DEFINE n == <<p, "reading", reading[p]>>
<1>1. reading'[p] = reading[p] - 1 /\ \A q \in Paths \ {p} : reading'[q] = reading[q]
  OBVIOUS
<1>2. n \in Triples /\ Below(begun, reading, n) /\ ~Below(begun, reading', n)
  BY <1>1 DEF Triples, Below
<1>3. ASSUME NEW g \in Triples, g # n
      PROVE  Below(begun, reading', g) <=> Below(begun, reading, g)
  <2>1. g[1] \in Paths /\ g[3] \in Nat /\ (g[1] = p /\ g[2] # "begun" => g[3] # reading[p])
    BY <1>3 DEF Triples
  <2> QED BY <1>1, <2>1 DEF Below
<1> QED BY <1>2, <1>3 DEF Goroutines

\* A step that starts and ends no goroutine leaves their count right.
LEMMA SameSyncs ==
  ASSUME SyncsCounted, UNCHANGED <<activeSyncs, begun, reading>>
  PROVE  SyncsCounted'
BY DEF SyncsCounted, Syncs

\* Each group of variables keeps its types where a step leaves it alone.
LEMMA SameTypes ==
  /\ NoticeTypes /\ UNCHANGED notices => NoticeTypes'
  /\ EventTypes /\ UNCHANGED eventChan => EventTypes'
  /\ FiredTypes /\ UNCHANGED fired => FiredTypes'
  /\ HandTypes /\ UNCHANGED <<sending, received>> => HandTypes'
  /\ TimerTypes /\ UNCHANGED <<sequence, timers, pendingFiles, armed, expired>> => TimerTypes'
  /\ SyncTypes /\ UNCHANGED <<begun, reading>> => SyncTypes'
  /\ DiskTypes /\ UNCHANGED <<edits, told, synced, folder, cancelled, watcherUp, consumerUp>> => DiskTypes'
BY DEF NoticeTypes, EventTypes, FiredTypes, HandTypes, TimerTypes, SyncTypes, DiskTypes

\* The file system, and the end: a change that is reported has its event.
LEMMA DiskKeeps ==
  ASSUME WatchInv, MakeFolder \/ Cancel \/ StopWatching \/ (\E p \in Paths : Edit(p))
  PROVE  WatchInv'
<1>0. WatchTypes /\ ReportsFollow /\ NumberedArePending /\ SyncsCounted /\ ChangeReachesSync
  BY DEF WatchInv
<1>1. CASE Cancel \/ StopWatching
  <2>1. UNCHANGED <<diskVars, notices, sending, eventChan, consumerVars, expired, fired, syncVars>>
        /\ cancelled' \in BOOLEAN /\ watcherUp' \in BOOLEAN /\ cancelled' = TRUE
    BY <1>0, <1>1 DEF Cancel, StopWatching, WatchTypes, DiskTypes
  <2>2. DiskTypes'
    BY <1>0, <2>1 DEF WatchTypes, DiskTypes, diskVars, consumerVars, syncVars
  <2> QED BY <1>0, <2>1, <2>2, SameSyncs, SameTypes
          DEF WatchInv, WatchTypes, ReportsFollow, NumberedArePending, ChangeReachesSync,
              diskVars, consumerVars, syncVars
<1>2. CASE MakeFolder
  <2>1. /\ notices' = Append(notices, Directory) /\ folder' = "made"
        /\ UNCHANGED <<edits, told, sending, eventChan, consumerVars, expired, fired, syncVars,
                       cancelled, watcherUp>>
    BY <1>2 DEF MakeFolder
  <2>2. NoticeTypes' /\ Range(notices) \subseteq Range(notices')
    BY <1>0, <2>1, NoticeAdded DEF WatchTypes
  <2>3. DiskTypes'
    BY <1>0, <2>1 DEF WatchTypes, DiskTypes, consumerVars, syncVars
  <2> QED BY <1>0, <2>1, <2>2, <2>3, SameSyncs, SameTypes
          DEF WatchInv, WatchTypes, ReportsFollow, NumberedArePending, ChangeReachesSync,
              consumerVars, syncVars, OnItsWay, TimerRuns
<1>3. ASSUME NEW p \in Paths, Edit(p) PROVE WatchInv'
  <2>1. /\ edits' = [edits EXCEPT ![p] = edits[p] + 1]
        /\ UNCHANGED <<folder, sending, eventChan, consumerVars, expired, fired, syncVars,
                       cancelled, watcherUp>>
    BY <1>3 DEF Edit
  <2>2. CASE Watched(p)
    <3>1. notices' = Append(notices, p) /\ told' = [told EXCEPT ![p] = edits[p] + 1]
      BY <1>3, <2>2 DEF Edit
    <3>2. NoticeTypes' /\ Range(notices') = Range(notices) \union {p}
      BY <1>0, <3>1, NoticeAdded DEF WatchTypes
    <3>3. ReportsFollow' /\ DiskTypes'
      BY <1>0, <2>1, <3>1 DEF ReportsFollow, WatchTypes, DiskTypes, consumerVars, syncVars
    <3>4. WatchTypes' /\ NumberedArePending' /\ SyncsCounted'
      BY <1>0, <2>1, <3>2, <3>3, SameSyncs, SameTypes
         DEF WatchTypes, NumberedArePending, consumerVars, syncVars
    <3>5. ChangeReachesSync'
      <4>1. \A q \in Paths : q = p \/ told'[q] = told[q]
        BY <1>0, <3>1 DEF WatchTypes, DiskTypes
      <4> QED BY <1>0, <2>1, <3>2, <4>1
              DEF ChangeReachesSync, consumerVars, syncVars, OnItsWay, TimerRuns
    <3> QED BY <3>3, <3>4, <3>5 DEF WatchInv
  <2>3. CASE ~Watched(p)
    <3>1. UNCHANGED <<notices, told>>
      BY <1>3, <2>3 DEF Edit
    <3>2. ReportsFollow' /\ DiskTypes'
      BY <1>0, <2>1, <3>1 DEF ReportsFollow, WatchTypes, DiskTypes, consumerVars, syncVars
    <3> QED BY <1>0, <2>1, <3>1, <3>2, SameSyncs, SameTypes
            DEF WatchInv, WatchTypes, NumberedArePending, ChangeReachesSync,
                consumerVars, syncVars, OnItsWay, TimerRuns
  <2> QED BY <2>2, <2>3
<1> QED BY <1>1, <1>2, <1>3

\* WatchLoop and the consumer's first channel: an event goes from hand to hand.
LEMMA EventsKeep ==
  ASSUME WatchInv, TakeNotice \/ Forward \/ Receive
  PROVE  WatchInv'
<1>0. WatchTypes /\ ReportsFollow /\ NumberedArePending /\ SyncsCounted /\ ChangeReachesSync
  BY DEF WatchInv
<1>1. /\ UNCHANGED <<edits, told, sequence, timers, armed, pendingFiles, consumerUp, expired, fired,
                     activeSyncs, begun, reading, synced, cancelled, watcherUp>>
      /\ folder' \in {folder, "watched"}
  BY DEF TakeNotice, Forward, Receive, consumerVars, syncVars, diskVars
<1>2. NoticeTypes' /\ EventTypes' /\ HandTypes' /\ \A p \in Paths : OnItsWay(p) => OnItsWay(p)'
  <2>0. NoticeTypes /\ EventTypes /\ HandTypes /\ Directory \notin Paths /\ NoPath \notin Paths
    BY <1>0, WatchAssumption DEF WatchTypes
  <2>1. CASE TakeNotice
    <3>1. /\ notices # <<>> /\ notices' = Tail(notices) /\ sending = NoPath
          /\ UNCHANGED <<eventChan, received>>
          /\ sending' = IF Head(notices) = Directory THEN NoPath ELSE Head(notices)
      BY <2>1 DEF TakeNotice, consumerVars
    <3>2. /\ NoticeTypes' /\ Head(notices) \in Paths \union {Directory}
          /\ Range(notices) = Range(notices') \union {Head(notices)}
      BY <2>0, <3>1, NoticeTaken
    <3>3. HandTypes' /\ EventTypes'
      BY <2>0, <3>1, <3>2, SameTypes DEF HandTypes
    <3> QED BY <2>0, <3>1, <3>2, <3>3 DEF OnItsWay
  <2>2. CASE Forward
    <3>1. /\ sending \in Paths /\ eventChan' = Append(eventChan, sending) /\ sending' = NoPath
          /\ Len(eventChan) < EventCap /\ UNCHANGED <<notices, received>>
      BY <2>0, <2>2 DEF Forward, HandTypes, consumerVars
    <3>2. EventTypes' /\ Range(eventChan') = Range(eventChan) \union {sending}
      BY <2>0, <3>1, EventAdded
    <3>3. HandTypes' /\ NoticeTypes'
      BY <2>0, <3>1, SameTypes DEF HandTypes
    <3> QED BY <2>0, <3>1, <3>2, <3>3 DEF OnItsWay
  <2>3. CASE Receive
    <3>1. /\ eventChan # <<>> /\ eventChan' = Tail(eventChan) /\ received = NoPath
          /\ received' = Head(eventChan) /\ UNCHANGED <<notices, sending>>
      BY <2>3 DEF Receive
    <3>2. /\ EventTypes' /\ Head(eventChan) \in Paths
          /\ Range(eventChan) = Range(eventChan') \union {Head(eventChan)}
      BY <2>0, <3>1, EventTaken
    <3>3. HandTypes' /\ NoticeTypes'
      BY <2>0, <3>1, <3>2, SameTypes DEF HandTypes
    <3> QED BY <2>0, <3>1, <3>2, <3>3 DEF OnItsWay
  <2> QED BY <2>1, <2>2, <2>3
<1>3. WatchTypes'
  <2>1. DiskTypes'
    BY <1>0, <1>1 DEF WatchTypes, DiskTypes
  <2> QED BY <1>0, <1>1, <1>2, <2>1, SameTypes DEF WatchTypes
<1>4. ReportsFollow' /\ NumberedArePending' /\ SyncsCounted'
  BY <1>0, <1>1, SameSyncs DEF ReportsFollow, NumberedArePending
<1>5. ChangeReachesSync'
  BY <1>0, <1>1, <1>2 DEF ChangeReachesSync, TimerRuns
<1> QED BY <1>3, <1>4, <1>5 DEF WatchInv

\* Timers: what is armed, has expired or was sent is still under way.
LEMMA TimersKeep ==
  ASSUME WatchInv, Schedule \/ DropStale \/ (\E timer \in Timers : Expire(timer) \/ Fire(timer))
  PROVE  WatchInv'
<1>0. WatchTypes /\ ReportsFollow /\ NumberedArePending /\ SyncsCounted /\ ChangeReachesSync
  BY DEF WatchInv
<1>1. CASE Schedule
  <2>1. /\ received \in Paths /\ received' = NoPath /\ pendingFiles' = pendingFiles \union {received}
        /\ sequence' = sequence + 1 /\ timers' = [timers EXCEPT ![received] = sequence + 1]
        /\ armed' = (armed \ {<<received, timers[received]>>}) \union {<<received, sequence + 1>>}
        /\ UNCHANGED <<diskVars, notices, sending, eventChan, consumerUp, expired, fired,
                       syncVars, cancelled, watcherUp>>
    BY <1>0, <1>1 DEF Schedule, Marked, WatchTypes, HandTypes
  <2>2. <<received, sequence + 1>> \in Numbered
    BY <1>0, <2>1 DEF Numbered, WatchTypes, TimerTypes
  <2>3. WatchTypes'
    <3>1. TimerTypes' /\ HandTypes'
      BY <1>0, <2>1, <2>2 DEF WatchTypes, TimerTypes, HandTypes
    <3> QED BY <1>0, <2>1, <3>1, SameTypes DEF WatchTypes, diskVars, syncVars
  <2>4. ReportsFollow' /\ NumberedArePending' /\ SyncsCounted'
    BY <1>0, <2>1, SameSyncs
       DEF ReportsFollow, NumberedArePending, WatchTypes, TimerTypes, diskVars, syncVars
  <2>5. ASSUME NEW p \in Paths, OnItsWay(p) \/ TimerRuns(p) \/ begun[p] > 0
        PROVE  OnItsWay(p)' \/ TimerRuns(p)' \/ begun'[p] > 0
    <3>1. CASE p = received
      <4>1. timers'[p] = sequence + 1
        BY <1>0, <2>1, <3>1 DEF WatchTypes, TimerTypes
      <4> QED BY <2>1, <3>1, <4>1 DEF TimerRuns
    <3>2. CASE p # received
      <4>1. timers'[p] = timers[p]
        BY <1>0, <2>1, <3>2 DEF WatchTypes, TimerTypes
      <4>2. <<p, timers[p]>> \in armed => <<p, timers[p]>> \in armed'
        BY <2>1, <3>2
      <4>3. TimerRuns(p) => TimerRuns(p)'
        BY <2>1, <4>1, <4>2 DEF TimerRuns
      <4>4. OnItsWay(p) => OnItsWay(p)'
        BY <2>1, <3>2 DEF OnItsWay
      <4> QED BY <2>1, <2>5, <4>3, <4>4 DEF syncVars
    <3> QED BY <3>1, <3>2
  <2>6. ChangeReachesSync'
    BY <1>0, <2>1, <2>5 DEF ChangeReachesSync, diskVars, syncVars
  <2> QED BY <2>3, <2>4, <2>6 DEF WatchInv
<1>2. CASE DropStale
  <2>1. /\ fired # <<>> /\ fired' = Tail(fired) /\ timers[Head(fired)[1]] # Head(fired)[2]
        /\ UNCHANGED <<diskVars, notices, sending, eventChan, consumerVars, expired,
                       syncVars, cancelled, watcherUp>>
    BY <1>2 DEF DropStale, Newest
  <2>2. FiredTypes' /\ Range(fired) = Range(fired') \union {Head(fired)}
    BY <1>0, <2>1, TimerTaken DEF WatchTypes
  <2>3. WatchTypes'
    BY <1>0, <2>1, <2>2, SameTypes DEF WatchTypes, diskVars, consumerVars, syncVars
  <2>4. ReportsFollow' /\ NumberedArePending' /\ SyncsCounted'
    BY <1>0, <2>1, SameSyncs DEF ReportsFollow, NumberedArePending, diskVars, consumerVars, syncVars
  <2>5. \A p \in Paths : TimerRuns(p) => TimerRuns(p)'
    <3>1. \A p \in Paths : Head(fired) # <<p, timers[p]>>
      BY <2>1
    <3> QED BY <2>1, <2>2, <3>1 DEF TimerRuns, consumerVars
  <2>6. ChangeReachesSync'
    BY <1>0, <2>1, <2>5 DEF ChangeReachesSync, OnItsWay, diskVars, consumerVars, syncVars
  <2> QED BY <2>3, <2>4, <2>6 DEF WatchInv
<1>3. ASSUME NEW timer \in Timers, Expire(timer) PROVE WatchInv'
  <2>1. /\ timer \in armed /\ armed' = armed \ {timer} /\ expired' = expired \union {timer}
        /\ UNCHANGED <<diskVars, notices, sending, eventChan, received, sequence, timers,
                       pendingFiles, consumerUp, fired, syncVars, cancelled, watcherUp>>
    BY <1>3 DEF Expire
  <2>2. \A p \in Paths : TimerRuns(p) => TimerRuns(p)'
    BY <2>1 DEF TimerRuns
  <2>3. TimerTypes'
    BY <1>0, <2>1 DEF WatchTypes, TimerTypes
  <2> QED BY <1>0, <2>1, <2>2, <2>3, SameSyncs, SameTypes
          DEF WatchInv, WatchTypes, ReportsFollow, NumberedArePending, ChangeReachesSync, OnItsWay,
              diskVars, syncVars
<1>4. ASSUME NEW timer \in Timers, Fire(timer) PROVE WatchInv'
  <2>1. /\ timer \in expired /\ expired' = expired \ {timer} /\ Len(fired) < FiredCap
        /\ fired' = Append(fired, timer)
        /\ UNCHANGED <<diskVars, notices, sending, eventChan, consumerVars, syncVars,
                       cancelled, watcherUp>>
    BY <1>4 DEF Fire
  <2>2. FiredTypes' /\ Range(fired') = Range(fired) \union {timer}
    <3>1. timer \in Numbered
      BY <1>0, <2>1 DEF WatchTypes, TimerTypes
    <3> QED BY <1>0, <2>1, <3>1, TimerSent DEF WatchTypes
  <2>3. \A p \in Paths : TimerRuns(p) => TimerRuns(p)'
    BY <2>1, <2>2 DEF TimerRuns, consumerVars
  <2>4. WatchTypes'
    <3>1. TimerTypes'
      BY <1>0, <2>1 DEF WatchTypes, TimerTypes, consumerVars
    <3> QED BY <1>0, <2>1, <2>2, <3>1, SameTypes DEF WatchTypes, diskVars, consumerVars, syncVars
  <2> QED BY <1>0, <2>1, <2>3, <2>4, SameSyncs
          DEF WatchInv, ReportsFollow, NumberedArePending, ChangeReachesSync, OnItsWay,
              diskVars, consumerVars, syncVars
<1> QED BY <1>1, <1>2, <1>3, <1>4

\* A timer with its path's number: a goroutine takes the path over, or the server stops.
LEMMA HandoverKeeps ==
  ASSUME WatchInv, Dispatch \/ Stop
  PROVE  WatchInv'
<1>0. WatchTypes /\ ReportsFollow /\ NumberedArePending /\ SyncsCounted /\ ChangeReachesSync
  BY DEF WatchInv
<1>1. CASE Dispatch
  <2> DEFINE q == Head(fired)[1]
             g == <<q, "begun", begun[q] + 1>>
  <2>1. /\ fired # <<>> /\ fired' = Tail(fired) /\ timers' = [timers EXCEPT ![q] = 0]
        /\ pendingFiles' = pendingFiles \ {q} /\ activeSyncs' = activeSyncs + 1
        /\ begun' = [begun EXCEPT ![q] = begun[q] + 1]
        /\ UNCHANGED <<diskVars, notices, sending, eventChan, received, sequence, armed,
                       consumerUp, expired, reading, synced, cancelled, watcherUp>>
    BY <1>1 DEF Dispatch
  <2>2. /\ FiredTypes' /\ Head(fired) \in Numbered
        /\ Range(fired) = Range(fired') \union {Head(fired)}
    BY <1>0, <2>1, TimerTaken DEF WatchTypes
  <2>3. q \in Paths
    BY <2>2 DEF Numbered
  <2> HIDE DEF q
  <2>4. WatchTypes'
    <3>1. TimerTypes' /\ SyncTypes'
      BY <1>0, <2>1, <2>3 DEF WatchTypes, TimerTypes, SyncTypes
    <3> QED BY <1>0, <2>1, <2>2, <3>1, SameTypes DEF WatchTypes, diskVars
  <2>5. ReportsFollow' /\ NumberedArePending'
    BY <1>0, <2>1, <2>3 DEF ReportsFollow, NumberedArePending, WatchTypes, TimerTypes, diskVars
  <2>6. ASSUME NEW p \in Paths, OnItsWay(p) \/ TimerRuns(p) \/ begun[p] > 0
        PROVE  OnItsWay(p)' \/ TimerRuns(p)' \/ begun'[p] > 0
    <3>1. CASE p = q
      BY <1>0, <2>1, <2>3, <3>1 DEF WatchTypes, SyncTypes
    <3>2. CASE p # q
      <4>1. timers'[p] = timers[p] /\ begun'[p] = begun[p]
        BY <1>0, <2>1, <2>3, <3>2 DEF WatchTypes, TimerTypes, SyncTypes
      <4>2. Head(fired) # <<p, timers[p]>>
        BY <3>2 DEF q
      <4>3. TimerRuns(p) => TimerRuns(p)'
        BY <2>1, <2>2, <4>1, <4>2 DEF TimerRuns
      <4> QED BY <2>1, <2>6, <4>1, <4>3 DEF OnItsWay
    <3> QED BY <3>1, <3>2
  <2>7. ChangeReachesSync'
    BY <1>0, <2>1, <2>6 DEF ChangeReachesSync, diskVars
  <2>8. SyncsCounted'
    <3>1. g \notin Syncs /\ Syncs' = Syncs \union {g}
      BY <1>0, <2>1, <2>3, BegunMore DEF WatchTypes, SyncTypes, Syncs
    <3> HIDE DEF g
    <3> QED BY <1>0, <2>1, <3>1, FS_AddElement DEF SyncsCounted
  <2> QED BY <2>4, <2>5, <2>7, <2>8 DEF WatchInv
<1>2. CASE Stop
  <2>1. /\ cancelled /\ consumerUp' = FALSE /\ armed' = {} /\ expired' = {}
        /\ pendingFiles' \subseteq pendingFiles
        /\ UNCHANGED <<diskVars, notices, sending, eventChan, received, sequence, timers,
                       syncVars, cancelled, watcherUp>>
    BY <1>2 DEF Stop, StopConsumer
  <2>2. FiredTypes'
    <3>1. fired' = fired \/ (fired # <<>> /\ fired' = Tail(fired))
      BY <1>2 DEF Stop
    <3> QED BY <1>0, <3>1, TimerTaken, SameTypes DEF WatchTypes
  <2>3. TimerTypes' /\ DiskTypes'
    BY <1>0, <2>1 DEF WatchTypes, TimerTypes, DiskTypes, diskVars, syncVars
  <2> QED BY <1>0, <2>1, <2>2, <2>3, SameSyncs, SameTypes
          DEF WatchInv, WatchTypes, ReportsFollow, NumberedArePending, ChangeReachesSync,
              diskVars, syncVars
<1> QED BY <1>1, <1>2

\* A synchronization reads the file as it is now, which no report is ahead of.
LEMMA SyncsKeep ==
  ASSUME WatchInv, NEW p \in Paths, SyncReads(p) \/ SyncEnds(p)
  PROVE  WatchInv'
<1>0. WatchTypes /\ ReportsFollow /\ NumberedArePending /\ SyncsCounted /\ ChangeReachesSync
      /\ begun \in [Paths -> Nat] /\ reading \in [Paths -> Nat]
  BY DEF WatchInv, WatchTypes, SyncTypes
<1>1. CASE SyncReads(p)
  <2> DEFINE less == <<p, "begun", begun[p]>>
             more == <<p, "reading", reading[p] + 1>>
  <2>1. /\ begun[p] > 0 /\ begun' = [begun EXCEPT ![p] = begun[p] - 1]
        /\ reading' = [reading EXCEPT ![p] = reading[p] + 1] /\ synced' = [synced EXCEPT ![p] = edits[p]]
        /\ UNCHANGED <<diskVars, notices, sending, eventChan, consumerVars, expired,
                       fired, activeSyncs, cancelled, watcherUp>>
    BY <1>1 DEF SyncReads
  <2>2. begun' \in [Paths -> Nat] /\ reading' \in [Paths -> Nat]
    BY <1>0, <2>1
  <2>3. WatchTypes'
    <3>1. DiskTypes' /\ SyncTypes'
      BY <1>0, <2>1, <2>2 DEF WatchTypes, DiskTypes, SyncTypes, diskVars, consumerVars
    <3> QED BY <1>0, <2>1, <3>1, SameTypes DEF WatchTypes, diskVars, consumerVars
  <2>4. ReportsFollow' /\ NumberedArePending'
    BY <1>0, <2>1 DEF ReportsFollow, NumberedArePending, diskVars, consumerVars
  <2>5. ChangeReachesSync'
    <3> SUFFICES ASSUME ~cancelled, NEW q \in Paths, told[q] > synced'[q]
                 PROVE  OnItsWay(q)' \/ TimerRuns(q)' \/ begun'[q] > 0
      BY <2>1 DEF ChangeReachesSync, diskVars
    <3>1. q # p
      BY <1>0, <2>1 DEF ReportsFollow, WatchTypes, DiskTypes
    <3>2. begun'[q] = begun[q] /\ synced'[q] = synced[q]
      BY <1>0, <2>1, <3>1 DEF WatchTypes, DiskTypes
    <3> QED BY <1>0, <2>1, <3>2 DEF ChangeReachesSync, OnItsWay, TimerRuns, diskVars, consumerVars
  <2>6. SyncsCounted'
    <3>1. less \in Syncs /\ Goroutines(begun', reading) = Syncs \ {less}
      BY <1>0, <2>1, BegunLess DEF Syncs
    <3>2. more \notin Syncs \ {less} /\ Syncs' = (Syncs \ {less}) \union {more}
      BY <1>0, <2>1, <2>2, <3>1, ReadingMore DEF Syncs
    <3> HIDE DEF less, more
    <3>3. IsFiniteSet(Syncs \ {less}) /\ Cardinality(Syncs \ {less}) = Cardinality(Syncs) - 1
      BY <1>0, <3>1, FS_RemoveElement DEF SyncsCounted
    <3>4. IsFiniteSet(Syncs') /\ Cardinality(Syncs') = (Cardinality(Syncs) - 1) + 1
      BY <3>2, <3>3, FS_AddElement
    <3>5. Cardinality(Syncs) \in Nat
      BY <1>0, FS_CardinalityType DEF SyncsCounted
    <3> QED BY <1>0, <2>1, <3>4, <3>5 DEF SyncsCounted
  <2> QED BY <2>3, <2>4, <2>5, <2>6 DEF WatchInv
<1>2. CASE SyncEnds(p)
  <2>1. /\ activeSyncs' = activeSyncs - 1
        /\ UNCHANGED <<diskVars, notices, sending, eventChan, consumerVars, expired,
                       fired, synced, cancelled, watcherUp>>
    BY <1>2 DEF SyncEnds
  <2>2. ReportsFollow' /\ NumberedArePending'
    BY <1>0, <2>1 DEF ReportsFollow, NumberedArePending, diskVars, consumerVars
  <2>3. CASE reading[p] > 0 /\ reading' = [reading EXCEPT ![p] = reading[p] - 1] /\ UNCHANGED begun
    <3> DEFINE gone == <<p, "reading", reading[p]>>
    <3>1. SyncTypes'
      BY <1>0, <2>3 DEF SyncTypes
    <3>2. WatchTypes' /\ ChangeReachesSync'
      BY <1>0, <2>1, <2>3, <3>1, SameTypes
         DEF WatchTypes, ChangeReachesSync, OnItsWay, TimerRuns, diskVars, consumerVars
    <3>3. gone \in Syncs /\ Syncs' = Syncs \ {gone}
      BY <1>0, <2>3, ReadingLess DEF Syncs
    <3> HIDE DEF gone
    <3>4. SyncsCounted'
      BY <1>0, <2>1, <3>3, FS_RemoveElement DEF SyncsCounted
    <3> QED BY <2>2, <3>2, <3>4 DEF WatchInv
  <2>4. CASE cancelled /\ begun[p] > 0 /\ begun' = [begun EXCEPT ![p] = begun[p] - 1] /\ UNCHANGED reading
    <3> DEFINE less == <<p, "begun", begun[p]>>
    <3>1. SyncTypes'
      BY <1>0, <2>4 DEF SyncTypes
    <3>2. WatchTypes' /\ ChangeReachesSync'
      BY <1>0, <2>1, <2>4, <3>1, SameTypes DEF WatchTypes, ChangeReachesSync, diskVars, consumerVars
    <3>3. less \in Syncs /\ Syncs' = Syncs \ {less}
      BY <1>0, <2>4, BegunLess DEF Syncs
    <3> HIDE DEF less
    <3>4. SyncsCounted'
      BY <1>0, <2>1, <3>3, FS_RemoveElement DEF SyncsCounted
    <3> QED BY <2>2, <3>2, <3>4 DEF WatchInv
  <2> QED BY <1>2, <2>3, <2>4 DEF SyncEnds
<1> QED BY <1>1, <1>2

\* Every step keeps the invariant.
LEMMA WatchStepKeeps == WatchInv /\ [WatchNext]_watchVars => WatchInv'
<1> SUFFICES ASSUME WatchInv, [WatchNext]_watchVars PROVE WatchInv'
  OBVIOUS
<1>1. CASE UNCHANGED watchVars
  BY <1>1, SameSyncs, SameTypes
     DEF watchVars, diskVars, consumerVars, syncVars, WatchInv, WatchTypes, ReportsFollow,
         NumberedArePending, ChangeReachesSync, OnItsWay, TimerRuns
<1>2. CASE WatchNext
  BY <1>2, DiskKeeps, EventsKeep, TimersKeep, HandoverKeeps, SyncsKeep DEF WatchNext, Watcher
<1> QED BY <1>1, <1>2

\* The invariant holds of every behaviour.
LEMMA WatchInvariant == WatchSpec => []WatchInv
BY WatchStarts, WatchStepKeeps, PTL DEF WatchSpec

\* The count of goroutines is a number.
LEMMA WatchTyped == WatchInv => WatchTypeOK
<1> SUFFICES ASSUME WatchInv PROVE WatchTypeOK
  OBVIOUS
<1>1. activeSyncs \in Nat
  BY FS_CardinalityType DEF WatchInv, SyncsCounted
<1> QED BY <1>1 DEF WatchInv, WatchTypes, DiskTypes, NoticeTypes, EventTypes, FiredTypes, HandTypes,
                    TimerTypes, SyncTypes, WatchTypeOK

(***************************************************************************)
(* The types: both channels keep within their capacities, and the count of *)
(* active synchronizations never falls below zero.                         *)
(***************************************************************************)
THEOREM WatchTypeCorrect == WatchSpec => []WatchTypeOK
BY WatchTyped, WatchInvariant, PTL

(***************************************************************************)
(* WatchLoop and IngestionConsumer: every reported change that was not     *)
(* read has an event, a timer or a goroutine, whatever number of files     *)
(* changes however often, and however late timers and goroutines are.      *)
(***************************************************************************)
THEOREM ChangeReachesSyncAlways == WatchSpec => []ChangeReachesSync
<1>1. WatchInv => ChangeReachesSync
  BY DEF WatchInv
<1> QED BY <1>1, WatchInvariant, PTL

\* Nothing pending and no goroutine: what was reported has been synchronized.
LEMMA IdleIsSynced == WatchInv => IdleMeansSynced
<1> SUFFICES ASSUME WatchInv, ~cancelled, pendingFiles = {}, activeSyncs = 0,
                    NEW p \in Paths, ~OnItsWay(p)
             PROVE  synced[p] >= told[p]
  BY DEF IdleMeansSynced
<1>1. ~TimerRuns(p)
  <2>1. timers[p] = 0
    BY DEF WatchInv, NumberedArePending
  <2>2. <<p, 0>> \notin Numbered
    BY DEF Numbered
  <2>3. Range(fired) \subseteq Numbered
    BY DEF WatchInv, WatchTypes, FiredTypes, Range
  <2> QED BY <2>1, <2>2, <2>3 DEF TimerRuns, WatchInv, WatchTypes, TimerTypes
<1>2. ~(begun[p] > 0)
  <2>1. Syncs = {}
    BY FS_EmptySet DEF WatchInv, SyncsCounted
  <2>2. begun \in [Paths -> Nat] /\ reading \in [Paths -> Nat]
    BY DEF WatchInv, WatchTypes, SyncTypes
  <2> QED BY <2>1, <2>2, BegunLess DEF Syncs
<1>3. synced[p] \in Nat /\ told[p] \in Nat
  BY DEF WatchInv, WatchTypes, DiskTypes
<1> QED BY <1>1, <1>2, <1>3 DEF WatchInv, ChangeReachesSync

(***************************************************************************)
(* The status of the consumer: when it shows nothing pending and nothing   *)
(* active, every change whose event it has taken has been read.            *)
(***************************************************************************)
THEOREM IdleMeansSyncedAlways == WatchSpec => []IdleMeansSynced
BY IdleIsSynced, WatchInvariant, PTL

-----------------------------------------------------------------------------
(***************************************************************************)
(* The parts side by side.                                                 *)
(***************************************************************************)
WorkerInv == TypeInv /\ SlotInv /\ WatchInv /\ BatchInv

\* A step of the worker is a step of one of its parts, or of none.
LEMMA OnePartSteps ==
  ASSUME [WorkerNext]_workerVars
  PROVE  [ControlNext]_controlVars /\ [SlotsNext]_slotVars /\ [WatchNext]_watchVars /\ [BatchNext]_batchVars
BY DEF WorkerNext, workerVars

\* The invariants of the parts hold of all of them together.
LEMMA WorkerInvariant == WorkerSpec => []WorkerInv
<1>1. WorkerInit => WorkerInv
  BY InitTypeInv, InitSlot, WatchStarts, BatchStarts DEF WorkerInit, WorkerInv
<1>2. WorkerInv /\ [WorkerNext]_workerVars => WorkerInv'
  BY OnePartSteps, NextTypeInv, NextSlot, WatchStepKeeps, BatchStepKeeps DEF WorkerInv
<1> QED BY <1>1, <1>2, PTL DEF WorkerSpec

\* The parts of a worker keep to their types, whichever of them runs.
THEOREM WorkerTypeCorrect == WorkerSpec => []WorkerTypeOK
<1>1. WorkerInv => WorkerTypeOK
  BY SlotsTyped, BatchTyped, WatchTyped DEF WorkerInv, TypeInv, WorkerTypeOK
<1> QED BY <1>1, WorkerInvariant, PTL

\* What a worker's parts promise at any moment of their slots, points and reported changes.
WorkerSafe == SlotsAccounted /\ NoIdleSlot /\ PointsAccounted /\ ChangeReachesSync /\ IdleMeansSynced

(***************************************************************************)
(* The promises of the parts hold of all of them side by side, the         *)
(* specification that is model-checked.                                    *)
(***************************************************************************)
THEOREM WorkerKeepsItsPromises == WorkerSpec => []WorkerSafe /\ FlushMeansSettled
<1>1. WorkerInv => WorkerSafe
  BY IdleIsSynced DEF WorkerInv, WorkerSafe, SlotInv, BatchInv, WatchInv
<1>2. WorkerSpec => [][BatchNext]_batchVars
  BY OnePartSteps, PTL DEF WorkerSpec
<1>3. WorkerInv => BatchInv
  BY DEF WorkerInv
<1>4. WorkerSpec => [][FlushSettles]_batchVars
  BY <1>2, <1>3, WorkerInvariant, FlushSettlesByStep, PTL
<1>5. WorkerSpec => FlushMeansSettled
  BY <1>4 DEF FlushSettles, FlushMeansSettled
<1> QED BY <1>1, <1>5, WorkerInvariant, PTL
================================================================================
