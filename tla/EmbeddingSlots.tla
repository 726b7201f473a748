----------------------------- MODULE EmbeddingSlots -----------------------------
(***************************************************************************)
(* ConcurrencyController and FetchRemoteEmbedding (server/worker.go): the  *)
(* adaptive limit on the embedding requests of a process.                  *)
(*                                                                         *)
(* A call of FetchRemoteEmbedding takes a slot for each attempt, sends one *)
(* HTTP request, reports its outcome and gives the slot back.  Without a   *)
(* free slot it queues a channel and waits for the channel to be closed or *)
(* for its own context to end, whichever the runtime picks when both have  *)
(* happened.  Fast answers raise the limit by one, slow or failed ones     *)
(* halve it.                                                               *)
(*                                                                         *)
(* Each step is one critical section of the controller's mutex.            *)
(***************************************************************************)
EXTENDS Integers, Sequences, FiniteSets, Functions

CONSTANTS
  Callers,     \* goroutines that embed text
  Hurried,     \* those whose context may end during a call
  MaxLimit,    \* maxLimit of the controller
  Streak,      \* fast answers in a row that raise the limit (5)
  MaxTries  \* serviceRetryPolicy.MaxTries (4)

ASSUME SlotsAssumption ==
  /\ IsFiniteSet(Callers) /\ Hurried \subseteq Callers
  /\ MaxLimit \in Nat \ {0} /\ Streak \in Nat \ {0} /\ MaxTries \in Nat \ {0}

VARIABLES
  currentLimit, activeCount, waiters, successStreak,  \* the controller
  place,       \* where each caller stands
  tries,  \* its attempt
  ended,    \* its context has ended
  lost      \* history: grants their caller never saw

controller == <<currentLimit, activeCount, waiters, successStreak>>
slotVars   == <<controller, place, tries, ended, lost>>

SlotsInit ==
  /\ currentLimit = MaxLimit /\ activeCount = 0
  /\ waiters = <<>> /\ successStreak = 0
  /\ place = [c \in Callers |-> "idle"] /\ tries = [c \in Callers |-> 1]
  /\ ended = [c \in Callers |-> FALSE] /\ lost = 0

Goto(c, where) == place' = [place EXCEPT ![c] = where]

Call(c) ==
  /\ place[c] = "idle" /\ Goto(c, "acquire")
  /\ tries' = [tries EXCEPT ![c] = 1] /\ ended' = [ended EXCEPT ![c] = FALSE]
  /\ UNCHANGED <<controller, lost>>

\* The deadline of the operation passes, or its caller cancels it.
ContextEnds(c) ==
  /\ c \in Hurried /\ place[c] # "idle" /\ ended' = [ended EXCEPT ![c] = TRUE]
  /\ UNCHANGED <<controller, place, tries, lost>>

(***************************************************************************)
(* Acquire.  A waiter whose channel is no longer queued has been granted   *)
(* a slot: notifyWaiters counted it before it closed the channel.          *)
(***************************************************************************)
Queued(c) == c \in Range(waiters)

Acquire(c) ==
  /\ place[c] = "acquire"
  /\ IF activeCount < currentLimit
       THEN activeCount' = activeCount + 1 /\ Goto(c, "request") /\ UNCHANGED waiters
       ELSE waiters' = Append(waiters, c) /\ Goto(c, "wait") /\ UNCHANGED activeCount
  /\ UNCHANGED <<currentLimit, successStreak, tries, ended, lost>>

Wake(c) ==
  /\ place[c] = "wait" /\ ~Queued(c) /\ Goto(c, "request")
  /\ UNCHANGED <<controller, tries, ended, lost>>

(* Mutant: the channel stays queued when the context ends. *)
WithoutNothing(q, c) == q

Without(q, c) ==
  IF c \in Range(q)
    THEN LET i == CHOOSE i \in DOMAIN q : q[i] = c
         IN  SubSeq(q, 1, i - 1) \o SubSeq(q, i + 1, Len(q))
    ELSE q

GiveUp(c) ==
  /\ place[c] = "wait" /\ ended[c] /\ Goto(c, "idle")
  /\ waiters' = Without(waiters, c)
  /\ lost' = IF Queued(c) THEN lost ELSE lost + 1
  /\ UNCHANGED <<currentLimit, activeCount, successStreak, tries, ended>>

(***************************************************************************)
(* notifyWaiters, in the order the channels were queued.                   *)
(***************************************************************************)
Smaller(m, n) == IF m < n THEN m ELSE n

(* Mutant: a single free slot wakes nobody. *)
GrantedPairs(active, limit, queue) ==
  IF active + 1 < limit THEN Smaller(limit - active, Len(queue)) ELSE 0

Granted(active, limit, queue) ==
  IF active < limit THEN Smaller(limit - active, Len(queue)) ELSE 0

(* Mutant: the channel queued last is closed first. *)
NotifyNewest(active, limit) ==
  LET n == Granted(active, limit, waiters)
  IN  activeCount' = active + n /\ waiters' = SubSeq(waiters, 1, Len(waiters) - n)

NotifyWaiters(active, limit) ==
  LET n == Granted(active, limit, waiters)
  IN  activeCount' = active + n /\ waiters' = SubSeq(waiters, n + 1, Len(waiters))

(***************************************************************************)
(* The outcomes of an HTTP request: the caller still holds its slot.       *)
(***************************************************************************)
RecordSuccess(c) ==
  /\ place[c] = "request" /\ Goto(c, "release")
  /\ successStreak' = (successStreak + 1) % Streak
  /\ currentLimit' = IF successStreak + 1 = Streak
                       THEN Smaller(currentLimit + 1, MaxLimit) ELSE currentLimit
  /\ UNCHANGED <<activeCount, waiters, tries, ended, lost>>

(* Mutant: the limit may fall to zero. *)
HalvedToZero(limit) == limit \div 2

Halved(limit) == IF limit > 1 THEN limit \div 2 ELSE limit

DecreaseLimit ==
  /\ successStreak' = 0 /\ currentLimit' = Halved(currentLimit)
  /\ IF currentLimit > 1 THEN NotifyWaiters(activeCount, Halved(currentLimit))
                         ELSE UNCHANGED <<activeCount, waiters>>

\* A slow answer, or an error that is not repeated, ends the call;
\* any other failure is repeated while attempts are left.
RecordFailure(c, where) ==
  /\ place[c] = "request" /\ DecreaseLimit /\ Goto(c, where)
  /\ UNCHANGED <<tries, ended, lost>>

Release(c) ==
  /\ place[c] \in {"release", "releaseRetry"}
  /\ NotifyWaiters(activeCount - 1, currentLimit)
  /\ Goto(c, IF place[c] = "releaseRetry" /\ tries[c] < MaxTries THEN "backoff" ELSE "idle")
  /\ UNCHANGED <<currentLimit, successStreak, tries, ended, lost>>

\* waitForRetry: the delay passes, or the context ends first.
Backoff(c) ==
  /\ place[c] = "backoff"
  /\ \/ Goto(c, "acquire") /\ tries' = [tries EXCEPT ![c] = @ + 1]
     \/ ended[c] /\ Goto(c, "idle") /\ UNCHANGED tries
  /\ UNCHANGED <<controller, ended, lost>>

CallerStep(c) ==
  \/ Acquire(c) \/ Wake(c) \/ GiveUp(c) \/ Release(c) \/ Backoff(c)
  \/ RecordSuccess(c)
  \/ \E where \in {"release", "releaseRetry"} : RecordFailure(c, where)

SlotsNext == \E c \in Callers : Call(c) \/ ContextEnds(c) \/ CallerStep(c)

SlotsSpec == SlotsInit /\ [][SlotsNext]_slotVars

(***************************************************************************)
(* A goroutine that can run runs, and HTTP requests end: each is bounded   *)
(* by the operation's timeout.  Nobody has to call, and no context has to  *)
(* end.                                                                    *)
(***************************************************************************)
SlotsFairSpec == SlotsSpec /\ \A c \in Callers : WF_slotVars(CallerStep(c))
----------------------------------------------------------------------------
Where == {"idle", "acquire", "wait", "request", "release", "releaseRetry", "backoff"}

\* The types: the limit of ConcurrencyController stays between 1 and maxLimit.
SlotsTypeOK ==
  /\ currentLimit \in 1..MaxLimit /\ activeCount \in Nat
  /\ waiters \in Seq(Callers) /\ successStreak \in 0..(Streak - 1)
  /\ place \in [Callers -> Where] /\ tries \in [Callers -> 1..MaxTries]
  /\ ended \in [Callers -> BOOLEAN] /\ lost \in Nat

Holders == {c \in Callers : \/ place[c] \in {"request", "release", "releaseRetry"}
                            \/ place[c] = "wait" /\ ~Queued(c)}

(***************************************************************************)
(* activeCount of ConcurrencyController is the number of callers that hold *)
(* a slot, and of the grants whose caller left in the instant it got them. *)
(***************************************************************************)
SlotsAccounted == activeCount = Cardinality(Holders) + lost

Releasing == {c \in Callers : place[c] \in {"release", "releaseRetry"}}

(***************************************************************************)
(* No slot idles while a caller of Acquire waits, although RecordSuccess   *)
(* raises the limit and wakes nobody: each free slot stands for a caller   *)
(* about to call Release, which does.                                      *)
(***************************************************************************)
NoIdleSlot ==
  waiters # <<>> => currentLimit - activeCount <= Cardinality(Releasing)

(***************************************************************************)
(* A waiter of Acquire is granted a slot or gives up, however the limit    *)
(* falls and whoever else calls, provided no grant is ever lost.           *)
(***************************************************************************)
WaiterIsServed ==
  [](lost = 0) => \A c \in Callers : (place[c] = "wait") ~> (place[c] # "wait")
============================================================================
