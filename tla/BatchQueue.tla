------------------------------- MODULE BatchQueue -------------------------------
(***************************************************************************)
(* BatchUpserter (server/worker.go): points are handed over a channel to   *)
(* one goroutine, which stores them in batches when a batch is full, when  *)
(* its ticker fires, when Flush asks, and when Close cancels it.           *)
(*                                                                         *)
(* Points are alike, so they are counted where they are.                   *)
(***************************************************************************)
EXTENDS Naturals

CONSTANTS
  BatchSize,   \* batchSize; the channel holds twice as many points
  MaxPoints,   \* bound: calls of Add
  MaxFlushes   \* bound: calls of Flush

ASSUME BatchAssumption == BatchSize \in Nat \ {0} /\ MaxPoints \in Nat /\ MaxFlushes \in Nat

VARIABLES
  added,      \* points counted by Add: wg.Add
  adding,     \* of those, the ones their caller still holds
  queued,     \* points in the channel
  batch,      \* points in the goroutine's batch
  pending,    \* the wait group's counter
  settled,    \* points stored, or given up
  closing,  \* Close was called
  loop,       \* the goroutine: "select", "drain", "store", "exited"
  cause,      \* why it flushes: "size", "tick", "flush", "close"
  flush,      \* a caller of Flush: "idle", "ask", "reply", "wait"
  flushes,    \* calls of Flush so far
  before      \* history: points added when it was called

batchVars == <<added, adding, queued, batch, pending, settled, closing, loop, cause, flush, flushes, before>>
adders    == <<added, adding>>
flusher   == <<flush, flushes, before>>

BatchInit ==
  /\ added = 0 /\ adding = 0 /\ queued = 0 /\ batch = 0 /\ pending = 0 /\ settled = 0
  /\ closing = FALSE /\ loop = "select" /\ cause = "none"
  /\ flush = "idle" /\ flushes = 0 /\ before = 0

(***************************************************************************)
(* Add: the point is counted, then offered to the channel and to the       *)
(* cancellation at once.                                                   *)
(***************************************************************************)
BeginAdd ==
  /\ added < MaxPoints /\ added' = added + 1 /\ adding' = adding + 1 /\ pending' = pending + 1
  /\ UNCHANGED <<queued, batch, settled, closing, loop, cause, flusher>>

DropsPoint == pending' = pending - 1

HasRoom == queued < 2 * BatchSize

HandOver ==
  /\ adding > 0 /\ adding' = adding - 1
  /\ \/ HasRoom /\ queued' = queued + 1 /\ UNCHANGED <<pending, settled>>
     \/ closing /\ DropsPoint /\ settled' = settled + 1 /\ UNCHANGED queued
  /\ UNCHANGED <<added, batch, closing, loop, cause, flusher>>

(***************************************************************************)
(* The goroutine.  Its select takes any case that is ready.                *)
(***************************************************************************)
Flushes(why) == loop' = "drain" /\ cause' = why

ReceivePoint ==
  /\ loop = "select" /\ queued > 0 /\ queued' = queued - 1 /\ batch' = batch + 1
  /\ IF batch + 1 >= BatchSize THEN Flushes("size") ELSE UNCHANGED <<loop, cause>>
  /\ UNCHANGED <<adders, pending, settled, closing, flusher>>

TickerFires ==
  /\ loop = "select" /\ batch > 0 /\ Flushes("tick")
  /\ UNCHANGED <<adders, queued, batch, pending, settled, closing, flusher>>

SeesCancel ==
  /\ loop = "select" /\ closing /\ Flushes("close")
  /\ UNCHANGED <<adders, queued, batch, pending, settled, closing, flusher>>

\* flushCh has no buffer: the request meets the goroutine at its select.
MeetFlush ==
  /\ loop = "select" /\ flush = "ask" /\ Flushes("flush") /\ flush' = "reply"
  /\ UNCHANGED <<adders, queued, batch, pending, settled, closing, flushes, before>>

\* After a flush: the reply channel is closed, the goroutine goes on or ends.
EndsFlush ==
  /\ loop' = (IF cause = "close" THEN "exited" ELSE "select") /\ cause' = "none"
  /\ flush' = (IF cause = "flush" THEN "wait" ELSE flush)

DrainQueue ==
  /\ loop = "drain" /\ batch' = batch + queued /\ queued' = 0
  /\ IF batch + queued = 0 THEN EndsFlush ELSE loop' = "store" /\ UNCHANGED <<cause, flush>>
  /\ UNCHANGED <<adders, pending, settled, closing, flushes, before>>

\* Upsert; an error is logged, and the points are given up.
StoreBatch ==
  /\ loop = "store" /\ batch' = 0 /\ settled' = settled + batch /\ EndsFlush
  /\ pending' = pending - batch
  /\ UNCHANGED <<adders, queued, closing, flushes, before>>

(***************************************************************************)
(* Flush and Close.                                                        *)
(***************************************************************************)
CallFlush ==
  /\ flush = "idle" /\ flushes < MaxFlushes /\ flushes' = flushes + 1
  /\ flush' = "ask" /\ before' = added
  /\ UNCHANGED <<adders, queued, batch, pending, settled, closing, loop, cause>>

FindsDone ==
  /\ flush = "ask" /\ loop = "exited" /\ flush' = "idle" /\ before' = 0
  /\ UNCHANGED <<adders, queued, batch, pending, settled, closing, loop, cause, flushes>>

(* Mutant: the reply is taken for the end. *)
NothingAwaited == TRUE

NonePending == pending = 0

ReturnFlush ==
  /\ flush = "wait" /\ NonePending /\ flush' = "idle" /\ before' = 0
  /\ UNCHANGED <<adders, queued, batch, pending, settled, closing, loop, cause, flushes>>

CallClose ==
  /\ ~closing /\ closing' = TRUE
  /\ UNCHANGED <<adders, queued, batch, pending, settled, loop, cause, flusher>>

LoopStep == ReceivePoint \/ TickerFires \/ SeesCancel \/ MeetFlush \/ DrainQueue \/ StoreBatch

BatchNext ==
  BeginAdd \/ HandOver \/ LoopStep \/ CallFlush \/ FindsDone \/ ReturnFlush \/ CallClose

\* The goroutine runs; Upsert has a timeout of 30 s.
BatchFairness ==
  /\ WF_batchVars(HandOver) /\ WF_batchVars(LoopStep)
  /\ WF_batchVars(FindsDone) /\ WF_batchVars(ReturnFlush)

BatchSpec == BatchInit /\ [][BatchNext]_batchVars /\ BatchFairness
----------------------------------------------------------------------------
\* The types.
BatchTypeOK ==
  /\ {added, adding, pending, settled, before} \subseteq 0..MaxPoints
  /\ queued \in 0..(2 * BatchSize) /\ batch \in 0..MaxPoints
  /\ loop \in {"select", "drain", "store", "exited"} /\ flush \in {"idle", "ask", "reply", "wait"}

(***************************************************************************)
(* The wait group counts exactly the points that are somewhere: a point    *)
(* that was stored, given up or dropped at the cancellation is counted no  *)
(* more, and no point is counted twice.                                    *)
(***************************************************************************)
PointsAccounted ==
  pending = adding + queued + batch /\ added = pending + settled

(***************************************************************************)
(* Flush returns after a reply only when every point whose Add had begun   *)
(* before it is settled, those still blocked at a full channel included.   *)
(***************************************************************************)
FlushMeansSettled ==
  [][flush = "wait" /\ flush' = "idle" => settled >= before]_batchVars

\* A point put into the channel after the goroutine's last look: nobody takes it out.
Stranded == loop = "exited" /\ queued > 0

(***************************************************************************)
(* Flush returns, unless an Add that raced Close stranded a point.         *)
(***************************************************************************)
FlushReturns == flush # "idle" ~> flush = "idle" \/ Stranded
================================================================================
