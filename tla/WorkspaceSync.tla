------------------------------ MODULE WorkspaceSync ------------------------------
(***************************************************************************)
(* SyncWorkspace (server/revision.go) and the reports around it            *)
(* (server/ingestion_report.go): `hive ingest [--prune]`, and the          *)
(* ingestion of a single file.                                             *)
(*                                                                         *)
(* A scan hands the files it has found over an unbuffered channel to a     *)
(* pool of goroutines, each of which synchronizes one at a time.  The      *)
(* context may end at any moment.  What a synchronization does inside is   *)
(* in Publication; here it moves the head or not, and may not know.        *)
(***************************************************************************)
EXTENDS Integers, FiniteSets

CONSTANTS
  Found,   \* number of files a scan finds
  Pool     \* the goroutines: max(1, MaxEmbeddingWorkers) of them

ASSUME WorkspaceAssumption == Found \in Nat \ {0} /\ Pool # {} /\ IsFiniteSet(Pool)

Files == 1..Found

Done     == {"created", "updated", "unchanged", "ignored", "foreign", "missing"}
Undone   == {"failed", "cancelled"}

VARIABLES
  ended,    \* the context has ended
  phase,    \* "idle", "check", "offer", "drain", "prune", "single", "returned"
  prune,    \* --prune was asked for
  listed,   \* the files of the report
  next,     \* the file to hand over
  open,     \* the channel is not closed
  hand,     \* the file each goroutine synchronizes, 0: none
  exited,   \* goroutines that have left their loop
  outcome,  \* of each file, preset to "cancelled"
  confirmed,  \* files whose result says "published"
  moved,    \* files whose head was moved in this invocation
  pruneRun, ok  \* of the report

scan   == <<prune, listed, next, open, exited>>
report == <<pruneRun, ok>>
workspaceVars == <<ended, phase, scan, hand, outcome, confirmed, moved, report>>

WorkspaceInit ==
  /\ ended = FALSE /\ phase = "idle" /\ prune = FALSE /\ listed = {} /\ next = 1 /\ open = TRUE
  /\ hand = [w \in Pool |-> 0] /\ exited = {}
  /\ outcome = [i \in Files |-> "cancelled"] /\ confirmed = {} /\ moved = {}
  /\ pruneRun = FALSE /\ ok = FALSE

ContextDies ==
  /\ ~ended /\ phase \notin {"idle", "returned"} /\ ended' = TRUE
  /\ UNCHANGED <<phase, scan, hand, outcome, confirmed, moved, report>>

\* The infrastructure is not ready, or the directory cannot be walked.
ScanFails ==
  /\ phase = "idle" /\ phase' = "returned"
  /\ UNCHANGED <<ended, scan, hand, outcome, confirmed, moved, report>>

Scan ==
  /\ phase = "idle" /\ phase' = "check" /\ prune' \in BOOLEAN /\ listed' = Files
  /\ UNCHANGED <<ended, next, open, exited, hand, outcome, confirmed, moved, report>>

(***************************************************************************)
(* The sending loop.                                                       *)
(***************************************************************************)
Closes == open' = FALSE

MoreFiles == next <= Found

LeavesLoop ==
  /\ \/ phase = "check" /\ (ended \/ ~MoreFiles)
     \/ phase = "offer" /\ ended
  /\ phase' = "drain" /\ Closes
  /\ UNCHANGED <<ended, prune, listed, next, exited, hand, outcome, confirmed, moved, report>>

Offers ==
  /\ phase = "check" /\ ~ended /\ MoreFiles /\ phase' = "offer"
  /\ UNCHANGED <<ended, scan, hand, outcome, confirmed, moved, report>>

Takes(w) ==
  /\ phase = "offer" /\ w \notin exited /\ hand[w] = 0
  /\ hand' = [hand EXCEPT ![w] = next] /\ next' = next + 1 /\ phase' = "check"
  /\ UNCHANGED <<ended, prune, listed, open, exited, outcome, confirmed, moved, report>>

ExitsLoop(w) ==
  /\ phase = "drain" /\ ~open /\ hand[w] = 0 /\ w \notin exited
  /\ exited' = exited \union {w}
  /\ UNCHANGED <<ended, phase, prune, listed, next, open, hand, outcome, confirmed, moved, report>>

(***************************************************************************)
(* syncFileResult, as seen from its result.                                *)
(***************************************************************************)
MovesHead(w) ==
  /\ hand[w] # 0 /\ hand[w] \notin moved /\ moved' = moved \union {hand[w]}
  /\ UNCHANGED <<ended, phase, scan, hand, outcome, confirmed, report>>

Failure == {"failed"} \union (IF ended THEN {"cancelled"} ELSE {})

\* The result says "published" once the commit was answered; a failing cleanup
\* after it leaves the outcome "failed".
Results(i) ==
  IF i \in moved
    THEN {<<o, TRUE>> : o \in {"created", "updated"} \union Failure} \union {<<o, FALSE>> : o \in Failure}
    ELSE {<<o, FALSE>> : o \in {"unchanged", "ignored", "foreign", "missing"} \union Failure}

Confirms(i, published) == confirmed' = IF published THEN confirmed \union {i} ELSE confirmed

Synchronized(w) ==
  /\ hand[w] # 0
  /\ \E res \in Results(hand[w]) :
       outcome' = [outcome EXCEPT ![hand[w]] = res[1]] /\ Confirms(hand[w], res[2])
  /\ hand' = [hand EXCEPT ![w] = 0]
  /\ UNCHANGED <<ended, phase, scan, moved, report>>

(***************************************************************************)
(* tallyOutcomes, and what IngestWorkspaceReport makes of it.              *)
(***************************************************************************)
Tally == [o \in Done \union Undone |-> Cardinality({i \in listed : outcome[i] = o})]

(* Mutant: a file that failed does not count, only one that was never begun. *)
CancelledSome == Tally["cancelled"] > 0

Incomplete == Tally["failed"] + Tally["cancelled"] > 0

Summarizes ==
  /\ phase = "drain" /\ exited = Pool
  /\ IF ended \/ Incomplete
       THEN phase' = "returned" /\ UNCHANGED report
       ELSE /\ pruneRun' = prune /\ ok' = ~prune
            /\ phase' = IF prune THEN "prune" ELSE "returned"
  /\ UNCHANGED <<ended, scan, hand, outcome, confirmed, moved>>

Prunes ==
  /\ phase = "prune" /\ phase' = "returned" /\ ok' \in BOOLEAN
  /\ UNCHANGED <<ended, scan, hand, outcome, confirmed, moved, pruneRun>>

(***************************************************************************)
(* IngestPathReport: one file, without a pool; a foreign file is an error  *)
(* here.                                                                   *)
(***************************************************************************)
IngestPath ==
  /\ phase = "idle" /\ phase' = "single"
  /\ \E w \in Pool, i \in Files : hand' = [hand EXCEPT ![w] = i] /\ listed' = {i}
  /\ UNCHANGED <<ended, prune, next, open, exited, outcome, confirmed, moved, report>>

ReportsPath ==
  /\ phase = "single" /\ \A w \in Pool : hand[w] = 0
  /\ phase' = "returned" /\ ok' = (\A i \in listed : outcome[i] \in Done \ {"foreign"})
  /\ UNCHANGED <<ended, scan, hand, outcome, confirmed, moved, pruneRun>>

WorkspaceStep ==
  \/ LeavesLoop \/ Offers \/ Summarizes \/ Prunes \/ ReportsPath
  \/ \E w \in Pool : Takes(w) \/ ExitsLoop(w)

WorkspaceNext ==
  \/ ContextDies \/ ScanFails \/ Scan \/ IngestPath \/ WorkspaceStep
  \/ \E w \in Pool : MovesHead(w) \/ Synchronized(w)

\* Goroutines run, and each synchronization ends, by the timeouts of its calls.
WorkspaceFairness ==
  WF_workspaceVars(WorkspaceStep) /\ \A w \in Pool : WF_workspaceVars(Synchronized(w))

WorkspaceSpec == WorkspaceInit /\ [][WorkspaceNext]_workspaceVars /\ WorkspaceFairness
----------------------------------------------------------------------------
\* The types.
WorkspaceTypeOK ==
  /\ phase \in {"idle", "check", "offer", "drain", "prune", "single", "returned"}
  /\ next \in 1..(Found + 1) /\ hand \in [Pool -> 0..Found] /\ exited \subseteq Pool /\ listed \subseteq Files
  /\ outcome \in [Files -> Done \union Undone] /\ confirmed \subseteq Files /\ moved \subseteq Files
  /\ {ended, prune, open, pruneRun, ok} \subseteq BOOLEAN

(***************************************************************************)
(* SyncFileResult: what the report says of a file is so, whoever handled   *)
(* it and whenever the context ended.  "published" means that the head was *)
(* moved, an outcome without work that it was not, and every file of the   *)
(* scan is counted once.                                                   *)
(***************************************************************************)
ReportIsTrue ==
  phase = "returned" =>
    /\ confirmed \subseteq moved
    /\ \A i \in moved : outcome[i] \in {"created", "updated"} \union Undone
    /\ Cardinality(listed) = Tally["created"] + Tally["updated"] + Tally["unchanged"] + Tally["ignored"]
                              + Tally["foreign"] + Tally["missing"] + Tally["failed"] + Tally["cancelled"]

(***************************************************************************)
(* IngestWorkspaceReport: "prune runs only after a successful              *)
(* reconciliation" - every file found has been handled, by this scan.      *)
(***************************************************************************)
PruneAfterFullScan == pruneRun => next > Found /\ \A i \in Files : outcome[i] \in Done

\* SyncWorkspace returns, though the context may end between any two steps of sender and pool.
IngestReturns == phase \in {"check", "single"} ~> phase = "returned"
(***************************************************************************)
(* IngestWorkspaceReport: what is told of a scan is so, and what a scan    *)
(* has not seen is never taken for removed.                                *)
(***************************************************************************)
ReportHonest == ReportIsTrue /\ PruneAfterFullScan
================================================================================
