------------------------------- MODULE WatchQueue -------------------------------
(***************************************************************************)
(* WatchLoop and IngestionConsumer (server/watcher.go): from a change of a *)
(* file under the watched directory to the synchronization of its path.    *)
(*                                                                         *)
(* WatchLoop forwards the paths fsnotify reports into a bounded channel.   *)
(* The consumer gives each path a timer, replaced by the next event for    *)
(* it; a timer that expires sends its path and sequence number through a   *)
(* second bounded channel, and the consumer, if the number is still the    *)
(* path's, starts a goroutine that synchronizes it.  A timer that expired  *)
(* can no longer be stopped: that is what the numbers are for.             *)
(*                                                                         *)
(* Paths are files ShouldIgnoreFile accepts.  What a synchronization does  *)
(* with the file is Publication's subject; here it reads it once.          *)
(***************************************************************************)
EXTENDS Integers, Sequences, Functions

CONSTANTS
  Paths,      \* files under the watched directory
  Fresh,      \* those in a directory made while the server runs
  MaxEdits,   \* bound: changes of a file
  EventCap,   \* capacity of eventChan (100)
  FiredCap,   \* capacity of fired (100)
  Directory,  \* the event for the new directory
  NoPath

ASSUME WatchAssumption ==
  /\ Fresh \subseteq Paths /\ MaxEdits \in Nat
  /\ EventCap \in Nat \ {0} /\ FiredCap \in Nat \ {0}
  /\ Directory \notin Paths /\ NoPath \notin Paths

VARIABLES
  edits,      \* how often each file has changed
  told,       \* the change fsnotify last reported of each file
  folder,     \* the new directory: "none", "made" or "watched"
  notices,    \* watcher.Events and the queue of the system behind it
  sending,    \* the path WatchLoop is about to send
  eventChan,
  received,   \* the path the consumer has taken from eventChan
  sequence, timers, armed, expired, fired,  \* the consumer
  pendingFiles, activeSyncs,  \* what the status reports
  begun, reading,  \* goroutines of each path before and after their read
  synced,     \* the change the last synchronization of each file read
  cancelled, watcherUp, consumerUp

diskVars     == <<edits, told, folder>>
consumerVars == <<received, sequence, timers, armed, pendingFiles, consumerUp>>
syncVars     == <<activeSyncs, begun, reading, synced>>
watchVars    == <<diskVars, notices, sending, eventChan, consumerVars, expired,
                  fired, syncVars, cancelled, watcherUp>>

WatchInit ==
  /\ edits = [p \in Paths |-> 0] /\ told = edits /\ synced = edits
  /\ folder = "none" /\ notices = <<>> /\ sending = NoPath /\ eventChan = <<>>
  /\ received = NoPath /\ sequence = 0 /\ timers = [p \in Paths |-> 0]
  /\ armed = {} /\ expired = {} /\ fired = <<>>
  /\ pendingFiles = {} /\ activeSyncs = 0
  /\ begun = [p \in Paths |-> 0] /\ reading = begun
  /\ cancelled = FALSE /\ watcherUp = TRUE /\ consumerUp = TRUE

(***************************************************************************)
(* The file system.  Nobody is told of a change inside a directory that    *)
(* has no watch yet.                                                       *)
(***************************************************************************)
Watched(p) == p \in Fresh => folder = "watched"

Edit(p) ==
  /\ edits[p] < MaxEdits /\ (p \in Fresh => folder # "none")
  /\ edits' = [edits EXCEPT ![p] = @ + 1]
  /\ IF Watched(p) THEN /\ notices' = Append(notices, p)
                        /\ told' = [told EXCEPT ![p] = edits[p] + 1]
                   ELSE UNCHANGED <<notices, told>>
  /\ UNCHANGED <<folder, sending, eventChan, consumerVars, expired, fired,
                 syncVars, cancelled, watcherUp>>

MakeFolder ==
  /\ folder = "none" /\ folder' = "made" /\ notices' = Append(notices, Directory)
  /\ UNCHANGED <<edits, told, sending, eventChan, consumerVars, expired, fired,
                 syncVars, cancelled, watcherUp>>

\* The process is asked to stop, or its MCP client disconnects.
Cancel ==
  /\ ~cancelled /\ cancelled' = TRUE
  /\ UNCHANGED <<diskVars, notices, sending, eventChan, consumerVars, expired,
                 fired, syncVars, watcherUp>>

(***************************************************************************)
(* WatchLoop.                                                              *)
(***************************************************************************)
TakeNotice ==
  /\ watcherUp /\ sending = NoPath /\ notices # <<>>
  /\ notices' = Tail(notices)
  /\ IF Head(notices) = Directory
       THEN folder' = "watched" /\ UNCHANGED sending
       ELSE sending' = Head(notices) /\ UNCHANGED folder
  /\ UNCHANGED <<edits, told, eventChan, consumerVars, expired, fired, syncVars,
                 cancelled, watcherUp>>

Forward ==
  /\ watcherUp /\ sending # NoPath /\ Len(eventChan) < EventCap
  /\ eventChan' = Append(eventChan, sending) /\ sending' = NoPath
  /\ UNCHANGED <<diskVars, notices, consumerVars, expired, fired, syncVars,
                 cancelled, watcherUp>>

StopWatching ==
  /\ watcherUp /\ cancelled /\ watcherUp' = FALSE
  /\ UNCHANGED <<diskVars, notices, sending, eventChan, consumerVars, expired,
                 fired, syncVars, cancelled>>

(***************************************************************************)
(* IngestionConsumer.  armed and expired hold the timers that may still be *)
(* stopped, and the goroutines waiting to send on fired.                   *)
(***************************************************************************)
(* Mutant: the path is not marked as pending. *)
MarkNothing(p) == pendingFiles

Marked(p) == pendingFiles \union {p}

Receive ==
  /\ consumerUp /\ received = NoPath /\ eventChan # <<>>
  /\ received' = Head(eventChan) /\ eventChan' = Tail(eventChan)
  /\ UNCHANGED <<diskVars, notices, sending, sequence, timers, armed, pendingFiles,
                 consumerUp, expired, fired, syncVars, cancelled, watcherUp>>

Schedule ==
  LET p == received IN
  /\ consumerUp /\ p # NoPath /\ received' = NoPath
  /\ pendingFiles' = Marked(p)
  /\ sequence' = sequence + 1 /\ timers' = [timers EXCEPT ![p] = sequence + 1]
  /\ armed' = (armed \ {<<p, timers[p]>>}) \union {<<p, sequence + 1>>}
  /\ UNCHANGED <<diskVars, notices, sending, eventChan, consumerUp, expired, fired,
                 syncVars, cancelled, watcherUp>>

\* The consumer is at its select.
Ready == consumerUp /\ received = NoPath

Expire(timer) ==
  /\ timer \in armed /\ armed' = armed \ {timer} /\ expired' = expired \union {timer}
  /\ UNCHANGED <<diskVars, notices, sending, eventChan, received, sequence, timers,
                 pendingFiles, consumerUp, fired, syncVars, cancelled, watcherUp>>

Fire(timer) ==
  /\ timer \in expired /\ Len(fired) < FiredCap
  /\ fired' = Append(fired, timer) /\ expired' = expired \ {timer}
  /\ UNCHANGED <<diskVars, notices, sending, eventChan, consumerVars, syncVars,
                 cancelled, watcherUp>>

(* Mutant: the numbers are compared the wrong way round. *)
Overtaken(timer) == timers[timer[1]] > timer[2]

Newest(timer) == timers[timer[1]] = timer[2]

DropStale ==
  /\ Ready /\ fired # <<>> /\ ~Newest(Head(fired)) /\ fired' = Tail(fired)
  /\ UNCHANGED <<diskVars, notices, sending, eventChan, consumerVars, expired,
                 syncVars, cancelled, watcherUp>>

Dispatch ==
  LET p == Head(fired)[1] IN
  /\ Ready /\ fired # <<>> /\ Newest(Head(fired)) /\ ~cancelled
  /\ fired' = Tail(fired) /\ timers' = [timers EXCEPT ![p] = 0]
  /\ pendingFiles' = pendingFiles \ {p}
  /\ activeSyncs' = activeSyncs + 1 /\ begun' = [begun EXCEPT ![p] = @ + 1]
  /\ UNCHANGED <<diskVars, notices, sending, eventChan, received, sequence, armed,
                 consumerUp, expired, reading, synced, cancelled, watcherUp>>

\* The deferred function: the paths in left keep their entries.
StopConsumer(left) ==
  /\ consumerUp' = FALSE /\ armed' = {} /\ expired' = {}
  /\ pendingFiles' = pendingFiles \ ({p \in Paths : timers[p] # 0} \ left)
  /\ UNCHANGED <<diskVars, notices, sending, eventChan, received, sequence, timers,
                 syncVars, cancelled, watcherUp>>

\* ctx.Done is taken, or found done behind a timer whose entry is gone.
Stop ==
  /\ Ready /\ cancelled
  /\ \/ StopConsumer({}) /\ UNCHANGED fired
     \/ /\ fired # <<>> /\ Newest(Head(fired))
        /\ StopConsumer({Head(fired)[1]}) /\ fired' = Tail(fired)

(***************************************************************************)
(* The goroutine of a synchronization; a cancelled one may not read.       *)
(***************************************************************************)
SyncReads(p) ==
  /\ begun[p] > 0 /\ begun' = [begun EXCEPT ![p] = @ - 1]
  /\ reading' = [reading EXCEPT ![p] = @ + 1] /\ synced' = [synced EXCEPT ![p] = edits[p]]
  /\ UNCHANGED <<diskVars, notices, sending, eventChan, consumerVars, expired,
                 fired, activeSyncs, cancelled, watcherUp>>

SyncEnds(p) ==
  /\ \/ reading[p] > 0 /\ reading' = [reading EXCEPT ![p] = @ - 1] /\ UNCHANGED begun
     \/ cancelled /\ begun[p] > 0 /\ begun' = [begun EXCEPT ![p] = @ - 1]
        /\ UNCHANGED reading
  /\ activeSyncs' = activeSyncs - 1
  /\ UNCHANGED <<diskVars, notices, sending, eventChan, consumerVars, expired,
                 fired, synced, cancelled, watcherUp>>

Watcher  == TakeNotice \/ Forward \/ StopWatching
Timers   == armed \union expired
WatchNext ==
  \/ \E p \in Paths : Edit(p) \/ SyncReads(p) \/ SyncEnds(p)
  \/ MakeFolder \/ Cancel \/ Watcher
  \/ Receive \/ Schedule \/ DropStale \/ Dispatch \/ Stop
  \/ \E timer \in Timers : Expire(timer) \/ Fire(timer)

WatchSpec == WatchInit /\ [][WatchNext]_watchVars

(***************************************************************************)
(* Goroutines run, timers expire and select does not starve a ready        *)
(* channel.  Files need not change, and nobody has to stop the process.    *)
(***************************************************************************)
WatchFairSpec ==
  /\ WatchSpec /\ WF_watchVars(Watcher)
  /\ SF_watchVars(Receive) /\ WF_watchVars(Schedule)
  /\ SF_watchVars(DropStale \/ Dispatch) /\ SF_watchVars(Stop)
  /\ \A p \in Paths : WF_watchVars(SyncReads(p)) /\ WF_watchVars(SyncEnds(p))
  /\ WF_watchVars(\E timer \in armed : Expire(timer))
  /\ WF_watchVars(\E timer \in expired : Fire(timer))
----------------------------------------------------------------------------
Numbered == Paths \X (Nat \ {0})

\* The types, with the capacities of the two channels.
WatchTypeOK ==
  /\ edits \in [Paths -> Nat] /\ told \in [Paths -> Nat] /\ synced \in [Paths -> Nat]
  /\ folder \in {"none", "made", "watched"}
  /\ notices \in Seq(Paths \union {Directory}) /\ sending \in Paths \union {NoPath}
  /\ eventChan \in Seq(Paths) /\ Len(eventChan) <= EventCap
  /\ received \in Paths \union {NoPath} /\ sequence \in Nat /\ timers \in [Paths -> Nat]
  /\ armed \subseteq Numbered /\ expired \subseteq Numbered
  /\ fired \in Seq(Numbered) /\ Len(fired) <= FiredCap
  /\ pendingFiles \subseteq Paths /\ activeSyncs \in Nat
  /\ begun \in [Paths -> Nat] /\ reading \in [Paths -> Nat]
  /\ cancelled \in BOOLEAN /\ watcherUp \in BOOLEAN /\ consumerUp \in BOOLEAN

OnItsWay(p) ==
  p \in Range(notices) \union {sending} \union Range(eventChan) \union {received}
TimerRuns(p) == <<p, timers[p]>> \in armed \union expired \union Range(fired)

(***************************************************************************)
(* No reported change is forgotten between WatchLoop and SyncFileState: a  *)
(* change no synchronization has read yet has an event on its way to the   *)
(* consumer, a timer with the path's number, or a goroutine that has still *)
(* to read the file.                                                       *)
(***************************************************************************)
ChangeReachesSync ==
  ~cancelled => \A p \in Paths : told[p] > synced[p] =>
                  OnItsWay(p) \/ TimerRuns(p) \/ begun[p] > 0

(***************************************************************************)
(* What the status of server/backend.go calls idle: with no pending file,  *)
(* no active synchronization and no event on its way, every reported       *)
(* change has been read.                                                   *)
(***************************************************************************)
IdleMeansSynced ==
  (~cancelled /\ pendingFiles = {} /\ activeSyncs = 0) =>
    \A p \in Paths : OnItsWay(p) \/ synced[p] >= told[p]

(***************************************************************************)
(* Once files stop changing, a server that is not asked to stop reads      *)
(* every reported change, and its status returns to idle.                  *)
(***************************************************************************)
Idle == pendingFiles = {} /\ activeSyncs = 0 /\ \A p \in Paths : synced[p] >= told[p]
EventuallySynced == <>[](cancelled \/ Idle)
============================================================================
