# Verification of hive_mind

hive_mind publishes a folder of Markdown reconnaissance notes into Qdrant, a
vector store several devices share, and serves searches over it to MCP clients.
There is no database with transactions behind it: a document is a set of points
("chunks") in one collection and a few records in another, written by ordinary,
separately failing network calls from several goroutines, processes and devices.
This directory holds TLA+ models of how those writes are ordered, TLC
configurations that check them on small instances, and proofs, checked by
TLAPS, of the most important facts for every instance.

## The system

| component | source (`server/` unless given) | state | operations | hard behaviour |
|---|---|---|---|---|
| control records | `revision.go` 490-551, `retry.go` | one Qdrant point per record with `control_version` | `controlRows`, `upsertControl`, the retrying gRPC interceptor | two writers, lost and repeated requests, a request executed after its timeout |
| publication | `revision.go` 557-792, 1135-1250 | chunks per (revision, scope), `document_head`, `tombstone` | `SyncFileState`, `MarkPendingDelete`, `RemoveDocument`, `PrunePending` | failure, crash or another thread between any two calls; locks per process only |
| scope approval | `scope.go` 335-535 | `scope_approval` record | `resolveActiveScope`, `ApproveScopeRevision` | many heads moved one by one, rollback, no lock |
| search | `search.go`, `revision.go` 824-881 | none | `HiveSearch`, `filterActiveCandidates` | reads between the writes of a publication |
| embedding client | `worker.go` 189-289, 941-1023 | limit, active count, waiting channels | `Acquire`, `Release`, `RecordSuccess`, `RecordFailure`, `FetchRemoteEmbedding` | adaptive limit, cancellation racing a grant, starvation |
| watcher | `watcher.go` | timers, two channels, counters | `WatchLoop`, `IngestionConsumer` | stopped timers that have fired, full channels, shutdown |
| batch upserter | `worker.go` 60-187 | channel, batch, pending count | `Add`, `Flush`, `Close` | points given up while a flush waits; reached from dead code only |
| workspace ingestion | `revision.go` 1252-1333, `ingestion_report.go` | job channel, report | `SyncWorkspace`, `IngestWorkspaceReport`, `IngestPathReport` | worker pool, cancellation, prune after an incomplete scan |
| remote ingestion | `remote_ingestion.go` | file of a document | validate, write, publish | repetition, conflict, the watcher seeing the file first |
| infrastructure | `revision.go` 75-330, 440-490 | collections, immutable control records | `EnsureInfrastructure`, `ValidateInfrastructure` | several writers creating the same thing, a mutex held across calls |
| HTTP server | `http.go`, `remote.go` | request slots | middlewares, handlers, the client's conclusions | overload, lost answers |
| tokens | `auth.go` | JWKS cache | `getKey`, `ensureFresh`, `refresh` | concurrent misses, stale answers, back-off |
| audit | `audit.go`, `audit_report.go` | append-only files, failure latch | `Record`, `expire`, `audit` | failure between two records, files removed by peers |
| MCP session | `mcp.go`, `server.go` | listener, requests, watcher | `ListenToMCPClient`, `waitMCPClient` | end of input, signals and requests in any order |
| scope rules, chunking, retrieval, catalog, operations | `scope.go`, `revision.go`, `converter.go`, `search.go`, `context.go`, `target_catalog.go`, `operations.go`, `eval.go` | none | pure functions | boundaries |
| configuration, set-up, login, doctor, inventory, deploy scripts | the rest | files | sequential | – |

How they interact.  A writer process runs one consumer of file events, HTTP or
MCP handlers, and possibly a workspace scan; a second process of the same device
may run a CLI command.  All of them call `SyncFileState` for a path.  It takes
one of 64 lock stripes (per process), asks `resolveActiveScope` for the scope
in force, reads the document's head, embeds the chunks (through the embedding
client's slots), stores them, moves the head with `upsertControl`, and deletes
the chunks the former head named.  `ApproveScopeRevision` does the same for all
documents of a program at once and finally writes `scope_approval`.  A search
takes candidate chunks from Qdrant and drops those that are not exactly the
combination the document's head and the program's approval name.

What makes each part correct:

* control records: a version is replaced by one write; a writer that is told
  "committed" did replace the version it had read.
* publication: a head always names completely stored chunks; an update never
  makes a document disappear; the first publisher stays the owner; a workspace
  ingestion that reports success leaves every file served with its content.
* approval: a program moves from one scope to another as a whole; approving changes
  no owner.
* embedding client: slots are neither lost nor exceeded, and nobody starves.
* watcher: the last change of a file leads to a synchronization that reads it.
* batch upserter: a flush settles every point it found, and returns.
* search and status: what is returned was published, a document served all along
  is found, and rules are those of an approval in force.
* HTTP and tokens: each request ends and gives its slot back; only entitled
  ones take effect; a client tells its user nothing it cannot know; fetches of keys are
  spaced and a withdrawn key expires.
* audit: nothing is recorded after a gap, and no young file is removed.
* infrastructure: a worker that calls itself ready is compatible with what it found, and
  with the manifest unless two writers of different settings were creating it at once.
* ingestion: a report is true, an incomplete scan prunes nothing, a member's
  document is confirmed only when it is published, and never replaced.
* MCP: a request gets at most one answer, and the process ends when its client has.
* pure parts: joined chunks give the text back, an exclusion wins, an answer not
  marked truncated is complete, pages cover the catalog, the delay doubles.

The hazards, each at its line and with the properties aimed at it, are listed
in `PROJECT.json`.

## Modules

| module | models | notes |
|---|---|---|
| `VersionedRegister` | what a control record promises: a write replaces the version it names, atomically | abstract specification |
| `ControlRecord` | `upsertControl` and the interceptor on one record | refines `VersionedRegister` |
| `Publication` | `syncFileResult`, `resolveActiveScope`, `MarkPendingDelete`, `RemoveDocument`, `PrunePending`, the search filter | one action per network call |
| `WorkspaceIngest` | `SyncWorkspace` over the calls of `Publication` | extends `Publication` |
| `ScopeApproval` | `ApproveScopeRevision` beside all of `Publication` | extends `Publication` |
| `EmbeddingSlots` | `ConcurrencyController` and `FetchRemoteEmbedding` | one action per critical section |
| `WatchQueue` | `WatchLoop`, `IngestionConsumer` | one action per channel operation, timer, or section under the mutex |
| `BatchQueue` | `BatchUpserter` | one action per channel operation or section under the mutex |
| `Worker` | the parts of a worker above, side by side | sum, see below |
| `ProgramReads` | `HiveSearch`, `filterActiveCandidates`, `ScopeStatus` | extends `ScopeApproval`; one action per call |
| `KeyCache` | `JWKSClient` | discrete clock, one action per section under the mutex |
| `Serving` | middlewares and handlers of `http.go`, `RemoteClient` | extends `KeyCache` |
| `AuditLog` | `FileAudit`, `IngestionWorker.audit` | several processes in one directory |
| `Infrastructure` | `EnsureInfrastructure`, `ValidateInfrastructure` | one action per call |
| `WorkspaceSync` | `SyncWorkspace` and its reports | one action per channel operation |
| `RemoteDocument` | `IngestRemoteDocument` beside the watcher | one action per call |
| `McpSession` | `ListenToMCPClient`, `waitMCPClient`, `Start` | the three kinds of MCP process |
| `Machines` | the five modules above, side by side | sum, see below |
| `ScopeRules`, `Chunking`, `Retrieval`, `TargetCatalog`, `Operations` | pure parts | operators and recursive functions, each beside a definition of what it promises |
| `Lists` | what a sort and a filtering loop return | used by the pure parts |
| `Decisions` | asks the pure parts about every input | a question and its answer per step |
| `MCPublication`, `MCIngest`, `MCScopeApproval`, `MCReads`, `MCServing`, `MCMachines`, `MCDecisions` | threads, devices and values of the instances | |
| `PublicationProofs`, `ScopeApprovalProofs` (approvals, and the reads of `ProgramReads`), `ServingProofs`, `WorkerProofs` (control records, slots, batch upserter, watcher), `MachinesProofs` (audit, infrastructure, ingestion, remote documents, MCP), `DecisionsProofs` (scope rules, chunks, pages of the catalog), `AnswersProofs` (search, context and catalog), `FiguresProofs` (delay, report of the checks, use report, scores) | theorems | see "Proofs" |

`Worker` and `Machines` are sums: components that share no state are given one
specification, in which the variable `part` says whose behaviour this is, and the
others keep an initial state.  A run of the sum is exactly a run of each component
with its own fairness; nothing is said about combinations, because there are none
to speak of.  Components that do interact are composed in earnest: `ScopeApproval`
and `WorkspaceIngest` with all of `Publication`, `ProgramReads` with both, `Serving` with `KeyCache`,
`RemoteDocument` with the watcher's synchronizations.

### ControlRecord

`rec` is the stored point (version 0: none).  A client reads it (`Read`), writes
the "prepared" audit record (`Prepare`), sends an upsert that carries the version
it expects (`Send`), reads again (`Verify`) and writes the "committed" audit
record (`Commit`).  `net` holds the requests under way.  `Execute` and `Lose`
happen at any time, so a request may be executed after the client has stopped
waiting, gone on, or begun another write; `Retry` repeats an attempt without
knowing whether the former was executed.  `Matches` is the update filter of the
upsert, and is vacuous for a creation, as in the code.  `applied` and `acked` are
history variables.  Bounds: `MaxAttempts` attempts, `MaxWrites` calls per client.

### Publication

`chunks[d][<<rev, scope>>]` counts the stored points of a combination; point ids
are deterministic, so storing again changes nothing.  `head`, `tomb` and
`approval` are the control records; `pc` and `job` are what a thread is doing and
what it has read so far - the model's whole point is that `job` grows old.  The
actions follow `syncFileResult` call by call: `SyncStart` (lock and file),
`ResolveScope` and `DemoteScope`, `ReadHead` with all its early returns, then
`Revive`, or `Stage`, `Verify`, `Commit`, `Cleanup`; `MarkRead` and `MarkCommit` for
a missing file (of the scope.json, `ManifestDoc`, only after `resolveActiveScope` and its
demotion: `Resolved`); `NextRemoval`, `WriteTombstone`, `DeleteHead`, `DeleteChunks` for a
removal or a prune.  `StagePartly` and `Fail` return early from any call: that a
call took effect although its answer was lost is the step followed by `Fail`.
`Crash` ends all threads of a process.  `Served(d)` is the set of combinations
that `filterActiveCandidates` lets through.

Abstractions: a revision stands for content with parser and chunker fingerprints; the
scope.json as the manifest in force (`manifest`) and as a document (`file`) are separate
variables, so that what the two agree on is among more behaviours than the code has;
the model is about one program; `upsertControl` is one step (its inside is
`ControlRecord`); the two reads of head and tombstone, which lead to independent
refusals, are one step; of the 64 lock stripes each document has its own (sharing
one only removes interleavings); the grace period may elapse at any time; an effect
never comes after its call has returned with an error (`ControlRecord` treats late
requests); approvals recorded by old versions without a device are left out.

### WorkspaceIngest

`walk` is the command: the paths its pool has left, and whether a call has failed.  The
workers `Take` a path each and go through `SyncStep`; `CallOfIngestFails` is a failing
call, `IngestKilled` the end of the process.  `Before` is anything `Publication` allows:
failed calls, killed processes, marks, removals, changed manifests.  The premise is that the
command runs by itself: no other process of the device synchronizes beside it, and nobody
edits files until it returns.  `publication_twoproc` shows why that is needed.  Nothing
promises more: the start of a server ingests nothing, and the watcher drops a
synchronization that failed (`watcher.go` 151), so between two commands a document may
stay as a failure left it.  The prune at the end of the command is in `WorkspaceSync`.

### ScopeApproval

`plan` is the state of `ApproveScopeRevision`: the confirmed manifest hash, the
heads read during staging, and the heads already moved.  The actions are `Scan`, then
`ReadDoc` and `StageDoc` per document, `Recheck` (the manifest is read again),
`CommitHead` per document, `Activate`, `CleanScope`; `CommitHeadFails` and
`ActivateFails` (the failing write may have taken effect) lead to `Restore`, which
writes back the heads moved before and ignores errors.  `ApproveAlone` says that
nothing else starts while an approval runs.  The code does not enforce that.  The
passing runs assume it because without it the properties fail (see "Observations").

### EmbeddingSlots

The controller's fields, and per caller where it stands, its attempt and whether
its context has ended.  A waiting caller that is no longer queued has been granted
a slot.  `GiveUp` is the `ctx.Done()` branch of `Acquire`: Go's select may take it
although the channel has been closed, and then nobody gives that slot back;
`lost` counts those grants.  Contexts of the callers in `Hurried` may end.

### WatchQueue

`notices` is fsnotify's queue, `sending` the path in `WatchLoop`'s hand, `received`
the one in the consumer's.  `timers[p]` is the sequence number of the path's map
entry, `armed` the timers that can be stopped, `expired` the goroutines that wait to
send on `fired`.  `told` is the change fsnotify last reported of a file and `synced`
the one its last synchronization read.  A directory made while the server runs
(`Fresh`, `folder`) is watched only once its event is handled.

### BatchQueue

Points are alike, so they are counted where they are: `adding` in the hand of a caller
of `Add`, `queued` in the channel, `batch` in the goroutine, `settled` stored or given
up; `pending` is the wait group.  `loop` is the goroutine at its `select` or in a flush,
`cause` why it flushes, `flush` a caller of `Flush` before its request is met, before
its reply, and at the wait group.  `before` remembers what had been added when it came.

### ProgramReads

A reader beside everything `ScopeApproval` does: one action per call to the store,
`wanted` the approval it read first with its `wantedVersion`, `most` the limit on its
candidates, `found` the points of its query, the best of those that match, `looked` the
document whose tombstone and head it has read, `scopeNow` the scope of the filter's
cache.  The histories `steady` (served at every moment of the search) and `named` (named
by a head at some moment of it) say what a search may and must return.  `version` is the
`control_version` of the approval record, raised by every write, also by one that fails after
its effect; `SameRecord` compares it as `scope_status.go` 85-89 does, and `inForce` is the
history of what was in force meanwhile.  The late creating upsert that sets a record back to
version 1 (`ControlRecord`) is not among the steps.  Approvals run alone, as in the runs of
`ScopeApproval`.

### KeyCache and Serving

Times are ages in ticks that stop growing where nobody can tell them apart; a fetch lasts
at most `FetchTimeout`.  `at[c]` follows `getKey` and `ensureFresh`: a first look, the
wait for the refresh slot, a second look, the request, storing, and a third look.
`Serving` puts the requests around it: `Send` takes a slot or refuses, `LookUp` and
`Validate` are the token's middleware, `PassGates` the gates of a route in the order the
handlers have them, `Run` the operation with the statuses it may end in.  A late failure
may have taken effect: it is a 500, or for an ingestion a 403 when the store refuses a
call after the head has moved (`operations.go` 181-183).  `Tell` delivers the answer or
loses it, and `told` is what `RemoteClient` makes of it (`Concludes`); an answer that comes after
the client's timeout is a lost one, while the server goes on.

### AuditLog

Files are pairs of a process and a rotation; `age` is what a file's modification time
tells.  `AppendRecord` is `record` under the mutex up to the `fsync`, `LookAtFile` and
`RemoveFile` the loop of `expire`, which meets peers; `LoseRecord` closes the latch
`failed`, and `NotRecorded` the worker's latch `blocked`, in this order and not at once.
`gap` and `intact` remember whether a record had been lost when an operation was prepared.

### Infrastructure

`doing[c]` is the next call of `EnsureInfrastructure`; a branch that finds what is
there incompatible, or a creation answered "already exists", is `InfraFails`, which any
call may take.  `setup` gives each process a fingerprint, a role and what its credential
may do, of any combination; a crash between any two calls leaves what was made.  `raced` remembers
that two writers of different settings found no manifest at once; see "Observations".

### WorkspaceSync

`phase` is the sending loop, `hand[w]` the file a goroutine of the pool works on.  The
context may end between any two steps.  `Results` is what `syncFileResult` may tell of a
file whose head was moved, or was not: after a moved head the answer may still be a
failure, and "published" is told only once the commit was answered.

### RemoteDocument

`visible` is the file under a path, `draft` the hidden file of a request, `head` the
bytes a path was last published with.  `Expose` is the link, which refuses to replace
(and then compares the bytes), or for a manifest the rename.  The watcher publishes the
same path under the same document lock; people edit, the writer dies, members repeat.

### McpSession

`wire` is what the agent has sent, `decoded` how far the decoder is, `running` the tools
in goroutines, `replies` the answers in their order.  `Breaks` allows input that is no
JSON, after which the decoder keeps its error and the loop spins ("stuck").

### The pure modules

`ScopeRules`, `Chunking`, `Retrieval` (boundary, order, limits, truncation), `TargetCatalog`
and `Operations` (backoff, exit codes, usage, recall) hold the computation and, apart from
it, what it promises.

* `ScopeRules`: a host is a string of labels, whether it is a name or a printed address, as the
  code compares them; `AddressOf` tells which names are addresses of `AddressBits` bits.  Paths are
  sequences of characters, one of which has to be escaped and is longer then.  The limits
  are `MostRules`, `MostValue` and `MostSnapshot`; that of a host name (253) is left out.
* `Chunking`: a document is a sequence of lines and a line a sequence of characters;
  beginnings and occurrences are those of texts (`StartsWith`, `HasInside`).  Under the title
  "# API" a section "# API v2" gets no title of its own, as in the code: what holds is that
  the title's text occurs in every section.
* `TargetCatalog`: rows with the references of a document, of which those that are `Concrete` are
  assets and `MostNamed` are read; entries, ranking, pages.
* `Operations`: a log that cannot be read, or has a line that is `TooLong`, gives no report.

  A sort is given by its order and not by its algorithm: an element's
place is the number of those that go before it (`InOrder`); the balanced order of a
catalog compares the turns in which entries are taken (`Turn`, `TakenBefore`).  `Decisions` asks each about every input of the
instance.  Sizes are scaled down: 3 candidates for 80, 4 units of text for 16 KiB, and so on.

## Runs

| run | instance | shows |
|---|---|---|
| `publication_threads` | 2 threads of one process, 1 document, 2 revisions of 2 chunks, 1 manifest | types; `HeadComplete`; `UpdateNeverHides` |
| `ingest` | 2 workers of the command and a server's thread, 2 documents, one of them the scope.json, 1 revision of 1 chunk, 2 manifests | `IngestServes`, `IngestEnds` |
| `approval_alone` | 1 thread, 2 documents, 2 manifests, approvals alone | `HeadComplete`; `ApprovalServesProgram` |
| `approval_devices` | 2 devices, 1 document, 2 revisions, approvals alone | `HeadComplete`, `OwnerForLife` |
| `worker` | control: 2 clients, 2 writes each, 2 attempts, existing record; slots: 3 callers, limit 3, one hurried, 2 attempts, streak 2; watch: 2 files (one in a new directory), 2 changes, channels of capacity 1; batch: batches of 2, 5 points, 2 flushes | types; `CommittedIsStored`; `ImplementsRegister`; `SlotsAccounted`; `NoIdleSlot`; `ChangeReachesSync`; `IdleMeansSynced`; `FlushMeansSettled`; `WorkerProgress` |
| `serving` | 1 slot, 2 requests, 1 probe, 2 keys; approvals, scope and document ingestions with and without the permissions | `SlotsReturned`, `OnlyEntitled`, `ClientKnows`, `EveryRequestAnswered`, `KeysTrusted` |
| `reads` | 1 thread, 1 document of 2 chunks, which is the manifest, 1 revision, 1 manifest, at most 1 or 3 candidates, 3 versions of the approval | types; `FoundWasNamed`; `SteadyIsFound`; `StatusInForce` |
| `machines` | audit and infrastructure: 3 goroutines in 2 processes, the latter with the same or different settings; workspace: 2 files, 2 goroutines; remote: 3 requests to 2 paths, one edit; mcp: 2 messages of each kind, broken ones too | types; `NothingAfterGap`, `YoungFilesKept`; `ReadyIsCompatible`; `ReportHonest`; `DocumentsKept`; `AnsweredOnce`; `MachinesReturn` |
| `decisions` | every input over small sets (`MCDecisions`) | `ChunksKept`, `RulesHonest`, `AnswersHonest`, `CatalogHonest`, `FiguresRight` |
| `control_create` | 2 clients, no record | violation: creation has no filter |
| `publication_pruned` | 2 threads | violation: a prune removes a revived document |
| `publication_twoproc` | 2 processes of one device | violation: a late cleanup deletes active chunks |

Several properties are conjunctions of named ones that ask one thing of one part, so
that a counterexample says which: `WorkerProgress` of `WaiterIsServed`,
`EventuallySynced` and `FlushReturns`; `MachinesReturn` of six; `KeysTrusted` of
`FetchesAreSpaced` and `WithdrawnKeyExpires`; and so on, each with its comment in the
module that states it.

Why the bounds are enough.  The races of `Publication` are between two threads on one
document; a third thread repeats the role of one of the two, and documents only
meet in an approval, where there are two of them.  Two revisions are needed for a
cleanup, and two chunks for a partial staging that is not empty.  One manifest gives
two scopes (the manifest's hash, and unapproved); an approval that replaces another
needs two.  In `WorkspaceIngest` two workers take two documents, so that one demotes the
approval while the other synchronizes.  In `ProgramReads` one candidate is less than the two
chunks of the document and three are enough for it; three versions let an approval be
withdrawn and given again.  In `ControlRecord` two writes per client let a late request of the first
meet the second, and two attempts let both copies of a request be executed.  In
`EmbeddingSlots` a limit of 3 is halved to 1 and raised again with callers waiting
(5 fast answers and 4 attempts in the code differ only in how long that takes).  In
`WatchQueue` capacity 1 stands for 100: both channels fill up.  In `BatchQueue` 5 points
are more than channel and hand of the goroutine hold together, so an `Add` blocks.  With
one request slot, two requests meet the limit, and the one inside and the probe contend for
the refresh slot; two ticks of lifetime separate "fresh", "may retry" and "expired".  Two processes
with two goroutines in one of them are what a latch, a mutex and a shared directory need;
a file per record makes every record rotate.  Two files and two goroutines let one wait, one
work and the channel be empty.  Two requests to one path are a repetition, a third goes
to the manifest.  Two messages let answers overtake each other.

Deadlock is checked except where the system may stop: in `Worker` (clients stop after
`MaxWrites` calls, the watcher with its server), in `Machines` (a process that is down, a
report that has returned, no operations left), and in `control_create`.

### Fairness

* `IngestFairness`: a worker goes on or its call fails, since every call has a timeout; a path
  that is left is taken by some worker; a command whose workers are done returns.  Nobody has
  to start a command, and nothing is synchronized again by itself.
* `EmbeddingSlots`: a caller that is not blocked goes on; HTTP requests are
  bounded by the client's 15 s timeout.  Nobody is forced to call, and no context is
  forced to end.
* `WatchQueue`: timers expire, goroutines run, and the consumer's `select`
  picks each ready channel in the end (Go chooses uniformly) - strong fairness, as
  the consumer is away from its `select` between two picks.
* `BatchQueue`: the goroutine runs (an upsert has a timeout of 30 s), callers run; `Close`
  need not come.
* `FairServingSpec`: handlers and fetches go on, the HTTP client's timeout ends a fetch that
  hangs; the refresh slot is a channel, which wakes those that wait in turn (strong
  fairness of `TakeSlot`).
* `AuditLog`, `Infrastructure`, `RemoteDocument`: goroutines run, every call ends by its timeout or
  fails, and Go's mutexes do not starve a goroutine (strong fairness only where a mutex or a
  document lock is waited for).
* `WorkspaceSync`, `McpSession`: goroutines run and tools return by the timeouts of their
  calls.  No agent has to leave, no signal has to come, no context has to end.

In `Worker` and `Machines` each of these holds for the part whose behaviour it is.

## Findings

Each is a run whose counterexample is a short behaviour of the code as written; the
quoted texts are in `PROJECT.json`.

1. `control_create`: both writers find no record; both upsert version 1 without a
   filter; the first is told it committed though its write is gone.
2. `publication_twoproc`: server and CLI of one device; one stages the combination the
   other is about to delete as superseded; the head is left without chunks.
3. `publication_pruned`: the prune lists a pending document, a synchronization
   revives it, the removal reads the active head and deletes it.

## Observations without a run of their own

Met while modelling, reproducible by changing constants or the premise named, or by
reading the lines given.

Records, publication, approval:

* two devices find no head of a document (`revision.go` 666) and the second overwrites the
  first as owner (`OwnerForLife` with an unpublished document and two devices);
* between the first moved head and the approval record, moved documents are returned by
  no search (`UpdateNeverHides` in an approval);
* a late or repeated creating upsert sets a record updated since back to version 1;
* a removal beside a synchronization in flight: the head becomes active again over
  the tombstone (searches still hide it, but an approval refuses the program,
  because the head's chunks are gone);
* with `ApproveAlone = FALSE`: an approval beside a synchronization deletes the chunks
  of an active head, writes back a revision older than the one just published, or misses
  a document published during its staging;
* with `ApproveAlone = FALSE`: a device that decided on its own old approval withdraws the new
  one of another device (`scope.go` 373-378: the write reads the version anew), though
  `docs/spec/contracts/control-records.md` line 43 says of those that do not own it that they
  never invalidate it ("nunca invalidam");
* two writers with different settings found one hive at once: both read no manifest
  (`revision.go` 450-472), the second creation replaces the first, and the first goes on as ready,
  though lines 19 and 23 of the same contract have the manifest immutable.  `ReadyIsCompatible`
  allows exactly that (`raced`) and no more;
* a manifest may be approved that every client refuses: its values are measured as they
  are written (`scope.go` 136), the client measures them as they are published
  (`scope_status.go` 108), and percent-encoding lengthens a path.  `RulesHonest` allows exactly that.

Searches and answers:

* a search may return a chunk that was served at no single moment (`FoundWasNamed` speaks of
  the document's head only), and misses a document published again during it;
* `hive_get_context` reads the status in its header and the scope of its items separately;
* a Markdown file that has front matter only, and no line break after it, yields no chunk;
* `fitCatalogResponse` can answer `next_offset` equal to the offset with no target, when
  one target alone is over the limit: a client that follows it makes no progress;
* rules that pass the text budget may be cut while notes are still shown.

Worker and watcher:

* each lost grant of `EmbeddingSlots` lowers the usable limit for the life of the
  process; with the limit halved to 1, one lost grant blocks every later embedding;
* files written into a new directory before its watch is attached are reported by no
  event and wait for the next `hive ingest`;
* a shutdown that meets a timer just taken leaves its path in `PendingFiles`, which
  `watcher_test.go` expects to be empty;
* an `Add` that races `Close` can put its point into the channel after the last drain: a
  `Flush` that was answered just before waits for ever (`Stranded`; dead code today).

Server, keys, members, sessions:

* an ingestion refused by the store after its head has moved (the cleanup at `revision.go` 780) is
  answered 403, as if it had never been allowed; the client of an ingestion says "not
  confirmed" all the same, so `ClientKnows` holds;
* the timeout of a fetch (10 s) is longer than the delay after an error (5 s): a center that
  hangs is asked by every waiting request in turn; the third look of `getKey` may answer
  neither key nor error; the context of a probe that ended sets the error for all;
* two ingestions of a scope interleave, and one is told "confirmed" of a manifest that is
  the other's (`DocumentsKept` leaves manifests out); a report may confirm a file that a
  person has removed meanwhile;
* `IngestPathReport` whose infrastructure fails reports one file and no result;
* a process whose `expire` meets a file a peer removes at the same moment (`audit.go`
  192-218) loses its audit for good, and with it every critical operation;
* the MCP listener spins when its decoder keeps an error (`mcp.go` 47; the comment at `server.go`
  466 speaks of the end of the input);
* `convert --ingest` always ends with exit code 10, because `parseConfigFlags` refuses its flags
  (`convert_cli.go` 217, `config.go` 226-273), and leaves its file; `scope approve --yes` previews a
  second time and approves that (`server.go` 768, 820-832); the default overlap of 200 is not
  checked against half of the chunk size (`config.go` 490-497).

## Proofs

All theorems hold for every value of the constants that satisfies the assumptions
in the modules, and the premises named.

`PublicationProofs`
* `PubTypeCorrect`: `PubSpec => []TypeOK`, by a split of the types into control
  (`pc`, `job`) and data, so that each step proves only what it writes.
* `HeadCompleteAlways`, premises `OneProcessPerDevice` and `OnePublisher` (per document,
  one device that may publish it; the runs above show that both are needed).
  `SafeInv` adds to the types: `LocksHeld` (two synchronizations of one process are
  about different documents), `OwnersRecorded`, and `DecisionHolds`: from `ReadHead` on,
  the head is still the one the thread read as long as no removal has touched it, the
  staged chunks are complete from `Verify` on, and the combination to be cleaned up is
  not the one in force.  The key lemma is `Exclusive`: under the premises no other
  thread can be in a step that writes the same head or its chunks.
* `OwnerForLifeAlways`, premises `OnePublisher` and `KnownWriters`: the writer of a head
  never changes; `OwnInv` adds what each thread past `ReadHead` may claim.
* `UpdateNeverHidesAlways`, premises as for `HeadCompleteAlways`.  A served document could
  be hidden by an update that publishes it for another scope than the one in force.
  `SearchInv` adds to `SafeInv` that while the approval of the start is in force all that
  is published or being published is of its scope (`ScopesAgree`), and that a thread which
  resolved an approval withdrawn since replaces no head published since without one
  (`NotOutdated`).

`ScopeApprovalProofs`: the same program while scopes are approved beside it
* `ApprovalTypeCorrect`: `PlanInv` says for every step of an approval what its plan holds.
* `ApprovalKeepsOwners` (`OwnerForLife`), premises `OnePublisher` and `KnownWriters`, and any
  number of approvals: what an approval has staged of a document is still its writer's
  (`SameWriters`), so moving a head, or restoring it, gives it to nobody else.
* `ApprovalKeepsComplete` (`HeadComplete`) and `ApprovalServesProgramAlways`, premises
  `ApproveAlone` (nothing else runs during an approval: `Alone`), `OneProcessPerDevice` and `OnePublisher`.  `ProgramInv` adds to `SafeInv` what the
  approver knows at each step (`ApproverKnows`): in `Staging`, that each staged document is whole
  under the old and the new combination and its head unchanged; in `Moving`, which heads are
  moved already; in `Moved`, that all are, which is what makes searches complete from the
  moment the approval is in force.  With `ApproveAlone = FALSE` both fail (see "Observations").

`ScopeApprovalProofs`, last part: searches and status reads, whoever publishes and approves; no premise
* `ReadersDisturbNothing`: beside the reads the program behaves as without them, so that all
  theorems above hold here.  `ReadsTypeCorrect`.
* `FoundWasNamedAlways` (`NamedInv`: what was kept so far had been named by its head),
  `SteadyIsFoundAlways` (`SteadyInv`: what has been served all the time is still to be looked at
  or kept, unless the query was `Full`), `StatusInForceAlways` (`VersionInv`: as long as the version is the
  one read first, nothing else has been in force, because every write raises it; `StatusInv`: the
  chunks read are of the manifest and scope of the approval that is wanted).

`ServingProofs`
* `KeysTrustedAlways`: `CacheInv` says that one caller is inside the refresh (`OneInside`), that a
  fetch is younger than its timeout and what it brought was in force when it began (`Fetching`),
  that after a success the keys are no older than the attempt (`Filled`), and that a key was
  withdrawn no longer ago than the keys are old plus one fetch (`Trusted`).
* `SlotsReturnedAlways`, `OnlyEntitledAlways`, `ClientKnowsAlways`: `ServerInv` says for every stage
  what the gates before it have found out about the request (`Checked`), and that what the client
  tells is true (`Honest`); the answers that leave the effect open (`LeavesOpen`) are those it makes
  nothing of.

`WorkerProofs`
* `TypeCorrect`: `ControlSpec => []ControlTypeOK`.  The invariant adds that a client past `Read` has
  begun a call.
* `CommittedIsStoredAlways` (premise `Initial >= 1`: the record exists).
  `CommittedIsStored` is not inductive: it says nothing of requests still under way.
  `IInv` adds that a request under way expects a version no higher than the record's,
  names the version its write began from, and that a write that took effect at the
  version a client expects is that client's.  With the filter, a request whose version
  has passed can never match again; this is what fails for creation.
* `Refinement` (same premise): every step maps to a write of `VersionedRegister` or
  to a stutter, so loss, repetition and lateness are invisible.
* `SlotsTypeCorrect`, `SlotsAccountedAlways`, `NoIdleSlotAlways`, for any callers, limit
  and streak.  `SlotInv` adds that the queue holds each caller once and only callers
  that wait (`Orderly`): without it a grant could wake a caller twice, or one that has
  left, and the count would not match.  That `activeCount` never falls below zero is a
  consequence of `SlotsAccounted`, so the types are proved last.  `WokenHold` is the
  key lemma: `notifyWaiters` makes as many new holders as it counts.
* `BatchTypeCorrect`, `PointsAccountedAlways`, `FlushMeansSettledAlways`: every point is
  counted where it is, so a wait group of zero means that all that had been added is
  settled; the sum is inductive with the capacities of channel and batch.
* `WatchTypeCorrect`, `ChangeReachesSyncAlways`, `IdleMeansSyncedAlways`, for any files, changes
  and capacities.  `ChangeReachesSync` is inductive by cases of where a change is (an event,
  a timer with its path's number, a goroutine that has not read) once `WatchInv` adds that
  reports follow changes (`ReportsFollow`), a numbered path is shown as pending
  (`NumberedArePending`), and `activeSyncs` is the number of goroutines (`SyncsCounted`, in
  which the goroutines of a path are numbered so that they form a set).
* `WorkerTypeCorrect`, `WorkerKeepsItsPromises`: the same of the sum `WorkerSpec`, which the run
  `worker` checks.

`MachinesProofs`
* `AuditTypeCorrect`, `NothingAfterGapAlways` (the gap and the latch `failed` arise in one step:
  `Latches`), `YoungFilesKeptAlways` (a name is used once, `Unused`, so a file found old has been
  renamed and is old or gone when it is removed: `Condemned`).
* `InfraTypeCorrect`, `ReadyIsCompatibleAlways`, without premise: what a goroutine has seen stays true
  (`Seen`), because unless two writers have `raced`, whoever may still write the manifest would
  write what is there (`Agreed`); a process is ready, and then serves, only after the last check
  (`Entered`).
* `ReportHonestAlways`: a file is in one goroutine's hand at most (`InHand`) and what has not
  been taken or listed yet is as it was (`Untouched`, `Pristine`), so that its one result speaks
  of its own head (`Honest`); the loop that sends leaves nothing over unless the context ended,
  so that a prune follows a complete scan (`Complete`).
* `DocumentsKeptAlways`, without premise: what a request has got done is there as it was sent,
  unless a person has come between, which `disturbed` records (`Faithful`).
* `AnsweredOnceAlways`: what runs still waits for its answer, and only a message that expects
  one runs (`Dialogue`).
* `MachinesTypeCorrect`, `MachinesKeepTheirPromises`: the same of the sum `MachinesSpec`, which the
  run `machines` checks.

`DecisionsProofs`
* `RulesHonestAlways` (`RulesHonest`), for every list of rules and every set of assets that can be
  written (`Written`), over any labels, addresses and path characters, and any limits.  The loop over the rules is a fold,
  recursive over a sequence; `OrderIsNoMatter` gives what it computes in closed form
  (`Judgement`: an exclusion anywhere, else any rule that covers) and shows by a smallest set of
  places where the two would differ (`SmallestPart`) that there is none.  `MatchesIsCovers` is the
  match of one rule with one asset: suffixes of labels, blocks of addresses, and, in
  `PathIsPieces`, that a path is a prefix up to a slash exactly when its segments are a prefix
  of the other's segments, by the places where paths are cut (`StopsOf`, `FirstListed`).
  `NormalIsNormal` and `ManifestFits` are why a published snapshot is accepted exactly if none of
  its values has grown too long (`SnapshotIsValid`).
* `ChunksKeptAlways` (`ChunksKept`), for any alphabet, lines, blocks and limits, and any chunk size
  above the overlap (`config.go` asks for at most half of it; the alphabet lacks the one
  "character" that stands for the error of a join).  It has three parts:
  * `TextRebuiltAlways`: the windows are recursive over the start; `WindowsExist` and
    `WindowsMarch` say that they go on by a step, that only the last reaches the end, and
    that there are no others.  `JoinNext` is one step of the join, and `ChunksJoin` all of
    them: after a chunk, what is joined is the text up to that chunk's end.
  * `SectionsAreKept`, for lines over any characters: after `k` lines the sections are the lines from each start to the next
    (`CutAt`); a heading opens one, any other line lengthens the last (`LineGathered`); the starts
    so found are all there are, in the one ascending order (`OneAscent`).  `BodyKeeps`: what is
    put before a section leaves it whole, behind the front matter and with the title's text
    in it (`WithinBeginning`, `WithinBoth`, `PrefixOccurs`: what begins a text occurs in it).
  * `BlocksAreCovered`: the parts of blocks are told apart by block and column (`PartsOfAll`), the
    chunks of a part stand side by side and nowhere else (`Lies`, kept by every further part:
    `PartsLie`), so read in order they are the windows of that part (`PartIsCovered`).
* `WalkCoversAll`, for a ranking of any length and any limit, provided that each target fits in
  a reply by itself: a client that follows `next_offset` sees all of it, in order, once, and is
  told when it ends.  `FittingBegins`: a page keeps a beginning of its targets, never nothing;
  `PageGoesOn`: the next page begins where it stops; so `Len(ranked) + 1` pages are enough.
  That the ranking is a sequence of all entries is shown with `CatalogHonestAlways`.

`LoopExists` is the general fact the loops over a sequence rest on: the recursive function
exists, and its value for the places `1..k` follows from that for `1..(k - 1)`.

`AnswersProofs`
* `AnswersHonestAlways` (`AnswersHonest`), for any chunks, limits and requests; premises: chunks have
  numbers for document, place, score and size (`ChunksFit`), and a store answers best first and
  has one current chunk at a place (`Stocked`), which is what Qdrant and the filter of the query
  give.  `QueryAnswers` and `RankedRanks` say what is asked of a store and how it is ranked; the
  limit, the text budget (`TextAdded`) and `fitSearchResponse` (`FitFits`, a loop that cuts text and
  then drops the last) each keep a beginning of the ranking (`CutFrom`), so nothing better than
  what is shown is left out, and an answer from which nothing was cut has all.  `ItemsCollect` is
  the loop over the groups of a context: rules first, each chunk once.
* `CatalogHonestAlways` (`CatalogHonest`), for any rows, statuses and candidates; premises: a document
  has one live row and its references are a list (`Scanned`), every asset has a status (`StatusesKnown`), two programs have no target in common (`TargetsApart`), a candidate is
  listed once (`ListedOnce`) and fits in a reply by itself (`EntriesFit`).  `CatalogIsSound`: a scan that
  reaches its end sees what is active, and the entries are its targets, with all concrete
  references of their documents unless the mark says that some were cut.  `RankIsOrder`: the five
  numbers an entry is sorted by tell entries apart, so the ranking has each once, and
  `WalkCoversAll` applies.  `RankIsBalanced`: an entry's turn is how many of its band go before
  it, so no band is ahead of another that still has entries by more than one.

`FiguresProofs`
* `FiguresRightAlways` (`FiguresRight`), for any delays, error maps, audit lines and rankings; premises:
  delays are numbers, each check has a set of errors with a code and a class (`FailuresFit`), the lines
  of queries have a day and a size (`LinesFit`).  It has four parts: `BackoffIsDoubled`
  (that `2 ^ (n + 1)` is twice `2 ^ n` comes from counting subsets, as the provers know nothing of
  powers); `ValidationIsTrue` (`OneMoreCheck` follows the loop over the checks, `ChecksOfRole` says that
  it starts with the configuration); `UsageIsTrue` (every figure is a sum over the places
  of the counted lines, if there is a report; `CountedLine` adds one line, `PartsAdd` splits it by
  rows, so that rows and totals count the same lines); `ScoresAreRight` (what is found among the first `k` is found among the first `k + 1`, and a
  list has no more elements than its distinct ones times the most frequent one's count).

Assumptions: each module names those of its constants; the ones with content are
`NoApprovalIsNoRecord` (`Publication`: the missing approval is no approval) and
`BlocksAreNumbers` (`ScopeRules`: a power of two is a positive number, which the provers have no
axiom for).  TLC evaluates both, and in `MCDecisions` also the premises of `ChunksKeptAlways`,
`AnswersHonestAlways`, `CatalogHonestAlways` and `FiguresRightAlways` of the inputs of the run
`decisions`; of `RulesHonestAlways` (assets as they can be written) the inputs are built by the
operators the premise names.

Only model-checked: liveness (`IngestEnds`, `WorkerProgress`, `EveryRequestAnswered`,
`MachinesReturn`), which is beyond the prover, as is `ENABLED`; and `IngestServes`.  Every other property
of the passing runs is stated by a theorem.

## Not modelled

* text processing: parsing of Markdown and metadata, the formats converters read, code
  analysis (`ast.go`), the wording of reports and answers.  They transform one text by rules
  about characters; what could be wrong in them is not a matter of states, and a model would
  repeat the program;
* configuration, set-up, login, doctor, inventory: sequential, and read-only or about files of
  one user.  Only their exit codes and the refusals a worker meets at its start are modelled;
* the legacy ingestion and search path of `worker.go`, which no command reaches;
* deploy, backup and release scripts and the security gate: shell and workflow files that
  run by hand or in a pipeline, on one machine;
* external, and modelled only as the code relies on it: the Qdrant server (single calls are
  atomic per point, a filter is evaluated with the write), the embedding server, RSA and
  JWT verification, fsnotify, the file system.

## Plan

Open, in the order of what they would add:

1. a third thread in `publication_threads` and a second revision in `ingest`, which are beyond a
   run of minutes today, and a proof of `IngestServes`;
2. the configuration layer: the order in which file, environment and flags override each other;
3. the parsers of `converter.go` before `ChunkConvertedDocument`, as far as they decide what becomes
   a block.
