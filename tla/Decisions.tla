-------------------------------- MODULE Decisions --------------------------------
(***************************************************************************)
(* The computations of ScopeRules, Chunking, Retrieval, TargetCatalog and  *)
(* Operations on every input of small sets: a step asks for one, and what  *)
(* it answers is compared with what it is meant to be.                     *)
(***************************************************************************)
EXTENDS ScopeRules, Chunking, Retrieval, TargetCatalog, Operations

CONSTANTS
  MaxLength, Characters, Lines, Blocks, ChunkLimits, Sizings,    \* Chunking
  Rules, AssetSets,                                              \* ScopeRules
  Stores, Limits, Statuses, Requests, Headers, Budget,           \* Retrieval
  RowsOfOne, RowsOfTwo, StatusMaps, EntrySets, Orders,           \* TargetCatalog
  Delays, FailureMaps, AuditLines, Days, Programs, AllPrograms,  \* Operations
  Paths

VARIABLES asked, answer

Idle == [what |-> "idle"]

DecisionsInit == asked = Idle /\ answer = <<>>

Ask(question, result) == asked' = question /\ answer' = <<result>>

CutText == \E n \in 0..MaxLength + 1 : \E text \in [1..n -> Characters], s \in Sizings :
  Ask([what |-> "text", text |-> text, size |-> s], ChunkText(text, s[1], s[2]))

CutMarkdown == \E n \in 0..MaxLength : \E lines \in [1..n -> Lines] :
  Ask([what |-> "markdown", lines |-> lines], Bodies(lines))

CutBlocks == \E n \in 0..2 : \E blocks \in [1..n -> Blocks], s \in Sizings, limit \in ChunkLimits :
  Ask([what |-> "blocks", blocks |-> blocks, size |-> s], ChunkBlocks(blocks, s[1], s[2], limit))

JudgeAssets == \E n \in 0..2 : \E rules \in [1..n -> Rules], assets \in AssetSets :
  Ask([what |-> "scope", rules |-> rules, assets |-> assets],
      ScopeStatus(ManifestOf(rules), {Normalize(a) : a \in assets}))

PublishRules == \E n \in 0..3 : \E rules \in [1..n -> Rules] :
  Ask([what |-> "snapshot", rules |-> rules], SnapshotOf(ManifestOf(rules)))

AnswerSearch == \E stored \in Stores, limit \in Limits, kind \in {"rules", "note"} :
  Ask([what |-> "search", stored |-> stored, kind |-> kind, limit |-> limit], Search(stored, kind, limit))

AnswerContext == \E stored \in Stores, limit \in Limits, status \in Statuses, requested \in Requests, header \in Headers :
  Ask([what |-> "context", stored |-> stored, status |-> status, requested |-> requested, limit |-> limit],
      ContextOf(stored, status, requested, limit, header, Budget))

ListTargets == \E programs \in {<<1>>, <<1, 2>>, <<1, 3, 2>>}, one \in RowsOfOne, two \in RowsOfTwo, status \in StatusMaps :
  Ask([what |-> "targets", rows |-> one \o (IF Len(programs) > 1 THEN two ELSE <<>>), status |-> status],
      AcrossPrograms(programs, [p \in 1..3 |-> CASE p = 1 -> one [] p = 2 -> two [] p = 3 -> <<>>], status))

RankTargets == \E entries \in EntrySets, order \in Orders, limit \in Limits :
  Ask([what |-> "pages", entries |-> entries, order |-> order],
      LET ranked == Rank(entries, order)
      IN  [ranked |-> ranked, walked |-> Walk(ranked, limit, Len(ranked) + 1)])

WaitAgain == \E first, most \in Delays, failed \in 1..6 :
  Ask([what |-> "backoff", first |-> first, most |-> most, failed |-> failed], Backoff(first, most, failed))

ValidateAll == \E writer \in BOOLEAN, errors \in FailureMaps :
  LET failures == [c \in DOMAIN errors |-> IF errors[c] = {} THEN ExitOK ELSE Classify(CHOOSE e \in errors[c] : TRUE)]
  IN  Ask([what |-> "validate", writer |-> writer, failures |-> failures], Validate(writer, failures))

ReportUsage == \E n, k \in 0..2 : \E one \in [1..n -> AuditLines], two \in [1..k -> AuditLines] :
  \E since \in Days, program \in Programs \union {AllPrograms} :
    n + k <= 3 /\ Ask([what |-> "usage", files |-> <<one, two>>, since |-> since, program |-> program],
                     UsageReport(<<one, two>>, since, program, AllPrograms))

ScoreAnswer == \E n \in 1..2, k \in 0..3 : \E relevant \in [1..n -> Paths], paths \in [1..k -> Paths] :
  Ask([what |-> "score", relevant |-> relevant, paths |-> paths], Score(relevant, paths))

Done == asked # Idle /\ asked' = Idle /\ answer' = <<>>

DecisionsNext ==
  \/ /\ asked = Idle
     /\ \/ CutText \/ CutMarkdown \/ CutBlocks \/ JudgeAssets \/ PublishRules \/ AnswerSearch \/ AnswerContext
        \/ ListTargets \/ RankTargets \/ WaitAgain \/ ValidateAll \/ ReportUsage \/ ScoreAnswer
  \/ Done

DecisionsSpec == DecisionsInit /\ [][DecisionsNext]_<<asked, answer>>
-------------------------------------------------------------------------------
Said == answer[1]

(***************************************************************************)
(* chunkRunes and joinOverlappingChunks: a reader that joins the chunks of *)
(* an approved manifest gets back the text that was approved, whatever     *)
(* repetitions the text has; no chunk repeats its predecessor.             *)
(***************************************************************************)
TextIsRebuilt ==
  asked.what = "text" =>
    LET kept == Trim(asked.text, "_")
    IN  IF kept = <<>> THEN Said = <<>>
        ELSE /\ Join(Said, asked.size[2]) = kept
             /\ EachAdds(Windows(Len(kept), asked.size[1], asked.size[1] - asked.size[2]), asked.size[1])

(***************************************************************************)
(* chunkMarkdown: no line of a document is lost or moved to another        *)
(* section, and every section comes with the front matter and the title.   *)
(***************************************************************************)
SectionsKept == asked.what = "markdown" => KeepsSections(asked.lines, Said)

(***************************************************************************)
(* ChunkConvertedDocument: the chunks of paragraphs and of oversized table *)
(* rows cover every character, within the limit of a chunk, or the         *)
(* document is refused.                                                    *)
(***************************************************************************)
BlocksCovered ==
  asked.what = "blocks" => Said = NoChunks \/ CoversBlocks(asked.blocks, Said, asked.size[1])

(***************************************************************************)
(* effectiveScopeStatus: an asset is authorized by the hosts, the blocks   *)
(* and the path segments that rules cover, and an exclusion wins wherever  *)
(* it stands.                                                              *)
(***************************************************************************)
RulesDecide ==
  asked.what = "scope" => Said = IntendedStatus(ManifestOf(asked.rules), {Normalize(a) : a \in asked.assets})

(***************************************************************************)
(* ScopeStatus and validScopeStatusSnapshot: what a server publishes of an *)
(* approved manifest, its client accepts, unless a value that was short    *)
(* enough when it was approved has grown too long by normalizing.          *)
(***************************************************************************)
SnapshotAccepted ==
  asked.what = "snapshot" /\ Said # <<>> =>
    (SnapshotValid(Said) <=> \A i \in DOMAIN Said : Length(Said[i].asset) <= MostValue)

(***************************************************************************)
(* HiveSearch: results fit, come best first, are of the program and scope  *)
(* and current, each once; and an answer that is not marked truncated has  *)
(* everything that may be shown, whole.                                    *)
(***************************************************************************)
SearchHonest ==
  asked.what = "search" =>
    /\ Bytes(Said.results) <= MostBytes /\ TextOf(Said.results) <= MostText /\ Len(Said.results) <= asked.limit
    /\ \A i, j \in DOMAIN Said.results : i < j => Before(Said.results[i].chunk, Said.results[j].chunk)
    /\ Proper(asked.stored, {asked.kind}, Said.results)
    /\ NoneBetter(asked.stored, asked.kind, Said.results)
    /\ ~Said.truncated => Complete(asked.stored, {asked.kind}, Said.results)

(***************************************************************************)
(* HiveGetContext: an asset out of scope is told rules only; rules are     *)
(* never left out for something else; and an answer that is not marked     *)
(* truncated is complete.                                                  *)
(***************************************************************************)
ContextHonest ==
  asked.what = "context" =>
    LET kinds == ToSet(Groups(asked.status, asked.requested))
        rules == Search(asked.stored, "rules", asked.limit).results
    IN  /\ Proper(asked.stored, kinds, Said.results) /\ Len(Said.results) <= asked.limit
        /\ \A i \in DOMAIN Said.results :
             /\ asked.status = "out_of_scope" => Said.results[i].chunk.kind = "rules"
             /\ Said.results[i].chunk.kind # "rules" => ToSet(rules) \subseteq ToSet(Said.results)
        /\ ~Said.truncated => Complete(asked.stored, kinds, Said.results)

(***************************************************************************)
(* HiveListTargets: a catalog that is not marked truncated names every     *)
(* registered target of an active document, and says one is authorized     *)
(* exactly if it has assets and every asset that its documents name is     *)
(* (wildcards and ranges are not assets).                                  *)
(***************************************************************************)
CatalogTrue ==
  asked.what = "targets" =>
    LET active == {r \in ToSet(asked.rows) : r.mine /\ r.live /\ r.kind \notin {"scope", "rules"} /\ r.target # 0}
        assets(t) == (UNION {ToSet(r.refs) : r \in {s \in active : s.target = t}}) \intersect Concrete
    IN  ~Said.truncated =>
          /\ {e.target : e \in Said.entries} = {r.target : r \in active}
          /\ \A e \in Said.entries :
               (e.status = "authorized") =
                 (assets(e.target) # {} /\ \A a \in assets(e.target) : asked.status[a] = "authorized")

(***************************************************************************)
(* catalogPageBounds and fitCatalogResponse: a client that follows         *)
(* next_offset sees every target once, in the order of the ranking, though *)
(* pages lose targets that do not fit.                                     *)
(***************************************************************************)
PagesCoverCatalog ==
  asked.what = "pages" => Said.walked.seen = Said.ranked /\ Said.walked.next = -1

(***************************************************************************)
(* orderCatalogCandidates: a ranking has every candidate, and the balanced *)
(* one lets no band run ahead of another that has targets left.            *)
(***************************************************************************)
BandsTakeTurns ==
  asked.what = "pages" =>
    /\ ToSet(Said.ranked) = asked.entries /\ Len(Said.ranked) = Cardinality(asked.entries)
    /\ asked.order = "balanced" => Balanced(Said.ranked)

(***************************************************************************)
(* backoffDelay: the delay is the doubled one up to the maximum, which it  *)
(* reaches and never passes, for policies with odd numbers too.            *)
(***************************************************************************)
BackoffDoubles ==
  asked.what = "backoff" =>
    LET first == IF asked.first < 0 THEN 0 ELSE asked.first
    IN  Said = Least(first * 2 ^ (asked.failed - 1), IF asked.most < first THEN first ELSE asked.most)

(***************************************************************************)
(* ValidateOperational: a report is OK only if every check of its role was *)
(* made and passed, and of several failures the smallest code is the exit  *)
(* code.                                                                   *)
(***************************************************************************)
ValidationExits ==
  asked.what = "validate" =>
    LET failed == {asked.failures[Said.checks[i][1]] : i \in {k \in DOMAIN Said.checks : Said.checks[k][2] = "failed"}}
    IN  /\ Said.ok = ([i \in DOMAIN Checks(asked.writer) |-> <<Checks(asked.writer)[i], "passed">>] = Said.checks)
        /\ Said.exit = IF failed = {} THEN ExitOK ELSE Min(failed)
        /\ Said.ok = (Said.exit = ExitOK)

(***************************************************************************)
(* BuildAuditUsageReport: the rows of a report add up to the totals, and a *)
(* row is of one device, program, tool and day.                            *)
(***************************************************************************)
AddsUp(said, lines, since) ==
  LET sum(f) == FoldSet(LAMBDA k, n : n + said.rows[k][f], 0, DOMAIN said.rows)
      of(k)  == {e \in ToSet(lines) : e.tool = k[4] /\ e.day = k[1] /\ e.program = k[3] /\ e.device = k[2]}
  IN  /\ \A f \in DOMAIN NoUse : sum(f) = said.totals[f]
      /\ said.events = said.totals.queries
      /\ \A k \in DOMAIN said.rows : Len(k) = 4 /\ k[1] >= since /\ of(k) # {}

UsageAddsUp == asked.what = "usage" => Said = NoReport \/ AddsUp(Said, FlattenSeq(asked.files), asked.since)

(***************************************************************************)
(* scoreEvalQuery and recallAt: recall grows with k, and the first         *)
(* relevant result is where it stops being zero.                           *)
(***************************************************************************)
RecallGrows ==
  asked.what = "score" =>
    /\ \A k \in 0..Len(asked.paths) :
         /\ HitsAt(asked.relevant, asked.paths, k) <= HitsAt(asked.relevant, asked.paths, k + 1)
         /\ HitsAt(asked.relevant, asked.paths, k) > 0 <=> Said.first \in 1..k
    /\ Said.largest <= Len(asked.paths) /\ Said.distinct * Said.largest >= Len(asked.paths)

(***************************************************************************)
(* chunkRunes, chunkMarkdown, ChunkConvertedDocument: whatever is cut, the *)
(* chunks of a document have all of it, in place and in order.             *)
(***************************************************************************)
ChunksKept == TextIsRebuilt /\ SectionsKept /\ BlocksCovered

(***************************************************************************)
(* effectiveScopeStatus and validScopeStatusSnapshot: an asset is judged   *)
(* as the rules mean it, and rules a server hands out are rules a client   *)
(* takes, but for values that grew past the limit.                         *)
(***************************************************************************)
RulesHonest == RulesDecide /\ SnapshotAccepted

(***************************************************************************)
(* HiveSearch and HiveGetContext: an answer shows only what may be shown,  *)
(* the rules and the best before the rest, and says when it was cut.       *)
(***************************************************************************)
AnswersHonest == SearchHonest /\ ContextHonest

(***************************************************************************)
(* HiveListTargets: the catalog is complete and its pages, one after the   *)
(* other, are the whole ranking, in which every band has its turn.         *)
(***************************************************************************)
CatalogHonest == CatalogTrue /\ PagesCoverCatalog /\ BandsTakeTurns

(***************************************************************************)
(* backoffDelay, ValidateOperational, BuildAuditUsageReport, recallAt: the *)
(* figures the program works with, or shows, are what they are said to be. *)
(***************************************************************************)
FiguresRight == BackoffDoubles /\ ValidationExits /\ UsageAddsUp /\ RecallGrows
----------------------------------------------------------------------------
(***************************************************************************)
(* What the theorems about this module suppose of its inputs, whatever     *)
(* their number and size.                                                  *)
(***************************************************************************)
\* A block has its length; a table row names the column of each of its cells.
BlockFits(b) ==
  /\ b.length \in Nat
  /\ b.kind = "table_row" => b.cells \in Seq(Nat) /\ \A i \in 1..Len(b.cells) : b.names[i] \in Nat

\* What the fields of a chunk are.
ChunksFit(E) == \A c \in E : c.doc \in Int /\ c.ord \in Int /\ c.score \in Int /\ c.size \in Nat

\* What a store is: it answers with the best first, and at a place one chunk is current.
Stocked(stored, E) ==
  /\ stored \in Seq(E)
  /\ \A i, j \in 1..Len(stored) : i < j => stored[i].score >= stored[j].score
  /\ \A c, e \in ToSet(stored) : c.current /\ e.current /\ Place(c) = Place(e) => c = e

Bands == {"emerging", "ready", "unmapped"}
OrderNames == {"most_documented", "needs_recon", "balanced"}

\* What the fields of an entry are; one that is alone fits into a page.
EntriesFit(E) == \A e \in E :
  /\ e.bytes \in Int /\ e.bytes <= MostReply /\ e.band \in Bands
  /\ e.sources \in Int /\ e.recon \in Int /\ e.support \in Int
  /\ e.latest \in Int /\ e.program \in Int /\ e.target \in Int

\* Candidates are targets of programs, each once.
ListedOnce(entries, E) ==
  /\ entries \in SUBSET E /\ IsFiniteSet(entries)
  /\ \A a, b \in entries : a.program = b.program /\ a.target = b.target => a = b

AssetStatuses == {"authorized", "out_of_scope", "unknown"}

\* What a scan returns: of a document one row is live; the references of a row are a list.
Scanned(rows, R) ==
  /\ rows \in Seq(R)
  /\ \A i, j \in 1..Len(rows) :
       rows[i].doc = rows[j].doc /\ rows[i].mine /\ rows[i].live /\ rows[j].mine /\ rows[j].live => i = j
  /\ \A r \in ToSet(rows) : Len(r.refs) \in Nat /\ DOMAIN r.refs = 1..Len(r.refs)

\* Every asset has a status.
StatusesKnown(status) == \A a \in Concrete : status[a] \in AssetStatuses

\* Two programs have no target in common.
TargetsApart(one, two) == \A r \in ToSet(one), s \in ToSet(two) : r.target = s.target => r.target = 0

CheckNames == {"configuration", "audit_storage", "writer_data_directory", "connectivity", "infrastructure",
               "credentials", "audit_validation"}

\* Errors as classifyOperationalError tells them apart.
ErrorFits(e) == e.code \in Int /\ e.grpc \in {"denied", "unavailable", "other"}

FailuresFit(errors) == DOMAIN errors = CheckNames /\ \A c \in CheckNames : \A e \in errors[c] : ErrorFits(e)

\* Lines that can be added up.
LinesFit(L) == \A e \in L : e.tool \in UsageTools => e.day \in Int /\ e.size \in Int
===============================================================================
