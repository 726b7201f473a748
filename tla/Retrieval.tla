-------------------------------- MODULE Retrieval --------------------------------
(***************************************************************************)
(* How the answers of hive_search (server/search.go) and hive_get_context  *)
(* (server/context.go) are put together from stored chunks: the query and  *)
(* the boundary, ranking, the limits, and what is cut when an answer is    *)
(* too big.  ProgramReads has the store change meanwhile; here it is still.*)
(*                                                                         *)
(* A chunk is a record: doc, ord, score, kind, asset (it names the asset   *)
(* asked for), size (bytes of its text), current (the head names its       *)
(* revision) and mine (it is of the program, the scope and a permitted     *)
(* classification).  Sizes and the limits are scaled down.                 *)
(***************************************************************************)
EXTENDS Integers, Sequences, SequencesExt, FiniteSetsExt, Lists

CONSTANTS
  FewestCandidates,   \* candidateLimit is 4 * limit, at least this, 32,
  MostCandidates,     \* and at most this, 80
  MostText,           \* maxSearchTextBytes
  MostBytes,          \* maxSearchResponseBytes
  ItemBytes,          \* what a result takes besides its text
  Slack               \* the 128 bytes cut besides the overflow

ASSUME RetrievalAssumption ==
  /\ {FewestCandidates, MostCandidates, MostText, MostBytes, ItemBytes} \subseteq Nat \ {0} /\ Slack \in Nat

Smaller(a, b) == IF a < b THEN a ELSE b
CandidateLimit(limit) == Smaller(MostCandidates, IF 4 * limit < FewestCandidates THEN FewestCandidates ELSE 4 * limit)

(***************************************************************************)
(* hiveSearchFilter, and enforceSearchBoundary on what comes back.         *)
(***************************************************************************)
Asked(chunk, kind) == chunk.kind = kind /\ (kind = "rules" \/ chunk.asset)

WithinBoundary(chunk, kind) == chunk.mine /\ Asked(chunk, kind)

\* The store answers with the best that match; equal scores in any order: that of the input.
Query(stored, kind, limit) ==
  LET matching == AtPlaces(stored, {i \in DOMAIN stored : WithinBoundary(stored[i], kind)})
  IN  SubSeq(matching, 1, Smaller(CandidateLimit(limit), Len(matching)))

(***************************************************************************)
(* deduplicateSearchPoints, and the order of a search: better first, then  *)
(* by path, then by ordinal.                                               *)
(***************************************************************************)
Place(c) == <<c.doc, c.ord>>

BestOfPlace(chunks) == {c \in chunks : \A e \in chunks : Place(e) = Place(c) => e.score <= c.score}

Before(a, b) ==
  \/ a.score > b.score
  \/ a.score = b.score /\ (a.doc < b.doc \/ (a.doc = b.doc /\ a.ord < b.ord))

Ranked(points) ==
  LET best == BestOfPlace({c \in ToSet(points) : c.current})
  IN  InOrder(best, {p \in best \X best : Before(p[1], p[2])})

(***************************************************************************)
(* HiveSearch, after the filter: the limit, then the text budget, then     *)
(* fitSearchResponse.  A result is a chunk and the bytes kept of its text. *)
(***************************************************************************)
Result(chunk, kept) == [chunk |-> chunk, kept |-> kept]
TextOf(results) == FoldLeft(LAMBDA n, r : n + r.kept, 0, results)
Bytes(results) == ItemBytes * Len(results) + TextOf(results)

\* Stops with the result that uses the budget up.
AddText(results, chunk) ==
  LET room == MostText - TextOf(results)
  IN  IF results # <<>> /\ room = 0 THEN results ELSE Append(results, Result(chunk, Smaller(chunk.size, room)))

\* Result by result from the end: first its text, then the result.
FitOnce(results) ==
  LET last == Len(results)
      keep == results[last].kept - (Bytes(results) - MostBytes) - Slack
  IN  IF results[last].kept > 0 THEN [results EXCEPT ![last].kept = IF keep < 0 THEN 0 ELSE keep]
      ELSE Front(results)

Fit(results) ==
  LET fits[n \in 0..2 * Len(results)] ==
        IF n = 0 THEN results
        ELSE IF Bytes(fits[n - 1]) <= MostBytes \/ fits[n - 1] = <<>> THEN fits[n - 1]
        ELSE FitOnce(fits[n - 1])
  IN  fits[2 * Len(results)]

(* Mutant: candidates that the query did not return go unnoticed. *)
CutIfOverLimit(points, unique, limit) == Len(unique) > limit

MoreExist(points, unique, limit) == Len(unique) > limit \/ Len(points) >= CandidateLimit(limit)

CutShort(unique, results) ==
  Len(results) < Len(unique) \/ \E i \in DOMAIN results : results[i].kept < results[i].chunk.size

Search(stored, kind, limit) ==
  LET points  == Query(stored, kind, limit)
      unique  == Ranked(points)
      chosen  == SubSeq(unique, 1, Smaller(limit, Len(unique)))
      results == Fit(FoldLeft(AddText, <<>>, chosen))
  IN  [results |-> results, truncated |-> MoreExist(points, unique, limit) \/ CutShort(chosen, results)]

(***************************************************************************)
(* HiveGetContext: rules always, the other groups unless the asset is out  *)
(* of scope; rules first, and fitHiveContext drops whole items from the    *)
(* end.  The header takes room of its own.                                 *)
(***************************************************************************)
Groups(status, requested) ==
  LET kinds == IF status = "out_of_scope" THEN <<"rules">> ELSE <<"rules", "asset", "note">>
  IN  AtPlaces(kinds, {g \in DOMAIN kinds : kinds[g] = "rules" \/ requested = {} \/ kinds[g] \in requested})

\* appendUniqueContextItems
AddUnique(items, results) ==
  LET known(r) == \E i \in DOMAIN items : Place(items[i].chunk) = Place(r.chunk)
  IN  items \o AtPlaces(results, {i \in DOMAIN results : ~known(results[i])})

RulesFirst(a, b) ==
  LET rules(r) == r.chunk.kind = "rules"
  IN  IF rules(a) # rules(b) THEN rules(a) ELSE Before(a.chunk, b.chunk)

TooSmall == [results |-> <<>>, truncated |-> TRUE]

\* The longest beginning that fits, if the header does.
FitContext(items, header, budget) ==
  LET fitting == {n \in 0..Len(items) : header + Bytes(SubSeq(items, 1, n)) <= budget}
  IN  IF fitting = {} THEN <<>> ELSE SubSeq(items, 1, CHOOSE n \in fitting : \A k \in fitting : k <= n)

ContextOf(stored, status, requested, limit, header, budget) ==
  LET groups   == Groups(status, requested)
      searches == [g \in DOMAIN groups |-> Search(stored, groups[g], limit)]
      found  == ToSet(FoldLeft(LAMBDA items, s : AddUnique(items, s.results), <<>>, searches))
      all    == InOrder(found, {p \in found \X found : RulesFirst(p[1], p[2])})
      chosen == SubSeq(all, 1, Smaller(limit, Len(all)))
      fitted == FitContext(chosen, header, budget)
  IN  IF header > budget THEN TooSmall
      ELSE [results |-> fitted,
            truncated |-> Len(fitted) < Len(all) \/ \E g \in DOMAIN searches : searches[g].truncated]
----------------------------------------------------------------------------
(***************************************************************************)
(* What an answer is meant to be.                                          *)
(***************************************************************************)
\* A chunk left out is not better than any shown.
NoneBetter(stored, kind, results) ==
  \A c \in ToSet(stored) : c.mine /\ c.current /\ Asked(c, kind) =>
     \/ \E i \in DOMAIN results : results[i].chunk = c
     \/ \A i \in DOMAIN results : results[i].chunk.score >= c.score

\* Everything that may be shown, and shown whole.
Complete(stored, kinds, results) ==
  \A c \in ToSet(stored) : c.mine /\ c.current /\ (\E k \in kinds : Asked(c, k)) =>
     \E i \in DOMAIN results : results[i].chunk = c /\ results[i].kept = c.size

\* What a shown chunk is allowed to be, and that it is shown once.
Proper(stored, kinds, results) ==
  \A i \in DOMAIN results :
    LET c == results[i].chunk
    IN  /\ c \in ToSet(stored) /\ c.mine /\ c.current /\ \E k \in kinds : Asked(c, k)
        /\ \A j \in DOMAIN results : j # i => Place(results[j].chunk) # Place(c)
===============================================================================
