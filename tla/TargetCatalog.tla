------------------------------ MODULE TargetCatalog ------------------------------
(***************************************************************************)
(* hive_list_targets (server/target_catalog.go): the projects named by the *)
(* active documents of a program or of all programs, how far each is       *)
(* covered and authorized, their ranking, and the pages of the answer.     *)
(*                                                                         *)
(* A row of the scan is a record: doc, program, target (0 without a        *)
(* reviewed registration; the number gives the order of names), kind,      *)
(* source, latest, refs (its observed_targets, then its asset_refs), mine  *)
(* (of this hive, a permitted classification, the program's path) and live *)
(* (its head is active and names it).                                      *)
(***************************************************************************)
EXTENDS Integers, Sequences, SequencesExt, FiniteSetsExt, Lists

CONSTANTS
  MostScanned,     \* maxCatalogScanDocuments
  MostAssets,      \* maxCatalogAssetsPerTarget
  MostNamed,       \* maxCatalogAssetsPerDocument
  Concrete,        \* the references that are hosts, addresses or URLs, not wildcards or ranges
  MostShown,       \* the first 20 assets of a target are shown
  MostPrograms,    \* maxCatalogPrograms
  MostReply        \* maxCatalogResponseBytes

ASSUME CatalogAssumption == {MostScanned, MostAssets, MostNamed, MostShown, MostPrograms, MostReply} \subseteq Nat \ {0}

Lower(a, b) == IF a < b THEN a ELSE b

(***************************************************************************)
(* The rows that count: the first live row of each document, unless it is  *)
(* of a scope manifest or of rules.                                        *)
(***************************************************************************)
Counts(rows, i) ==
  /\ rows[i].mine /\ rows[i].live
  /\ \A j \in 1..i - 1 : rows[j].doc = rows[i].doc => ~(rows[j].mine /\ rows[j].live)

Visible(rows) ==
  LET scanned == SubSeq(rows, 1, Lower(MostScanned, Len(rows)))
  IN  {scanned[i] : i \in {k \in DOMAIN scanned : Counts(scanned, k) /\ scanned[k].kind \notin {"scope", "rules"}}}

Unregistered(rows) == {r \in Visible(rows) : r.target = 0}
TargetsOf(rows)    == {r.target : r \in Visible(rows)} \ {0}
RowsOf(rows, t)    == {r \in Visible(rows) : r.target = t}

(***************************************************************************)
(* catalogAssetsFromPayload goes through the references of a document      *)
(* until it has enough assets; a reference it does not come to is told.    *)
(***************************************************************************)
AssetsAmong(refs, places) == {refs[i] : i \in places} \intersect Concrete

Read(refs) == {i \in DOMAIN refs : Cardinality(AssetsAmong(refs, 1..i - 1)) < MostNamed}

AssetsNamed(refs) == AssetsAmong(refs, Read(refs))

(***************************************************************************)
(* completeCatalogCandidate: the summary counts every asset kept, not only *)
(* those shown.                                                            *)
(***************************************************************************)
\* Those beyond the limit are dropped in the order of the rows.
AssetsOf(rows, t) ==
  FoldLeft(LAMBDA kept, r : IF r \notin RowsOf(rows, t) THEN kept
                            ELSE FoldSet(LAMBDA a, k : IF Cardinality(k) < MostAssets THEN k \union {a} ELSE k,
                                         kept, AssetsNamed(r.refs)),
           {}, rows)

Summary(authorized, excluded, unknown) ==
  CASE authorized > 0 /\ excluded + unknown > 0 -> "mixed"
    [] authorized > 0 /\ excluded + unknown = 0 -> "authorized"
    [] authorized = 0 /\ excluded > 0 /\ unknown = 0 -> "out_of_scope"
    [] OTHER                                    -> "unknown"

Band(recon, support) ==
  CASE recon = 0 -> "unmapped" [] recon > 0 /\ support = 0 -> "emerging" [] OTHER -> "ready"

\* status: what effectiveScopeStatus says of each asset under the approved manifest.
EntryOf(rows, t, status) ==
  LET mine    == RowsOf(rows, t)
      assets  == AssetsOf(rows, t)
      number(s) == Cardinality({a \in assets : status[a] = s})
      recon   == Cardinality({r \in mine : r.kind \notin {"note", "evidence"}})
      support == Cardinality(mine) - recon
  IN  [target  |-> t, program |-> (CHOOSE r \in mine : TRUE).program,
       recon   |-> recon, support |-> support, band |-> Band(recon, support),
       sources |-> Cardinality({r.source : r \in mine} \ {""}),
       latest  |-> Max({r.latest : r \in mine}),
       status  |-> Summary(number("authorized"), number("out_of_scope"), number("unknown")),
       bytes   |-> 1 + Lower(Cardinality(assets), MostShown)]

Clipped(rows, t) ==
  \/ \E r \in RowsOf(rows, t) : Read(r.refs) # DOMAIN r.refs
  \/ AssetsOf(rows, t) # UNION {AssetsNamed(r.refs) : r \in RowsOf(rows, t)}
  \/ Cardinality(AssetsOf(rows, t)) > MostShown

\* listTargetsInProgram, before its ranking.
InProgram(rows, status) ==
  [entries      |-> {EntryOf(rows, t, status) : t \in TargetsOf(rows)},
   unregistered |-> Cardinality(Unregistered(rows)),
   truncated    |-> Len(rows) > MostScanned \/ \E t \in TargetsOf(rows) : Clipped(rows, t)]

\* listTargetsAcrossPrograms: programs is the sorted sequence of those allowed or found.
AcrossPrograms(programs, rowsOf, status) ==
  LET asked == {programs[i] : i \in 1..Lower(MostPrograms, Len(programs))}
      answer == [p \in asked |-> InProgram(rowsOf[p], status)]
  IN  [entries      |-> UNION {answer[p].entries : p \in asked},
       unregistered |-> FoldSet(LAMBDA p, n : n + answer[p].unregistered, 0, asked),
       truncated    |-> Len(programs) > MostPrograms \/ \E p \in asked : answer[p].truncated]

(***************************************************************************)
(* orderCatalogCandidates: a sort, and in the balanced order the bands     *)
(* take turns.                                                             *)
(***************************************************************************)
BandRank == [emerging |-> 0, ready |-> 1, unmapped |-> 2]

SortKey(e, order) ==
  CASE order = "most_documented" -> <<-e.sources, -(e.recon + e.support)>>
    [] order = "needs_recon"     -> <<e.recon, e.recon + e.support>>
    [] order = "balanced"        -> <<BandRank[e.band], -e.sources>>

Earlier(a, b, order) ==
  LET key(e) == SortKey(e, order) \o <<-e.latest, e.program, e.target>>
  IN  \E i \in 1..5 : key(a)[i] < key(b)[i] /\ \A j \in 1..i - 1 : key(a)[j] = key(b)[j]

\* The turn in which the balanced order takes an entry: how many of its band go before it.
Turn(e, entries, order) == Cardinality({x \in entries : x.band = e.band /\ Earlier(x, e, order)})

\* A turn takes the first that is left of every band that has some left.
TakenBefore(a, b, entries, order) ==
  LET first == Turn(a, entries, order) second == Turn(b, entries, order)
  IN  first < second \/ (first = second /\ BandRank[a.band] < BandRank[b.band])

Rank(entries, order) ==
  InOrder(entries, {p \in entries \X entries :
                      IF order = "balanced" THEN TakenBefore(p[1], p[2], entries, order) ELSE Earlier(p[1], p[2], order)})

(***************************************************************************)
(* catalogPageBounds and fitCatalogResponse: a page that is too big loses  *)
(* its last targets, and the next page begins with the first one lost.     *)
(* next is -1 when no page follows.                                        *)
(***************************************************************************)
PageBounds(total, offset, limit) ==
  IF offset >= total THEN <<total, total>>
  ELSE <<offset, IF limit < total - offset THEN offset + limit ELSE total>>

Size(targets) == FoldLeft(LAMBDA n, e : n + e.bytes, 0, targets)

\* The longest beginning that fits, or nothing.
Fitting(targets) ==
  LET fits == {n \in 0..Len(targets) : Size(SubSeq(targets, 1, n)) <= MostReply}
  IN  SubSeq(targets, 1, Max(fits))

(* Mutant: the next page begins where the limit put it. *)
NextAsBounded(offset, end, total, kept) == IF end < total THEN end ELSE -1

NextOffset(offset, end, total, kept) ==
  IF kept < end - offset THEN offset + kept ELSE IF end < total THEN end ELSE -1

Page(ranked, offset, limit) ==
  LET bounds == PageBounds(Len(ranked), offset, limit)
      kept   == Fitting(SubSeq(ranked, bounds[1] + 1, bounds[2]))
  IN  [targets |-> kept, next |-> NextOffset(bounds[1], bounds[2], Len(ranked), Len(kept))]
----------------------------------------------------------------------------
(***************************************************************************)
(* What a catalog is meant to be.                                          *)
(***************************************************************************)
\* What a client sees that follows next_offset, asking at most pages times.
Walk(ranked, limit, pages) ==
  LET walk[n \in 0..pages] ==
        IF n = 0 THEN [seen |-> <<>>, next |-> 0]
        ELSE LET before == walk[n - 1] page == Page(ranked, before.next, limit)
             IN  IF before.next = -1 THEN before ELSE [seen |-> before.seen \o page.targets, next |-> page.next]
  IN  walk[pages]

\* Among the first n of a balanced ranking no band is two ahead of one that has more to come.
Balanced(ranked) ==
  LET taken(b, n) == Cardinality({i \in 1..n : ranked[i].band = b})
  IN  \A n \in DOMAIN ranked : \A b, c \in DOMAIN BandRank :
        taken(c, n) < taken(c, Len(ranked)) => taken(b, n) <= taken(c, n) + 1
===============================================================================
