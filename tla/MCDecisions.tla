------------------------------- MODULE MCDecisions -------------------------------
(* The inputs: every text, document, rule list, store, page and report of     *)
(* small sizes over few distinct parts.                                       *)
EXTENDS Decisions

MCSizings   == {s \in (1..4) \X (0..2) : s[2] <= s[1] \div 2}
\* A title, one that begins with it, one inside a heading, one that is indented.
MCLines     == {Blank, Fence, <<"#", "_", "A">>, <<"#", "_", "A", "v">>, <<"#", "#", "_", "A">>,
                <<"_", "#", "_", "B", "_">>, <<"t">>}
MCBlocks    == {[kind |-> "paragraph", length |-> n] : n \in {0, 1, 3, 5}}
                 \union {[kind |-> "table_row", length |-> 4, names |-> <<n, 1>>, cells |-> <<c, d>>] :
                           n \in {1, 2, 4}, c, d \in {0, 1, 3}}

\* Addresses of two bits, printed with a label for each.
MCAddressOf == [name \in {"0", "1"} \X {"0", "1"} |->
                 (IF name[1] = "1" THEN 2 ELSE 0) + (IF name[2] = "1" THEN 1 ELSE 0)]

MCAssets ==
  {WrittenHost(<<"a", "x">>, "plain"), WrittenHost(<<"x">>, "upper"), WrittenHost(<<"a", "x">>, "dot"),
   WrittenIP(<<"0", "1">>, "plain"), WrittenIP(<<"1", "1">>, "upper"), WrittenHost(<<"0", "1">>, "plain"),
   WrittenIP(<<"x">>, "plain"), WrittenWildcard(<<"x">>, "plain"),
   WrittenURL("https", <<"a", "x">>, 0, <<>>, "plain"),
   WrittenURL("https", <<"a", "x">>, 443, <<"/", "p">>, "upper"),
   WrittenURL("https", <<"a", "x">>, 0, <<"/", "p", "/", "q">>, "plain"),
   WrittenURL("https", <<"a", "x">>, 0, <<"/", "p", "q">>, "plain"),
   WrittenURL("https", <<"x">>, 0, <<"/", " ", "/", " ">>, "plain"),
   WrittenURL("http", <<"1", "1">>, 0, <<"/", "p", "/">>, "plain")}
MCRuleAssets == MCAssets \union
  {WrittenCIDR(2, 1), WrittenCIDR(0, 0), WrittenCIDR(1, 1), WrittenWildcard(<<"1">>, "upper"),
   WrittenWildcard(<<"a", "x">>, "plain"), WrittenURL("https", <<"x">>, 0, <<"/", " ">>, "plain"),
   WrittenURL("https", <<"a", "x">>, 0, <<"/", "p", "/", "q", "/">>, "plain")}
MCRules == [action : {"include", "exclude"}, asset : MCRuleAssets]
MCAssetSets == {S \in SUBSET {a \in MCAssets : Normalize(a) # Invalid} : Cardinality(S) <= 1}
                 \union {{WrittenIP(<<"0", "1">>, "plain"), WrittenHost(<<"a", "x">>, "plain")},
                          {WrittenIP(<<"1", "1">>, "plain"), WrittenIP(<<"0", "1">>, "plain")}}

\* Chunks of two documents, one of them in an old revision too, by score.
Stored(doc, ord, current, mine, kind, asset, score, size) ==
  [doc |-> doc, ord |-> ord, current |-> current, mine |-> mine, kind |-> kind, asset |-> asset,
   score |-> score, size |-> size]
Places == {<<1, 0, TRUE>>, <<1, 0, FALSE>>, <<2, 0, TRUE>>, <<2, 1, TRUE>>}
StoresOf(places) ==
  {SetToSortSeq({Stored(p[1], p[2], p[3], p[2] = 0 \/ mine, IF p[1] = 1 THEN kind ELSE "note", p[2] = 0 \/ mine, score[p], size[p]) : p \in places},
                LAMBDA a, b : a.score > b.score \/ (a.score = b.score /\ (a.doc > b.doc \/ (a.doc = b.doc /\ <<a.ord, a.current>> = <<0, TRUE>>)))) :
     mine \in BOOLEAN, kind \in {"rules", "note"}, score \in [places -> 1..2], size \in [places -> {1, 3}]}
MCStores == UNION {StoresOf(places) : places \in SUBSET Places}

\* Rows of two programs, and entries of every coverage.
Row(doc, program, target, kind, latest, refs, live) ==
  [doc |-> doc, program |-> program, target |-> target, kind |-> kind, source |-> kind, latest |-> latest,
   refs |-> refs, mine |-> doc # 9, live |-> live]
MCConcrete == {"w", "x", "y", "z"}
\* A document has one live row.
MCRowsOfOne ==
  {<<>>} \union
  {p \in {<<Row(d, 1, t, k, 1, a, l), Row(2, 1, u, "note", 1, b, m)>> :
             d \in 1..2, t, u \in 0..2, k \in {"recon", "rules"},
             a, b \in {<<>>, <<"*.x">>, <<"x">>, <<"x", "*.x", "y">>}, l, m \in BOOLEAN} :
     p[1].doc # p[2].doc \/ ~(p[1].live /\ p[2].live)}
MCRowsOfTwo == {<<>>, <<Row(4, 2, 3, "note", 2, <<"y">>, TRUE), Row(9, 2, 4, "note", 2, <<"y">>, TRUE)>>,
                <<Row(4, 2, 3, "note", 1, <<"x", "y", "z">>, FALSE), Row(4, 2, 3, "note", 1, <<"y", "x", "y", "z">>, TRUE)>>,
                <<Row(4, 2, 3, "note", 1, <<"x", "y", "x", "z", "*.x">>, TRUE)>>,
                <<Row(4, 2, 3, "note", 1, <<"w", "x", "y">>, TRUE), Row(5, 2, 3, "note", 1, <<"z">>, TRUE)>>,
                <<Row(4, 2, 3, "note", 1, <<"w", "x", "y", "z">>, TRUE)>>}
MCStatusMaps == {[x |-> s, y |-> t, z |-> "unknown", w |-> "unknown"] : s, t \in {"authorized", "out_of_scope", "unknown"}}

Entry(t, recon, support, sources, bytes) ==
  [target |-> t, program |-> 1, recon |-> recon, support |-> support, band |-> Band(recon, support),
   sources |-> sources, latest |-> 1, status |-> "unknown", bytes |-> bytes]
Entries(t, b) == {Entry(t, r, s, n, b) : r, s \in 0..1, n \in 1..2}
MCEntrySets == {{a, b, c, d} : a \in Entries(1, 1), b \in Entries(2, 2), c \in Entries(3, 1), d \in Entries(4, 2)}
                 \union {{}} \union {{a} : a \in Entries(1, 1)}

\* Errors of each class for each check, and one of them for every check.
Error(code, grpc, net, words) == [code |-> code, grpc |-> grpc, net |-> net, words |-> words]
MCErrors == {Error(10, "other", FALSE, {}), Error(0, "denied", FALSE, {"tls"}), Error(0, "unavailable", FALSE, {"tls"}),
             Error(0, "unavailable", FALSE, {}), Error(0, "other", TRUE, {"certificate"}),
             Error(0, "other", FALSE, {"incompatible", "credential"}), Error(0, "other", FALSE, {"partial"})}
MCFailureMaps ==
  LET checks == ToSet(Checks(TRUE))
      some(e) == {[c \in checks |-> IF c \in S THEN {e} ELSE {}] : S \in SUBSET checks}
  IN  UNION {some(e) : e \in MCErrors}
        \union {[c \in checks |-> IF c = a THEN {e} ELSE IF c = b THEN {f} ELSE {}] : a, b \in checks, e, f \in MCErrors}

Used(tool, program, device, day, failed, size) ==
  [tool |-> tool, program |-> program, device |-> device, day |-> day, failed |-> failed, cut |-> failed, size |-> size]
MCAuditLines == {Unreadable, TooLong, Used("hive_list_targets", 1, 1, 1, FALSE, 1)}
             \union {Used("hive_search", p, d, y, d = 1, y + 1) : p, d \in 1..2, y \in 0..2}

(* These inputs are such as the theorems suppose.                             *)
EveryChunk == UNION {ToSet(stored) : stored \in MCStores}
EveryRow   == UNION {ToSet(rows) : rows \in MCRowsOfOne \union MCRowsOfTwo}
EveryEntry == UNION MCEntrySets

ASSUME ChunkingInputs ==
  /\ MaxLength \in Nat /\ "inconsistent" \notin Characters
  /\ Lines \subseteq Seq(UNION {ToSet(line) : line \in Lines})
  /\ \A s \in Sizings : s[1] \in Nat \ {0} /\ s[2] \in Nat /\ s[2] < s[1]
  /\ \A b \in Blocks : BlockFits(b)

ASSUME RetrievalInputs ==
  /\ EveryChunk # {} /\ ChunksFit(EveryChunk)
  /\ \A stored \in Stores : Stocked(stored, EveryChunk)

ASSUME CatalogInputs ==
  /\ EntriesFit(EveryEntry) /\ \A entries \in EntrySets : ListedOnce(entries, EveryEntry)
  /\ Orders \subseteq OrderNames /\ Limits \subseteq Nat \ {0}
  /\ \A rows \in RowsOfOne \union RowsOfTwo : Scanned(rows, EveryRow)
  /\ \A status \in StatusMaps : StatusesKnown(status)
  /\ \A one \in RowsOfOne, two \in RowsOfTwo : TargetsApart(one, two)

ASSUME FiguresInputs ==
  Delays \subseteq Int /\ (\A errors \in FailureMaps : FailuresFit(errors)) /\ LinesFit(AuditLines)
================================================================================
