-------------------------------- MODULE Chunking --------------------------------
(***************************************************************************)
(* What a document becomes: chunkRunes and chunkMarkdown                   *)
(* (server/revision.go), ChunkConvertedDocument (server/converter.go), and *)
(* joinOverlappingChunks (server/context.go), which readers use to rebuild *)
(* an approved scope manifest from the chunks of its revision.             *)
(*                                                                         *)
(* A text is a sequence of characters, "_" being the white space; markdown *)
(* is a sequence of lines, and is cut by lines: which character ends a     *)
(* chunk is chunkRunes' part.                                              *)
(***************************************************************************)
EXTENDS Integers, Sequences, SequencesExt, Lists

Least(a, b) == IF a < b THEN a ELSE b

\* strings.TrimSpace.
Trim(s, blank) ==
  LET solid == {i \in DOMAIN s : s[i] # blank}
  IN  IF solid = {} THEN <<>> ELSE SubSeq(s, Min(solid), Max(solid))

(***************************************************************************)
(* chunkRunes and the loop of addText: windows of the text, as intervals   *)
(* <<start, end>> with the end excluded.  Both stop with the window that   *)
(* reaches the end of the text.                                            *)
(***************************************************************************)
(* Mutant: the loop goes on while a window may start. *)
UntilStartEnds(length, size, step) ==
  [i \in 1..((length + step - 1) \div step) |-> <<(i - 1) * step, Least((i - 1) * step + size, length)>>]

Windows(length, size, step) ==
  LET from[start \in 0..length] ==
        LET end == Least(start + size, length)
        IN  <<<<start, end>>>> \o (IF end = length THEN <<>> ELSE from[start + step])
  IN  from[0]

Cut(text, windows) == [i \in DOMAIN windows |-> SubSeq(text, windows[i][1] + 1, windows[i][2])]

ChunkText(text, max, overlap) ==
  LET kept == Trim(text, "_")
  IN  IF kept = <<>> THEN <<>> ELSE Cut(kept, Windows(Len(kept), max, max - overlap))

(***************************************************************************)
(* joinOverlappingChunks.                                                  *)
(***************************************************************************)
Broken == <<"inconsistent">>

JoinOne(joined, next, overlap) ==
  LET shared == Least(overlap, Least(Len(joined), Len(next)))
  IN  IF joined = Broken \/ ~IsSuffix(SubSeq(next, 1, shared), joined) THEN Broken
      ELSE joined \o SubSeq(next, shared + 1, Len(next))

Join(chunks, overlap) ==
  FoldLeft(LAMBDA joined, next : JoinOne(joined, next, overlap), Head(chunks), Tail(chunks))

(***************************************************************************)
(* chunkMarkdown, before its sections are cut by chunkRunes.  A line is a  *)
(* sequence of characters, a text a sequence of lines, the empty text has  *)
(* none.                                                                   *)
(***************************************************************************)
Blank == <<>>
Fence == <<"-", "-", "-">>

\* strings.TrimSpace, of a line, and on one side of a line that is not blank.
Solid(line)     == {i \in DOMAIN line : line[i] # "_"}
TrimLine(line)  == Trim(line, "_")
TrimLeft(line)  == SubSeq(line, Min(Solid(line)), Len(line))
TrimRight(line) == SubSeq(line, 1, Max(Solid(line)))

\* strings.TrimSpace, of a text: blank lines at its ends, and the white space at its two ends.
TrimText(lines) ==
  LET solid == {i \in DOMAIN lines : Solid(lines[i]) # {}}
      low   == Min(solid)
      high  == Max(solid)
      At(i) == IF i = low THEN IF i = high THEN TrimLine(lines[i]) ELSE TrimLeft(lines[i])
               ELSE IF i = high THEN TrimRight(lines[i]) ELSE lines[i]
  IN  IF solid = {} THEN <<>> ELSE [n \in 1..(high - low + 1) |-> At(low + n - 1)]

\* strings.HasPrefix, of texts: whole lines, and the beginning of a line for the last one.
StartsWith(text, part) ==
  /\ Len(part) <= Len(text) /\ \A i \in 1..Len(part) - 1 : text[i] = part[i]
  /\ part # <<>> => IsPrefix(part[Len(part)], text[Len(part)])

\* strings.Contains, of a text and a line.
Occurs(part, line) ==
  \E k \in 0..(Len(line) - Len(part)) : \A i \in 1..Len(part) : line[k + i] = part[i]
HasInside(text, part) == \E i \in DOMAIN text : Occurs(part, text[i])

IsTitle(line)   == IsPrefix(<<"#", "_">>, TrimLine(line))
IsHeading(line) == IsPrefix(<<"#">>, TrimLine(line))

PrefixEnd(lines) ==
  LET ends == {i \in 2..Len(lines) : TrimLine(lines[i]) = Fence}
  IN  IF lines = <<>> \/ TrimLine(lines[1]) # Fence \/ ends = {} THEN 0
      ELSE CHOOSE i \in ends : \A j \in ends : i <= j

Metadata(lines) == TrimText(SubSeq(lines, 1, PrefixEnd(lines)))

\* The first title, wherever it stands: in a front matter, a comment looks like one.
Titles(lines) == {i \in DOMAIN lines : IsTitle(lines[i])}
Title(lines)  == lines[CHOOSE i \in Titles(lines) : \A j \in Titles(lines) : i <= j]

Prefix(lines) ==
  IF Titles(lines) = {} \/ HasInside(Metadata(lines), Title(lines)) THEN Metadata(lines)
  ELSE IF Metadata(lines) = <<>> THEN <<TrimLine(Title(lines))>>
  ELSE Append(Metadata(lines), TrimRight(Title(lines)))

Gather(sections, line) ==
  IF sections = <<>> \/ IsHeading(line) THEN Append(sections, <<line>>)
  ELSE [sections EXCEPT ![Len(sections)] = Append(@, line)]

Sections(lines) ==
  FoldLeft(LAMBDA sections, line : Gather(sections, line), <<>>,
           SubSeq(lines, PrefixEnd(lines) + 1, Len(lines)))

Body(lines, section) ==
  IF Titles(lines) # {} /\ StartsWith(section, <<Title(lines)>>) /\ Metadata(lines) # <<>>
    THEN Metadata(lines) \o section
  ELSE IF ~StartsWith(section, Prefix(lines)) THEN Prefix(lines) \o <<Blank>> \o section
  ELSE section

Bodies(lines) == [i \in DOMAIN Sections(lines) |-> Body(lines, TrimText(Sections(lines)[i]))]

(***************************************************************************)
(* ChunkConvertedDocument.  A block is a paragraph or a row; a row too     *)
(* long for a chunk is cut by cells, each behind the name of its column.   *)
(* A chunk says where it lies: block, column (0 for a block), from, to.    *)
(***************************************************************************)
NoChunks == <<[block |-> 0]>>

Cell(block, column, prefix, length) == [block |-> block, column |-> column, prefix |-> prefix, length |-> length]

Parts(block, number, max) ==
  IF block.kind = "table_row" /\ block.length > max
    THEN [i \in DOMAIN block.cells |-> Cell(number, i, block.names[i], block.cells[i])]
    ELSE <<Cell(number, 0, 0, block.length)>>

OverlapFor(capacity, overlap) == IF overlap >= capacity THEN capacity \div 2 ELSE overlap

Capacity(part, max) == max - part.prefix

AddPart(chunks, part, max, overlap, limit) ==
  LET capacity == Capacity(part, max)
      windows == Windows(part.length, capacity, capacity - OverlapFor(capacity, overlap))
  IN  IF chunks = NoChunks \/ capacity < 1 THEN NoChunks
      ELSE IF Len(chunks) + Len(windows) > limit THEN NoChunks
      ELSE chunks \o [i \in DOMAIN windows |->
                        [block |-> part.block, column |-> part.column, from |-> windows[i][1],
                         to |-> windows[i][2], length |-> part.prefix + windows[i][2] - windows[i][1]]]

ChunkBlocks(blocks, max, overlap, limit) ==
  LET parts == FlattenSeq([n \in DOMAIN blocks |-> Parts(blocks[n], n, max)])
  IN  FoldLeft(LAMBDA chunks, part : AddPart(chunks, part, max, overlap, limit), <<>>, parts)
----------------------------------------------------------------------------
(***************************************************************************)
(* What chunks are meant to be.                                            *)
(***************************************************************************)
\* No chunk says only what its predecessor said, and none is too long.
EachAdds(windows, max) ==
  /\ \A i \in DOMAIN windows : windows[i][2] - windows[i][1] <= max
  /\ \A i \in 1..Len(windows) - 1 : /\ windows[i + 1][1] <= windows[i][2]
                                    /\ windows[i + 1][2] > windows[i][2]

\* The lines of every section, in order; each behind the front matter, and somewhere in it
\* the text of the title (it may be the beginning of the section's own heading).
KeepsSections(lines, bodies) ==
  LET rest   == SubSeq(lines, PrefixEnd(lines) + 1, Len(lines))
      starts == {i \in DOMAIN rest : i = 1 \/ IsHeading(rest[i])}
      start  == InOrder(starts, {p \in starts \X starts : p[1] < p[2]})
      end(n) == IF n = Cardinality(starts) THEN Len(rest) ELSE start[n + 1] - 1
  IN  /\ Len(bodies) = Cardinality(starts)
      /\ \A n \in DOMAIN bodies :
           /\ IsSuffix(TrimText(SubSeq(rest, start[n], end(n))), bodies[n])
           /\ StartsWith(bodies[n], Metadata(lines))
           /\ Titles(lines) # {} => HasInside(bodies[n], TrimLine(Title(lines)))

\* Every character of every paragraph and cell is in a chunk, and no chunk is too long.
CoversBlocks(blocks, chunks, max) ==
  /\ \A i \in DOMAIN chunks : chunks[i].length <= max
  /\ \A n \in DOMAIN blocks : \A p \in DOMAIN Parts(blocks[n], n, max) :
       LET part == Parts(blocks[n], n, max)[p]
           mine == AtPlaces(chunks, {i \in DOMAIN chunks : chunks[i].block = n /\ chunks[i].column = part.column})
       IN  /\ mine # <<>> /\ mine[1].from = 0 /\ Last(mine).to = part.length
           /\ EachAdds([i \in DOMAIN mine |-> <<mine[i].from, mine[i].to>>], max)
===============================================================================
