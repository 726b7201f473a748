------------------------------ MODULE ProgramReads ------------------------------
(***************************************************************************)
(* HiveSearch (server/search.go) with filterActiveCandidates               *)
(* (server/revision.go), and ScopeStatus (server/scope_status.go) with     *)
(* approvedScopeContent (server/context.go), beside the publications and   *)
(* approvals of ScopeApproval.                                             *)
(*                                                                         *)
(* A reader asks the store several times and has no lock: chunks, heads,   *)
(* tombstones and the approval may change between any two answers.  Reads  *)
(* disturb nothing, so one at a time is enough.  What a search keeps is    *)
(* sorted, cut to the limit and marked in Retrieval.                       *)
(*                                                                         *)
(* upsertControl is one action, as in Publication, and adds one to the     *)
(* control_version of the record: the late creating upsert of              *)
(* ControlRecord, which puts version 1 back, is not among its steps.       *)
(***************************************************************************)
EXTENDS ScopeApproval, Sequences

CONSTANTS
  HashOf,      \* the manifest whose bytes a revision of the scope.json has
  Candidates,  \* candidateLimit: the most points a query returns, by the limit asked for
  MaxVersion   \* bound: the approval record is written that often

ASSUME ReadsAssumption ==
  /\ ManifestDoc \in Docs /\ HashOf \in [Revs -> Manifests]
  /\ Candidates \subseteq Nat \ {0} /\ MaxVersion \in Nat

VARIABLES
  version,   \* control_version of the approval record, 0 without one
  reading,   \* where the reader stands
  wanted,    \* the approval it read first
  wantedVersion,  \* with that version
  most,      \* the most points its query returns
  found,     \* the candidates of the query: points of the data collection
  left,      \* documents not yet filtered
  looked,    \* the document looked at, with its head: <<>>, <<d>> or <<d, head>>
  scopeNow,  \* scopeCache: the scope of the filter, or NoApproval
  kept,      \* what it returns
  inForce,   \* history: the approvals in force since it began
  steady,    \* history: what was served all the time
  named      \* history: what the head of a document named at some time

answerVars  == <<wanted, wantedVersion, most, found, left, looked, scopeNow, kept>>
historyVars == <<inForce, steady, named>>
readVars    == <<reading, answerVars>>
allVars     == <<vars, version, readVars, historyVars>>

\* A point: the chunk of a document's revision with an ordinal.
Points == Docs \X Keys \X (1..Chunks)
Stored == {p \in Points : p[3] <= chunks[p[1]][p[2]]}

ServedNow == {p \in Stored : p[2] \in Served(p[1])}
NamedNow  == {<<d, KeyOf(head[d])>> : d \in {e \in Docs : head[e] # NoHead /\ head[e].state # "deleted"}}

ReadsInit ==
  /\ ApprovalInit /\ version = (IF approval = NoApproval THEN 0 ELSE 1)
  /\ reading = "idle" /\ wanted = NoApproval /\ wantedVersion = 0 /\ most = 0 /\ found = {}
  /\ left = {} /\ looked = <<>> /\ scopeNow = NoApproval /\ kept = {}
  /\ inForce = {} /\ steady = {} /\ named = {}

(***************************************************************************)
(* upsertControl of the approval record: a write that fails after it took  *)
(* effect counts too, also when it repeats what is stored.                 *)
(***************************************************************************)
Written == \E t \in Threads : DemoteScope(t) \/ Activate(t)

MaybeWritten == \E t \in Threads : ActivateFails(t)

Versioned ==
  /\ version' \in version..MaxVersion /\ version' <= version + 1
  /\ Written \/ approval' # approval => version' = version + 1
  /\ ~Written /\ ~MaybeWritten => version' = version

(***************************************************************************)
(* HiveSearch: without an approval record there is no answer.              *)
(***************************************************************************)
SearchStarts ==
  /\ reading = "idle" /\ approval # NoApproval /\ reading' = "query"
  /\ wanted' = approval /\ most' \in Candidates
  /\ UNCHANGED <<wantedVersion, found, left, looked, scopeNow, kept>>

Matching == {p \in Stored : p[2][2] = wanted.scope}

(* The best ones, if more match than the query may return. *)
Query ==
  /\ reading = "query" /\ reading' = "filter"
  /\ \E ps \in SUBSET Matching :
       /\ IF Cardinality(Matching) <= most THEN ps = Matching ELSE Cardinality(ps) = most
       /\ found' = ps
  /\ left' = {p[1] : p \in found'} /\ UNCHANGED <<wanted, wantedVersion, most, looked, scopeNow, kept>>

\* isTombstoned
AsksTombstone(d) ==
  /\ reading = "filter" /\ looked = <<>> /\ d \in left
  /\ IF d \in tomb THEN left' = left \ {d} /\ UNCHANGED looked
                   ELSE looked' = <<d>> /\ UNCHANGED left
  /\ UNCHANGED <<reading, wanted, wantedVersion, most, found, scopeNow, kept>>

AsksHead ==
  /\ reading = "filter" /\ Len(looked) = 1 /\ looked' = Append(looked, head[looked[1]])
  /\ UNCHANGED <<reading, wanted, wantedVersion, most, found, left, scopeNow, kept>>

\* controlScopeRevision, once for a program; without a record the search fails.
AsksScope ==
  /\ reading = "filter" /\ Len(looked) = 2 /\ scopeNow = NoApproval /\ approval # NoApproval
  /\ scopeNow' = approval.scope /\ UNCHANGED <<reading, wanted, wantedVersion, most, found, left, looked, kept>>

(* Mutant: chunks of a revision the head does not name are kept. *)
KeepsAnyRevision(h, k) == h # NoHead /\ h.state # "deleted" /\ scopeNow = k[2]

(* Mutant: only active documents are kept. *)
KeepsActive(h, k) == h # NoHead /\ h.state = "active" /\ KeyOf(h) = k /\ scopeNow = k[2]

Keeps(h, k) == h # NoHead /\ h.state # "deleted" /\ KeyOf(h) = k /\ scopeNow = k[2]

Filters ==
  /\ reading = "filter" /\ Len(looked) = 2 /\ scopeNow # NoApproval
  /\ kept' = kept \union {p \in found : p[1] = looked[1] /\ Keeps(looked[2], p[2])}
  /\ left' = left \ {looked[1]} /\ looked' = <<>>
  /\ UNCHANGED <<reading, wanted, wantedVersion, most, found, scopeNow>>

(* Mutant: the search returns before every candidate was looked at. *)
AnyLeft == TRUE

NoneLeft == left = {}

Returned ==
  /\ reading = "filter" /\ NoneLeft /\ reading' = "found" /\ UNCHANGED answerVars

(***************************************************************************)
(* ScopeStatus: an answer "unapproved" needs one read only.                *)
(***************************************************************************)
StatusStarts ==
  /\ reading = "idle" /\ approval # NoApproval /\ approval.scope # Unapproved
  /\ reading' = "manifestHead" /\ wanted' = approval /\ wantedVersion' = version
  /\ UNCHANGED <<most, found, left, looked, scopeNow, kept>>

ManifestHead ==
  LET h == head[ManifestDoc]
  IN  /\ reading = "manifestHead" /\ h # NoHead /\ h.state # "deleted" /\ h.scope = wanted.scope
      /\ looked' = <<ManifestDoc, h>> /\ reading' = "manifestChunks"
      /\ UNCHANGED <<wanted, wantedVersion, most, found, left, scopeNow, kept>>

ManifestChunks ==
  LET k == KeyOf(looked[2])
  IN  /\ reading = "manifestChunks" /\ chunks[ManifestDoc][k] = Chunks /\ HashOf[k[1]] = wanted.scope
      /\ kept' = {p \in Stored : p[1] = ManifestDoc /\ p[2] = k} /\ reading' = "confirm"
      /\ UNCHANGED <<wanted, wantedVersion, most, found, left, looked, scopeNow>>

(* Mutant: the version of the record is not compared. *)
SameStatus == approval # NoApproval /\ approval.scope = wanted.scope

(* The revision stands for the status and the document hash with it. *)
SameRecord == SameStatus /\ version = wantedVersion

Confirms ==
  /\ reading = "confirm" /\ SameRecord /\ reading' = "told" /\ UNCHANGED answerVars

(***************************************************************************)
(* A call fails, or the answer is refused; and the end of a read.          *)
(***************************************************************************)
ReadEnds ==
  /\ reading # "idle" /\ reading' = "idle" /\ wanted' = NoApproval /\ wantedVersion' = 0 /\ most' = 0 /\ found' = {}
  /\ left' = {} /\ looked' = <<>> /\ scopeNow' = NoApproval /\ kept' = {}

Reads ==
  \/ SearchStarts \/ Query \/ (\E d \in Docs : AsksTombstone(d)) \/ AsksHead \/ AsksScope \/ Filters \/ Returned
  \/ StatusStarts \/ ManifestHead \/ ManifestChunks \/ Confirms \/ ReadEnds

Searches == {"query", "filter", "found"}

\* The histories begin with a read and stop with its answer.
Remembers ==
  LET begins == reading = "idle"
  IN  IF reading' = "idle"
        THEN inForce' = {} /\ steady' = {} /\ named' = {}
        ELSE IF reading \in {"found", "told"}
        THEN UNCHANGED historyVars
        ELSE /\ inForce' = (IF reading' \in Searches THEN {} ELSE inForce \union {approval'})
             /\ steady' = (IF reading' \notin Searches THEN {}
                           ELSE IF begins THEN ServedNow ELSE steady \intersect ServedNow')
             /\ named' = (IF begins THEN NamedNow ELSE named \union NamedNow')

ReadsNext ==
  /\ \/ ApprovalNext /\ Versioned /\ UNCHANGED readVars
     \/ Reads /\ UNCHANGED <<vars, version>>
  /\ Remembers

ReadsSpec == ReadsInit /\ [][ReadsNext]_allVars
-------------------------------------------------------------------------------
\* The types.
ReadsTypeOK ==
  /\ ApprovalTypeOK /\ version \in 0..(MaxVersion + 1)
  /\ reading \in {"idle", "query", "filter", "found", "manifestHead", "manifestChunks", "confirm", "told"}
  /\ wanted \in Approvals \union {NoApproval} /\ wantedVersion \in 0..version /\ most \in Nat
  /\ scopeNow \in Scopes \union {NoApproval}
  /\ found \subseteq Points /\ kept \subseteq Points /\ left \subseteq Docs
  /\ Len(looked) \in 0..2 /\ (reading = "found" => left = {})

(***************************************************************************)
(* filterActiveCandidates: chunks are queried before heads, tombstones and *)
(* the approval are read, one after the other, but every chunk a search    *)
(* returns is of a revision that was published while it went on.           *)
(***************************************************************************)
FoundWasNamed == reading = "found" => \A p \in kept : <<p[1], p[2]>> \in named

(***************************************************************************)
(* HiveSearch: a document that was served unchanged all the time is not    *)
(* missed, whatever happens to others, unless the query was full, and the  *)
(* answer is marked truncated then.                                        *)
(***************************************************************************)
SteadyIsFound ==
  reading = "found" => steady \subseteq kept \/ Cardinality(found) >= most

(***************************************************************************)
(* ScopeStatus: the rules it tells are of a published manifest, and its    *)
(* approval was in force without a break while they were read: one that    *)
(* was withdrawn and given again is refused, though nothing but the        *)
(* version tells the two records apart ("scope approval changed during     *)
(* read").                                                                 *)
(***************************************************************************)
StatusInForce ==
  reading = "told" =>
    /\ inForce = {wanted}
    /\ \A p \in kept : /\ <<p[1], p[2]>> \in named
                        /\ HashOf[p[2][1]] = wanted.scope /\ p[2][2] = wanted.scope
================================================================================
