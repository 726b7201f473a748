----------------------------- MODULE RemoteDocument -----------------------------
(***************************************************************************)
(* IngestRemoteDocument (server/remote_ingestion.go): a member sends a     *)
(* document or a scope manifest; the writer saves it in the directory it   *)
(* watches and publishes that file.                                        *)
(*                                                                         *)
(* A file is written under a hidden name, synchronized to disk, and then   *)
(* exposed: a document by a link, which refuses to replace anything, a     *)
(* manifest by a rename.  The watcher publishes what it sees, people edit  *)
(* and remove files, the process may die, and members send again.          *)
(***************************************************************************)
EXTENDS Naturals

CONSTANTS
  Sends,      \* requests of members
  Path,       \* of each: where its document goes, a function of member and request
  Bytes,      \* of each: the converted document, or the manifest
  Paths,      \* all paths
  Manifests,  \* those that are a scope.json
  Nothing,    \* no file
  Foreign,    \* bytes a person has written
  MaxSends,   \* bound: how often requests are sent, again or for the first time
  MaxEdits    \* bound: edits and removals of files by people

Contents == {Bytes[r] : r \in Sends} \union {Foreign}
Partial  == "partial"

ASSUME RemoteAssumption ==
  /\ Path \in [Sends -> Paths] /\ Manifests \subseteq Paths /\ Sends \intersect Paths = {}
  /\ MaxSends \in Nat /\ MaxEdits \in Nat /\ {Nothing, Partial} \intersect Contents = {}
  /\ \A r, q \in Sends : Path[r] = Path[q] /\ Path[r] \notin Manifests => Bytes[r] = Bytes[q]

\* Whoever publishes a file: a request, or the watcher's consumer for a path.
Publishers == Sends \union Paths
PathOf(a)  == IF a \in Sends THEN Path[a] ELSE a

VARIABLES
  visible,  \* the file under each path
  draft,    \* the hidden file of each request
  head,     \* the bytes each path was last published with
  stand,    \* where a publisher stands
  read,     \* the bytes it has read from the file
  answered, \* what a request was answered
  disturbed,  \* history: a person has touched its path meanwhile
  sent, edits

remoteVars == <<visible, draft, head, stand, read, answered, disturbed, sent, edits>>

RemoteInit ==
  /\ visible = [p \in Paths |-> Nothing] /\ head = [p \in Paths |-> Nothing]
  /\ draft = [r \in Sends |-> Nothing] /\ stand = [a \in Publishers |-> "idle"]
  /\ read = [a \in Publishers |-> Nothing] /\ answered = [r \in Sends |-> "none"]
  /\ disturbed = [r \in Sends |-> FALSE] /\ sent = 0 /\ edits = 0

Stands(a, place) == stand' = [stand EXCEPT ![a] = place]

\* The gates and the conversion: permissions, limits, canonical fields.
SendDocument(r) ==
  /\ stand[r] = "idle" /\ sent < MaxSends /\ sent' = sent + 1
  /\ Stands(r, "draft") /\ disturbed' = [disturbed EXCEPT ![r] = FALSE]
  /\ answered' = [answered EXCEPT ![r] = "none"]
  /\ UNCHANGED <<visible, draft, head, read, edits>>

OpenDraft(r) ==
  /\ stand[r] = "draft" /\ Stands(r, "write") /\ draft' = [draft EXCEPT ![r] = Partial]
  /\ UNCHANGED <<visible, head, read, answered, disturbed, sent, edits>>

(* Mutant: the file is exposed before it is whole. *)
WriteDraftPartly(r) ==
  /\ stand[r] = "write" /\ Stands(r, "expose")
  /\ UNCHANGED <<draft, visible, head, read, answered, disturbed, sent, edits>>

WriteDraft(r) ==
  /\ stand[r] = "write" /\ Stands(r, "expose") /\ draft' = [draft EXCEPT ![r] = Bytes[r]]
  /\ UNCHANGED <<visible, head, read, answered, disturbed, sent, edits>>

(***************************************************************************)
(* Link and Rename.                                                        *)
(***************************************************************************)
Answers(r, what) ==
  /\ Stands(r, "idle") /\ answered' = [answered EXCEPT ![r] = what]

Replaces(r) == Path[r] \in Manifests \/ visible[Path[r]] = Nothing

(* Mutant: whatever is under the path is taken for the document. *)
AnyFile(r) == TRUE

SameFile(r) == visible[Path[r]] = Bytes[r]

Expose(r) ==
  /\ stand[r] = "expose" /\ draft' = [draft EXCEPT ![r] = Nothing]
  /\ IF Replaces(r)
       THEN visible' = [visible EXCEPT ![Path[r]] = draft[r]] /\ Stands(r, "publish") /\ UNCHANGED answered
       ELSE /\ UNCHANGED visible
            /\ IF SameFile(r) THEN Stands(r, "publish") /\ UNCHANGED answered
                                              ELSE Answers(r, "failed")
  /\ UNCHANGED <<head, read, disturbed, sent, edits>>

\* A directory or file operation fails; the hidden file is removed.
SaveFails(r) ==
  /\ stand[r] \in {"draft", "write", "expose"} /\ Answers(r, "failed")
  /\ draft' = [draft EXCEPT ![r] = Nothing] /\ UNCHANGED <<visible, head, read, disturbed, sent, edits>>

(***************************************************************************)
(* IngestPathReport, under the lock of the path; the watcher does the same *)
(* for any visible file.                                                   *)
(***************************************************************************)
Notice(p) ==
  /\ stand[p] = "idle" /\ visible[p] # head[p] /\ Stands(p, "publish")
  /\ UNCHANGED <<visible, draft, head, read, answered, disturbed, sent, edits>>

PathFree(a) == \A b \in Publishers \ {a} : PathOf(b) = PathOf(a) => stand[b] # "commit"

\* A document is confirmed if it was published or was there unchanged.
Confirm(r, result) ==
  IF result \in {"published", "unchanged"} \/ (result = "missing" /\ Path[r] \in Manifests)
    THEN "confirmed" ELSE "failed"

Ends(a, result) ==
  IF a \in Sends THEN Answers(a, Confirm(a, result)) ELSE Stands(a, "idle") /\ UNCHANGED answered

ReadVisible(a) ==
  LET bytes == visible[PathOf(a)]
  IN  /\ stand[a] = "publish" /\ PathFree(a)
      /\ \/ bytes = Nothing /\ Ends(a, "missing") /\ UNCHANGED read
         \/ bytes # Nothing /\ bytes = head[PathOf(a)] /\ Ends(a, "unchanged") /\ UNCHANGED read
         \/ /\ bytes \notin {Nothing, head[PathOf(a)]}
            /\ Stands(a, "commit") /\ read' = [read EXCEPT ![a] = bytes] /\ UNCHANGED answered
      /\ UNCHANGED <<visible, draft, head, disturbed, sent, edits>>

\* The commit takes effect, or not, and its answer may be lost.
CommitHead(a) ==
  /\ stand[a] = "commit" /\ read' = [read EXCEPT ![a] = Nothing]
  /\ \E result \in {"published", "failed"} :
       /\ Ends(a, result)
       /\ \/ head' = [head EXCEPT ![PathOf(a)] = read[a]]
          \/ result = "failed" /\ UNCHANGED head
  /\ UNCHANGED <<visible, draft, disturbed, sent, edits>>

PersonEdits ==
  /\ edits < MaxEdits /\ edits' = edits + 1
  /\ \E p \in Paths, b \in {Foreign, Nothing} :
       /\ visible' = [visible EXCEPT ![p] = b]
       /\ disturbed' = [r \in Sends |-> disturbed[r] \/ Path[r] = p]
  /\ UNCHANGED <<draft, head, stand, read, answered, sent>>

\* Hidden files of a process that died stay; the watcher ignores them.
WriterCrash ==
  /\ stand' = [a \in Publishers |-> "idle"] /\ read' = [a \in Publishers |-> Nothing]
  /\ draft' = [r \in Sends |-> Nothing] /\ answered' = [r \in Sends |-> "none"]
  /\ UNCHANGED <<visible, head, disturbed, sent, edits>>

RequestStep(r) == OpenDraft(r) \/ WriteDraft(r) \/ Expose(r) \/ SaveFails(r)

RemoteNext ==
  \/ \E r \in Sends : SendDocument(r) \/ RequestStep(r)
  \/ \E p \in Paths : Notice(p)
  \/ \E a \in Publishers : ReadVisible(a) \/ CommitHead(a)
  \/ PersonEdits \/ WriterCrash

\* Calls and file operations end.
RemoteFairness ==
  /\ \A r \in Sends : WF_remoteVars(RequestStep(r)) /\ SF_remoteVars(ReadVisible(r))
  /\ \A a \in Publishers : WF_remoteVars(CommitHead(a))

RemoteSpec == RemoteInit /\ [][RemoteNext]_remoteVars /\ RemoteFairness
----------------------------------------------------------------------------
\* The types.  Nothing unfinished is ever seen under a path, or published.
RemoteTypeOK ==
  /\ visible \in [Paths -> Contents \union {Nothing}] /\ head \in [Paths -> Contents \union {Nothing}]
  /\ draft \in [Sends -> Contents \union {Nothing, Partial}]
  /\ stand \in [Publishers -> {"idle", "draft", "write", "expose", "publish", "commit"}]
  /\ read \in [Publishers -> Contents \union {Nothing}]
  /\ answered \in [Sends -> {"none", "failed", "confirmed"}]

(***************************************************************************)
(* IngestRemoteDocument: a member who is told that a document was saved    *)
(* and published may rely on it: at that moment the head names the bytes   *)
(* sent, unless a person has changed that very file meanwhile.  Crashes,   *)
(* repeated requests and the watcher, which publishes the same file, do    *)
(* not matter.                                                             *)
(***************************************************************************)
ConfirmedIsPublished ==
  [][\A r \in Sends :
       /\ answered'[r] = "confirmed" /\ answered[r] # "confirmed"
       /\ Path[r] \notin Manifests /\ ~disturbed[r]
       => head'[Path[r]] = Bytes[r]]_remoteVars

(***************************************************************************)
(* publishRemoteDocument: "refuses to replace an existing document" -      *)
(* what a person has put there is touched by no request.                   *)
(***************************************************************************)
DocumentsNotReplaced ==
  [][\A p \in Paths \ Manifests :
       visible[p] # Nothing /\ visible'[p] # visible[p] => edits' # edits]_remoteVars

\* Whoever sends a document is answered, unless the process dies.
SendsAnswered == \A r \in Sends : stand[r] # "idle" ~> stand[r] = "idle"
(***************************************************************************)
(* IngestRemoteDocument: a document that a member was told of is published *)
(* as it was sent, and one that a person has put there is kept.            *)
(***************************************************************************)
DocumentsKept == ConfirmedIsPublished /\ DocumentsNotReplaced
================================================================================
