-------------------------------- MODULE Serving --------------------------------
(***************************************************************************)
(* HTTPServer (server/http.go) and its client (server/remote.go).          *)
(*                                                                         *)
(* A request takes one of the request slots or is refused at once; its     *)
(* token is validated against KeyCache; the gates of its route are passed  *)
(* in order; the operation runs, and its outcome becomes a status the      *)
(* client interprets.  The answer may be lost or come after the client's   *)
(* timeout; the client concludes without it then, and the server goes on   *)
(* all the same.  The slot is given back on every path.                    *)
(***************************************************************************)
EXTENDS KeyCache, Sequences

CONSTANTS
  Traffic,   \* the requests that may be sent, see Messages
  NoMessage, \* no request
  MaxSlots,  \* maxConcurrentMindRequests
  Writer     \* the instance has the writer role

\* "ingestScope" is an ingestion whose document is a scope.
Routes == {"search", "context", "targets", "syncStatus", "ingest", "ingestScope", "preview",
           "scopeStatus", "approve"}

Ingestions == {"ingest", "ingestScope"}

\* Of a token: whether its claims are acceptable, which of the permissions of the
\* mind it has, and what it grants for the program asked for.  Of a request:
\* whether its parameters are well formed.
Messages == [route : Routes, kid : Kids, bearer : BOOLEAN, claims : BOOLEAN,
             mind : BOOLEAN, ingest : BOOLEAN, scope : BOOLEAN,
             reads : BOOLEAN, contributes : BOOLEAN, formed : BOOLEAN]

ASSUME ServingAssumption ==
  /\ Traffic \subseteq Messages /\ NoMessage \notin Messages
  /\ MaxSlots \in Nat \ {0} /\ Writer \in BOOLEAN /\ IsFiniteSet(Callers)
  /\ \A m \in Traffic : m.contributes => m.reads

VARIABLES
  slots,    \* request slots taken
  stage,    \* how far a request has come
  msg,      \* the request
  told,     \* what the client tells its user
  effect    \* history: the operation took effect

serverVars == <<slots, stage, msg, told, effect>>
vars       == <<cacheVars, serverVars>>

ServingInit ==
  /\ CacheInit /\ slots = 0 /\ stage = [r \in Callers |-> "idle"]
  /\ msg = [r \in Callers |-> NoMessage] /\ told = [r \in Callers |-> "nothing"]
  /\ effect = [r \in Callers |-> FALSE]

GoOn(r, where) == stage' = [stage EXCEPT ![r] = where]

(***************************************************************************)
(* RemoteClient.doRequest and IngestDocument: what the client tells its    *)
(* user; 0 stands for no answer.  IngestDocument says of every error that  *)
(* is no report that the publication was not confirmed.                    *)
(***************************************************************************)
(* Mutant: a refusal of an ingestion is told as one. *)
ConcludesAlike(route, code) ==
  CASE code = 200         -> "confirmed"
    [] code = 401         -> "login"
    [] code = 403         -> "access"
    [] code \in {400, 409} -> "refused"
    [] OTHER              -> "unconfirmed"

Concludes(route, code) ==
  CASE code = 200                                  -> "confirmed"
    [] code = 400                                  -> "refused"
    [] code \notin {200, 400} /\ route \in Ingestions -> "unconfirmed"
    [] code = 401 /\ route \notin Ingestions         -> "login"
    [] code = 403 /\ route \notin Ingestions         -> "access"
    [] code = 409 /\ route \notin Ingestions         -> "refused"
    [] OTHER                                       -> "unconfirmed"

\* The answer reaches the client, or the client has given up before it comes.
Tell(r, route, code) ==
  \E heard \in BOOLEAN :
    told' = [told EXCEPT ![r] = Concludes(route, IF heard THEN code ELSE 0)]

(* Mutant: a refusal by a gate keeps the slot. *)
AnswerKeepingSlot(r, code) ==
  /\ GoOn(r, "answered") /\ Tell(r, msg[r].route, code)
  /\ slots' = IF code = 403 THEN slots ELSE slots - 1

\* The deferred receive gives the slot back with the answer.
Answer(r, code) ==
  GoOn(r, "answered") /\ Tell(r, msg[r].route, code) /\ slots' = slots - 1

(***************************************************************************)
(* authMiddleware                                                          *)
(***************************************************************************)
Send(r, m) ==
  /\ stage[r] = "idle"
  /\ msg' = [msg EXCEPT ![r] = m]
  /\ IF slots < MaxSlots
       THEN GoOn(r, "token") /\ slots' = slots + 1 /\ UNCHANGED told
       ELSE GoOn(r, "answered") /\ Tell(r, m.route, 503) /\ UNCHANGED slots
  /\ UNCHANGED <<cacheVars, effect>>

LookUp(r) ==
  /\ stage[r] = "token"
  /\ IF msg[r].bearer
       THEN Ask(r) /\ kid'[r] = msg[r].kid /\ GoOn(r, "keyed") /\ UNCHANGED <<slots, told>>
       ELSE Answer(r, 401) /\ UNCHANGED cacheVars
  /\ UNCHANGED <<msg, effect>>

\* ValidateToken: the claims are looked at once the key is there.
Validate(r) ==
  /\ stage[r] = "keyed" /\ Return(r)
  /\ IF answer[r] = "key" /\ msg[r].claims
       THEN IF msg[r].mind THEN GoOn(r, "gates") /\ UNCHANGED <<slots, told>>
                                       ELSE Answer(r, 403)
       ELSE Answer(r, 401)
  /\ UNCHANGED <<msg, effect>>

(***************************************************************************)
(* The middlewares and handlers: the gates of a route, in their order, and *)
(* the status each refuses with.                                           *)
(***************************************************************************)
Gates(route) ==
  CASE route \in {"search", "context", "targets", "scopeStatus"} -> <<"formed", "reads">>
    [] route = "syncStatus" -> <<>>
    [] route \in Ingestions -> <<"writer", "formed", "contributes">>
    [] OTHER                -> <<"scope", "contributes", "writer", "formed">>

(* Mutant: any member who reads a program may contribute to it. *)
PassesIfReads(m, gate) ==
  CASE gate = "formed"      -> m.formed
    [] gate = "reads"       -> m.reads
    [] gate = "contributes" -> m.reads
    [] gate = "writer"      -> Writer
    [] gate = "scope"       -> m.scope

Passes(m, gate) ==
  CASE gate = "formed"      -> m.formed
    [] gate = "reads"       -> m.reads
    [] gate = "contributes" -> m.contributes
    [] gate = "writer"      -> Writer
    [] gate = "scope"       -> m.scope

PassGates(r) ==
  /\ stage[r] = "gates"
  /\ LET gates  == Gates(msg[r].route)
         closed == {i \in DOMAIN gates : ~Passes(msg[r], gates[i])}
     IN  IF closed = {} THEN GoOn(r, "run") /\ UNCHANGED <<slots, told>>
         ELSE LET first == CHOOSE i \in closed : \A j \in closed : i <= j
              IN  Answer(r, IF gates[first] = "formed" THEN 400 ELSE 403)
  /\ UNCHANGED <<cacheVars, msg, effect>>

(***************************************************************************)
(* The operations and what they may report.  IngestRemoteDocument asks for *)
(* the permission of the document's type itself.  An ingestion or approval *)
(* that fails late may have taken effect all the same: 500, and for an     *)
(* ingestion also 403, when the store refuses a late call                  *)
(* (classifyOperationalError).  A 400 of an ingestion and the 409 of an    *)
(* approval come before the first write.                                   *)
(***************************************************************************)
MayIngest(m) == IF m.route = "ingestScope" THEN m.scope ELSE m.ingest

Failures(route) ==
  CASE route \in {"search", "context"} -> {400, 500}
    [] route = "targets"     -> {500}
    [] route \in Ingestions  -> {400, 403, 500}
    [] route = "preview"     -> {400}
    [] route = "scopeStatus" -> {503}
    [] route = "approve"     -> {409, 500}
    [] OTHER                 -> {}

Run(r) ==
  /\ stage[r] = "run"
  /\ IF msg[r].route \in Ingestions /\ ~MayIngest(msg[r])
       THEN Answer(r, 403) /\ UNCHANGED effect
       ELSE \/ Answer(r, 200) /\ effect' = [effect EXCEPT ![r] = TRUE]
            \/ \E code \in Failures(msg[r].route) :
                 /\ Answer(r, code)
                 /\ \E late \in BOOLEAN : /\ late => code \in {403, 500}
                                         /\ effect' = [effect EXCEPT ![r] = late]
  /\ UNCHANGED <<cacheVars, msg>>

Receive(r) ==
  /\ stage[r] = "answered" /\ GoOn(r, "idle")
  /\ msg' = [msg EXCEPT ![r] = NoMessage] /\ told' = [told EXCEPT ![r] = "nothing"]
  /\ effect' = [effect EXCEPT ![r] = FALSE]
  /\ UNCHANGED <<cacheVars, slots>>

KeyStep(c)    == CacheStep(c) /\ UNCHANGED serverVars
ProbeStep(p)  == (Ask(p) \/ ProbeGivesUp(p) \/ Return(p)) /\ UNCHANGED serverVars
ServerStep(r) == LookUp(r) \/ Validate(r) \/ PassGates(r) \/ Run(r)

ServingNext ==
  \/ \E r \in Callers : ServerStep(r) \/ Receive(r) \/ \E m \in Traffic : Send(r, m)
  \/ \E c \in Everyone : KeyStep(c)
  \/ \E p \in Probes : ProbeStep(p)
  \/ (Rotate \/ Tick) /\ UNCHANGED serverVars

ServingSpec == ServingInit /\ [][ServingNext]_vars

(***************************************************************************)
(* Handlers run, every fetch ends (the client has a timeout), and waiters  *)
(* for the refresh slot are queued by the channel.                         *)
(***************************************************************************)
FairServingSpec ==
  /\ ServingSpec
  /\ \A r \in Callers  : WF_vars(ServerStep(r)) /\ SF_vars(TakeSlot(r) /\ UNCHANGED serverVars)
  /\ \A c \in Everyone : WF_vars(KeyStep(c))
----------------------------------------------------------------------------
InServer == {"token", "keyed", "gates", "run"}

(***************************************************************************)
(* requestSlots: a slot is taken exactly by the requests in the server,    *)
(* whichever of the handlers' returns they leave by.                       *)
(***************************************************************************)
SlotsReturned ==
  slots = Cardinality({r \in Callers : stage[r] \in InServer}) /\ slots <= MaxSlots

\* What the operations require, from docs/spec/contracts/remote-ingestion.md:
\* product.mind always, the permission of the operation, and the program's grant.
Entitled(m) ==
  /\ m.bearer /\ m.claims /\ m.mind
  /\ m.route \in {"search", "context", "targets", "scopeStatus", "preview"} => m.reads
  /\ m.route \in Ingestions => m.contributes /\ Writer
  /\ m.route = "ingest" => m.ingest
  /\ m.route = "ingestScope" => m.scope
  /\ m.route \in {"preview", "approve"} => m.contributes /\ Writer /\ m.scope

(***************************************************************************)
(* Middlewares and handlers: whatever took effect was asked for by a       *)
(* member entitled to it, by whichever of the routes.                      *)
(***************************************************************************)
OnlyEntitled == \A r \in Callers : effect[r] => Entitled(msg[r])

(***************************************************************************)
(* doRequest, IngestDocument: the client tells nothing false, whether it   *)
(* heard the answer or gave up while the server went on.  "confirmed"      *)
(* means the operation took effect, any refusal that it did not.           *)
(***************************************************************************)
ClientKnows ==
  \A r \in Callers :
    /\ told[r] = "confirmed" => effect[r]
    /\ told[r] \in {"login", "access", "refused"} => ~effect[r]

(***************************************************************************)
(* A request in the server is answered, though it may wait for the refresh *)
(* slot behind others and the center may never answer.                     *)
(***************************************************************************)
EveryRequestAnswered == \A r \in Callers : stage[r] \in InServer ~> stage[r] = "answered"
================================================================================
