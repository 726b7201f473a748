------------------------------ MODULE ServingProofs ------------------------------
(***************************************************************************)
(* Theorems about the server and its key cache, for any finite set of      *)
(* callers, any probes, keys, requests and slots, and times that are       *)
(* ordered as the code's constants are.                                    *)
(*                                                                         *)
(* What the cache promises is about ages that different steps set at       *)
(* different moments.  The invariant relates them: after a fetch that      *)
(* succeeded the keys are no older than the attempt (Filled), and a key    *)
(* was withdrawn no longer ago than the keys are old, plus the time of the *)
(* fetch that brought them (Trusted).  Both hold across a fetch because    *)
(* there is one at a time (OneInside).                                     *)
(*                                                                         *)
(* What the server promises about an answer rests on what each gate left   *)
(* behind: the second invariant says, for every stage, what has been found *)
(* out about the request (Checked), and what its client tells (Honest).    *)
(***************************************************************************)
EXTENDS Serving, FiniteSetTheorems, TLAPS

Spots   == {"idle", "look", "queue", "told"} \union Inside
Replies == {"none", "key", "unknown", "failed", "refresh", "fresh"}

CacheTyped ==
  /\ keys \subseteq Kids /\ fetchedAge \in 0..TTL /\ attemptAge \in 0..TriedCap /\ lastError \in BOOLEAN
  /\ at \in [Everyone -> Spots] /\ kid \in [Callers -> Kids \union {NoKid}]
  /\ answer \in [Everyone -> Replies]
  /\ body \subseteq Kids /\ published \subseteq Kids /\ gone \in [Kids -> 0..GoneCap]

OneInside == \A c, d \in Everyone : at[c] \in Inside /\ at[d] \in Inside => c = d

Known == \A k \in published : gone[k] = 0

Away == \E c \in Everyone : at[c] \in {"fetch", "store"}

Fetching ==
  /\ Away => attemptAge <= FetchTimeout
  /\ (\E c \in Everyone : at[c] = "store") => body # {} /\ \A k \in body : gone[k] <= attemptAge

Filled == ~lastError /\ ~Away /\ attemptAge < TriedCap => fetchedAge <= attemptAge /\ keys # {}

Trusted == \A k \in keys : fetchedAge < TTL => gone[k] <= fetchedAge + FetchTimeout

CacheInv == CacheTyped /\ OneInside /\ Known /\ Fetching /\ Filled /\ Trusted

-----------------------------------------------------------------------------
\* The constants are natural numbers, in the order the code gives them.
LEMMA Times ==
  /\ TTL \in Nat /\ FetchTimeout \in Nat /\ ErrorRetry \in Nat /\ UnknownRetry \in Nat /\ ReadinessTTL \in Nat
  /\ 0 < ErrorRetry /\ ErrorRetry <= UnknownRetry /\ UnknownRetry <= ReadinessTTL /\ ReadinessTTL <= TTL
  /\ 0 < FetchTimeout /\ GoneCap = TTL + FetchTimeout
  /\ TriedCap \in Nat /\ ErrorRetry <= TriedCap /\ FetchTimeout <= TriedCap
BY CacheAssumption DEF TriedCap, GoneCap

\* NewJWKSClient: no keys, and no attempt yet.
LEMMA CacheStarts == CacheInit => CacheInv
<1> SUFFICES ASSUME CacheInit PROVE CacheInv
  OBVIOUS
<1> USE Times DEF CacheInit
<1>1. CacheTyped
  <2>1. published \subseteq Kids
    BY CacheAssumption
  <2>2. gone \in [Kids -> 0..GoneCap] /\ fetchedAge \in 0..TTL /\ attemptAge \in 0..TriedCap
    OBVIOUS
  <2>3. at \in [Everyone -> Spots] /\ answer \in [Everyone -> Replies] /\ kid \in [Callers -> Kids \union {NoKid}]
    BY DEF Spots, Replies
  <2> QED BY <2>1, <2>2, <2>3 DEF CacheTyped
<1>2. OneInside /\ Known /\ Fetching /\ Filled /\ Trusted
  BY CacheAssumption DEF OneInside, Known, Fetching, Filled, Trusted, Away, Inside
<1> QED BY <1>1, <1>2 DEF CacheInv

\* A goroutine goes to another place, without or with the refresh slot, and times stand still.
LEMMA Goes ==
  ASSUME CacheInv, NEW c \in Everyone, NEW spot \in Spots, Step(c, spot),
         spot \in Inside => at[c] \in Inside \/ SlotFree,
         spot \notin {"fetch", "store"}, at[c] \notin {"fetch", "store"},
         answer' \in [Everyone -> Replies], kid' \in [Callers -> Kids \union {NoKid}],
         UNCHANGED <<cache, body, published, gone>>
  PROVE  CacheInv'
<1> USE DEF CacheInv, Step, cache
<1>1. CacheTyped'
  BY DEF CacheTyped
<1>2. OneInside'
  BY DEF OneInside, CacheTyped, SlotFree
<1>3. Away' = Away
  BY DEF Away, CacheTyped
<1>4. Known' /\ Filled' /\ Trusted'
  BY <1>3 DEF Known, Filled, Trusted
<1>5. \A d \in Everyone : at'[d] = "store" => at[d] = "store"
  BY DEF CacheTyped
<1>6. Fetching'
  BY <1>3, <1>5 DEF Fetching
<1> QED BY <1>1, <1>2, <1>4, <1>6

\* cachedKey and the looks of ensureFresh have these answers.
LEMMA LooksAnswer ==
  ASSUME NEW c \in Everyone
  PROVE  FirstLook(c) \in Replies /\ SecondLook(c) \in Replies /\ \A k : CachedKey(k) \in Replies
BY DEF FirstLook, SecondLook, CachedKey, Replies, Everyone

\* Ask, Look, TakeSlot, ProbeGivesUp, FinalLook, Return.
LEMMA LooksKeep ==
  ASSUME CacheInv, NEW c \in Everyone,
         Ask(c) \/ Look(c) \/ TakeSlot(c) \/ ProbeGivesUp(c) \/ FinalLook(c) \/ Return(c)
  PROVE  CacheInv'
<1>0. /\ at \in [Everyone -> Spots] /\ kid \in [Callers -> Kids \union {NoKid}] /\ answer \in [Everyone -> Replies]
      /\ \A s \in {"idle", "look", "queue", "told", "again"} : s \in Spots
      /\ "none" \in Replies /\ "failed" \in Replies
  BY DEF CacheInv, CacheTyped, Spots, Inside, Replies
<1>1. CASE Ask(c)
  BY <1>0, <1>1, Goes DEF Ask, Inside
<1>2. CASE Look(c)
  <2>1. CASE FirstLook(c) = "refresh"
    BY <1>0, <1>2, <2>1, Goes DEF Look, Inside
  <2>2. CASE FirstLook(c) # "refresh"
    BY <1>0, <1>2, <2>2, Goes, LooksAnswer DEF Look, Reply, Inside
  <2> QED BY <2>1, <2>2
<1>3. CASE TakeSlot(c)
  BY <1>0, <1>3, Goes DEF TakeSlot, Inside
<1>4. CASE ProbeGivesUp(c)
  BY <1>0, <1>4, Goes DEF ProbeGivesUp, Reply, Inside
<1>5. CASE FinalLook(c)
  <2>1. answer' \in [Everyone -> Replies]
    BY <1>0, <1>5, LooksAnswer DEF FinalLook, Reply
  <2> QED BY <1>0, <1>5, <2>1, Goes DEF FinalLook, Inside
<1>6. CASE Return(c)
  <2>1. kid' \in [Callers -> Kids \union {NoKid}] /\ answer' \in [Everyone -> Replies]
    BY <1>0, <1>6 DEF Return, Reply
  <2> QED BY <1>0, <1>6, <2>1, Goes DEF Return, Inside
<1> QED BY <1>1, <1>2, <1>3, <1>4, <1>5, <1>6

\* The second look: whoever goes on to fetch is alone.
LEMMA LookAgainKeeps ==
  ASSUME CacheInv, NEW c \in Everyone, LookAgain(c)
  PROVE  CacheInv'
<1>1. CASE SecondLook(c) = "refresh"
  <2> USE DEF CacheInv
  <2>1. /\ at[c] = "again" /\ at' = [at EXCEPT ![c] = "fetch"] /\ attemptAge' = 0
        /\ UNCHANGED <<keys, fetchedAge, lastError, answer, kid, body, published, gone>>
    BY <1>1 DEF LookAgain, Step
  <2>2. CacheTyped'
    BY <2>1, Times DEF CacheTyped, Spots, Inside
  <2>3. OneInside'
    BY <2>1 DEF OneInside, CacheTyped, Inside
  <2>4. Away' /\ \A d \in Everyone : at'[d] # "store"
    BY <2>1, <2>3 DEF Away, OneInside, CacheTyped, Inside
  <2>5. Fetching' /\ Filled'
    BY <2>1, <2>4, Times DEF Fetching, Filled
  <2>6. Known' /\ Trusted'
    BY <2>1 DEF Known, Trusted
  <2> QED BY <2>2, <2>3, <2>5, <2>6
<1>2. CASE SecondLook(c) # "refresh"
  <2>1. answer' \in [Everyone -> Replies] /\ "told" \in Spots
    BY <1>2, LooksAnswer DEF LookAgain, Reply, CacheInv, CacheTyped, Spots
  <2>2. kid' \in [Callers -> Kids \union {NoKid}]
    BY DEF LookAgain, CacheInv, CacheTyped
  <2>3. UNCHANGED <<cache, body, published, gone>> /\ Step(c, "told") /\ at[c] = "again"
    BY <1>2 DEF LookAgain, cache
  <2> QED BY <2>1, <2>2, <2>3, Goes DEF Inside
<1> QED BY <1>1, <1>2

\* refresh: the answer, a failure, and the keys that are stored.
LEMMA FetchKeeps ==
  ASSUME CacheInv, NEW c \in Everyone, CenterAnswers(c) \/ FetchFails(c) \/ StoreKeys(c)
  PROVE  CacheInv'
<1> USE DEF CacheInv, Step
<1>0. at[c] \in {"fetch", "store"} /\ Away
  BY DEF CenterAnswers, FetchFails, StoreKeys, Away
<1>1. CASE CenterAnswers(c)
  <2>1. /\ at' = [at EXCEPT ![c] = "store"] /\ body' = published /\ published # {}
        /\ UNCHANGED <<keys, fetchedAge, attemptAge, lastError, kid, answer, published, gone>>
    BY <1>1 DEF CenterAnswers, cache
  <2>2. CacheTyped'
    BY <2>1 DEF CacheTyped, Spots, Inside
  <2>3. OneInside'
    BY <1>0, <2>1 DEF OneInside, CacheTyped, Inside
  <2>4. Away'
    BY <2>1 DEF Away, CacheTyped
  <2>5. \A k \in published : gone[k] <= attemptAge
    BY Times DEF Known, CacheTyped
  <2>6. Fetching'
    BY <1>0, <2>1, <2>5 DEF Fetching
  <2>7. Filled' /\ Known' /\ Trusted'
    BY <2>1, <2>4 DEF Filled, Known, Trusted
  <2> QED BY <2>2, <2>3, <2>6, <2>7
<1>2. CASE FetchFails(c)
  <2>1. /\ at' = [at EXCEPT ![c] = "told"] /\ body' = {} /\ lastError' = TRUE
        /\ answer' = [answer EXCEPT ![c] = "failed"]
        /\ UNCHANGED <<keys, fetchedAge, attemptAge, kid, published, gone>>
    BY <1>2 DEF FetchFails, Reply
  <2>2. CacheTyped'
    BY <2>1 DEF CacheTyped, Spots, Replies
  <2>3. OneInside' /\ ~Away'
    BY <1>0, <2>1 DEF OneInside, Away, CacheTyped, Inside
  <2>4. Fetching'
    BY <2>3 DEF Fetching, Away
  <2>5. Filled' /\ Known' /\ Trusted'
    BY <2>1 DEF Filled, Known, Trusted
  <2> QED BY <2>2, <2>3, <2>4, <2>5
<1>3. CASE StoreKeys(c)
  <2>1. /\ at[c] = "store" /\ keys' = body /\ body' = {} /\ fetchedAge' = 0 /\ lastError' = FALSE
        /\ at' = [at EXCEPT ![c] = IF c \in Callers THEN "final" ELSE "told"]
        /\ UNCHANGED <<attemptAge, kid, published, gone>>
    BY <1>3 DEF StoreKeys, ReplaceKeys
  <2>2. answer' \in [Everyone -> Replies]
    BY <1>3 DEF StoreKeys, Reply, CacheTyped, Replies
  <2>3. CacheTyped'
    <3>1. at' \in [Everyone -> Spots]
      BY <2>1 DEF CacheTyped, Spots, Inside
    <3>2. fetchedAge' = 0 /\ lastError' = FALSE /\ TTL \in Nat
      BY <2>1, Times
    <3>3. fetchedAge' \in 0..TTL
      BY <3>2
    <3>4. keys' \subseteq Kids /\ body' \subseteq Kids
      BY <2>1 DEF CacheTyped
    <3>5. UNCHANGED <<attemptAge, kid, published, gone>>
      BY <2>1
    <3> QED BY <2>2, <3>1, <3>2, <3>3, <3>4, <3>5 DEF CacheTyped
  <2>4. OneInside' /\ ~Away'
    BY <1>0, <2>1 DEF OneInside, Away, CacheTyped, Inside
  <2>5. body # {} /\ (\A k \in body : gone[k] <= attemptAge) /\ attemptAge <= FetchTimeout
    BY <1>0, <2>1 DEF Fetching
  <2>6. Fetching'
    BY <2>4 DEF Fetching, Away
  <2>7. Filled'
    BY <2>1, <2>5 DEF Filled, CacheTyped
  <2>8. Trusted'
    BY <2>1, <2>5, Times DEF Trusted, CacheTyped
  <2>9. Known'
    BY <2>1 DEF Known
  <2> QED BY <2>3, <2>4, <2>6, <2>7, <2>8, <2>9
<1> QED BY <1>1, <1>2, <1>3

\* The center rotates its keys, and time passes.
LEMMA WorldKeeps ==
  ASSUME CacheInv, Rotate \/ Tick
  PROVE  CacheInv'
<1> USE DEF CacheInv
<1>1. CASE Rotate
  <2>1. UNCHANGED <<keys, fetchedAge, attemptAge, lastError, at, kid, answer, body>>
    BY <1>1 DEF Rotate, cache
  <2>2. PICK ks \in KeySets : published' = ks /\ gone' = [k \in Kids |-> IF k \in ks THEN 0 ELSE gone[k]]
    BY <1>1 DEF Rotate
  <2>3. \A k \in Kids : gone'[k] \in 0..GoneCap /\ gone'[k] <= gone[k]
    BY <2>2, Times DEF CacheTyped
  <2>4. CacheTyped'
    BY <2>1, <2>2, <2>3, CacheAssumption DEF CacheTyped
  <2>5. OneInside' /\ Known' /\ Filled'
    BY <2>1, <2>2, CacheAssumption DEF OneInside, Known, Filled, Away
  <2>6. Fetching'
    <3>1. \A k \in body : gone[k] <= attemptAge => gone'[k] <= attemptAge
      BY <2>3, Times DEF CacheTyped
    <3> QED BY <2>1, <3>1 DEF Fetching, Away
  <2>7. Trusted'
    <3>1. \A k \in keys : gone[k] <= fetchedAge + FetchTimeout => gone'[k] <= fetchedAge + FetchTimeout
      BY <2>3, Times DEF CacheTyped
    <3> QED BY <2>1, <3>1 DEF Trusted
  <2> QED BY <2>4, <2>5, <2>6, <2>7
<1>2. CASE Tick
  <2>1. /\ UNCHANGED <<keys, lastError, at, kid, answer, body, published>>
        /\ Away => attemptAge < FetchTimeout
    BY <1>2 DEF Tick, Away
  <2>2. /\ fetchedAge' = (IF fetchedAge < TTL THEN fetchedAge + 1 ELSE fetchedAge)
        /\ attemptAge' = (IF attemptAge < TriedCap THEN attemptAge + 1 ELSE attemptAge)
    BY <1>2 DEF Tick, Older
  <2>3. gone' = [k \in Kids |-> IF k \in published THEN 0 ELSE Older(gone[k], GoneCap)]
    BY <1>2 DEF Tick
  <2>4. \A k \in Kids : gone'[k] \in 0..GoneCap /\ gone'[k] <= gone[k] + 1
    BY <2>3, Times DEF CacheTyped, Older
  <2>5. CacheTyped'
    <3>1. fetchedAge' \in 0..TTL /\ attemptAge' \in 0..TriedCap
      BY <2>2, Times DEF CacheTyped
    <3>2. gone' \in [Kids -> 0..GoneCap]
      BY <2>3, <2>4
    <3> QED BY <2>1, <3>1, <3>2 DEF CacheTyped
  <2>6. OneInside' /\ Away' = Away
    BY <2>1 DEF OneInside, Away
  <2>7. Known'
    BY <2>1, <2>3 DEF Known, CacheTyped
  <2>8. Fetching'
    <3>1. Away => attemptAge' = attemptAge + 1 /\ attemptAge' <= FetchTimeout
      BY <2>1, <2>2, Times DEF CacheTyped
    <3>2. (\E d \in Everyone : at[d] = "store") => Away
      BY DEF Away
    <3>3. \A k \in body : gone[k] <= attemptAge => gone'[k] <= attemptAge + 1
      BY <2>4, Times DEF CacheTyped
    <3> QED BY <2>1, <2>6, <3>1, <3>2, <3>3 DEF Fetching
  <2>9. Filled'
    <3>1. attemptAge' < TriedCap => attemptAge' = attemptAge + 1 /\ attemptAge < TriedCap
      BY <2>2, Times DEF CacheTyped
    <3>2. fetchedAge' <= fetchedAge + 1
      BY <2>2, Times DEF CacheTyped
    <3>3. fetchedAge <= attemptAge => fetchedAge' <= attemptAge + 1
      BY <3>2, <2>5, Times DEF CacheTyped
    <3> QED BY <2>1, <2>6, <3>1, <3>3 DEF Filled
  <2>10. Trusted'
    <3>1. fetchedAge' < TTL => fetchedAge' = fetchedAge + 1 /\ fetchedAge < TTL
      BY <2>2, Times DEF CacheTyped
    <3>2. \A k \in keys : gone[k] <= fetchedAge + FetchTimeout => gone'[k] <= (fetchedAge + 1) + FetchTimeout
      BY <2>4, Times DEF CacheTyped
    <3> QED BY <2>1, <3>1, <3>2 DEF Trusted
  <2> QED BY <2>5, <2>6, <2>7, <2>8, <2>9, <2>10
<1> QED BY <1>1, <1>2

\* Every step keeps the invariant.
LEMMA CacheStepKeeps == CacheInv /\ [CacheNext]_cacheVars => CacheInv'
<1> SUFFICES ASSUME CacheInv, [CacheNext]_cacheVars PROVE CacheInv'
  OBVIOUS
<1>1. ASSUME NEW c \in Everyone, Ask(c) \/ CacheStep(c) \/ ProbeGivesUp(c) \/ Return(c) PROVE CacheInv'
  BY <1>1, LooksKeep, LookAgainKeeps, FetchKeeps DEF CacheStep
<1>2. CASE UNCHANGED cacheVars
  BY <1>2 DEF cacheVars, cache, CacheInv, CacheTyped, OneInside, Known, Fetching, Filled, Trusted, Away
<1> QED BY <1>1, <1>2, WorldKeeps DEF CacheNext

\* The second look asks for a refresh only when the last attempt is long enough ago.
LEMMA RefreshIsSpaced ==
  ASSUME CacheInv, NEW c \in Everyone, at[c] = "again", SecondLook(c) = "refresh"
  PROVE  attemptAge >= ErrorRetry
<1> SUFFICES ASSUME attemptAge < ErrorRetry PROVE FALSE
  BY Times DEF CacheInv, CacheTyped
<1>1. ~Away
  BY DEF CacheInv, OneInside, Away, Inside
<1>2. CASE lastError
  BY <1>2 DEF SecondLook, CachedKey
<1>3. CASE ~lastError
  <2>1. fetchedAge <= attemptAge /\ keys # {}
    BY <1>1, <1>3, Times DEF CacheInv, CacheTyped, Filled
  <2>2. fetchedAge < UnknownRetry /\ fetchedAge < ReadinessTTL /\ fetchedAge < TTL
    BY <2>1, Times DEF CacheInv, CacheTyped
  <2> QED BY <2>1, <2>2 DEF SecondLook, CachedKey, Fresh
<1> QED BY <1>2, <1>3

\* A key is found only while it cannot have been withdrawn for too long.
LEMMA FoundIsTrusted ==
  ASSUME CacheInv, NEW k, CachedKey(k) = "key"
  PROVE  gone[k] < GoneCap
<1>1. k \in keys /\ fetchedAge < TTL
  BY DEF CachedKey
<1>2. gone[k] <= fetchedAge + FetchTimeout /\ gone[k] \in Nat
  BY <1>1, Times DEF CacheInv, CacheTyped, Trusted
<1> QED BY <1>1, <1>2, Times DEF CacheInv, CacheTyped

\* A goroutine goes to the center only from its second look.
LEMMA OnlyFromLookAgain ==
  ASSUME CacheInv, CacheNext, NEW c \in Everyone, at'[c] = "fetch", at[c] # "fetch"
  PROVE  at[c] = "again" /\ SecondLook(c) = "refresh"
<1> USE DEF CacheInv, CacheTyped, Step
<1>1. ~Rotate /\ ~Tick
  BY DEF Rotate, Tick
<1>2. PICK d \in Everyone : Ask(d) \/ CacheStep(d) \/ ProbeGivesUp(d) \/ Return(d)
  BY <1>1 DEF CacheNext
<1>3. CASE LookAgain(d)
  BY <1>3 DEF LookAgain
<1>4. CASE Ask(d) \/ Look(d) \/ TakeSlot(d) \/ ProbeGivesUp(d) \/ Return(d)
  BY <1>4 DEF Ask, Look, TakeSlot, ProbeGivesUp, Return
<1>5. CASE CenterAnswers(d) \/ FetchFails(d) \/ StoreKeys(d) \/ FinalLook(d)
  BY <1>5 DEF CenterAnswers, FetchFails, StoreKeys, FinalLook
<1> QED BY <1>2, <1>3, <1>4, <1>5 DEF CacheStep

\* A caller is told "key" only by a look.
LEMMA OnlyFromLooks ==
  ASSUME CacheInv, CacheNext, NEW c \in Callers, answer'[c] = "key", answer[c] # "key"
  PROVE  CachedKey(kid[c]) = "key"
<1> USE DEF CacheInv, CacheTyped, Reply
<1>0. c \in Everyone
  BY DEF Everyone
<1>1. ~Rotate /\ ~Tick
  BY DEF Rotate, Tick
<1>2. PICK d \in Everyone : Ask(d) \/ CacheStep(d) \/ ProbeGivesUp(d) \/ Return(d)
  BY <1>1 DEF CacheNext
<1>3. CASE Look(d)
  BY <1>0, <1>3 DEF Look, FirstLook
<1>4. CASE LookAgain(d)
  BY <1>0, <1>4 DEF LookAgain, SecondLook
<1>5. CASE FinalLook(d)
  BY <1>0, <1>5 DEF FinalLook
<1>6. CASE Ask(d) \/ TakeSlot(d) \/ ProbeGivesUp(d) \/ Return(d)
  BY <1>0, <1>6 DEF Ask, TakeSlot, ProbeGivesUp, Return
<1>7. CASE CenterAnswers(d) \/ FetchFails(d) \/ StoreKeys(d)
  BY <1>0, <1>7 DEF CenterAnswers, FetchFails, StoreKeys
<1> QED BY <1>2, <1>3, <1>4, <1>5, <1>6, <1>7 DEF CacheStep

-----------------------------------------------------------------------------
Stages      == {"idle", "answered"} \union InServer
Refusals    == {"login", "access", "refused"}
Conclusions == {"nothing", "confirmed", "unconfirmed"} \union Refusals

ServerTyped ==
  /\ slots \in Int /\ stage \in [Callers -> Stages] /\ told \in [Callers -> Conclusions]
  /\ msg \in [Callers -> Traffic \union {NoMessage}] /\ effect \in [Callers -> BOOLEAN]

Busy == {r \in Callers : stage[r] \in InServer}

Checked(r) ==
  /\ stage[r] \in InServer => msg[r] \in Traffic
  /\ stage[r] \in {"keyed", "gates", "run"} => msg[r].bearer
  /\ stage[r] \in {"gates", "run"} => msg[r].claims /\ msg[r].mind
  /\ stage[r] = "run" =>
       \A i \in DOMAIN Gates(msg[r].route) : Passes(msg[r], Gates(msg[r].route)[i])

Honest(r) ==
  /\ effect[r] => stage[r] = "answered" /\ Entitled(msg[r])
  /\ told[r] = "confirmed" => effect[r]
  /\ told[r] \in Refusals => ~effect[r]

\* The codes that leave open whether the operation took effect.
LeavesOpen(route, code) == code = 500 \/ (code = 403 /\ route \in Ingestions)

ServerInv ==
  /\ ServerTyped /\ (\A r \in Callers : Checked(r) /\ Honest(r))
  /\ slots = Cardinality(Busy) /\ slots <= MaxSlots

\* No request is sent yet, and no slot is taken.
LEMMA ServerStarts == ServingInit => ServerInv
<1> SUFFICES ASSUME ServingInit PROVE ServerInv
  OBVIOUS
<1>1. ServerTyped
  BY DEF ServingInit, ServerTyped, Stages, Conclusions
<1>2. \A r \in Callers : Checked(r) /\ Honest(r)
  BY DEF ServingInit, Checked, Honest, InServer, Refusals
<1>3. Busy = {}
  BY DEF ServingInit, Busy, InServer
<1>4. Cardinality(Busy) = 0
  BY <1>3, FS_EmptySet
<1> QED BY <1>1, <1>2, <1>4, ServingAssumption DEF ServingInit, ServerInv

\* A request that enters the server adds one to those in it.
LEMMA Entering ==
  ASSUME ServerInv, NEW r \in Callers, stage[r] = "idle", stage' = [stage EXCEPT ![r] = "token"]
  PROVE  Cardinality(Busy') = Cardinality(Busy) + 1
<1>1. Busy' = Busy \union {r} /\ r \notin Busy
  BY DEF ServerInv, ServerTyped, Busy, InServer
<1>2. IsFiniteSet(Busy)
  BY ServingAssumption, FS_Subset DEF Busy
<1> QED BY <1>1, <1>2, FS_AddElement

\* A request that leaves the server takes one from those in it.
LEMMA Leaving ==
  ASSUME ServerInv, NEW r \in Callers, stage[r] \in InServer, stage' = [stage EXCEPT ![r] = "answered"]
  PROVE  Cardinality(Busy') = Cardinality(Busy) - 1
<1>1. Busy' = Busy \ {r} /\ r \in Busy
  BY DEF ServerInv, ServerTyped, Busy, InServer
<1>2. IsFiniteSet(Busy)
  BY ServingAssumption, FS_Subset DEF Busy
<1> QED BY <1>1, <1>2, FS_RemoveElement

\* doRequest, IngestDocument: what the client concludes from a code, or from none.
LEMMA Conclusive ==
  ASSUME NEW route, NEW code \in Nat
  PROVE  /\ Concludes(route, code) \in Conclusions
         /\ Concludes(route, code) = "confirmed" => code = 200
         /\ Concludes(route, code) \in Refusals => code \in {400, 401, 403, 409} /\ ~LeavesOpen(route, code)
<1>1. CASE code = 200
  BY <1>1 DEF Concludes, Conclusions, Refusals, LeavesOpen
<1>2. CASE code = 400
  BY <1>2 DEF Concludes, Conclusions, Refusals, LeavesOpen
<1>3. CASE code \notin {200, 400} /\ route \in Ingestions
  BY <1>3 DEF Concludes, Conclusions, Refusals, LeavesOpen
<1>4. CASE code \notin {200, 400} /\ route \notin Ingestions
  <2>1. CASE code = 401
    BY <1>4, <2>1 DEF Concludes, Conclusions, Refusals, LeavesOpen
  <2>2. CASE code = 403
    BY <1>4, <2>2 DEF Concludes, Conclusions, Refusals, LeavesOpen
  <2>3. CASE code = 409
    BY <1>4, <2>3 DEF Concludes, Conclusions, Refusals, LeavesOpen
  <2>4. CASE code \notin {401, 403, 409}
    BY <1>4, <2>4 DEF Concludes, Conclusions, Refusals, LeavesOpen
  <2> QED BY <2>1, <2>2, <2>3, <2>4
<1> QED BY <1>1, <1>2, <1>3, <1>4

\* A request in the server is answered: refused, or with the outcome of its operation.
LEMMA AnswerKeeps ==
  ASSUME ServerInv, NEW r \in Callers, NEW code \in Nat, stage[r] \in InServer,
         Answer(r, code), UNCHANGED msg,
         effect' \in [Callers -> BOOLEAN], \A q \in Callers \ {r} : effect'[q] = effect[q],
         effect'[r] => (code = 200 \/ LeavesOpen(msg[r].route, code)) /\ Entitled(msg[r]),
         code = 200 => effect'[r]
  PROVE  ServerInv'
<1> USE DEF ServerInv
<1>0. PICK heard \in BOOLEAN :
        told' = [told EXCEPT ![r] = Concludes(msg[r].route, IF heard THEN code ELSE 0)]
  BY DEF Answer, Tell
<1> DEFINE got == IF heard THEN code ELSE 0
           now == Concludes(msg[r].route, got)
<1>a. got \in Nat /\ (got = code \/ got = 0)
  OBVIOUS
<1>b. /\ now \in Conclusions /\ (now = "confirmed" => got = 200)
      /\ now \in Refusals => got \in {400, 401, 403, 409} /\ ~LeavesOpen(msg[r].route, got)
  BY <1>a, Conclusive
<1>c. told' = [told EXCEPT ![r] = now]
  BY <1>0
<1> HIDE DEF got, now
<1>1. stage' = [stage EXCEPT ![r] = "answered"] /\ slots' = slots - 1
  BY DEF Answer, GoOn
<1>2. ServerTyped'
  BY <1>1, <1>b, <1>c DEF ServerTyped, Stages
<1>3. \A q \in Callers : Checked(q)'
  BY <1>1 DEF Checked, ServerTyped, InServer
<1>4. \A q \in Callers : Honest(q)'
  <2> TAKE q \in Callers
  <2>1. CASE q = r
    <3>1. told'[r] = now /\ stage'[r] = "answered" /\ msg'[r] = msg[r]
      BY <1>1, <1>c DEF ServerTyped
    <3>2. now = "confirmed" => effect'[r]
      BY <1>a, <1>b
    <3>3. now \in Refusals => ~effect'[r]
      BY <1>a, <1>b
    <3> QED BY <2>1, <3>1, <3>2, <3>3 DEF Honest
  <2>2. CASE q # r
    BY <1>1, <1>c, <2>2 DEF Honest, ServerTyped
  <2> QED BY <2>1, <2>2
<1>5. slots' = Cardinality(Busy')
  BY <1>1, Leaving
<1>6. slots' <= MaxSlots
  BY <1>1, ServingAssumption DEF ServerTyped
<1> QED BY <1>2, <1>3, <1>4, <1>5, <1>6

\* A refusal leaves nothing behind.
LEMMA RefusalKeeps ==
  ASSUME ServerInv, NEW r \in Callers, NEW code \in Nat \ {200}, stage[r] \in InServer,
         Answer(r, code), UNCHANGED <<msg, effect>>
  PROVE  ServerInv'
<1>1. effect' \in [Callers -> BOOLEAN] /\ effect' = effect /\ ~effect'[r]
  BY DEF ServerInv, ServerTyped, Honest, InServer
<1> QED BY <1>1, AnswerKeeps

\* A request goes on to the next stage, with what its gates have found out.
LEMMA GoesOn ==
  ASSUME ServerInv, NEW r \in Callers, stage[r] \in InServer, NEW next \in InServer,
         GoOn(r, next), UNCHANGED <<slots, told, msg, effect>>, Checked(r)'
  PROVE  ServerInv'
<1> USE DEF ServerInv, GoOn
<1>1. ServerTyped'
  BY DEF ServerTyped, Stages
<1>2. \A q \in Callers : Checked(q)'
  <2> TAKE q \in Callers
  <2>1. CASE q # r
    BY <2>1 DEF Checked, ServerTyped
  <2> QED BY <2>1
<1>3. \A q \in Callers : Honest(q)'
  BY DEF Honest, ServerTyped, InServer
<1>4. Busy' = Busy
  BY DEF Busy, ServerTyped
<1> QED BY <1>1, <1>2, <1>3, <1>4

\* What the gates of a route ask for is what its operation requires.
LEMMA GatesEntitle ==
  ASSUME NEW m \in Traffic, m.bearer, m.claims, m.mind,
         \A i \in DOMAIN Gates(m.route) : Passes(m, Gates(m.route)[i]),
         ~(m.route \in Ingestions /\ ~MayIngest(m))
  PROVE  Entitled(m)
<1>0. m.route \in Routes /\ (m.contributes => m.reads)
  BY ServingAssumption DEF Messages
<1>1. CASE m.route \in {"search", "context", "targets", "scopeStatus"}
  <2>1. Gates(m.route) = <<"formed", "reads">>
    BY <1>1 DEF Gates, Ingestions
  <2>2. 2 \in DOMAIN Gates(m.route) /\ Gates(m.route)[2] = "reads"
    BY <2>1
  <2>3. Passes(m, "reads")
    BY <2>2
  <2> QED BY <1>1, <2>3 DEF Entitled, Ingestions, Passes
<1>2. CASE m.route = "syncStatus"
  BY <1>2 DEF Entitled, Ingestions
<1>3. CASE m.route \in Ingestions
  <2>1. Gates(m.route) = <<"writer", "formed", "contributes">>
    BY <1>3 DEF Gates, Ingestions
  <2>2. /\ 1 \in DOMAIN Gates(m.route) /\ Gates(m.route)[1] = "writer"
        /\ 3 \in DOMAIN Gates(m.route) /\ Gates(m.route)[3] = "contributes"
    BY <2>1
  <2>3. Passes(m, "writer") /\ Passes(m, "contributes")
    BY <2>2
  <2> QED BY <1>3, <2>3 DEF Entitled, Ingestions, MayIngest, Passes
<1>4. CASE m.route \in {"preview", "approve"}
  <2>1. Gates(m.route) = <<"scope", "contributes", "writer", "formed">>
    BY <1>4 DEF Gates, Ingestions
  <2>2. /\ 1 \in DOMAIN Gates(m.route) /\ Gates(m.route)[1] = "scope"
        /\ 2 \in DOMAIN Gates(m.route) /\ Gates(m.route)[2] = "contributes"
        /\ 3 \in DOMAIN Gates(m.route) /\ Gates(m.route)[3] = "writer"
    BY <2>1
  <2>3. Passes(m, "writer") /\ Passes(m, "contributes") /\ Passes(m, "scope")
    BY <2>2
  <2> QED BY <1>0, <1>4, <2>3 DEF Entitled, Ingestions, Passes
<1> QED BY <1>0, <1>1, <1>2, <1>3, <1>4 DEF Routes, Ingestions

\* authMiddleware: a request takes a slot or is refused at once.
LEMMA SendKeeps ==
  ASSUME ServerInv, NEW r \in Callers, NEW m \in Traffic, Send(r, m)
  PROVE  ServerInv'
<1> USE DEF ServerInv
<1>0. stage[r] = "idle" /\ UNCHANGED effect /\ ~effect[r]
  BY DEF Send, Honest
<1>1. CASE slots < MaxSlots
  <2>1. /\ stage' = [stage EXCEPT ![r] = "token"] /\ slots' = slots + 1
        /\ msg' = [msg EXCEPT ![r] = m] /\ UNCHANGED told
    BY <1>1 DEF Send, GoOn
  <2>2. ServerTyped'
    BY <1>0, <2>1 DEF ServerTyped, Stages, InServer
  <2>3. \A q \in Callers : Checked(q)' /\ Honest(q)'
    BY <1>0, <2>1 DEF Checked, Honest, ServerTyped, InServer
  <2>4. slots' = Cardinality(Busy')
    BY <1>0, <2>1, Entering
  <2>5. slots' <= MaxSlots
    BY <1>1, <2>1, ServingAssumption DEF ServerTyped
  <2> QED BY <2>2, <2>3, <2>4, <2>5
<1>2. CASE ~(slots < MaxSlots)
  <2>1. /\ stage' = [stage EXCEPT ![r] = "answered"] /\ msg' = [msg EXCEPT ![r] = m]
        /\ UNCHANGED slots
    BY <1>2 DEF Send, GoOn
  <2>a. PICK code \in {0, 503} : told' = [told EXCEPT ![r] = Concludes(m.route, code)]
    BY <1>2 DEF Send, Tell
  <2>b. Concludes(m.route, code) \in Conclusions /\ Concludes(m.route, code) # "confirmed"
    BY Conclusive
  <2>2. ServerTyped'
    BY <1>0, <2>1, <2>a, <2>b DEF ServerTyped, Stages
  <2>3. \A q \in Callers : Checked(q)' /\ Honest(q)'
    BY <1>0, <2>1, <2>a, <2>b DEF Checked, Honest, ServerTyped, InServer
  <2>4. Busy' = Busy
    BY <1>0, <2>1 DEF Busy, ServerTyped, InServer
  <2> QED BY <2>1, <2>2, <2>3, <2>4
<1> QED BY <1>1, <1>2

\* LookUp, Validate, PassGates.
LEMMA GatesKeep ==
  ASSUME ServerInv, NEW r \in Callers, LookUp(r) \/ Validate(r) \/ PassGates(r)
  PROVE  ServerInv'
<1>0. Checked(r) /\ \A s \in {"token", "keyed", "gates", "run"} : s \in InServer
  BY DEF ServerInv, InServer
<1>1. CASE LookUp(r)
  <2>1. CASE msg[r].bearer
    <3>1. GoOn(r, "keyed") /\ UNCHANGED <<slots, told, msg, effect>> /\ stage[r] = "token"
      BY <1>1, <2>1 DEF LookUp
    <3>2. Checked(r)'
      BY <1>0, <2>1, <3>1 DEF Checked, GoOn, ServerInv, ServerTyped
    <3> QED BY <1>0, <3>1, <3>2, GoesOn
  <2>2. CASE ~msg[r].bearer
    BY <1>0, <1>1, <2>2, RefusalKeeps DEF LookUp
  <2> QED BY <2>1, <2>2
<1>2. CASE Validate(r)
  <2>1. CASE answer[r] = "key" /\ msg[r].claims /\ msg[r].mind
    <3>1. GoOn(r, "gates") /\ UNCHANGED <<slots, told, msg, effect>> /\ stage[r] = "keyed"
      BY <1>2, <2>1 DEF Validate
    <3>2. Checked(r)'
      BY <1>0, <2>1, <3>1 DEF Checked, GoOn, ServerInv, ServerTyped
    <3> QED BY <1>0, <3>1, <3>2, GoesOn
  <2>2. CASE ~(answer[r] = "key" /\ msg[r].claims /\ msg[r].mind)
    <3>1. /\ stage[r] = "keyed" /\ UNCHANGED <<msg, effect>>
          /\ Answer(r, 401) \/ Answer(r, 403)
      BY <1>2, <2>2 DEF Validate
    <3> QED BY <1>0, <3>1, RefusalKeeps
  <2> QED BY <2>1, <2>2
<1>3. CASE PassGates(r)
  <2> DEFINE gates  == Gates(msg[r].route)
             closed == {i \in DOMAIN gates : ~Passes(msg[r], gates[i])}
  <2>0. stage[r] = "gates" /\ UNCHANGED <<msg, effect>>
    BY <1>3 DEF PassGates
  <2>1. CASE closed = {}
    <3>1. GoOn(r, "run") /\ UNCHANGED <<slots, told>>
      BY <1>3, <2>1 DEF PassGates
    <3>2. \A i \in DOMAIN gates : Passes(msg[r], gates[i])
      BY <2>1
    <3>3. stage'[r] = "run" /\ msg'[r] = msg[r]
      BY <2>0, <3>1 DEF GoOn, ServerInv, ServerTyped
    <3>4. \A i \in DOMAIN Gates(msg'[r].route) : Passes(msg'[r], Gates(msg'[r].route)[i])
      BY <3>2, <3>3
    <3>5. msg[r] \in Traffic /\ msg[r].bearer /\ msg[r].claims /\ msg[r].mind
      BY <1>0, <2>0 DEF Checked, InServer
    <3>6. Checked(r)'
      BY <3>3, <3>4, <3>5 DEF Checked
    <3> QED BY <1>0, <2>0, <3>1, <3>6, GoesOn
  <2>2. CASE closed # {}
    <3>1. PICK code \in {400, 403} : Answer(r, code)
      BY <1>3, <2>2 DEF PassGates
    <3> QED BY <1>0, <2>0, <3>1, RefusalKeeps
  <2> QED BY <2>1, <2>2
<1> QED BY <1>1, <1>2, <1>3

\* The operation runs, and is reported as it went.
LEMMA RunKeeps ==
  ASSUME ServerInv, NEW r \in Callers, Run(r)
  PROVE  ServerInv'
<1>0. /\ stage[r] = "run" /\ stage[r] \in InServer /\ UNCHANGED msg
      /\ Checked(r) /\ Failures(msg[r].route) \subseteq {400, 403, 409, 500, 503}
  BY DEF Run, ServerInv, InServer, Failures
<1>1. CASE msg[r].route \in Ingestions /\ ~MayIngest(msg[r])
  <2>1. Answer(r, 403) /\ UNCHANGED effect
    BY <1>1 DEF Run
  <2> QED BY <1>0, <2>1, RefusalKeeps
<1>2. CASE ~(msg[r].route \in Ingestions /\ ~MayIngest(msg[r]))
  <2>1. Entitled(msg[r])
    BY <1>0, <1>2, GatesEntitle DEF Checked
  <2>2. CASE Answer(r, 200) /\ effect' = [effect EXCEPT ![r] = TRUE]
    <3>1. effect' \in [Callers -> BOOLEAN] /\ effect'[r] /\ \A q \in Callers \ {r} : effect'[q] = effect[q]
      BY <2>2 DEF ServerInv, ServerTyped
    <3>2. PICK code \in Nat : code = 200
      OBVIOUS
    <3>3. Answer(r, code)
      BY <2>2, <3>2
    <3> QED BY <1>0, <2>1, <3>1, <3>2, <3>3, AnswerKeeps
  <2>3. ASSUME NEW code \in Failures(msg[r].route), Answer(r, code), NEW late \in BOOLEAN,
               late => code \in {403, 500}, effect' = [effect EXCEPT ![r] = late]
        PROVE  ServerInv'
    <3>1. code \in Nat /\ code # 200
      BY <1>0
    <3>2. effect' \in [Callers -> BOOLEAN] /\ \A q \in Callers \ {r} : effect'[q] = effect[q]
      BY <2>3 DEF ServerInv, ServerTyped
    <3>3. code = 403 => msg[r].route \in Ingestions
      <4> SUFFICES ASSUME msg[r].route \notin Ingestions PROVE code # 403
        OBVIOUS
      <4>1. CASE msg[r].route \in {"search", "context", "targets"}
        BY <4>1 DEF Failures
      <4>2. CASE msg[r].route \in {"preview", "scopeStatus", "approve"}
        BY <4>2 DEF Failures, Ingestions
      <4>3. CASE msg[r].route \notin {"search", "context", "targets", "preview", "scopeStatus", "approve"}
        BY <4>3 DEF Failures
      <4> QED BY <4>1, <4>2, <4>3
    <3>4. effect'[r] => LeavesOpen(msg[r].route, code)
      <4>1. effect'[r] => code = 403 \/ code = 500
        BY <2>3 DEF ServerInv, ServerTyped
      <4> QED BY <3>3, <4>1 DEF LeavesOpen
    <3> QED BY <1>0, <2>1, <2>3, <3>1, <3>2, <3>4, AnswerKeeps
  <2> QED BY <1>2, <2>2, <2>3 DEF Run
<1> QED BY <1>1, <1>2

\* doRequest: the answer is read, or lost.
LEMMA ReceiveKeeps ==
  ASSUME ServerInv, NEW r \in Callers, Receive(r)
  PROVE  ServerInv'
<1> USE DEF ServerInv
<1>1. /\ stage[r] = "answered" /\ stage' = [stage EXCEPT ![r] = "idle"]
      /\ msg' = [msg EXCEPT ![r] = NoMessage] /\ told' = [told EXCEPT ![r] = "nothing"]
      /\ effect' = [effect EXCEPT ![r] = FALSE] /\ UNCHANGED slots
  BY DEF Receive, GoOn
<1>2. ServerTyped'
  BY <1>1 DEF ServerTyped, Stages, Conclusions
<1>3. \A q \in Callers : Checked(q)' /\ Honest(q)'
  BY <1>1 DEF Checked, Honest, ServerTyped, InServer, Refusals
<1>4. Busy' = Busy
  BY <1>1 DEF Busy, ServerTyped, InServer
<1> QED BY <1>1, <1>2, <1>3, <1>4

\* Every step of the server keeps its invariant.
LEMMA ServerStepKeeps == ServerInv /\ [ServingNext]_vars => ServerInv'
<1> SUFFICES ASSUME ServerInv, [ServingNext]_vars PROVE ServerInv'
  OBVIOUS
<1>1. CASE UNCHANGED serverVars
  BY <1>1 DEF serverVars, ServerInv, ServerTyped, Busy, Checked, Honest
<1>2. ASSUME NEW r \in Callers, ServerStep(r) \/ Receive(r) \/ \E m \in Traffic : Send(r, m)
      PROVE  ServerInv'
  BY <1>2, SendKeeps, GatesKeep, RunKeeps, ReceiveKeeps DEF ServerStep
<1> QED BY <1>1, <1>2 DEF ServingNext, KeyStep, ProbeStep, vars

\* Every step of the server is one of the cache, or leaves the cache alone.
LEMMA ServingUsesCache == [ServingNext]_vars => [CacheNext]_cacheVars
<1> SUFFICES ASSUME [ServingNext]_vars PROVE [CacheNext]_cacheVars
  OBVIOUS
<1>1. ASSUME NEW r \in Callers, ServerStep(r) \/ Receive(r) \/ \E m \in Traffic : Send(r, m)
      PROVE  Ask(r) \/ Return(r) \/ UNCHANGED cacheVars
  BY <1>1 DEF ServerStep, LookUp, Validate, PassGates, Run, Receive, Send
<1>2. Callers \subseteq Everyone /\ Probes \subseteq Everyone
  BY DEF Everyone
<1> QED BY <1>1, <1>2 DEF ServingNext, KeyStep, ProbeStep, CacheNext, vars

-----------------------------------------------------------------------------
(***************************************************************************)
(* getKey, ensureFresh and refresh, under any traffic: fetches are spaced, *)
(* and a withdrawn key expires, for any number of requests and probes.     *)
(***************************************************************************)
THEOREM KeysTrustedAlways == ServingSpec => KeysTrusted
<1> DEFINE Spaced  == \A c \in Everyone : at'[c] = "fetch" /\ at[c] # "fetch" => attemptAge >= ErrorRetry
           Expires == \A c \in Callers : answer'[c] = "key" /\ answer[c] # "key" => gone[kid[c]] < GoneCap
<1>1. CacheInv /\ [CacheNext]_cacheVars => [Spaced]_cacheVars
  BY OnlyFromLookAgain, RefreshIsSpaced
<1>2. CacheInv /\ [CacheNext]_cacheVars => [Expires]_cacheVars
  BY OnlyFromLooks, FoundIsTrusted
<1>3. ServingInit => CacheInit
  BY DEF ServingInit
<1>4. ServingSpec => []CacheInv /\ [][CacheNext]_cacheVars
  BY <1>3, ServingUsesCache, CacheStarts, CacheStepKeeps, PTL DEF ServingSpec
<1> HIDE DEF Spaced, Expires
<1>5. ServingSpec => [][Spaced]_cacheVars /\ [][Expires]_cacheVars
  BY <1>1, <1>2, <1>4, PTL
<1> QED BY <1>5 DEF KeysTrusted, FetchesAreSpaced, WithdrawnKeyExpires, Spaced, Expires

(***************************************************************************)
(* requestSlots: whatever the traffic and wherever a request ends, the     *)
(* slots taken are those of the requests in the server.                    *)
(***************************************************************************)
THEOREM SlotsReturnedAlways == ServingSpec => []SlotsReturned
<1>1. ServerInv => SlotsReturned
  BY DEF ServerInv, SlotsReturned, Busy
<1> QED BY <1>1, ServerStarts, ServerStepKeeps, PTL DEF ServingSpec

(***************************************************************************)
(* Middlewares and handlers: on every route, whatever took effect was      *)
(* asked for by a member entitled to it.                                   *)
(***************************************************************************)
THEOREM OnlyEntitledAlways == ServingSpec => []OnlyEntitled
<1>1. ServerInv => OnlyEntitled
  BY DEF ServerInv, Honest, OnlyEntitled
<1> QED BY <1>1, ServerStarts, ServerStepKeeps, PTL DEF ServingSpec

(***************************************************************************)
(* doRequest, IngestDocument: what the client tells is never false, though *)
(* a failure comes after the effect or no answer comes at all.             *)
(***************************************************************************)
THEOREM ClientKnowsAlways == ServingSpec => []ClientKnows
<1>1. ServerInv => ClientKnows
  BY DEF ServerInv, Honest, ClientKnows, Refusals
<1> QED BY <1>1, ServerStarts, ServerStepKeeps, PTL DEF ServingSpec
================================================================================
