-------------------------------- MODULE KeyCache --------------------------------
(***************************************************************************)
(* JWKSClient (server/auth.go): the cache of the keys that sign tokens.    *)
(*                                                                         *)
(* A request looks its key up; a readiness probe wants keys that are       *)
(* fresh.  Whoever finds the cache wanting takes the one refresh slot,     *)
(* looks again, and asks the center, which may rotate its keys, fail or    *)
(* not answer at all until the client's timeout.                           *)
(*                                                                         *)
(* Times are ages in ticks, and stop growing where nobody can tell.        *)
(***************************************************************************)
EXTENDS Integers, FiniteSets

CONSTANTS
  Callers,       \* goroutines that validate a token
  Probes,        \* goroutines that probe readiness
  Kids,          \* key identifiers
  NoKid,         \* no key is looked for
  KeySets,       \* the sets of keys the center may publish
  TTL,           \* jwksCacheTTL
  FetchTimeout,  \* jwksFetchTimeout
  ReadinessTTL,  \* jwksReadinessTTL
  UnknownRetry,  \* jwksUnknownKeyRetry
  ErrorRetry     \* jwksErrorRetry

ASSUME CacheAssumption ==
  /\ Callers \intersect Probes = {} /\ KeySets \subseteq SUBSET Kids /\ NoKid \notin Kids
  /\ ErrorRetry \in Nat \ {0} /\ UnknownRetry \in Nat /\ ErrorRetry <= UnknownRetry
  /\ ReadinessTTL \in Nat /\ UnknownRetry <= ReadinessTTL
  /\ TTL \in Nat /\ ReadinessTTL <= TTL
  /\ FetchTimeout \in Nat \ {0}

VARIABLES
  keys, fetchedAge, attemptAge, lastError,  \* the client
  at,         \* where each goroutine stands
  kid,        \* the key a caller looks for
  answer,     \* what it was told
  body,       \* the keys in the answer of the center
  published,  \* the keys the center publishes
  gone        \* history: ticks since the center withdrew a key

cache     == <<keys, fetchedAge, attemptAge, lastError>>
cacheVars == <<cache, at, kid, answer, body, published, gone>>

Everyone == Callers \union Probes
Inside   == {"again", "fetch", "store", "final"}
GoneCap  == TTL + FetchTimeout
TriedCap == IF FetchTimeout > ErrorRetry THEN FetchTimeout ELSE ErrorRetry

CacheInit ==
  /\ keys = {} /\ fetchedAge = TTL /\ attemptAge = TriedCap /\ lastError = FALSE
  /\ at = [c \in Everyone |-> "idle"] /\ answer = [c \in Everyone |-> "none"]
  /\ kid = [c \in Callers |-> NoKid] /\ body = {} /\ published \in KeySets
  /\ gone = [k \in Kids |-> IF k \in published THEN 0 ELSE GoneCap]

Step(c, where) == at' = [at EXCEPT ![c] = where]
Reply(c, what) == answer' = [answer EXCEPT ![c] = what]

(***************************************************************************)
(* cachedKey, and the test of ensureFresh: "key", "unknown", "failed",     *)
(* "fresh", or "refresh" when the center has to be asked.                  *)
(***************************************************************************)
CachedKey(k) ==
  LET current == fetchedAge < (IF k \in keys THEN TTL ELSE UnknownRetry)
  IN  CASE current -> IF k \in keys THEN "key" ELSE "unknown"
        [] ~current /\ lastError /\ attemptAge < ErrorRetry -> "failed"
        [] OTHER -> "refresh"

Fresh == keys # {} /\ fetchedAge < ReadinessTTL

\* The first look of a probe does not ask about errors.
FirstLook(c) ==
  IF c \in Callers THEN CachedKey(kid[c]) ELSE IF Fresh THEN "fresh" ELSE "refresh"

(* Mutant: the cache is not looked at again with the slot in hand. *)
NoSecondLook(c) == "refresh"

SecondLook(c) ==
  IF c \in Callers THEN CachedKey(kid[c])
  ELSE CASE Fresh -> "fresh"
         [] ~Fresh /\ lastError /\ attemptAge < ErrorRetry -> "failed"
         [] OTHER -> "refresh"

Ask(c) ==
  /\ at[c] = "idle"
  /\ IF c \in Callers THEN \E k \in Kids : kid' = [kid EXCEPT ![c] = k] ELSE UNCHANGED kid
  /\ Step(c, "look") /\ UNCHANGED <<cache, answer, body, published, gone>>

Look(c) ==
  /\ at[c] = "look"
  /\ IF FirstLook(c) = "refresh"
       THEN Step(c, "queue") /\ UNCHANGED answer
       ELSE Step(c, "told") /\ Reply(c, FirstLook(c))
  /\ UNCHANGED <<cache, kid, body, published, gone>>

SlotFree == \A c \in Everyone : at[c] \notin Inside

(* Mutant: a waiter whose wish has been served sleeps on. *)
TakeSlotIfStale(c) ==
  /\ at[c] = "queue" /\ SlotFree /\ SecondLook(c) = "refresh" /\ Step(c, "again")
  /\ UNCHANGED <<cache, kid, answer, body, published, gone>>

TakeSlot(c) ==
  /\ at[c] = "queue" /\ SlotFree /\ Step(c, "again")
  /\ UNCHANGED <<cache, kid, answer, body, published, gone>>

\* Only a probe has a context that ends while it waits.
ProbeGivesUp(c) ==
  /\ c \in Probes /\ at[c] = "queue" /\ Step(c, "told") /\ Reply(c, "failed")
  /\ UNCHANGED <<cache, kid, body, published, gone>>

LookAgain(c) ==
  /\ at[c] = "again"
  /\ IF SecondLook(c) = "refresh"
       THEN Step(c, "fetch") /\ attemptAge' = 0 /\ UNCHANGED answer
       ELSE Step(c, "told") /\ Reply(c, SecondLook(c)) /\ UNCHANGED attemptAge
  /\ UNCHANGED <<keys, fetchedAge, lastError, kid, body, published, gone>>

(***************************************************************************)
(* refresh: an answer without a supported key counts as a failure.         *)
(***************************************************************************)
CenterAnswers(c) ==
  /\ at[c] = "fetch" /\ published # {} /\ Step(c, "store") /\ body' = published
  /\ UNCHANGED <<cache, kid, answer, published, gone>>

FetchFails(c) ==
  /\ at[c] \in {"fetch", "store"} /\ lastError' = TRUE /\ body' = {}
  /\ Step(c, "told") /\ Reply(c, "failed")
  /\ UNCHANGED <<keys, fetchedAge, attemptAge, kid, published, gone>>

ReplaceKeys == keys' = body

\* No caller asks for lastError while fetched is new, so it is cleared at once.
StoreKeys(c) ==
  /\ at[c] = "store" /\ ReplaceKeys /\ body' = {}
  /\ fetchedAge' = 0 /\ lastError' = FALSE
  /\ IF c \in Callers THEN Step(c, "final") /\ UNCHANGED answer
                      ELSE Step(c, "told") /\ Reply(c, "fresh")
  /\ UNCHANGED <<attemptAge, kid, published, gone>>

\* getKey drops the third look's wish to refresh: neither key nor error.
FinalLook(c) ==
  /\ at[c] = "final" /\ Step(c, "told") /\ Reply(c, CachedKey(kid[c]))
  /\ UNCHANGED <<cache, kid, body, published, gone>>

Return(c) ==
  /\ at[c] = "told" /\ Step(c, "idle") /\ Reply(c, "none")
  /\ IF c \in Callers THEN kid' = [kid EXCEPT ![c] = NoKid] ELSE UNCHANGED kid
  /\ UNCHANGED <<cache, body, published, gone>>

Rotate ==
  /\ \E ks \in KeySets :
       /\ ks # published /\ published' = ks
       /\ gone' = [k \in Kids |-> IF k \in ks THEN 0 ELSE gone[k]]
  /\ UNCHANGED <<cache, at, kid, answer, body>>

Older(age, cap) == IF age < cap THEN age + 1 ELSE age

\* The HTTP client gives a fetch up after its timeout.
Tick ==
  /\ (\E c \in Everyone : at[c] \in {"fetch", "store"}) => attemptAge < FetchTimeout
  /\ fetchedAge' = Older(fetchedAge, TTL) /\ attemptAge' = Older(attemptAge, TriedCap)
  /\ gone' = [k \in Kids |-> IF k \in published THEN 0 ELSE Older(gone[k], GoneCap)]
  /\ UNCHANGED <<keys, lastError, at, kid, answer, body, published>>

CacheStep(c) ==
  \/ Look(c) \/ TakeSlot(c) \/ LookAgain(c) \/ CenterAnswers(c) \/ FetchFails(c)
  \/ StoreKeys(c) \/ FinalLook(c)

CacheNext ==
  \/ \E c \in Everyone : Ask(c) \/ CacheStep(c) \/ ProbeGivesUp(c) \/ Return(c)
  \/ Rotate \/ Tick

CacheSpec == CacheInit /\ [][CacheNext]_cacheVars
----------------------------------------------------------------------------
(***************************************************************************)
(* getKey and ensureFresh: whoever waits for the slot finds what the one   *)
(* before it left, so the center is never asked twice within the retry     *)
(* delay, whoever asks and however the former fetch ended.                 *)
(***************************************************************************)
FetchesAreSpaced ==
  [][\A c \in Everyone : at'[c] = "fetch" /\ at[c] # "fetch" => attemptAge >= ErrorRetry]_cacheVars

(***************************************************************************)
(* getKey: a token is accepted under a key the center has withdrawn only   *)
(* while the cache, and the fetch that filled it, may be that old.         *)
(***************************************************************************)
WithdrawnKeyExpires ==
  [][\A c \in Callers : answer'[c] = "key" /\ answer[c] # "key" => gone[kid[c]] < GoneCap]_cacheVars
(***************************************************************************)
(* getKey and refresh, what the cache promises to both sides: the center   *)
(* is asked no more often than the retry delay allows, and a token is      *)
(* trusted no longer than the cache's lifetime and one fetch after its key *)
(* was withdrawn.                                                          *)
(***************************************************************************)
KeysTrusted == FetchesAreSpaced /\ WithdrawnKeyExpires
============================================================================
