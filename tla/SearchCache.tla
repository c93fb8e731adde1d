----------------------------- MODULE SearchCache -----------------------------
(***************************************************************************)
(* GET /api/v1/search without personalization                              *)
(* (internal/api/handler/search.go): GET the cached answer from Redis; on  *)
(* a miss, search Typesense and SET the answer with a time to live.        *)
(*                                                                         *)
(* Handlers share nothing but the cache and the index, and any of them may *)
(* rest between its search and its SET while imports change the index.     *)
(* The index is a version, and an answer the version it was read from.     *)
(* A personalized request never touches the cache; Api has it.             *)
(***************************************************************************)
EXTENDS Integers

CONSTANTS
    Handler,     \* requests that may be at work at the same time
    Key,         \* searchCacheKey: query, page, limit and the two filters
    CacheTTL,    \* SEARCH_CACHE_TTL_SECONDS in ticks, any integer
    MaxLag,      \* bound: ticks between a handler's search and its SET
    MaxVersion,  \* bound: versions of the index
    MaxFaults    \* bound: errors of Redis and Typesense

ASSUME SearchCacheAssumption ==
    /\ CacheTTL \in Int
    /\ MaxLag \in Nat /\ MaxVersion \in Nat /\ MaxFaults \in Nat

VARIABLES
    index,       \* the current version of the index
    superseded,  \* superseded[v]: ticks since v ceased to be current (counted up to Horizon)
    cache,       \* cache[k]: the entry, or Missing
    pc,          \* where each handler is
    key,         \* key[h]: the cache key of its request
    result,      \* result[h]: the version of its results
    lag,         \* lag[h]: ticks since its search, while it has yet to SET
    failures

shared == <<index, superseded, cache>>
handler == <<pc, key, result, lag>>
cacheVars == <<shared, handler, failures>>

Version == 0..MaxVersion
NoVersion == -1
Horizon == CacheTTL + MaxLag

\* An entry's ticks to live; ForEver stands for an entry without an expiry, which is
\* what a SET with a TTL of 0 or less leaves.
ForEver == -1
Missing == [version |-> NoVersion, left |-> 0]

CacheInit ==
    /\ index = 0
    /\ superseded = [v \in Version |-> 0]
    /\ cache = [k \in Key |-> Missing]
    /\ pc = [h \in Handler |-> "idle"]
    /\ key \in [Handler -> Key]
    /\ result = [h \in Handler |-> NoVersion]
    /\ lag = [h \in Handler |-> 0]
    /\ failures = 0

-----------------------------------------------------------------------------

Fault ==
    /\ failures < MaxFaults
    /\ failures' = failures + 1

Goto(h, there) == pc' = [pc EXCEPT ![h] = there]

Caching == CacheTTL > 0

Receive(h, k) ==
    /\ pc[h] = "idle"
    /\ Goto(h, IF Caching THEN "get" ELSE "search")
    /\ key' = [key EXCEPT ![h] = k]
    /\ result' = [result EXCEPT ![h] = NoVersion]
    /\ UNCHANGED <<shared, lag, failures>>

\* What if a hit renewed the entry's time to live?
HitRenews(h) ==
    /\ pc[h] = "get"
    /\ cache[key[h]] # Missing
    /\ result' = [result EXCEPT ![h] = cache[key[h]].version]
    /\ cache' = [cache EXCEPT ![key[h]].left = CacheTTL]
    /\ Goto(h, "answer")
    /\ UNCHANGED <<index, superseded, key, lag, failures>>

\* A hit is the answer; it leaves the entry as it is.
Hit(h) ==
    /\ pc[h] = "get"
    /\ cache[key[h]] # Missing
    /\ result' = [result EXCEPT ![h] = cache[key[h]].version]
    /\ Goto(h, "answer")
    /\ UNCHANGED <<shared, key, lag, failures>>

\* A miss; an error of Redis is taken for one.
Miss(h) ==
    /\ pc[h] = "get"
    /\ IF cache[key[h]] = Missing THEN UNCHANGED failures ELSE Fault
    /\ Goto(h, "search")
    /\ UNCHANGED <<shared, key, result, lag>>

SearchIndex(h) ==
    /\ pc[h] = "search"
    /\ result' = [result EXCEPT ![h] = index]
    /\ lag' = [lag EXCEPT ![h] = 0]
    /\ Goto(h, IF Caching THEN "set" ELSE "answer")
    /\ UNCHANGED <<shared, key, failures>>

\* Typesense fails: the answer is a 500.
SearchFails(h) ==
    /\ pc[h] = "search"
    /\ Fault
    /\ Goto(h, "idle")
    /\ UNCHANGED <<shared, key, result, lag>>

\* What if the SET had no expiry?
NoExpiry == ForEver
TimeToLive == IF CacheTTL <= 0 THEN ForEver ELSE CacheTTL

\* A SET replaces the entry and its time to live.
Store(h) == cache' = [cache EXCEPT ![key[h]] = [version |-> result[h], left |-> TimeToLive]]

\* SET; nobody looks at its error.
Set(h) ==
    /\ pc[h] = "set"
    /\ \/ Store(h) /\ UNCHANGED failures
       \/ Fault /\ UNCHANGED cache
    /\ Goto(h, "answer")
    /\ lag' = [lag EXCEPT ![h] = 0]
    /\ UNCHANGED <<index, superseded, key, result>>

Answer(h) ==
    /\ pc[h] = "answer"
    /\ Goto(h, "idle")
    /\ UNCHANGED <<shared, key, result, lag, failures>>

-----------------------------------------------------------------------------
(* The index, Redis and the clock. *)

\* An import changes the index.
NewIndex ==
    /\ index < MaxVersion
    /\ index' = index + 1
    /\ UNCHANGED <<superseded, cache, handler, failures>>

Aged(entry) ==
    IF entry.left = 1 THEN Missing
    ELSE IF entry.left > 1 THEN [entry EXCEPT !.left = @ - 1]
    ELSE entry

Tick ==
    /\ \A h \in Handler : pc[h] = "set" => lag[h] < MaxLag
    /\ lag' = [h \in Handler |-> IF pc[h] = "set" THEN lag[h] + 1 ELSE 0]
    /\ superseded' = [v \in Version |->
                        IF v < index /\ superseded[v] < Horizon THEN superseded[v] + 1
                        ELSE superseded[v]]
    /\ cache' = [k \in Key |-> Aged(cache[k])]
    /\ UNCHANGED <<index, pc, key, result, failures>>

-----------------------------------------------------------------------------

Step(h) == Hit(h) \/ Miss(h) \/ SearchIndex(h) \/ SearchFails(h) \/ Set(h) \/ Answer(h)

CacheNext ==
    \/ \E h \in Handler : Step(h) \/ \E k \in Key : Receive(h, k)
    \/ NewIndex
    \/ Tick

CacheSpec == CacheInit /\ [][CacheNext]_cacheVars

FairCacheSpec == CacheSpec /\ WF_cacheVars(Tick) /\ \A h \in Handler : WF_cacheVars(Step(h))

-----------------------------------------------------------------------------
(* Properties. *)

Entry == [version : Version, left : (Nat \ {0}) \union {ForEver}]

CacheTypeOK ==
    /\ index \in Version
    /\ superseded \in [Version -> Nat]
    /\ cache \in [Key -> Entry \union {Missing}]
    /\ pc \in [Handler -> {"idle", "get", "search", "set", "answer"}]
    /\ key \in [Handler -> Key]
    /\ result \in [Handler -> Version \union {NoVersion}]
    /\ lag \in [Handler -> 0..MaxLag]
    /\ failures \in 0..MaxFaults

\* The cache never holds an answer that the index outgrew longer ago than an entry may
\* live after the SET, and the SET may lag behind the search: also when a slow handler
\* puts its older answer over a newer one, and however often the entry is hit.  Every
\* entry expires.
CacheNotTooOld ==
    \A k \in Key :
        cache[k] # Missing =>
            /\ cache[k].left \in 1..CacheTTL
            /\ superseded[cache[k].version] + cache[k].left <= Horizon

\* Once imports have come to rest every answer is in the end the index's own.
CacheCatchesUp ==
    <>[](\A k \in Key : cache[k] # Missing => cache[k].version = index)
=============================================================================
