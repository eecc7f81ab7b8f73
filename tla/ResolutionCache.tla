-------------------------- MODULE ResolutionCache --------------------------
(***************************************************************************)
(* PortoResolver.resolve and the cache in front of its pipeline: an        *)
(* ordered map with a time to live and a maximum size, oldest use first.   *)
(* The pipeline reads the catalog only, which does not change, so it is a  *)
(* function of the request; it may also refuse, and a refusal is not       *)
(* cached.  Ages are taken from datetime.now(), the local wall clock, which*)
(* may be put forward and back.                                            *)
(***************************************************************************)
EXTENDS Integers, Sequences, SequencesExt

CONSTANTS
    Requests,
    Keys,
    KeyOf,      \* generate_key of each request
    Portos,
    Refusals,   \* the PortoErrors the pipeline raises
    Answer,     \* what the pipeline makes of each request
    TTL,        \* CacheConfig.ttl
    MaxSize,    \* CacheConfig.max_size, which nothing validates
    Batch,      \* how many entries go when the cache is full: 10
    Drift,      \* how far the wall clock may be put forward or back
    MaxTime     \* bound: the time at which the clock stops

ASSUME RequestsAssumption ==
    /\ KeyOf \in [Requests -> Keys]
    /\ Answer \in [Requests -> Portos \union Refusals]
    /\ Portos \intersect Refusals = {}

ASSUME ConfigAssumption ==
    /\ TTL \in Nat /\ MaxSize \in Nat /\ Drift \in Nat /\ MaxTime \in Nat
    /\ Batch \in Nat \ {0}

VARIABLES
    enabled,  \* CacheConfig.enabled
    cache,    \* _cache: a sequence, the entry used longest ago first
    now,      \* the true time
    shift,    \* what the wall clock is ahead of it
    returned, \* what the last resolve() returned, and how old that was
    used      \* history: <<k, l>> when l was used after k's last use

vars == <<enabled, cache, now, shift, returned, used>>
-----------------------------------------------------------------------------
\* `born', the true time of the computation, is history.
Entries == [key : Keys, data : Portos, at : Nat, born : Nat]

Clock == now + shift

Held(k) == {i \in DOMAIN cache : cache[i].key = k}

KeysIn(c) == {c[i].key : i \in DOMAIN c}

Expired(entry) == Clock - entry.at > TTL

BugRoom(c) == IF Len(c) > MaxSize THEN SubSeq(c, Batch + 1, Len(c)) ELSE c

\* _evict_oldest: what is left of c when an entry is to be added.
Room(c) == IF Len(c) >= MaxSize THEN SubSeq(c, Batch + 1, Len(c)) ELSE c

NewEntry(r) == [key |-> KeyOf[r], data |-> Answer[r], at |-> Clock, born |-> now]

Return(r, answer, age) ==
    returned' = {[request |-> r, answer |-> answer, age |-> age]}

Using(u, k) == {p \in u : p[1] # k} \union {<<l, k>> : l \in Keys \ {k}}

Use(k) == used' = Using(used, k)

Init ==
    /\ enabled \in BOOLEAN
    /\ cache = <<>>
    /\ now = 0
    /\ shift \in 0 .. Drift
    /\ returned = {}
    /\ used = {}

BugHit(r) ==
    /\ enabled
    /\ \E i \in Held(KeyOf[r]) :
          /\ ~Expired(cache[i])
          /\ cache' = Append(RemoveAt(cache, i), [cache[i] EXCEPT !.at = Clock])
          /\ Return(r, cache[i].data, now - cache[i].born)
    /\ Use(KeyOf[r])
    /\ UNCHANGED <<enabled, now, shift>>

BugHitInPlace(r) ==
    /\ enabled
    /\ \E i \in Held(KeyOf[r]) :
          /\ ~Expired(cache[i])
          /\ Return(r, cache[i].data, now - cache[i].born)
    /\ Use(KeyOf[r])
    /\ UNCHANGED <<enabled, cache, now, shift>>

Hit(r) ==
    /\ enabled
    /\ \E i \in Held(KeyOf[r]) :
          /\ ~Expired(cache[i])
          /\ cache' = Append(RemoveAt(cache, i), cache[i])
          /\ Return(r, cache[i].data, now - cache[i].born)
    /\ Use(KeyOf[r])
    /\ UNCHANGED <<enabled, now, shift>>

\* The pipeline, and set() into what get() left of the cache.  That no longer
\* has the key: resolve() runs to its end without an await.
Compute(r, c) ==
    /\ Return(r, Answer[r], 0)
    /\ IF Answer[r] \in Refusals
       THEN cache' = c /\ UNCHANGED used
       ELSE cache' = Append(Room(c), NewEntry(r)) /\ Use(KeyOf[r])
    /\ UNCHANGED <<enabled, now, shift>>

Miss(r) ==
    /\ enabled
    /\ Held(KeyOf[r]) = {}
    /\ Compute(r, cache)

Renew(r) ==
    /\ enabled
    /\ \E i \in Held(KeyOf[r]) :
          /\ Expired(cache[i])
          /\ Compute(r, RemoveAt(cache, i))

Uncached(r) ==
    /\ ~enabled
    /\ Return(r, Answer[r], 0)
    /\ UNCHANGED <<enabled, cache, now, shift, used>>

ClearCache ==
    /\ cache' = <<>>
    /\ UNCHANGED <<enabled, now, shift, returned, used>>

Tick ==
    /\ now < MaxTime
    /\ now' = now + 1
    /\ UNCHANGED <<enabled, cache, shift, returned, used>>

AdjustClock ==
    /\ shift' \in 0 .. Drift
    /\ UNCHANGED <<enabled, cache, now, returned, used>>

Next ==
    \/ \E r \in Requests : Hit(r) \/ Miss(r) \/ Renew(r) \/ Uncached(r)
    \/ ClearCache
    \/ Tick
    \/ AdjustClock

Spec == Init /\ [][Next]_vars
-----------------------------------------------------------------------------
(* Properties *)

\* No refusal is ever in the cache.
TypeOK ==
    /\ enabled \in BOOLEAN
    /\ cache \in Seq(Entries)
    /\ now \in Nat
    /\ shift \in 0 .. Drift
    /\ returned \subseteq [request : Requests, answer : Portos \union Refusals, age : Nat]
    /\ used \subseteq Keys \X Keys

\* The cache stays within max_size, of which every value below one counts as
\* one: a store makes room before it adds (cache.py:81-97).
SizeBounded == Len(cache) <= MaxSize \/ Len(cache) <= 1

\* No answer is older than the time to live and the clock's adjustment
\* together, however often it has been asked for (cache.py:74-79).
NotOverAge == \A got \in returned : got.age <= TTL + Drift

\* When entries make way for a new one, each was used before every entry that
\* stays (cache.py:78, 89, 94-97).
LeastRecentlyUsedGo ==
    [][\A got \in returned',
          k \in KeysIn(cache) \ KeysIn(cache'),
          l \in KeysIn(cache) \intersect KeysIn(cache') :
             KeyOf[got.request] # k => <<k, l>> \in used]_vars
=============================================================================
