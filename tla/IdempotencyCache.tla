-------------------------- MODULE IdempotencyCache --------------------------
(***************************************************************************)
(* The Idempotency-Key cache (src/src/http/idempotency_cache.hpp): a key   *)
(* is claimed by the request that will send, and later either released or  *)
(* given the response that repeats of the key replay.  Each operation runs *)
(* under the cache's mutex, so each is one step.                           *)
(***************************************************************************)
EXTENDS Integers, Sequences, SequencesExt

CONSTANTS
    Keys,         \* Idempotency-Key values
    MaxEntries    \* kMaxEntries

ASSUME CacheAssumption == MaxEntries \in Nat \ {0}

VARIABLES
    entries,      \* entries[k] : Absent, Pending or Done(response)
    order,        \* order_ : the keys by their first claim, oldest first
    evicted       \* history: the keys ever evicted

cacheVars == <<entries, order, evicted>>

Absent     == [state |-> "absent"]
Pending    == [state |-> "pending"]
Done(resp) == [state |-> "done", response |-> resp]

Held == {k \in Keys : entries[k] # Absent}

CacheInit ==
    /\ entries = [k \in Keys |-> Absent]
    /\ order = <<>>
    /\ evicted = {}

\* evictIfNeeded: keys leave from the front, whatever their state, until one
\* more fits.
Surplus == IF Len(order) >= MaxEntries THEN Len(order) - MaxEntries + 1 ELSE 0
Victims == {order[n] : n \in 1 .. Surplus}

\* claim() that returns 0: the key is the caller's.
Claim(k) ==
    /\ entries[k] = Absent
    /\ entries' = [j \in Keys |-> IF j = k THEN Pending
                                  ELSE IF j \in Victims THEN Absent ELSE entries[j]]
    /\ order' = Append(SubSeq(order, Surplus + 1, Len(order)), k)
    /\ evicted' = evicted \cup Victims

\* store(): nothing if the key has been evicted meanwhile.
Store(k, resp) ==
    /\ entries' = IF entries[k] = Absent THEN entries
                  ELSE [entries EXCEPT ![k] = Done(resp)]
    /\ UNCHANGED <<order, evicted>>

\* release(): by key, whoever claimed it last.
Release(k) ==
    /\ entries' = [entries EXCEPT ![k] = Absent]
    /\ order' = RemoveFirst(order, k)
    /\ UNCHANGED evicted

-----------------------------------------------------------------------------
\* The invariant stated in the comment of the class (idempotency_cache.hpp:
\* 16-23): order_ holds exactly the keys of entries_, each once, and with it
\* the cache never outgrows its limit.
OrderMatchesEntries ==
    /\ \A k \in Keys : k \in Held <=> \E n \in 1 .. Len(order) : order[n] = k
    /\ \A m, n \in 1 .. Len(order) : order[m] = order[n] => m = n
    /\ Len(order) <= MaxEntries
=============================================================================
