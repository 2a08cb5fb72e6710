---------------------------- MODULE PlaintextCache ----------------------------
(***************************************************************************)
(* The in-memory cache of decrypted resources that assets/sw.js and        *)
(* assets/dig-embed.js each keep: an insertion-ordered JavaScript Map,     *)
(* here a sequence of entries [at, body], the oldest first.                *)
(***************************************************************************)
EXTENDS Naturals, Sequences

CONSTANT CACHE_MAX  \* bound on the in-memory cache

Cached(cache, at) == \E i \in DOMAIN cache : cache[i].at = at

PositionOf(cache, at) == CHOOSE i \in DOMAIN cache : cache[i].at = at

Lookup(cache, at) == cache[PositionOf(cache, at)].body

\* Mutant: the cap is tested after the fact.
RememberThenEvict(cache, e) ==
    LET room == IF Len(cache) > CACHE_MAX THEN Tail(cache) ELSE cache
    IN  IF Cached(room, e.at) THEN [room EXCEPT ![PositionOf(room, e.at)] = e] ELSE Append(room, e)

\* rememberInMemory: evict the oldest entry of a full cache, then Map.set, which overwrites in place.
Remember(cache, e) ==
    LET room == IF Len(cache) >= CACHE_MAX THEN Tail(cache) ELSE cache
    IN  IF Cached(room, e.at) THEN [room EXCEPT ![PositionOf(room, e.at)] = e] ELSE Append(room, e)
=============================================================================
