---------------------------- MODULE ContentLemmas ----------------------------
(***************************************************************************)
(* Lemmas about DigContent and PlaintextCache that the proofs of both      *)
(* readers, the service worker and dig-embed.js, rest on.                  *)
(***************************************************************************)
EXTENDS DigContent, PlaintextCache, SequenceTheorems, TLAPS

-----------------------------------------------------------------------------
(* Cache operations, for entries drawn from an arbitrary set. *)

\* The position of a cached key is a position of the cache.
LEMMA PositionInCache ==
    ASSUME NEW S, NEW cache \in Seq(S), NEW at, Cached(cache, at)
    PROVE  /\ PositionOf(cache, at) \in 1 .. Len(cache)
           /\ cache[PositionOf(cache, at)].at = at
           /\ cache[PositionOf(cache, at)] \in S
<1>1. PICK i \in DOMAIN cache : cache[i].at = at
  BY DEF Cached
<1>2. PositionOf(cache, at) \in DOMAIN cache /\ cache[PositionOf(cache, at)].at = at
  BY <1>1, Zenon DEF PositionOf
<1>3. DOMAIN cache = 1 .. Len(cache) /\ \A j \in 1 .. Len(cache) : cache[j] \in S
  OBVIOUS
<1> QED BY <1>2, <1>3, Zenon

\* A hit returns the body of an entry stored under that very key.
LEMMA LookupFound ==
    ASSUME NEW S, NEW cache \in Seq(S), NEW at, Cached(cache, at)
    PROVE  \E e \in S : e.at = at /\ e.body = Lookup(cache, at)
BY PositionInCache DEF Lookup

\* rememberInMemory evicts, overwrites or appends; it adds at most the given entry.
LEMMA RememberType ==
    ASSUME NEW S, NEW cache \in Seq(S), NEW e \in S, CACHE_MAX \in Nat \ {0}
    PROVE  Remember(cache, e) \in Seq(S)
<1> DEFINE room == IF Len(cache) >= CACHE_MAX THEN Tail(cache) ELSE cache
<1>1. room \in Seq(S)
  <2>1. CASE Len(cache) >= CACHE_MAX
    <3>1. cache # <<>>
      BY <2>1
    <3> QED BY <2>1, <3>1, HeadTailProperties
  <2>2. CASE ~(Len(cache) >= CACHE_MAX)
    BY <2>2
  <2> QED BY <2>1, <2>2
<1> HIDE DEF room
<1>2. CASE Cached(room, e.at)
  <2>1. PositionOf(room, e.at) \in 1 .. Len(room)
    BY <1>1, <1>2, PositionInCache
  <2>2. [room EXCEPT ![PositionOf(room, e.at)] = e] \in Seq(S)
    BY <1>1, <2>1, ExceptSeq
  <2> QED BY <1>2, <2>2 DEF Remember, room
<1>3. CASE ~Cached(room, e.at)
  BY <1>1, <1>3, AppendProperties DEF Remember, room
<1> QED BY <1>2, <1>3

\* No more entries than CACHE_MAX, and one per key.
Orderly(cache) ==
    /\ Len(cache) <= CACHE_MAX
    /\ \A i, j \in DOMAIN cache : cache[i].at = cache[j].at => i = j

\* rememberInMemory keeps a cache orderly: it makes room first, and overwrites in place.
LEMMA RememberOrderly ==
    ASSUME NEW S, NEW cache \in Seq(S), NEW e \in S, CACHE_MAX \in Nat \ {0}, Orderly(cache)
    PROVE  Orderly(Remember(cache, e))
<1> DEFINE room == IF Len(cache) >= CACHE_MAX THEN Tail(cache) ELSE cache
<1>1. /\ room \in Seq(S) /\ Len(room) \in Nat /\ Len(room) < CACHE_MAX
      /\ \A i, j \in 1 .. Len(room) : room[i].at = room[j].at => i = j
  <2>1. CASE Len(cache) >= CACHE_MAX
    <3>1. cache # <<>>
      BY <2>1
    <3> DEFINE rest == Tail(cache)
    <3>2. /\ rest \in Seq(S) /\ Len(rest) = Len(cache) - 1
          /\ \A i \in 1 .. Len(rest) : rest[i] = cache[i + 1]
      BY <3>1, HeadTailProperties
    <3>3. room = rest
      BY <2>1
    <3>4. Len(cache) \in Nat /\ Len(rest) \in Nat /\ DOMAIN cache = 1 .. Len(cache)
      BY <3>2
    <3> HIDE DEF rest, room
    <3>5. ASSUME NEW i \in 1 .. Len(rest), NEW j \in 1 .. Len(rest), rest[i].at = rest[j].at
          PROVE  i = j
      <4>1. i + 1 \in DOMAIN cache /\ j + 1 \in DOMAIN cache
        BY <3>2, <3>4
      <4>2. cache[i + 1].at = cache[j + 1].at
        BY <3>2, <3>5
      <4>3. i + 1 = j + 1
        BY <4>1, <4>2 DEF Orderly
      <4> QED BY <3>4, <4>3
    <3>6. Len(rest) < CACHE_MAX
      BY <3>2, <3>4 DEF Orderly
    <3> QED BY <3>2, <3>3, <3>4, <3>5, <3>6
  <2>2. CASE ~(Len(cache) >= CACHE_MAX)
    BY <2>2 DEF Orderly
  <2> QED BY <2>1, <2>2
<1> HIDE DEF room
<1>2. CASE Cached(room, e.at)
  <2> DEFINE p == PositionOf(room, e.at)
             new == [room EXCEPT ![p] = e]
  <2>1. p \in 1 .. Len(room) /\ room[p].at = e.at
    BY <1>1, <1>2, PositionInCache
  <2>2. /\ Remember(cache, e) = new
    BY <1>2 DEF Remember, room
  <2> HIDE DEF p
  <2>3. /\ new \in Seq(S) /\ Len(new) = Len(room)
        /\ \A i \in 1 .. Len(room) : new[i].at = room[i].at
    BY <1>1, <2>1, ExceptSeq
  <2> HIDE DEF new
  <2> QED BY <1>1, <2>2, <2>3 DEF Orderly
<1>3. CASE ~Cached(room, e.at)
  <2> DEFINE new == Append(room, e)
  <2>1. Remember(cache, e) = new
    BY <1>3 DEF Remember, room
  <2>2. /\ new \in Seq(S) /\ Len(new) = Len(room) + 1 /\ new[Len(room) + 1] = e
        /\ \A i \in 1 .. Len(room) : new[i] = room[i]
    BY <1>1, AppendProperties
  <2>3. \A i \in 1 .. Len(room) : room[i].at # e.at
    BY <1>1, <1>3 DEF Cached
  <2> HIDE DEF new
  <2>4. ASSUME NEW i \in 1 .. Len(room) + 1, NEW j \in 1 .. Len(room) + 1, new[i].at = new[j].at
        PROVE  i = j
    BY <1>1, <2>2, <2>3, <2>4
  <2> QED BY <1>1, <2>1, <2>2, <2>4 DEF Orderly
<1> QED BY <1>2, <1>3

-----------------------------------------------------------------------------
(* What an opened chunk amounts to. *)

\* Every chunk is of the key; of the root too, when the read is pinned.
Faithful(at, chunks) ==
    /\ \A i \in DOMAIN chunks : chunks[i].key = at.key
    /\ at.root # Latest => AllOf(chunks, at.key, at.root)

\* An opened chunk decrypts to what the store published for the key, in some generation.
LEMMA OpenedChunk ==
    ASSUME NEW bytes, NEW m, NEW k \in Keys, NEW salt, NEW c \in Chunks,
           ChunkOpens(bytes, m, k, salt, c)
    PROVE  \E g \in Generations : Plain(bytes, c) = Published(k, g)
<1>1. PICK g \in Generations : \A w \in Spread[c] : bytes[w] = Published(k, g)
  BY DEF ChunkOpens
<1>2. Spread[c] \in (SUBSET Windows) \ {{}}
  BY ContentAssumption
<1>3. PICK w \in Spread[c] : TRUE
  BY <1>2
<1>4. (CHOOSE w2 \in Spread[c] : TRUE) \in Spread[c]
  BY <1>3, Zenon
<1> QED BY <1>1, <1>4 DEF Plain

\* If the whole buffer is of one published resource, an opened chunk is of that resource.
LEMMA OpenedChunkOfProven ==
    ASSUME NEW bytes, NEW m, NEW k \in Keys, NEW salt, NEW c \in Chunks,
           ChunkOpens(bytes, m, k, salt, c),
           NEW k2, NEW root, \A w \in Windows : bytes[w] = Published(k2, root)
    PROVE  k2 = k /\ root \in Generations /\ Plain(bytes, c) = Published(k, root)
<1>1. PICK g \in Generations : \A w \in Spread[c] : bytes[w] = Published(k, g)
  BY DEF ChunkOpens
<1>2. Spread[c] \in (SUBSET Windows) \ {{}}
  BY ContentAssumption
<1>3. PICK w \in Spread[c] : TRUE
  BY <1>2
<1>4. (CHOOSE w2 \in Spread[c] : TRUE) \in Spread[c]
  BY <1>3, Zenon
<1>5. Published(k2, root) = Published(k, g)
  BY <1>1, <1>2, <1>3
<1>6. k2 = k /\ root = g
  BY <1>5 DEF Published
<1> QED BY <1>1, <1>4, <1>6 DEF Plain
=============================================================================
