--------------------------- MODULE EmbedReadProofs ---------------------------
(***************************************************************************)
(* Proofs about EmbedRead, for every value of its constants: any number of *)
(* overlapping reads, keys, roots, windows and chunks, any network.        *)
(***************************************************************************)
EXTENDS EmbedRead, ContentLemmas, FiniteSetTheorems

-----------------------------------------------------------------------------
(* The inductive invariant. *)

FaithfulEntries ==
    {x \in Entries : Faithful(x.at, x.body) /\ (x.at.root # Latest => Whole(x.body))}

\* Only the pinned build ever runs, and whoever has passed the wasm runs it.
PinnedWasm ==
    /\ running # "other"
    /\ dig = "ok" => running = "pinned"

\* A read has its resolved reference; until it is done it has handed out nothing.
Progress(r) ==
    /\ pc[r] \in {"fetch", "gate"} => dig = "ok"
    /\ pc[r] \in Reading \cup {"done"} => want[r] \in Wants
    /\ pc[r] # "done" => body[r] = <<>>
    /\ pc[r] = "done" => /\ Faithful(want[r].at, body[r])
                         /\ want[r].at.root # Latest => Whole(body[r])

IInv ==
    /\ TypeOK
    /\ PinnedWasm
    /\ \A r \in Readers : Progress(r)
    /\ cache \in Seq(FaithfulEntries)

LEMMA InitInvariant == Init => IInv
<1> SUFFICES ASSUME Init PROVE IInv
  OBVIOUS
<1> USE ContentAssumption, EmbedAssumption
<1>1. buf \in [Readers -> Buffers] /\ meta \in [Readers -> Kept]
  BY DEF Init, Buffers, Zeroes, Bytes, NoMeta, Kept
<1>2. cache \in Seq(Entries) /\ cache \in Seq(FaithfulEntries) /\ body \in [Readers -> Bodies]
  BY DEF Init, Bodies
<1>3. pc \in [Readers -> PCs] /\ window \in [Readers -> Windows]
  BY DEF Init, PCs, Windows
<1>4. TypeOK
  BY <1>1, <1>2, <1>3 DEF Init, TypeOK
<1>5. PinnedWasm /\ \A r \in Readers : Progress(r)
  BY DEF Init, PinnedWasm, Progress, Reading
<1> QED BY <1>2, <1>4, <1>5 DEF IInv

-----------------------------------------------------------------------------
(* The gate. *)

\* A resolved reference has a root in canonical form.
LEMMA ResolveType ==
    ASSUME NEW ref \in Refs
    PROVE  Resolve(ref) \in Wants
BY ContentAssumption, EmbedAssumption
   DEF Resolve, AllRefs, Wants, CacheKeys, CanonicalOrLatest, RawRoots

\* The chunks that are decrypted are the first ones.
LEMMA ToldChunks ==
    ASSUME IInv, NEW r \in Readers
    PROVE  /\ Told(r) \subseteq Chunks /\ 0 \in Told(r)
           /\ Cardinality(Told(r)) \in Nat
           /\ \A i \in 1 .. Cardinality(Told(r)) : i - 1 \in Told(r)
           /\ Lengths(r).lens # "prefix" => Cardinality(Told(r)) = LastChunk + 1
<1>1. LastChunk \in Nat
  BY ContentAssumption
<1>2. CASE Lengths(r).lens = "prefix"
  <2>1. Told(r) = {0} /\ Cardinality({0}) = 1
    BY <1>2, FS_Singleton DEF Told
  <2> QED BY <1>1, <1>2, <2>1 DEF Chunks
<1>3. CASE Lengths(r).lens # "prefix"
  <2>1. Told(r) = 0 .. LastChunk
    BY <1>3 DEF Told, Chunks
  <2>2. Cardinality(0 .. LastChunk) = LastChunk - 0 + 1
    BY <1>1, FS_Interval
  <2> QED BY <1>1, <2>1, <2>2 DEF Chunks
<1> QED BY <1>2, <1>3

\* What passes the gate is what the store published for the key; under the pinned root, and whole,
\* when there is one.
LEMMA AdmittedIsFaithful ==
    ASSUME IInv, NEW r \in Readers, pc[r] = "gate", Admitted(r)
    PROVE  /\ Decrypted(r) \in Bodies
           /\ Faithful(want[r].at, Decrypted(r))
           /\ want[r].at.root # Latest => Whole(Decrypted(r))
<1> DEFINE key == want[r].at.key
           root == want[r].at.root
           salt == want[r].salt
           n == Cardinality(Told(r))
<1>1. key \in Keys /\ root \in Roots \cup {Latest} /\ running = "pinned"
  BY DEF IInv, Progress, Wants, CacheKeys, Reading, PinnedWasm
<1>2. /\ Told(r) \subseteq Chunks /\ n \in Nat /\ \A i \in 1 .. n : i - 1 \in Told(r)
      /\ Lengths(r).lens # "prefix" => n = LastChunk + 1
  BY ToldChunks
<1>3. \A c \in Told(r) : ChunkOpens(buf[r], Lengths(r), key, salt, c)
  BY DEF Admitted, Opens
<1> HIDE DEF key, root, salt, n
<1>4. \A c \in Told(r) : \E g \in Generations : Plain(buf[r], c) = Published(key, g)
  BY <1>1, <1>2, <1>3, OpenedChunk
<1>5. /\ Decrypted(r) = [i \in 1 .. n |-> Plain(buf[r], i - 1)]
      /\ \A i \in 1 .. n : Plain(buf[r], i - 1) \in Plaintexts /\ Plain(buf[r], i - 1).key = key
  <2>1. Decrypted(r) = [i \in 1 .. n |-> Plain(buf[r], i - 1)]
    BY DEF Decrypted, n
  <2>2. \A g \in Generations : Published(key, g) \in Plaintexts /\ Published(key, g).key = key
    BY <1>1 DEF Published, Plaintexts
  <2>3. ASSUME NEW c \in Told(r) PROVE Plain(buf[r], c) \in Plaintexts /\ Plain(buf[r], c).key = key
    <3>1. PICK g \in Generations : Plain(buf[r], c) = Published(key, g)
      BY <1>4, <2>3
    <3> QED BY <2>2, <3>1
  <2> QED BY <1>2, <2>1, <2>3
<1>6. Decrypted(r) \in Bodies /\ Len(Decrypted(r)) = n /\ DOMAIN Decrypted(r) = 1 .. n
  BY <1>2, <1>5 DEF Bodies
<1>7. ASSUME root # Latest
      PROVE  Whole(Decrypted(r)) /\ AllOf(Decrypted(r), key, root)
  <2>1. VerifyInclusion(buf[r], Lengths(r), root)
    BY <1>1, <1>7, ContentAssumption DEF Admitted, Verified, RootIsPinned, root
  <2>2. PICK k \in Keys : \A w \in Windows : buf[r][w] = Published(k, root)
    BY <2>1 DEF VerifyInclusion
  <2>3. \A c, kk, s : kk \in Keys /\ c \in Chunks /\ ChunkOpens(buf[r], Lengths(r), kk, s, c)
           => Plain(buf[r], c) = Published(kk, root)
    BY <2>2, OpenedChunkOfProven
  <2>4. \A i \in 1 .. n : Plain(buf[r], i - 1) = Published(key, root)
    BY <1>1, <1>2, <1>3, <2>3
  <2>5. n = LastChunk + 1
    BY <1>2, <2>1 DEF VerifyInclusion
  <2> QED BY <1>5, <1>6, <2>4, <2>5 DEF Whole, AllOf
<1>8. Faithful(want[r].at, Decrypted(r))
  BY <1>5, <1>6, <1>7 DEF Faithful, key, root
<1> QED BY <1>6, <1>7, <1>8 DEF root

-----------------------------------------------------------------------------
(* The steps. *)

\* What the invariant says of a cached body under the key it is found at.
LEMMA FaithfulHit ==
    ASSUME IInv, NEW at, Cached(cache, at)
    PROVE  /\ Lookup(cache, at) \in Bodies
           /\ Faithful(at, Lookup(cache, at))
           /\ at.root # Latest => Whole(Lookup(cache, at))
<1>1. PICK x \in FaithfulEntries : x.at = at /\ x.body = Lookup(cache, at)
  BY LookupFound DEF IInv
<1> QED BY <1>1 DEF FaithfulEntries, Entries

\* A reader that goes on, or gives up, without any bytes.
LEMMA MoveKeepsInvariant ==
    ASSUME IInv, NEW r \in Readers, NEW label \in PCs \ {"done"}, Goto(r, label),
           label \in {"fetch", "gate"} => dig = "ok",
           label \in Reading => want[r] \in Wants,
           pc[r] \in Reading,
           buf' \in [Readers -> Buffers], meta' \in [Readers -> Kept],
           window' \in [Readers -> Windows],
           UNCHANGED <<network, tip, dig, running, cache, want, body>>
    PROVE  IInv'
<1>1. TypeOK'
  BY DEF IInv, TypeOK, Goto
<1>2. PinnedWasm' /\ cache' \in Seq(FaithfulEntries)
  BY DEF IInv, PinnedWasm
<1>3. ASSUME NEW x \in Readers PROVE Progress(x)'
  BY <1>3 DEF IInv, TypeOK, Progress, Goto, Reading
<1> QED BY <1>1, <1>2, <1>3 DEF IInv

LEMMA HitStep ==
    ASSUME IInv, NEW r \in Readers, NEW ref \in Refs, Hit(r, ref)
    PROVE  IInv'
<1> DEFINE w == Resolve(ref)
           found == Lookup(cache, w.at)
<1>1. w \in Wants
  BY ResolveType
<1>2. found \in Bodies /\ Faithful(w.at, found) /\ (w.at.root # Latest => Whole(found))
  BY FaithfulHit DEF Hit, CacheKey
<1>3. /\ want' = [want EXCEPT ![r] = w] /\ body' = [body EXCEPT ![r] = found]
      /\ pc' = [pc EXCEPT ![r] = "done"]
      /\ UNCHANGED <<network, tip, dig, running, cache, window, buf, meta>>
  BY DEF Hit, Goto, CacheKey
<1> HIDE DEF w, found
<1>4. TypeOK'
  BY <1>1, <1>2, <1>3 DEF IInv, TypeOK, PCs
<1>5. PinnedWasm' /\ cache' \in Seq(FaithfulEntries)
  BY <1>3 DEF IInv, PinnedWasm
<1>6. ASSUME NEW x \in Readers PROVE Progress(x)'
  BY <1>1, <1>2, <1>3, <1>6 DEF IInv, TypeOK, Progress, Reading
<1> QED BY <1>4, <1>5, <1>6 DEF IInv

LEMMA MissStep ==
    ASSUME IInv, NEW r \in Readers, NEW ref \in Refs, Miss(r, ref)
    PROVE  IInv'
<1> DEFINE w == Resolve(ref)
           label == IF dig = "ok" THEN "fetch" ELSE "wasm"
<1>1. w \in Wants
  BY ResolveType
<1>2. /\ want' = [want EXCEPT ![r] = w] /\ pc' = [pc EXCEPT ![r] = label] /\ pc[r] = "idle"
      /\ dig' = IF dig = "none" THEN "pending" ELSE dig
      /\ UNCHANGED <<network, tip, running, cache, window, buf, meta, body>>
  BY DEF Miss, Goto
<1>3. label \in {"fetch", "wasm"} /\ (label = "fetch" => dig = "ok")
  OBVIOUS
<1> HIDE DEF w, label
<1>4. TypeOK'
  BY <1>1, <1>2, <1>3 DEF IInv, TypeOK, PCs, Reading
<1>5. PinnedWasm' /\ cache' \in Seq(FaithfulEntries)
  BY <1>2 DEF IInv, TypeOK, PinnedWasm
<1>6. ASSUME NEW x \in Readers PROVE Progress(x)'
  BY <1>1, <1>2, <1>3, <1>6 DEF IInv, TypeOK, Progress, Reading
<1> QED BY <1>4, <1>5, <1>6 DEF IInv

\* Only the build with the pinned hash is ever run.
LEMMA LoadStep == IInv /\ LoadDig => IInv'
<1> SUFFICES ASSUME IInv, LoadDig PROVE IInv'
  OBVIOUS
<1>1. PICK label \in {"fetch", "failed"} :
        /\ Awaken(label) /\ (label = "fetch" => dig' = "ok")
  BY DEF LoadDig, WasmLoads, WasmFails
<1>2. /\ dig = "pending" /\ dig' \in {"ok", "none"} /\ running' \in {running, "pinned"}
      /\ dig' = "ok" => running' = "pinned"
      /\ UNCHANGED <<network, tip, cache, want, window, buf, meta, body>>
  BY DEF LoadDig, WasmLoads, WasmFails
<1>3. \A x \in Readers : pc'[x] = (IF pc[x] = "wasm" THEN label ELSE pc[x])
  BY <1>1 DEF Awaken
<1>4. TypeOK'
  BY <1>1, <1>2 DEF IInv, TypeOK, Awaken, PCs, Reading
<1>5. PinnedWasm' /\ cache' \in Seq(FaithfulEntries)
  BY <1>2 DEF IInv, PinnedWasm
<1>6. ASSUME NEW x \in Readers PROVE Progress(x)'
  <2>1. CASE pc[x] = "wasm"
    BY <1>1, <1>2, <1>3, <1>6, <2>1 DEF IInv, Progress, Reading
  <2>2. CASE pc[x] # "wasm"
    BY <1>2, <1>3, <1>6, <2>2 DEF IInv, Progress, Reading
  <2> QED BY <2>1, <2>2
<1> QED BY <1>4, <1>5, <1>6 DEF IInv

\* Whatever a reply says, what is kept of it is of the right type.
LEMMA WindowStep ==
    ASSUME IInv, NEW r \in Readers, Window(r)
    PROVE  IInv'
<1>1. PICK reply \in Replies(r) :
        /\ buf' = [buf EXCEPT ![r][reply.at] = reply.bytes]
        /\ meta' = [meta EXCEPT ![r] = Keep(@, reply)]
        /\ window' = [window EXCEPT ![r] = IF reply.next = None THEN @ ELSE reply.next]
        /\ Goto(r, IF reply.next = None THEN "gate" ELSE "fetch")
  BY DEF Window
<1>2. /\ pc[r] = "fetch" /\ dig = "ok" /\ want[r] \in Wants
      /\ UNCHANGED <<network, tip, dig, running, cache, want, body>>
  BY DEF Window, IInv, Progress, Reading
<1>3. /\ reply.bytes \in Bytes /\ reply.at \in Windows /\ reply.next \in Windows \cup {None}
      /\ reply.lens \in Lenses /\ reply.proof \in ReplyProofs
  <2>1. CASE network = "hostile"
    <3>1. reply \in HostileReplies /\ \A m \in ForgedMetas : m.lens \in LensKinds
      BY <1>1, <2>1, EmbedAssumption DEF Replies, Metas
    <3> QED BY <3>1 DEF HostileReplies, Reply, Lenses
  <2>2. CASE network # "hostile"
    <3>1. window[r] \in Windows /\ tip \in Generations /\ want[r].at \in CacheKeys
      BY <1>2 DEF IInv, TypeOK, Wants
    <3>2. Truth(want[r].at.key, want[r].at.root, tip) \in Bytes
      BY <3>1 DEF Truth, Published, Bytes, Plaintexts, CacheKeys
    <3>3. window[r] # LastWindow => window[r] + 1 \in Windows
      BY <3>1, ContentAssumption DEF Windows
    <3> QED BY <1>1, <2>2, <3>1, <3>2, <3>3
            DEF Replies, HonestReplies, Reply, Lenses, LensKinds, ReplyProofs
  <2> QED BY <2>1, <2>2
<1>4. buf' \in [Readers -> Buffers]
  BY <1>1, <1>3 DEF IInv, TypeOK, Buffers
<1>5. meta' \in [Readers -> Kept]
  BY <1>1, <1>3 DEF IInv, TypeOK, Kept, Keep, Lenses
<1>6. window' \in [Readers -> Windows]
  BY <1>1, <1>3 DEF IInv, TypeOK
<1> QED BY <1>1, <1>2, <1>4, <1>5, <1>6, MoveKeepsInvariant DEF PCs, Reading

\* A read that ends without bytes.
LEMMA FailStep ==
    ASSUME IInv, NEW r \in Readers, CallFails(r) \/ Refuse(r)
    PROVE  IInv'
<1>1. /\ pc[r] \in Reading /\ Goto(r, "failed")
      /\ UNCHANGED <<network, tip, dig, running, cache, want, window, buf, meta, body>>
  BY DEF CallFails, Refuse, Reading
<1>2. /\ buf' \in [Readers -> Buffers] /\ meta' \in [Readers -> Kept]
      /\ window' \in [Readers -> Windows] /\ "failed" \in PCs \ {"done"}
  BY <1>1 DEF IInv, TypeOK, PCs
<1> QED BY <1>1, <1>2, MoveKeepsInvariant DEF Reading

\* The gate lets a body out and into the cache.
LEMMA AcceptStep ==
    ASSUME IInv, NEW r \in Readers, Accept(r)
    PROVE  IInv'
<1> DEFINE out == Decrypted(r)
           entry == [at |-> want[r].at, body |-> out]
<1>1. pc[r] = "gate" /\ Admitted(r) /\ want[r] \in Wants
  BY DEF Accept, IInv, Progress, Reading
<1>2. out \in Bodies /\ Faithful(want[r].at, out) /\ (want[r].at.root # Latest => Whole(out))
  BY <1>1, AdmittedIsFaithful
<1>3. /\ body' = [body EXCEPT ![r] = out] /\ cache' = Remember(cache, entry)
      /\ pc' = [pc EXCEPT ![r] = "done"]
      /\ UNCHANGED <<network, tip, dig, running, want, window, buf, meta>>
  BY DEF Accept, Goto, CacheKey
<1>4. entry \in Entries /\ entry \in FaithfulEntries
  BY <1>1, <1>2 DEF Entries, FaithfulEntries, Wants
<1> HIDE DEF out, entry
<1>5. cache' \in Seq(Entries) /\ cache' \in Seq(FaithfulEntries)
  BY <1>3, <1>4, RememberType, EmbedAssumption DEF IInv, TypeOK
<1>6. TypeOK'
  BY <1>2, <1>3, <1>5 DEF IInv, TypeOK, PCs
<1>7. PinnedWasm'
  BY <1>3 DEF IInv, PinnedWasm
<1>8. ASSUME NEW x \in Readers PROVE Progress(x)'
  BY <1>1, <1>2, <1>3, <1>8 DEF IInv, TypeOK, Progress, Reading
<1> QED BY <1>5, <1>6, <1>7, <1>8 DEF IInv

LEMMA ReleaseStep ==
    ASSUME IInv, NEW r \in Readers, Release(r)
    PROVE  IInv'
<1>0. Zeroes \in Buffers /\ NoMeta \in Kept /\ 0 \in Windows /\ <<>> \in Bodies
  BY ContentAssumption DEF Zeroes, Buffers, Bytes, NoMeta, Kept, Windows, Bodies
<1>1. TypeOK'
  BY <1>0 DEF IInv, TypeOK, Release, Goto, PCs
<1>2. PinnedWasm' /\ cache' \in Seq(FaithfulEntries)
  BY DEF IInv, PinnedWasm, Release
<1>3. ASSUME NEW x \in Readers PROVE Progress(x)'
  BY <1>3 DEF IInv, TypeOK, Progress, Release, Goto, Reading
<1> QED BY <1>1, <1>2, <1>3 DEF IInv

LEMMA NextInvariant == IInv /\ [Next]_vars => IInv'
<1> SUFFICES ASSUME IInv, [Next]_vars PROVE IInv'
  OBVIOUS
<1>1. CASE UNCHANGED vars
  BY <1>1 DEF IInv, TypeOK, PinnedWasm, Progress, vars, local
<1>2. CASE Commit
  BY <1>2 DEF IInv, TypeOK, PinnedWasm, Progress, Commit, local
<1>3. CASE LoadDig
  BY <1>3, LoadStep
<1>4. ASSUME NEW r \in Readers, GoOn(r) \/ Release(r) PROVE IInv'
  BY <1>4, WindowStep, FailStep, AcceptStep, ReleaseStep DEF GoOn
<1>5. ASSUME NEW r \in Readers, NEW ref \in Refs, Hit(r, ref) \/ Miss(r, ref) PROVE IInv'
  BY <1>5, HitStep, MissStep
<1> QED BY <1>1, <1>2, <1>3, <1>4, <1>5 DEF Next

\* The invariant holds in every reachable state.
THEOREM Invariance == Spec => []IInv
<1> QED BY InitInvariant, NextInvariant, PTL DEF Spec

\* Every variable of readResource keeps its type.
THEOREM EmbedTypeCorrect == Spec => []TypeOK
<1>1. IInv => TypeOK
  BY DEF IInv
<1> QED BY <1>1, Invariance, PTL

\* dig-embed.js readResource fails closed: the bytes that a read pinned to a root resolves with are
\* the whole resource, as published under that root, for any network, any overlap of reads, and
\* also when they come out of the cache.
THEOREM PinnedEmbedReadsAuthentic == Spec => []PinnedAuthentic
<1>1. IInv => PinnedAuthentic
  BY DEF IInv, Progress, PinnedAuthentic, Faithful
<1> QED BY <1>1, Invariance, PTL

\* CACHE of dig-embed.js holds no more than CACHE_MAX entries, one per reference, each of the key it
\* is found under, however many reads of the same resource overlap.
THEOREM EmbedCacheOrderly == Spec => []CacheOrderly
<1>1. Init => Orderly(cache)
  BY EmbedAssumption DEF Init, Orderly
<1>2. IInv /\ Orderly(cache) /\ [Next]_vars => Orderly(cache)'
  <2> SUFFICES ASSUME IInv, Orderly(cache), [Next]_vars PROVE Orderly(cache')
    BY DEF Orderly
  <2>1. ASSUME NEW r \in Readers, Accept(r) PROVE Orderly(cache')
    <3> DEFINE entry == [at |-> want[r].at, body |-> Decrypted(r)]
    <3>1. cache' = Remember(cache, entry)
      BY <2>1 DEF Accept, CacheKey
    <3>2. want[r] \in Wants /\ Decrypted(r) \in Bodies
      BY <2>1, AdmittedIsFaithful DEF Accept, IInv, Progress, Reading
    <3>3. entry \in Entries
      BY <3>2 DEF Entries, Wants
    <3> QED BY <3>1, <3>3, RememberOrderly, EmbedAssumption DEF IInv, TypeOK
  <2>2. CASE UNCHANGED cache
    BY <2>2
  <2> QED BY <2>1, <2>2 DEF Next, vars, LoadDig, WasmLoads, WasmFails, Commit, GoOn, Window, CallFails,
                            Refuse, Release, Hit, Miss
<1>3. IInv /\ Orderly(cache) => CacheOrderly
  <2> SUFFICES ASSUME IInv, Orderly(cache) PROVE CacheOrderly
    OBVIOUS
  <2>1. ASSUME NEW i \in DOMAIN cache PROVE cache[i] \in FaithfulEntries
    BY <2>1 DEF IInv
  <2> QED BY <2>1 DEF CacheOrderly, Orderly, FaithfulEntries, Faithful
<1> QED BY <1>1, <1>2, <1>3, Invariance, PTL DEF Spec

-----------------------------------------------------------------------------
(* The promise of VerifiedRead is kept. *)

\* How one step treats one reader: it is released or begins, it goes on with the same reference, or
\* it is left alone.
Treated(r) ==
    \/ pc[r] = "idle" \/ pc'[r] = "idle"
    \/ pc[r] \in Reading /\ want'[r] = want[r]
    \/ pc'[r] = pc[r] /\ want'[r] = want[r] /\ body'[r] = body[r]

LEMMA EveryoneTreated ==
    ASSUME IInv, [Next]_vars, NEW r \in Readers
    PROVE  Treated(r)
<1>1. CASE UNCHANGED vars \/ Commit
  BY <1>1 DEF vars, local, Commit, Treated
<1>2. CASE LoadDig
  <2>1. UNCHANGED <<want, body>> /\ \E label : Awaken(label)
    BY <1>2 DEF LoadDig, WasmLoads, WasmFails
  <2>2. pc'[r] = pc[r] \/ pc[r] = "wasm"
    BY <2>1 DEF Awaken
  <2> QED BY <2>1, <2>2 DEF Treated, Reading
<1>3. ASSUME NEW x \in Readers,
             GoOn(x) \/ Release(x) \/ \E ref \in Refs : Hit(x, ref) \/ Miss(x, ref)
      PROVE  Treated(r)
  <2>1. CASE x = r
    BY <1>3, <2>1
       DEF IInv, TypeOK, GoOn, Window, CallFails, Refuse, Accept, Release, Hit, Miss, Goto, Reading,
           Treated
  <2>2. CASE x # r
    BY <1>3, <2>2
       DEF IInv, TypeOK, GoOn, Window, CallFails, Refuse, Accept, Release, Hit, Miss, Goto, Treated
  <2> QED BY <2>1, <2>2
<1> QED BY <1>1, <1>2, <1>3 DEF Next

LEMMA EmptyPrefix ==
    ASSUME NEW S, NEW s \in Seq(S)
    PROVE  Promise!IsPrefix(<<>>, s)
BY DEF Promise!IsPrefix

\* What each place in the code looks like from outside.
LEMMA Outside ==
    ASSUME NEW r \in Readers
    PROVE  /\ pc[r] = "idle" => outcome[r] = "idle"
           /\ pc[r] = "done" => outcome[r] = "done"
           /\ pc[r] = "failed" => outcome[r] = "refused"
           /\ pc[r] \in Reading => outcome[r] = "reading"
           /\ want[r] # None => askedFor[r] = want[r].at
BY DEF outcome, askedFor, Reading

LEMMA OutsideAfter ==
    ASSUME NEW r \in Readers
    PROVE  /\ pc'[r] = "idle" => outcome'[r] = "idle"
           /\ pc'[r] = "done" => outcome'[r] = "done"
           /\ pc'[r] = "failed" => outcome'[r] = "refused"
           /\ pc'[r] \in Reading => outcome'[r] = "reading"
           /\ want'[r] # None => askedFor'[r] = want'[r].at
           /\ want'[r] = want[r] => askedFor'[r] = askedFor[r]
           /\ pc'[r] = pc[r] => outcome'[r] = outcome[r]
BY DEF outcome, askedFor, Reading

\* A reader that is not idle after a step has got on from nothing.
LEMMA GotOn ==
    ASSUME IInv', NEW r \in Readers, pc'[r] # "idle"
    PROVE  Promise!GetOn(r, <<>>)
<1>1. Progress(r)' /\ body'[r] \in Bodies /\ pc'[r] \in PCs
  BY DEF IInv, TypeOK
<1>2. Promise!IsPrefix(<<>>, body'[r])
  BY <1>1, EmptyPrefix DEF Bodies
<1>3. CASE pc'[r] = "done"
  <2> DEFINE at == want'[r].at
  <2>1. /\ want'[r] \in Wants /\ Faithful(at, body'[r])
        /\ at.root # Latest => Len(body'[r]) = LastChunk + 1
    BY <1>1, <1>3 DEF Progress, Whole
  <2>2. askedFor'[r] = at /\ outcome'[r] = "done"
    BY <1>3, <2>1, EmbedAssumption, OutsideAfter
  <2> HIDE DEF at
  <2>3. \A i \in DOMAIN body'[r] : Promise!Authentic(body'[r][i], at)
    BY <2>1 DEF Faithful, AllOf, Published, Promise!Authentic
  <2> QED BY <1>2, <2>1, <2>2, <2>3 DEF Promise!GetOn
<1>4. CASE pc'[r] # "done"
  <2>1. body'[r] = <<>>
    BY <1>1, <1>4 DEF Progress
  <2>2. outcome'[r] \in {"reading", "refused"}
    BY <1>1, <1>4, OutsideAfter DEF PCs
  <2>3. \A i \in DOMAIN body'[r] : Promise!Authentic(body'[r][i], askedFor'[r])
    BY <2>1
  <2> QED BY <1>2, <2>1, <2>2, <2>3 DEF Promise!GetOn
<1> QED BY <1>3, <1>4

LEMMA PromiseStep ==
    ASSUME IInv, IInv', [Next]_vars, NEW r \in Readers
    PROVE  Promise!Step(r)
<1>1. Treated(r)
  BY EveryoneTreated
<1>2. Progress(r) /\ Progress(r)'
  BY DEF IInv
<1>3. CASE pc'[r] = "idle"
  <2>1. body'[r] = <<>> /\ outcome'[r] = "idle"
    BY <1>2, <1>3, OutsideAfter DEF Progress
  <2> QED BY <2>1 DEF Promise!Step
<1>4. CASE pc[r] = "idle" /\ pc'[r] # "idle"
  <2>1. outcome[r] = "idle"
    BY <1>4, Outside
  <2> QED BY <1>4, <2>1, GotOn DEF Promise!Step
<1>5. CASE pc[r] \in Reading /\ want'[r] = want[r] /\ pc'[r] # "idle"
  <2>1. body[r] = <<>>
    BY <1>2, <1>5 DEF Progress, Reading
  <2>2. outcome[r] = "reading" /\ askedFor'[r] = askedFor[r]
    BY <1>5, Outside, OutsideAfter
  <2>3. Promise!GetOn(r, body[r])
    BY <1>5, <2>1, GotOn
  <2> QED BY <2>2, <2>3 DEF Promise!Step
<1>6. CASE pc'[r] = pc[r] /\ want'[r] = want[r] /\ body'[r] = body[r]
  <2>1. outcome'[r] = outcome[r] /\ askedFor'[r] = askedFor[r]
    BY <1>6, OutsideAfter
  <2> QED BY <1>6, <2>1 DEF Promise!Step
<1> QED BY <1>1, <1>3, <1>4, <1>5, <1>6 DEF Treated

\* readResource of dig-embed.js implements the promise of VerifiedRead: what it hands out is
\* authentic, whole when pinned, never taken back, and nothing when it refuses.
THEOREM EmbedReadImplementsVerifiedRead == Spec => ImplementsVerifiedRead
<1>1. Init => Promise!Init
  BY DEF Init, Promise!Init, outcome
<1>2. IInv /\ IInv' /\ [Next]_vars => Promise!Next
  BY PromiseStep DEF Promise!Next
<1>3. Promise!Next => [Promise!Next]_(Promise!vars)
  OBVIOUS
<1> QED BY <1>1, <1>2, <1>3, Invariance, PTL DEF Spec, ImplementsVerifiedRead, Promise!Spec
-----------------------------------------------------------------------------
(* On an honest network a read of what the store published succeeds. *)

TrueMeta == [proof |-> TRUE, lens |-> "exact"]

\* The reader made a mistake, or asked for something that may not exist.
Excused(r) == want[r].salt # StoreSalt \/ want[r].at.root \notin Generations

\* The window holds what the reader asked for.
Landed(r, w) == Excused(r) \/ buf[r][w] = Published(want[r].at.key, want[r].at.root)

\* What an honest network has sent of a read: the windows before the next one, and the truth about them.
OnCourse(r) ==
    /\ pc[r] \in {"idle", "wasm"} => window[r] = 0 /\ meta[r] = NoMeta
    /\ pc[r] = "fetch" => /\ meta[r] = IF window[r] = 0 THEN NoMeta ELSE TrueMeta
                          /\ \A w \in 0 .. (window[r] - 1) : Landed(r, w)
    /\ pc[r] = "gate" => meta[r] = TrueMeta /\ \A w \in Windows : Landed(r, w)
    /\ pc[r] = "failed" => Excused(r)

Honest == network = "honest" => \A r \in Readers : OnCourse(r)

\* The true metadata and all windows of what was published pass the gate.
LEMMA TruthIsAdmitted ==
    ASSUME IInv, NEW r \in Readers, pc[r] = "gate", ~Excused(r),
           meta[r] = TrueMeta, \A w \in Windows : Landed(r, w)
    PROVE  Admitted(r)
<1> DEFINE key == want[r].at.key
           root == want[r].at.root
<1>1. key \in Keys /\ root \in Generations /\ want[r].salt = StoreSalt
  BY DEF IInv, Progress, Wants, CacheKeys, Reading, Excused
<1>2. \A w \in Windows : buf[r][w] = Published(key, root)
  BY DEF Landed
<1>3. Lengths(r) = TrueMeta
  BY DEF Lengths, TrueMeta
<1>4. VerifyInclusion(buf[r], Lengths(r), root)
  BY <1>1, <1>2, <1>3 DEF VerifyInclusion, TrueMeta
<1>5. ASSUME NEW c \in Chunks PROVE ChunkOpens(buf[r], Lengths(r), key, want[r].salt, c)
  <2>1. Spread[c] \subseteq Windows
    BY <1>5, ContentAssumption
  <2> HIDE DEF key, root
  <2> QED BY <1>1, <1>2, <1>3, <2>1 DEF ChunkOpens, TrueMeta
<1>6. Told(r) \subseteq Chunks
  BY ToldChunks
<1> QED BY <1>4, <1>5, <1>6 DEF Admitted, Verified, Opens

\* A step that moves a reader leaves it on course.
LEMMA MissOnCourse ==
    ASSUME IInv, NEW r \in Readers, OnCourse(r), NEW ref \in Refs, Miss(r, ref)
    PROVE  OnCourse(r)'
<1>1. /\ pc[r] = "idle" /\ pc'[r] \in {"wasm", "fetch"}
      /\ window'[r] = window[r] /\ meta'[r] = meta[r]
  BY DEF Miss, Goto, IInv, TypeOK
<1>2. window'[r] = 0 /\ meta'[r] = NoMeta
  BY <1>1 DEF OnCourse
<1>3. 0 .. (window'[r] - 1) = {}
  BY <1>2
<1> QED BY <1>1, <1>2, <1>3 DEF OnCourse

LEMMA WindowOnCourse ==
    ASSUME IInv, network = "honest", NEW r \in Readers, OnCourse(r), Window(r)
    PROVE  OnCourse(r)'
<1> DEFINE w == window[r]
           truth == Truth(want[r].at.key, want[r].at.root, tip)
           next == IF w = LastWindow THEN None ELSE w + 1
<1>1. PICK reply \in Replies(r) :
        /\ buf' = [buf EXCEPT ![r][reply.at] = reply.bytes]
        /\ meta' = [meta EXCEPT ![r] = Keep(@, reply)]
        /\ window' = [window EXCEPT ![r] = IF reply.next = None THEN @ ELSE reply.next]
        /\ Goto(r, IF reply.next = None THEN "gate" ELSE "fetch")
  BY DEF Window
<1>2. reply = Reply(truth, w, IF w = 0 THEN "genuine" ELSE "none", "exact", next)
  BY <1>1 DEF Replies, HonestReplies
<1>3. /\ reply.at = w /\ reply.bytes = truth /\ reply.lens = "exact" /\ reply.next = next
      /\ reply.proof = IF w = 0 THEN "genuine" ELSE "none"
  BY <1>2 DEF Reply
<1>4. pc[r] = "fetch" /\ want'[r] = want[r] /\ w \in Nat /\ w \in Windows /\ LastWindow \in Nat
  BY ContentAssumption DEF Window, IInv, TypeOK, Windows
<1> HIDE DEF truth
<1>5. next = None <=> w = LastWindow
  BY <1>4, EmbedAssumption DEF Windows
<1> HIDE DEF next
<1>6. /\ buf'[r] = [buf[r] EXCEPT ![w] = truth] /\ meta'[r] = Keep(meta[r], reply)
      /\ window'[r] = IF next = None THEN w ELSE next
      /\ pc'[r] = IF next = None THEN "gate" ELSE "fetch"
  BY <1>1, <1>3 DEF Goto, IInv, TypeOK
<1>7. meta'[r] = TrueMeta
  <2>1. meta[r] = IF w = 0 THEN NoMeta ELSE TrueMeta
    BY <1>4 DEF OnCourse
  <2> HIDE DEF w
  <2>2. CASE w = 0
    <3>1. meta[r] = NoMeta /\ reply.proof = "genuine"
      BY <1>3, <2>1, <2>2
    <3>2. Keep(NoMeta, reply) = [proof |-> (reply.proof = "genuine"), lens |-> "exact"]
      BY <1>3, <3>1, Zenon DEF Keep, NoMeta
    <3>3. (reply.proof = "genuine") = TRUE
      BY <3>1
    <3> QED BY <1>6, <3>1, <3>2, <3>3, Zenon DEF TrueMeta
  <2>3. CASE w # 0
    <3>1. meta[r] = TrueMeta /\ reply.proof = "none"
      BY <1>3, <2>1, <2>3
    <3> QED BY <1>6, <3>1 DEF Keep, TrueMeta
  <2> QED BY <2>2, <2>3
<1>8. ASSUME NEW x \in 0 .. w PROVE Landed(r, x)'
  <2>1. x \in Windows /\ buf[r] \in [Windows -> Bytes]
    BY <1>4 DEF Windows, IInv, TypeOK, Buffers
  <2>2. CASE x = w
    <3>1. buf'[r][x] = truth
      BY <1>6, <2>1, <2>2
    <3>2. ASSUME ~Excused(r) PROVE truth = Published(want[r].at.key, want[r].at.root)
      BY <3>2, ContentAssumption DEF Excused, Truth, truth
    <3> QED BY <1>4, <3>1, <3>2 DEF Landed, Excused
  <2>3. CASE x # w
    <3>1. buf'[r][x] = buf[r][x] /\ x \in 0 .. (w - 1)
      BY <1>4, <1>6, <2>1, <2>3
    <3> QED BY <1>4, <3>1 DEF OnCourse, Landed, Excused
  <2> QED BY <2>2, <2>3
<1>9. CASE next = None
  <2>1. Windows = 0 .. w /\ pc'[r] = "gate"
    BY <1>5, <1>6, <1>9 DEF Windows
  <2> QED BY <1>7, <1>8, <2>1 DEF OnCourse
<1>10. CASE next # None
  <2>1. window'[r] = w + 1 /\ pc'[r] = "fetch"
    BY <1>5, <1>6, <1>10 DEF next
  <2>2. window'[r] # 0 /\ 0 .. (window'[r] - 1) = 0 .. w
    BY <1>4, <2>1
  <2> QED BY <1>7, <1>8, <2>1, <2>2 DEF OnCourse
<1> QED BY <1>9, <1>10

LEMMA EndOnCourse ==
    ASSUME IInv, network = "honest", NEW r \in Readers, OnCourse(r),
           CallFails(r) \/ Refuse(r) \/ Accept(r) \/ Release(r) \/ \E ref \in Refs : Hit(r, ref)
    PROVE  OnCourse(r)'
<1>1. CASE CallFails(r)
  BY <1>1 DEF CallFails
<1>2. CASE Refuse(r)
  <2>1. pc[r] = "gate" /\ ~Admitted(r) /\ pc'[r] = "failed" /\ want'[r] = want[r]
    BY <1>2 DEF Refuse, Goto, IInv, TypeOK
  <2>2. Excused(r)
    BY <2>1, TruthIsAdmitted DEF OnCourse
  <2> QED BY <2>1, <2>2 DEF OnCourse, Excused
<1>3. CASE Accept(r) \/ \E ref \in Refs : Hit(r, ref)
  <2>1. pc'[r] = "done"
    BY <1>3 DEF Accept, Hit, Goto, IInv, TypeOK
  <2> QED BY <2>1 DEF OnCourse
<1>4. CASE Release(r)
  <2>1. pc'[r] = "idle" /\ window'[r] = 0 /\ meta'[r] = NoMeta
    BY <1>4 DEF Release, Goto, IInv, TypeOK
  <2> QED BY <2>1 DEF OnCourse
<1> QED BY <1>1, <1>2, <1>3, <1>4

\* A read that is left alone stays on course, also when the wasm that it waits for has loaded.
LEMMA AloneOnCourse ==
    ASSUME NEW r \in Readers, OnCourse(r),
           pc'[r] = pc[r] \/ (pc[r] = "wasm" /\ pc'[r] = "fetch"),
           want'[r] = want[r], window'[r] = window[r], buf'[r] = buf[r], meta'[r] = meta[r]
    PROVE  OnCourse(r)'
<1>1. \A w : Landed(r, w)' <=> Landed(r, w)
  BY DEF Landed, Excused
<1>2. CASE pc'[r] = pc[r]
  BY <1>1, <1>2 DEF OnCourse, Excused
<1>3. CASE pc[r] = "wasm" /\ pc'[r] = "fetch"
  <2>1. window'[r] = 0 /\ meta'[r] = NoMeta
    BY <1>3 DEF OnCourse
  <2>2. 0 .. (window'[r] - 1) = {}
    BY <2>1
  <2> QED BY <1>3, <2>1, <2>2 DEF OnCourse
<1> QED BY <1>2, <1>3

LEMMA NextHonest ==
    ASSUME IInv, Honest, [Next]_vars
    PROVE  Honest'
<1>1. network' = network
  BY DEF Next, vars, local, LoadDig, WasmLoads, WasmFails, Commit, GoOn, Window, CallFails, Refuse,
         Accept, Release, Hit, Miss
<1> SUFFICES ASSUME network = "honest" PROVE \A e \in Readers : OnCourse(e)'
  BY <1>1 DEF Honest
<1>2. \A e \in Readers : OnCourse(e)
  BY DEF Honest
<1> SUFFICES ASSUME NEW e \in Readers PROVE OnCourse(e)'
  OBVIOUS
<1>3. CASE UNCHANGED vars \/ Commit
  <2>1. UNCHANGED local
    BY <1>3 DEF vars, Commit
  <2> QED BY <1>2, <2>1, AloneOnCourse DEF local
<1>4. CASE LoadDig
  <2>1. Awaken("fetch") /\ UNCHANGED <<want, window, buf, meta>>
    BY <1>4 DEF LoadDig, WasmLoads, WasmFails
  <2>2. pc'[e] = pc[e] \/ (pc[e] = "wasm" /\ pc'[e] = "fetch")
    BY <2>1 DEF Awaken
  <2> QED BY <1>2, <2>1, <2>2, AloneOnCourse
<1>5. ASSUME NEW x \in Readers,
             GoOn(x) \/ Release(x) \/ \E ref \in Refs : Hit(x, ref) \/ Miss(x, ref)
      PROVE  OnCourse(e)'
  <2>1. CASE x = e
    BY <1>2, <1>5, <2>1, MissOnCourse, WindowOnCourse, EndOnCourse DEF GoOn
  <2>2. CASE x # e
    <3>1. /\ pc'[e] = pc[e] /\ want'[e] = want[e] /\ window'[e] = window[e]
          /\ buf'[e] = buf[e] /\ meta'[e] = meta[e]
      BY <1>5, <2>2 DEF IInv, TypeOK, GoOn, Window, CallFails, Refuse, Accept, Release, Hit, Miss, Goto
    <3> QED BY <1>2, <3>1, AloneOnCourse
  <2> QED BY <2>1, <2>2
<1> QED BY <1>3, <1>4, <1>5 DEF Next

\* readResource of dig-embed.js fails no reader without cause: on an honest network a read pinned to
\* a root under which the store published, with the right salt, does not reject, whatever else is
\* read at the same time and however often the store commits.
THEOREM PublishedIsAlwaysRead == Spec => []PublishedIsRead
<1>1. Init => Honest
  BY DEF Init, Honest, OnCourse
<1>2. IInv /\ Honest /\ [Next]_vars => Honest'
  BY NextHonest
<1>3. Honest => PublishedIsRead
  BY DEF Honest, OnCourse, Excused, PublishedIsRead
<1> QED BY <1>1, <1>2, <1>3, Invariance, PTL DEF Spec
-----------------------------------------------------------------------------
(* Waiting for the wasm, and getting on. *)

\* Who waits for the wasm waits for a load that is under way, whoever began it and whatever became of
\* the loads before; who has got past it has an initialised build.
WaitsAreServed ==
    \A r \in Readers :
        /\ pc[r] = "wasm" => dig = "pending"
        /\ pc[r] \in {"fetch", "gate"} => dig = "ok" /\ running # "none"

\* What a read has before it when the network says how to go on: the wasm, the windows, the gate.
ToDo(r) ==
    CASE pc[r] = "wasm"  -> LastWindow + 3
      [] pc[r] = "fetch" -> LastWindow + 2 - window[r]
      [] pc[r] = "gate"  -> 1
      [] OTHER           -> 0

\* Unless the network is hostile, each reply is a window further: no read asks twice for one offset,
\* waits again for what it had, or goes back from the gate, whoever else is reading.
ReadAdvances ==
    [][\A r \in Readers :
          pc[r] \in Reading /\ network # "hostile"
              => UNCHANGED <<pc[r], window[r], buf[r], meta[r]>> \/ ToDo(r)' < ToDo(r)]_vars

LEMMA WaitsInit == Init => WaitsAreServed
BY DEF Init, WaitsAreServed

LEMMA WaitsStep ==
    ASSUME IInv, WaitsAreServed, [Next]_vars
    PROVE  WaitsAreServed'
<1> SUFFICES ASSUME NEW e \in Readers
             PROVE  /\ pc'[e] = "wasm" => dig' = "pending"
                    /\ pc'[e] \in {"fetch", "gate"} => dig' = "ok" /\ running' # "none"
  BY DEF WaitsAreServed
<1>1. /\ pc[e] = "wasm" => dig = "pending"
      /\ pc[e] \in {"fetch", "gate"} => dig = "ok" /\ running # "none"
      /\ dig \in {"none", "pending", "ok"} /\ (dig = "ok" => running = "pinned")
      /\ pc \in [Readers -> PCs]
  BY DEF WaitsAreServed, IInv, TypeOK, PinnedWasm
<1>2. CASE UNCHANGED vars \/ Commit
  BY <1>1, <1>2 DEF vars, local, Commit
<1>3. CASE LoadDig
  BY <1>1, <1>3 DEF LoadDig, WasmLoads, WasmFails, Awaken
<1>4. ASSUME NEW r \in Readers, GoOn(r) \/ Release(r) \/ \E ref \in Refs : Hit(r, ref)
      PROVE  /\ pc'[e] = "wasm" => dig' = "pending"
             /\ pc'[e] \in {"fetch", "gate"} => dig' = "ok" /\ running' # "none"
  <2>1. dig' = dig /\ running' = running
    BY <1>4 DEF GoOn, Window, CallFails, Refuse, Accept, Release, Hit
  <2>2. pc'[e] = pc[e] \/ pc'[e] \in {"idle", "done", "failed"} \/ (pc[e] = "fetch" /\ pc'[e] = "gate")
    BY <1>1, <1>4 DEF GoOn, Window, CallFails, Refuse, Accept, Release, Hit, Goto
  <2> QED BY <1>1, <2>1, <2>2
<1>5. ASSUME NEW r \in Readers, NEW ref \in Refs, Miss(r, ref)
      PROVE  /\ pc'[e] = "wasm" => dig' = "pending"
             /\ pc'[e] \in {"fetch", "gate"} => dig' = "ok" /\ running' # "none"
  BY <1>1, <1>5 DEF Miss, Goto
<1> QED BY <1>2, <1>3, <1>4, <1>5 DEF Next

\* Whoever waits for loadDigClient of dig-embed.js waits for a load that is under way: a failed load
\* clears the memoised promise, and takes everyone with it that awaits it.
THEOREM EmbedWaitsAreServed == Spec => []WaitsAreServed
<1>1. IInv /\ WaitsAreServed /\ [Next]_vars => WaitsAreServed'
  BY WaitsStep
<1> QED BY <1>1, WaitsInit, Invariance, PTL DEF Spec

LEMMA ToDoIs ==
    ASSUME NEW r \in Readers, window[r] \in Windows
    PROVE  /\ ToDo(r) \in Nat
           /\ pc[r] = "wasm" => ToDo(r) = LastWindow + 3
           /\ pc[r] = "fetch" => ToDo(r) = LastWindow + 2 - window[r] /\ ToDo(r) > 1
           /\ pc[r] = "gate" => ToDo(r) = 1
           /\ pc[r] \notin Reading => ToDo(r) = 0
BY ContentAssumption DEF ToDo, Windows, Reading

\* A reply leads to a later window, or to the gate.
LEMMA WindowAdvances ==
    ASSUME IInv, network # "hostile", NEW r \in Readers, Window(r)
    PROVE  \/ pc'[r] = "fetch" /\ window'[r] = window[r] + 1
           \/ pc'[r] = "gate" /\ window'[r] = window[r]
<1>1. PICK reply \in Replies(r) :
        /\ window' = [window EXCEPT ![r] = IF reply.next = None THEN @ ELSE reply.next]
        /\ Goto(r, IF reply.next = None THEN "gate" ELSE "fetch")
  BY DEF Window
<1>2. reply.next = None \/ reply.next = window[r] + 1
  BY <1>1 DEF Replies, HonestReplies, Reply
<1> QED BY <1>1, <1>2 DEF Goto, IInv, TypeOK

LEMMA ReaderAdvances ==
    ASSUME IInv, [Next]_vars, NEW e \in Readers, pc[e] \in Reading, network # "hostile"
    PROVE  UNCHANGED <<pc[e], window[e], buf[e], meta[e]>> \/ ToDo(e)' < ToDo(e)
<1>1. window[e] \in Windows /\ pc \in [Readers -> PCs] /\ LastWindow \in Nat
  BY ContentAssumption DEF IInv, TypeOK
<1>2. pc'[e] \notin Reading => ToDo(e)' = 0
  BY DEF ToDo, Reading
<1>3. ToDo(e) >= 1 /\ ToDo(e) \in Nat
  BY <1>1, ToDoIs DEF Reading
<1>4. CASE UNCHANGED vars \/ Commit
  BY <1>4 DEF vars, local, Commit
<1>5. CASE LoadDig
  <2>1. /\ UNCHANGED <<window, buf, meta>>
        /\ pc'[e] = pc[e] \/ (pc[e] = "wasm" /\ pc'[e] \in {"fetch", "failed"})
    BY <1>1, <1>5 DEF LoadDig, WasmLoads, WasmFails, Awaken
  <2>2. CASE pc[e] = "wasm" /\ pc'[e] = "fetch"
    <3>1. ToDo(e)' = LastWindow + 2 - window[e] /\ ToDo(e) = LastWindow + 3
      BY <2>1, <2>2, <1>1, ToDoIs DEF ToDo
    <3> QED BY <1>1, <3>1 DEF Windows
  <2> QED BY <1>2, <1>3, <2>1, <2>2 DEF Reading
<1>6. ASSUME NEW r \in Readers,
             GoOn(r) \/ Release(r) \/ \E ref \in Refs : Hit(r, ref) \/ Miss(r, ref)
      PROVE  UNCHANGED <<pc[e], window[e], buf[e], meta[e]>> \/ ToDo(e)' < ToDo(e)
  <2>1. CASE r # e
    BY <1>6, <2>1 DEF IInv, TypeOK, GoOn, Window, CallFails, Refuse, Accept, Release, Hit, Miss, Goto
  <2>2. CASE r = e /\ Window(e)
    <3>1. pc[e] = "fetch"
      BY <2>2 DEF Window
    <3>2. CASE pc'[e] = "fetch" /\ window'[e] = window[e] + 1
      <4>1. ToDo(e)' = LastWindow + 2 - (window[e] + 1) /\ ToDo(e) = LastWindow + 2 - window[e]
        BY <1>1, <3>1, <3>2, ToDoIs DEF ToDo
      <4> QED BY <1>1, <4>1 DEF Windows
    <3>3. CASE pc'[e] = "gate"
      <4>1. ToDo(e)' = 1 /\ ToDo(e) > 1
        BY <1>1, <3>1, <3>3, ToDoIs DEF ToDo
      <4> QED BY <1>3, <4>1
    <3> QED BY <2>2, <3>2, <3>3, WindowAdvances
  <2>3. CASE r = e /\ (CallFails(e) \/ Refuse(e) \/ Accept(e))
    <3>1. pc'[e] \notin Reading
      BY <1>1, <2>3 DEF CallFails, Refuse, Accept, Goto, Reading
    <3> QED BY <1>2, <1>3, <3>1
  <2>4. CASE r = e /\ (Release(e) \/ \E ref \in Refs : Hit(e, ref) \/ Miss(e, ref))
    BY <2>4 DEF Release, Hit, Miss, Reading
  <2> QED BY <1>6, <2>1, <2>2, <2>3, <2>4 DEF GoOn
<1> QED BY <1>4, <1>5, <1>6 DEF Next

\* readResource of dig-embed.js makes no request twice: where the server's next_offset is true, every
\* reply brings a read to a later window or to the gate, for any number of windows and of readers.
THEOREM EmbedReadsAdvance == Spec => ReadAdvances
<1> DEFINE Advance == \A r \in Readers :
              pc[r] \in Reading /\ network # "hostile"
                  => UNCHANGED <<pc[r], window[r], buf[r], meta[r]>> \/ ToDo(r)' < ToDo(r)
<1>1. IInv /\ [Next]_vars => [Advance]_vars
  BY ReaderAdvances
<1> QED BY <1>1, Invariance, PTL DEF Spec, ReadAdvances
=============================================================================
