------------------------- MODULE ServiceWorkerProofs -------------------------
(***************************************************************************)
(* Proofs about ServiceWorker, for every value of its constants: any       *)
(* number of handlers, keys, roots, windows and chunks, any caches, any    *)
(* network and any faults.  First that what it answers is authentic and    *)
(* whole; then what it promises beyond that: it implements VerifiedRead,   *)
(* its caches stay bounded while handlers interleave, and it serves what   *)
(* the store published whenever the network lets it.                       *)
(***************************************************************************)
EXTENDS ServiceWorker, ContentLemmas, FiniteSetTheorems

-----------------------------------------------------------------------------
(* Cache operations, for entries drawn from an arbitrary set. *)

\* RemoveAt keeps a sequence over the same set.
LEMMA RemoveAtType ==
    ASSUME NEW S, NEW s \in Seq(S), NEW i \in 1 .. Len(s)
    PROVE  RemoveAt(s, i) \in Seq(S)
<1>1. SubSeq(s, 1, i - 1) \in Seq(S)
  <2>1. \A j \in 1 .. (i - 1) : s[j] \in S
    OBVIOUS
  <2> QED BY <2>1, SubSeqProperties, SMT
<1>2. SubSeq(s, i + 1, Len(s)) \in Seq(S)
  <2>1. \A j \in (i + 1) .. Len(s) : s[j] \in S
    OBVIOUS
  <2> QED BY <2>1, SubSeqProperties, SMT
<1> QED BY <1>1, <1>2, ConcatProperties DEF RemoveAt

\* Deleting a key adds no entry.
LEMMA WithoutType ==
    ASSUME NEW S, NEW cache \in Seq(S), NEW at
    PROVE  Without(cache, at) \in Seq(S)
BY PositionInCache, RemoveAtType DEF Without

\* Cache.put adds one entry and keeps others.
LEMMA PutType ==
    ASSUME NEW S, NEW cache \in Seq(S), NEW e \in S
    PROVE  Put(cache, e) \in Seq(S)
BY WithoutType, AppendProperties DEF Put

-----------------------------------------------------------------------------
(* The inductive invariant. *)

FaithfulEntries ==
    {x \in Entries : Faithful(x.at, x.body) /\ (x.at.root # Latest => Whole(x.body))}
PinnedEntries == {x \in FaithfulEntries : x.at.root # Latest}

\* Between the resolution of a request and its response.
Serving == {"lookup", "first", "rest", "gate"}

PinnedWasm ==
    /\ running # "other" /\ wasmCache # "other"
    /\ digReady = "ok" => running = "pinned"

Control(e) ==
    /\ pc[e] \in {"config", "ready"} => ask[e] # None
    /\ pc[e] = "ready" => cfg # None
    /\ pc[e] \in Serving => digReady = "ok"
    /\ pc[e] \in Serving \cup Status200 => want[e] # None
    /\ pc[e] \in Persisting => want[e].at.root # Latest

Answer(e) ==
    /\ pc[e] \in Status200 => Faithful(want[e].at, body[e])
    /\ pc[e] \in {"served"} \cup Persisting /\ want[e].at.root # Latest => Whole(body[e])
    /\ pc[e] = "stream" =>
          /\ Len(body[e]) \in 1 .. (LastChunk + 1)
          /\ want[e].at.root # Latest =>
                /\ \A w \in Windows : buf[e][w] = Published(want[e].at.key, want[e].at.root)
                /\ want[e].at.root \in Generations /\ want[e].salt = StoreSalt
                /\ meta[e].lens \in {"exact", "badLater"}
    /\ pc[e] = "broken" /\ want[e].at.root # Latest => meta[e].lens = "badLater"

CachesFaithful ==
    /\ mem \in Seq(FaithfulEntries)
    /\ ContentCache \in Seq(PinnedEntries)

IInv ==
    /\ TypeOK
    /\ PinnedWasm
    /\ \A e \in Events : Control(e)
    /\ \A e \in Events : Answer(e)
    /\ CachesFaithful

\* The invariant holds initially: nothing is cached or served yet.
LEMMA InitInvariant == Init => IInv
<1> SUFFICES ASSUME Init PROVE IInv
  OBVIOUS
<1> USE ContentAssumption, WorkerAssumption
<1>1. TypeOK
  <2>1. buf \in [Events -> Buffers]
    BY DEF Init, Buffers, Zeroes, Bytes
  <2>2. meta \in [Events -> Metas]
    BY DEF Init, NoMeta, Metas, LensKinds
  <2>3. contentCaches \in [ContentCacheNames -> Seq(Entries)] /\ mem \in Seq(Entries)
    BY DEF Init, ContentCacheNames
  <2>4. body \in [Events -> Bodies]
    BY DEF Init, Bodies
  <2>5. pc \in [Events -> PCs]
    BY DEF Init, PCs
  <2> QED BY <2>1, <2>2, <2>3, <2>4, <2>5 DEF Init, TypeOK
<1>2. PinnedWasm
  BY DEF Init, PinnedWasm
<1>3. \A e \in Events : Control(e)
  BY DEF Init, Control, Serving, Status200, Persisting
<1>4. \A e \in Events : Answer(e)
  BY DEF Init, Answer, Status200, Persisting
<1>5. CachesFaithful
  BY DEF Init, CachesFaithful, ContentCache, CONTENT_CACHE_NAME, ContentCacheNames
<1> QED BY <1>1, <1>2, <1>3, <1>4, <1>5 DEF IInv

\* Moving one handler to a place that promises nothing new keeps the invariant.
LEMMA MoveKeepsInvariant ==
    ASSUME IInv, NEW e \in Events, NEW label \in PCs, Goto(e, label),
           UNCHANGED <<shared, ask, want, via, todo, buf, meta, body, trim>>,
           \/ label \in {"notFound", "invalid", "rejected"}
           \/ label = "first" /\ pc[e] = "lookup"
           \/ label = "cancelled" /\ pc[e] = "stream"
    PROVE  IInv'
<1>1. TypeOK'
  BY DEF IInv, TypeOK, Goto, shared
<1>2. PinnedWasm'
  BY DEF IInv, PinnedWasm, shared
<1>3. ASSUME NEW x \in Events PROVE Control(x)'
  BY <1>3 DEF IInv, TypeOK, Control, Goto, shared, Serving, Status200, Persisting
<1>4. ASSUME NEW x \in Events PROVE Answer(x)'
  BY <1>4 DEF IInv, TypeOK, Answer, Goto, shared, Status200, Persisting
<1>5. CachesFaithful'
  BY DEF IInv, CachesFaithful, ContentCache, shared
<1> QED BY <1>1, <1>2, <1>3, <1>4, <1>5 DEF IInv

\* What the invariant says of a cached body under the key it is found at.
LEMMA FaithfulHit ==
    ASSUME NEW S, S \subseteq FaithfulEntries, NEW cache \in Seq(S), NEW at, Cached(cache, at)
    PROVE  /\ Lookup(cache, at) \in Bodies
           /\ at.root # Latest => Whole(Lookup(cache, at))
           /\ Faithful(at, Lookup(cache, at))
<1>1. PICK x \in S : x.at = at /\ x.body = Lookup(cache, at)
  BY LookupFound
<1> QED BY <1>1 DEF FaithfulEntries, Entries

\* A request resolves to a cache key and a salt.
LEMMA ResolveType ==
    ASSUME NEW q \in AllAsks, q.kind # "invalid", cfg \in Configs
    PROVE  Resolve(q) \in Wants
BY ContentAssumption DEF Resolve, AllAsks, Configs, Wants, CacheKeys, CanonicalOrLatest, RawRoots

\* The purge deletes other content caches and nothing of the current one.
LEMMA ActivateStep == IInv /\ Activate => IInv'
<1> SUFFICES ASSUME IInv, Activate PROVE IInv'
  OBVIOUS
<1>1. contentCaches' \in [ContentCacheNames -> Seq(Entries)] /\ ContentCache' = ContentCache
  <2>1. contentCaches \in [ContentCacheNames -> Seq(Entries)] /\ <<>> \in Seq(Entries)
    BY DEF IInv, TypeOK
  <2>2. CASE contentCaches' = [n \in ContentCacheNames |->
                                 IF n = CONTENT_CACHE_NAME THEN contentCaches[n] ELSE <<>>]
    BY <2>1, <2>2, SMT DEF ContentCache, ContentCacheNames, CONTENT_CACHE_NAME
  <2>3. CASE UNCHANGED contentCaches
    BY <2>1, <2>3 DEF ContentCache
  <2> QED BY <2>2, <2>3 DEF Activate
<1>2. TypeOK'
  BY <1>1 DEF IInv, TypeOK, Activate, local
<1>3. PinnedWasm'
  BY DEF IInv, PinnedWasm, Activate
<1>4. ASSUME NEW x \in Events PROVE Control(x)' /\ Answer(x)'
  BY <1>4 DEF IInv, Control, Answer, Activate, local
<1>5. CachesFaithful'
  BY <1>1 DEF IInv, CachesFaithful, Activate
<1> QED BY <1>2, <1>3, <1>4, <1>5 DEF IInv

\* A handler that has a configuration waits for the wasm module.
LEMMA StartStep ==
    ASSUME IInv, NEW e \in Events, NEW q \in AllAsks,
           ask' = [ask EXCEPT ![e] = q] \/ (ask' = ask /\ ask[e] # None),
           cfg' \in Configs, StartWasm, Goto(e, "ready"),
           UNCHANGED <<activated, running, wasmCache, mem, contentCaches, tip,
                       want, via, todo, buf, meta, body, trim>>
    PROVE  IInv'
<1>0. None \notin AllAsks /\ None \notin Configs
  BY WorkerAssumption
<1>1. TypeOK'
  BY DEF IInv, TypeOK, StartWasm, Goto, PCs, Pending
<1>2. PinnedWasm' /\ (digReady = "ok" => digReady' = "ok")
  BY DEF IInv, PinnedWasm, StartWasm
<1>3. ASSUME NEW x \in Events PROVE Control(x)'
  BY <1>0, <1>2, <1>3 DEF IInv, TypeOK, Control, Goto, Serving, Status200, Persisting
<1>4. ASSUME NEW x \in Events PROVE Answer(x)'
  BY <1>4 DEF IInv, TypeOK, Answer, Goto, Status200, Persisting
<1>5. CachesFaithful'
  BY DEF IInv, CachesFaithful, ContentCache
<1> QED BY <1>1, <1>2, <1>3, <1>4, <1>5 DEF IInv

LEMMA InterceptStep ==
    ASSUME IInv, NEW e \in Events, NEW q \in Asks, Intercept(e, q) \/ InterceptUnconfigured(e, q)
    PROVE  IInv'
<1>0. q \in AllAsks /\ None \notin AllAsks
  BY WorkerAssumption
<1>1. CASE Intercept(e, q)
  <2>1. cfg' \in Configs
    BY <1>1, WorkerAssumption DEF IInv, TypeOK, Intercept
  <2> QED BY <1>0, <1>1, <2>1, StartStep DEF Intercept
<1>2. CASE InterceptUnconfigured(e, q)
  <2>1. TypeOK'
    BY <1>0, <1>2 DEF IInv, TypeOK, InterceptUnconfigured, Goto, shared, PCs, Pending
  <2>2. PinnedWasm'
    BY <1>2 DEF IInv, PinnedWasm, InterceptUnconfigured, shared
  <2>3. ASSUME NEW x \in Events PROVE Control(x)'
    BY <1>0, <1>2, <2>3
       DEF IInv, TypeOK, Control, InterceptUnconfigured, Goto, shared, Serving, Status200, Persisting
  <2>4. ASSUME NEW x \in Events PROVE Answer(x)'
    BY <1>2, <2>4 DEF IInv, TypeOK, Answer, InterceptUnconfigured, Goto, shared, Status200, Persisting
  <2>5. CachesFaithful'
    BY <1>2 DEF IInv, CachesFaithful, ContentCache, InterceptUnconfigured, shared
  <2> QED BY <2>1, <2>2, <2>3, <2>4, <2>5 DEF IInv
<1> QED BY <1>1, <1>2

LEMMA StartupStep ==
    ASSUME IInv, NEW e \in Events, Startup(e)
    PROVE  IInv'
<1>1. CASE ConfigArrives(e)
  <2>1. ask[e] \in AllAsks /\ ask[e] # None
    BY <1>1 DEF IInv, TypeOK, Control, ConfigArrives
  <2>2. cfg' \in Configs
    BY <1>1, WorkerAssumption DEF ConfigArrives
  <2> QED BY <1>1, <2>1, <2>2, StartStep DEF ConfigArrives
<1>2. CASE ConfigFails(e)
  BY <1>2, MoveKeepsInvariant DEF ConfigFails, PCs, Ended
<1> QED BY <1>1, <1>2 DEF Startup

\* Only the build with the pinned hash is ever run or persisted.
LEMMA WasmStep == IInv /\ LoadWasm => IInv'
<1> SUFFICES ASSUME IInv, LoadWasm PROVE IInv'
  OBVIOUS
<1>1. /\ PinnedWasm'
      /\ digReady = "ok" => digReady' = "ok"
      /\ digReady' \in {"ok", "failed"}
      /\ running' \in {"none", "pinned", "other"} /\ wasmCache' \in {"none", "pinned", "other"}
  BY DEF IInv, TypeOK, PinnedWasm, LoadWasm, WasmFromCache, WasmFetched, WasmFails
<1>2. UNCHANGED <<activated, cfg, mem, contentCaches, tip, local>>
  BY DEF LoadWasm, WasmFromCache, WasmFetched, WasmFails
<1>3. TypeOK'
  BY <1>1, <1>2 DEF IInv, TypeOK, local
<1>4. ASSUME NEW x \in Events PROVE Control(x)' /\ Answer(x)'
  BY <1>1, <1>2, <1>4 DEF IInv, Control, Answer, local
<1>5. CachesFaithful'
  BY <1>2 DEF IInv, CachesFaithful, ContentCache
<1> QED BY <1>1, <1>3, <1>4, <1>5 DEF IInv

-----------------------------------------------------------------------------
(* Looking a request up. *)

\* A resolved request: its entry of want is a record of the right type.
LEMMA WantType ==
    ASSUME IInv, NEW e \in Events, pc[e] \in Serving \cup Status200
    PROVE  /\ want[e] \in Wants
           /\ want[e].at \in CacheKeys /\ want[e].at.key \in Keys
           /\ want[e].at.root \in Roots \cup {Latest}
BY DEF IInv, TypeOK, Control, Wants, CacheKeys

\* An awoken handler that knows its store has everything that resolving it takes.
LEMMA ResolvedWant ==
    ASSUME IInv, NEW e \in Events, Awoken(e), NamesStore(ask[e])
    PROVE  Resolve(ask[e]) \in Wants /\ Resolve(ask[e]) # None
<1>1. ask[e] \in AllAsks /\ cfg \in Configs /\ ask[e].kind # "invalid"
  BY DEF IInv, TypeOK, Control, Awoken, NamesStore
<1> QED BY <1>1, ResolveType, WorkerAssumption

LEMMA MemoryHitStep ==
    ASSUME IInv, NEW e \in Events, MemoryHit(e)
    PROVE  IInv'
<1> DEFINE w == Resolve(ask[e])
           found == Lookup(mem, w.at)
<1>1. w \in Wants /\ w # None
  BY ResolvedWant DEF MemoryHit
<1>2. found \in Bodies /\ (w.at.root # Latest => Whole(found)) /\ Faithful(w.at, found)
  BY FaithfulHit DEF IInv, CachesFaithful, MemoryHit
<1>3. /\ want' = [want EXCEPT ![e] = w] /\ body' = [body EXCEPT ![e] = found]
      /\ pc' = [pc EXCEPT ![e] = "served"]
      /\ UNCHANGED <<shared, ask, via, todo, buf, meta, trim>>
  BY DEF MemoryHit, Goto
<1> HIDE DEF w, found
<1>4. TypeOK'
  BY <1>1, <1>2, <1>3 DEF IInv, TypeOK, shared, PCs, Ended
<1>5. PinnedWasm'
  BY <1>3 DEF IInv, PinnedWasm, shared
<1>6. ASSUME NEW x \in Events PROVE Control(x)'
  BY <1>1, <1>3, <1>6 DEF IInv, TypeOK, Control, shared, Serving, Status200, Persisting
<1>7. ASSUME NEW x \in Events PROVE Answer(x)'
  BY <1>2, <1>3, <1>7 DEF IInv, TypeOK, Answer, shared, Status200, Persisting
<1>8. CachesFaithful'
  BY <1>3 DEF IInv, CachesFaithful, ContentCache, shared
<1> QED BY <1>4, <1>5, <1>6, <1>7, <1>8 DEF IInv

LEMMA MemoryMissStep ==
    ASSUME IInv, NEW e \in Events, MemoryMiss(e)
    PROVE  IInv'
<1> DEFINE w == Resolve(ask[e])
<1>1. w \in Wants /\ w # None
  BY ResolvedWant DEF MemoryMiss
<1>2. PICK label \in {"lookup", "first"}, path \in {"GET", "POST"} :
        /\ pc' = [pc EXCEPT ![e] = label]
        /\ via' = [via EXCEPT ![e] = path]
  BY Zenon DEF MemoryMiss, Goto
<1>3. /\ want' = [want EXCEPT ![e] = w]
      /\ pc[e] = "ready" /\ digReady = "ok"
      /\ UNCHANGED <<shared, ask, todo, buf, meta, body, trim>>
  BY DEF MemoryMiss, Awoken
<1> HIDE DEF w
<1>4. TypeOK'
  BY <1>1, <1>2, <1>3 DEF IInv, TypeOK, shared, PCs, Pending
<1>5. PinnedWasm'
  BY <1>3 DEF IInv, PinnedWasm, shared
<1>6. ASSUME NEW x \in Events PROVE Control(x)'
  BY <1>1, <1>2, <1>3, <1>6 DEF IInv, TypeOK, Control, shared, Serving, Status200, Persisting
<1>7. ASSUME NEW x \in Events PROVE Answer(x)'
  BY <1>2, <1>3, <1>7 DEF IInv, TypeOK, Answer, shared, Status200, Persisting
<1>8. CachesFaithful'
  BY <1>3 DEF IInv, CachesFaithful, ContentCache, shared
<1> QED BY <1>4, <1>5, <1>6, <1>7, <1>8 DEF IInv

LEMMA PersistentHitStep ==
    ASSUME IInv, NEW e \in Events, PersistentHit(e)
    PROVE  IInv'
<1> DEFINE found == Lookup(ContentCache, want[e].at)
           entry == [at |-> want[e].at, body |-> found]
<1>1. found \in Bodies /\ (want[e].at.root # Latest => Whole(found)) /\ Faithful(want[e].at, found)
  BY FaithfulHit DEF IInv, CachesFaithful, PersistentHit, PinnedEntries
<1>2. entry \in FaithfulEntries /\ entry \in Entries
  <2>1. want[e].at \in CacheKeys
    BY WantType DEF PersistentHit, Serving
  <2> QED BY <1>1, <2>1 DEF FaithfulEntries, Entries
<1>3. /\ pc[e] = "lookup" /\ pc' = [pc EXCEPT ![e] = "served"]
      /\ body' = [body EXCEPT ![e] = found] /\ mem' = Remember(mem, entry)
      /\ UNCHANGED <<activated, cfg, digReady, running, wasmCache, contentCaches, tip,
                     ask, want, via, todo, buf, meta, trim>>
  BY DEF PersistentHit, Goto
<1> HIDE DEF found, entry
<1>4. mem' \in Seq(FaithfulEntries) /\ mem' \in Seq(Entries)
  BY <1>2, <1>3, RememberType, WorkerAssumption DEF IInv, TypeOK, CachesFaithful
<1>5. TypeOK'
  BY <1>1, <1>3, <1>4 DEF IInv, TypeOK, PCs, Ended
<1>6. PinnedWasm'
  BY <1>3 DEF IInv, PinnedWasm
<1>7. ASSUME NEW x \in Events PROVE Control(x)'
  BY <1>3, <1>7 DEF IInv, TypeOK, Control, Serving, Status200, Persisting
<1>8. ASSUME NEW x \in Events PROVE Answer(x)'
  BY <1>1, <1>3, <1>8 DEF IInv, TypeOK, Answer, Status200, Persisting
<1>9. CachesFaithful'
  BY <1>3, <1>4 DEF IInv, CachesFaithful, ContentCache
<1> QED BY <1>5, <1>6, <1>7, <1>8, <1>9 DEF IInv

LEMMA ResolvingStep ==
    ASSUME IInv, NEW e \in Events, Resolving(e)
    PROVE  IInv'
<1>1. CASE DigUnavailable(e)
  BY <1>1, MoveKeepsInvariant DEF DigUnavailable, PCs, Ended
<1>2. CASE InvalidUrn(e)
  BY <1>2, MoveKeepsInvariant DEF InvalidUrn, PCs, Ended
<1>3. CASE NoStore(e)
  BY <1>3, MoveKeepsInvariant DEF NoStore, PCs, Ended
<1>4. CASE PersistentMiss(e)
  BY <1>4, MoveKeepsInvariant DEF PersistentMiss, PCs, Pending
<1> QED BY <1>1, <1>2, <1>3, <1>4, MemoryHitStep, MemoryMissStep, PersistentHitStep DEF Resolving

-----------------------------------------------------------------------------
(* Fetching: buffers fill with any bytes; nothing is promised before the gate. *)

\* A fetch step may write anything into its own buffer and metadata.
LEMMA FetchKeepsInvariant ==
    ASSUME IInv, NEW e \in Events, pc[e] \in {"first", "rest"},
           NEW label \in {"first", "rest", "gate"}, Goto(e, label),
           via' \in [Events -> {"GET", "POST"}], todo' \in [Events -> SUBSET Windows],
           buf' \in [Events -> Buffers], meta' \in [Events -> Metas],
           \A x \in Events : x # e => buf'[x] = buf[x] /\ meta'[x] = meta[x],
           UNCHANGED <<shared, ask, want, body, trim>>
    PROVE  IInv'
<1>1. TypeOK'
  BY DEF IInv, TypeOK, Goto, shared, PCs, Pending
<1>2. PinnedWasm'
  BY DEF IInv, PinnedWasm, shared
<1>3. ASSUME NEW x \in Events PROVE Control(x)'
  BY <1>3 DEF IInv, TypeOK, Control, Goto, shared, Serving, Status200, Persisting
<1>4. ASSUME NEW x \in Events PROVE Answer(x)'
  BY <1>4 DEF IInv, TypeOK, Answer, Goto, shared, Status200, Persisting
<1>5. CachesFaithful'
  BY DEF IInv, CachesFaithful, ContentCache, shared
<1> QED BY <1>1, <1>2, <1>3, <1>4, <1>5 DEF IInv

\* Whatever the network answers is bytes and metadata.
LEMMA AnswerType ==
    ASSUME IInv, NEW e \in Events, pc[e] \in {"first", "rest"}
    PROVE  AnswerBytes(e) \subseteq Bytes /\ AnswerMetas \subseteq Metas
<1>1. want[e].at.key \in Keys /\ tip \in Generations
  BY WantType DEF Serving, IInv, TypeOK
<1>2. AnswerBytes(e) \subseteq Bytes
  BY <1>1 DEF AnswerBytes, Bytes, Truth, Published, Plaintexts
<1>3. AnswerMetas \subseteq Metas
  <2>1. [proof |-> TRUE, lens |-> "exact"] \in Metas
    BY DEF Metas, LensKinds
  <2>2. ForgedMetas \subseteq Metas
    BY WorkerAssumption
  <2> QED BY <2>1, <2>2, Zenon DEF AnswerMetas
<1> QED BY <1>2, <1>3

\* Wherever a reply says its bytes go, it is a window of the buffer.
LEMMA OffsetsType ==
    ASSUME NEW e \in Events, NEW w \in Windows
    PROVE  Offsets(e, w) \subseteq Windows
  BY DEF Offsets

LEMMA ZeroIsWindow == 0 \in Windows
  BY ContentAssumption DEF Windows

LEMMA FirstWindowStep ==
    ASSUME IInv, NEW e \in Events, FirstWindow(e)
    PROVE  IInv'
<1>1. pc[e] = "first" /\ UNCHANGED <<shared, ask, want, via, body, trim>>
  BY DEF FirstWindow
<1>2. PICK b \in Bytes, at \in Windows : buf' = [buf EXCEPT ![e] = [Zeroes EXCEPT ![at] = b]]
  <2>1. PICK b \in AnswerBytes(e), at \in Offsets(e, 0) :
          buf' = [buf EXCEPT ![e] = [Zeroes EXCEPT ![at] = b]]
    BY DEF FirstWindow
  <2>2. b \in Bytes /\ at \in Windows
    BY <1>1, <2>1, AnswerType, OffsetsType, ZeroIsWindow
  <2> QED BY <2>1, <2>2
<1>3. buf' \in [Events -> Buffers] /\ \A x \in Events : x # e => buf'[x] = buf[x]
  <2>1. [Zeroes EXCEPT ![at] = b] \in Buffers
    BY DEF Zeroes, Buffers, Bytes
  <2> QED BY <1>2, <2>1 DEF IInv, TypeOK
<1>4. meta' \in [Events -> Metas] /\ \A x \in Events : x # e => meta'[x] = meta[x]
  <2>1. PICK m \in AnswerMetas : meta' = [meta EXCEPT ![e] = m]
    BY DEF FirstWindow
  <2>2. m \in Metas
    BY <1>1, <2>1, AnswerType
  <2> QED BY <2>1, <2>2 DEF IInv, TypeOK
<1>5. PICK rest \in SUBSET Windows :
        todo' = [todo EXCEPT ![e] = rest] /\ Goto(e, IF rest = {} THEN "gate" ELSE "rest")
  BY DEF FirstWindow
<1>6. todo' \in [Events -> SUBSET Windows] /\ via' \in [Events -> {"GET", "POST"}]
  BY <1>1, <1>5 DEF IInv, TypeOK
<1> QED BY <1>1, <1>3, <1>4, <1>5, <1>6, FetchKeepsInvariant

LEMMA NextWindowStep ==
    ASSUME IInv, NEW e \in Events, NEW w \in Windows, NextWindow(e, w)
    PROVE  IInv'
<1>1. pc[e] = "rest" /\ UNCHANGED <<shared, ask, want, via, body, trim>>
  BY DEF NextWindow
<1>2. PICK b \in Bytes, at \in Windows : buf' = [buf EXCEPT ![e][at] = b]
  <2>1. PICK b \in AnswerBytes(e), at \in Offsets(e, w) : buf' = [buf EXCEPT ![e][at] = b]
    BY DEF NextWindow
  <2>2. b \in Bytes /\ at \in Windows
    BY <1>1, <2>1, AnswerType, OffsetsType
  <2> QED BY <2>1, <2>2
<1>3. buf' \in [Events -> Buffers] /\ \A x \in Events : x # e => buf'[x] = buf[x]
  BY <1>2 DEF IInv, TypeOK, Buffers
<1>4. meta' \in [Events -> Metas] /\ \A x \in Events : x # e => meta'[x] = meta[x]
  <2>1. meta' = meta \/ meta' = [meta EXCEPT ![e].proof = TRUE]
    BY DEF NextWindow
  <2>2. [meta[e] EXCEPT !.proof = TRUE] \in Metas
    BY DEF IInv, TypeOK, Metas
  <2>3. meta \in [Events -> Metas]
    BY DEF IInv, TypeOK
  <2> QED BY <2>1, <2>2, <2>3
<1>5. todo' \in [Events -> SUBSET Windows] /\ via' \in [Events -> {"GET", "POST"}]
  BY <1>1 DEF NextWindow, IInv, TypeOK
<1>6. Goto(e, IF todo[e] = {w} THEN "gate" ELSE "rest")
  BY DEF NextWindow
<1> QED BY <1>1, <1>3, <1>4, <1>5, <1>6, FetchKeepsInvariant

LEMMA FetchingStep ==
    ASSUME IInv, NEW e \in Events, Fetching(e)
    PROVE  IInv'
<1>1. CASE GetFails(e)
  <2>1. via' \in [Events -> {"GET", "POST"}] /\ todo' \in [Events -> SUBSET Windows]
    BY <1>1 DEF GetFails, IInv, TypeOK
  <2>2. buf' \in [Events -> Buffers] /\ meta' \in [Events -> Metas]
    BY <1>1 DEF GetFails, IInv, TypeOK
  <2> QED BY <1>1, <2>1, <2>2, FetchKeepsInvariant DEF GetFails
<1>2. CASE PostFails(e)
  BY <1>2, MoveKeepsInvariant DEF PostFails, PCs, Ended
<1> QED BY <1>1, <1>2, FirstWindowStep, NextWindowStep DEF Fetching

-----------------------------------------------------------------------------
(* The gate and the stream. *)

\* What the gate lets through: chunk 0 is the key's, and if the read is pinned every window, hence
\* every chunk that will open, is the store's under that key and that root.
LEMMA AdmittedIsProven ==
    ASSUME IInv, NEW e \in Events, pc[e] = "gate", Admitted(e)
    PROVE  /\ Plain(buf[e], 0) \in Plaintexts
           /\ Faithful(want[e].at, <<Plain(buf[e], 0)>>)
           /\ want[e].at.root # Latest =>
                 /\ want[e].at.root \in Generations /\ want[e].salt = StoreSalt
                 /\ meta[e].lens \in {"exact", "badLater"}
                 /\ \A w \in Windows : buf[e][w] = Published(want[e].at.key, want[e].at.root)
<1> DEFINE key == want[e].at.key
           root == want[e].at.root
<1>1. key \in Keys /\ root \in Roots \cup {Latest} /\ 0 \in Chunks
  BY WantType, ContentAssumption DEF Serving, Chunks
<1>2. running = "pinned"
  BY DEF IInv, Control, PinnedWasm, Serving
<1>3. ChunkOpens(buf[e], meta[e], key, want[e].salt, 0)
  BY DEF Admitted, Opens
<1>4. PICK g \in Generations : Plain(buf[e], 0) = Published(key, g)
  BY <1>1, <1>3, OpenedChunk
<1>5. ASSUME root # Latest
      PROVE  /\ root \in Generations /\ want[e].salt = StoreSalt
             /\ meta[e].lens \in {"exact", "badLater"}
             /\ \A w \in Windows : buf[e][w] = Published(key, root)
             /\ Plain(buf[e], 0) = Published(key, root)
  <2>1. RootIsPinned(root)
    BY <1>1, <1>5, ContentAssumption DEF RootIsPinned
  <2>2. VerifyInclusion(buf[e], meta[e], root)
    BY <1>2, <2>1 DEF Admitted, Verified
  <2>3. PICK k \in Keys :
          meta[e].lens # "prefix" /\ \A w \in Windows : buf[e][w] = Published(k, root)
    BY <2>2 DEF VerifyInclusion
  <2>4. k = key /\ root \in Generations /\ Plain(buf[e], 0) = Published(key, root)
    <3>1. \A w \in Windows : buf[e][w] = Published(k, root)
      BY <2>3
    <3>2. \A salt, c, kk : kk \in Keys /\ c \in Chunks /\ ChunkOpens(buf[e], meta[e], kk, salt, c)
            => k = kk /\ root \in Generations /\ Plain(buf[e], c) = Published(kk, root)
      BY <3>1, OpenedChunkOfProven
    <3> QED BY <1>1, <1>3, <3>2, Zenon
  <2>5. meta[e].lens \in LensKinds
    BY DEF IInv, TypeOK, Metas
  <2>6. want[e].salt = StoreSalt /\ meta[e].lens \in {"exact", "badLater"}
    BY <1>3, <2>3, <2>5 DEF ChunkOpens, LensKinds
  <2> QED BY <2>3, <2>4, <2>6
<1> HIDE DEF key, root
<1>6. Plain(buf[e], 0) \in Plaintexts /\ Plain(buf[e], 0).key = key
  BY <1>1, <1>4 DEF Published, Plaintexts
<1> QED BY <1>5, <1>6 DEF Faithful, AllOf, key, root

\* A complete body is remembered, and kept for persisting only if the read was pinned.
LEMMA CompleteKeepsInvariant ==
    ASSUME IInv, NEW e \in Events, pc[e] \in {"gate", "stream"},
           NEW chunks \in Bodies, Faithful(want[e].at, chunks),
           want[e].at.root # Latest => Whole(chunks),
           Complete(e, chunks),
           UNCHANGED <<activated, cfg, digReady, running, wasmCache, contentCaches, tip,
                       ask, want, via, todo, buf, meta, trim>>
    PROVE  IInv'
<1> DEFINE entry == [at |-> want[e].at, body |-> chunks]
<1>1. want[e].at \in CacheKeys
  BY WantType DEF Serving, Status200
<1>2. entry \in FaithfulEntries /\ entry \in Entries
  BY <1>1 DEF FaithfulEntries, Entries
<1>3. mem' = Remember(mem, entry) /\ body' = [body EXCEPT ![e] = chunks]
  BY DEF Complete
<1>4. mem' \in Seq(FaithfulEntries) /\ mem' \in Seq(Entries)
  BY <1>2, <1>3, RememberType, WorkerAssumption DEF IInv, TypeOK, CachesFaithful
<1>5. PICK label \in {"put", "served"} :
        pc' = [pc EXCEPT ![e] = label] /\ (label = "put" => want[e].at.root # Latest)
  BY Zenon DEF Complete, Goto, RootIsPinned
<1>6. TypeOK'
  BY <1>3, <1>4, <1>5 DEF IInv, TypeOK, PCs, Ended, Persisting
<1>7. PinnedWasm'
  BY DEF IInv, PinnedWasm
<1>8. ASSUME NEW x \in Events PROVE Control(x)'
  BY <1>5, <1>8 DEF IInv, TypeOK, Control, Serving, Status200, Persisting
<1>9. ASSUME NEW x \in Events PROVE Answer(x)'
  BY <1>3, <1>5, <1>9 DEF IInv, TypeOK, Answer, Status200, Persisting
<1>10. CachesFaithful'
  BY <1>4 DEF IInv, CachesFaithful, ContentCache
<1> QED BY <1>6, <1>7, <1>8, <1>9, <1>10 DEF IInv

LEMMA RespondingStep ==
    ASSUME IInv, NEW e \in Events, Responding(e)
    PROVE  IInv'
<1> DEFINE first == <<Plain(buf[e], 0)>>
<1>1. CASE Refuse(e)
  BY <1>1, MoveKeepsInvariant DEF Refuse, PCs, Ended
<1>2. CASE RespondWhole(e)
  <2>1. pc[e] = "gate" /\ Admitted(e) /\ (meta[e].lens = "prefix" \/ LastChunk = 0)
    BY <1>2 DEF RespondWhole, OneChunk
  <2>2. first \in Bodies /\ (want[e].at.root # Latest => Whole(first))
    <3>1. Plain(buf[e], 0) \in Plaintexts /\ (want[e].at.root # Latest => LastChunk = 0)
      BY <2>1, AdmittedIsProven
    <3> QED BY <3>1 DEF Bodies, Whole
  <2> QED BY <1>2, <2>1, <2>2, AdmittedIsProven, CompleteKeepsInvariant DEF RespondWhole
<1>3. CASE RespondStream(e)
  <2>1. pc[e] = "gate" /\ Admitted(e) /\ pc' = [pc EXCEPT ![e] = "stream"]
        /\ body' = [body EXCEPT ![e] = first]
        /\ UNCHANGED <<shared, ask, want, via, todo, buf, meta, trim>>
    BY <1>3 DEF RespondStream, Goto
  <2>2. /\ first \in Bodies /\ Len(first) = 1 /\ Faithful(want[e].at, first)
        /\ want[e].at.root # Latest =>
              /\ \A w \in Windows : buf[e][w] = Published(want[e].at.key, want[e].at.root)
              /\ want[e].at.root \in Generations /\ want[e].salt = StoreSalt
              /\ meta[e].lens \in {"exact", "badLater"}
    BY <2>1, AdmittedIsProven DEF Bodies
  <2> HIDE DEF first
  <2>3. TypeOK'
    BY <2>1, <2>2 DEF IInv, TypeOK, shared, PCs
  <2>4. PinnedWasm'
    BY <2>1 DEF IInv, PinnedWasm, shared
  <2>5. ASSUME NEW x \in Events PROVE Control(x)'
    BY <2>1, <2>5 DEF IInv, TypeOK, Control, shared, Serving, Status200, Persisting
  <2>6. ASSUME NEW x \in Events PROVE Answer(x)'
    <3>1. CASE x = e
      <4>1. 1 \in 1 .. (LastChunk + 1)
        BY ContentAssumption
      <4>2. /\ pc'[e] = "stream" /\ body'[e] = first
            /\ want'[e] = want[e] /\ buf'[e] = buf[e] /\ meta'[e] = meta[e]
        BY <2>1 DEF IInv, TypeOK
      <4> QED BY <2>2, <3>1, <4>1, <4>2, Zenon DEF Answer, Persisting
    <3>2. CASE x # e
      BY <2>1, <2>6, <3>2 DEF IInv, TypeOK, Answer, shared, Status200, Persisting
    <3> QED BY <3>1, <3>2
  <2>7. CachesFaithful'
    BY <2>1 DEF IInv, CachesFaithful, ContentCache, shared
  <2> QED BY <2>3, <2>4, <2>5, <2>6, <2>7 DEF IInv
<1> QED BY <1>1, <1>2, <1>3 DEF Responding

\* A pull appends a chunk of the same resource or breaks the stream.
LEMMA PullChunkStep ==
    ASSUME IInv, NEW e \in Events, PullChunk(e)
    PROVE  IInv'
<1> DEFINE c == NextChunk(e)
           key == want[e].at.key
           root == want[e].at.root
           longer == Append(body[e], Plain(buf[e], c))
<1>1. /\ pc[e] = "stream"
      /\ UNCHANGED <<shared, ask, want, via, todo, buf, meta, trim>>
  BY DEF PullChunk
<1>2. /\ key \in Keys /\ want[e].at \in CacheKeys /\ body[e] \in Seq(Plaintexts)
      /\ Len(body[e]) \in 1 .. (LastChunk + 1) /\ Faithful(want[e].at, body[e])
      /\ root # Latest =>
            /\ \A w \in Windows : buf[e][w] = Published(key, root)
            /\ root \in Generations /\ want[e].salt = StoreSalt
            /\ meta[e].lens \in {"exact", "badLater"}
  BY <1>1, WantType DEF IInv, TypeOK, Answer, Status200, Bodies
<1>3. CASE ~Opens(e, c)
  <2>1. pc' = [pc EXCEPT ![e] = "broken"] /\ body' = body
    BY <1>3 DEF PullChunk, Goto
  <2>2. TypeOK'
    BY <1>1, <2>1 DEF IInv, TypeOK, shared, PCs, Ended
  <2>3. PinnedWasm'
    BY <1>1 DEF IInv, PinnedWasm, shared
  <2>4. ASSUME NEW x \in Events PROVE Control(x)'
    BY <1>1, <2>1, <2>4 DEF IInv, TypeOK, Control, shared, Serving, Status200, Persisting
  <2>5. ASSUME root # Latest PROVE meta[e].lens = "badLater"
    <3> SUFFICES ASSUME meta[e].lens # "badLater" PROVE FALSE
      OBVIOUS
    <3>1. c \in Chunks
      BY <1>3 DEF PullChunk, HasMore
    <3>2. \A w \in Spread[c] : buf[e][w] = Published(key, root)
      BY <1>2, <2>5, <3>1, ContentAssumption
    <3> QED BY <1>2, <1>3, <2>5, <3>2 DEF Opens, ChunkOpens
  <2>6. ASSUME NEW x \in Events PROVE Answer(x)'
    BY <1>1, <2>1, <2>5, <2>6 DEF IInv, TypeOK, Answer, shared, Status200, Persisting
  <2>7. CachesFaithful'
    BY <1>1 DEF IInv, CachesFaithful, ContentCache, shared
  <2> QED BY <2>2, <2>3, <2>4, <2>6, <2>7 DEF IInv
<1>4. CASE Opens(e, c)
  <2>1. body' = [body EXCEPT ![e] = longer] /\ pc' = pc
    BY <1>4 DEF PullChunk
  <2>2. ChunkOpens(buf[e], meta[e], key, want[e].salt, c)
    BY <1>4 DEF Opens
  <2>3. c \in Chunks /\ c = Len(body[e]) /\ LastChunk \in Nat
    BY <1>2, <2>2, ContentAssumption DEF PullChunk, HasMore, NextChunk, ChunkOpens
  <2>4. PICK g \in Generations : Plain(buf[e], c) = Published(key, g)
    BY <1>2, <2>2, <2>3, OpenedChunk
  <2>5. root # Latest => Plain(buf[e], c) = Published(key, root)
    BY <1>2, <2>2, <2>3, OpenedChunkOfProven
  <2>6. Plain(buf[e], c) \in Plaintexts /\ Plain(buf[e], c).key = key
    BY <1>2, <2>4 DEF Published, Plaintexts
  <2>7. /\ longer \in Seq(Plaintexts) /\ Len(longer) = Len(body[e]) + 1
        /\ \A i \in 1 .. Len(body[e]) : longer[i] = body[e][i]
        /\ longer[Len(body[e]) + 1] = Plain(buf[e], c)
    BY <1>2, <2>6, AppendProperties
  <2>8. Len(longer) \in 1 .. (LastChunk + 1)
    BY <1>2, <2>3, <2>7 DEF Chunks
  <2>9. Faithful(want[e].at, longer)
    <3>1. ASSUME NEW i \in DOMAIN longer
          PROVE  longer[i].key = key /\ (root # Latest => longer[i] = Published(key, root))
      <4>1. DOMAIN longer = 1 .. (Len(body[e]) + 1) /\ DOMAIN body[e] = 1 .. Len(body[e])
        BY <1>2, <2>7
      <4>2. CASE i \in 1 .. Len(body[e])
        BY <1>2, <2>7, <4>1, <4>2 DEF Faithful, AllOf
      <4>3. CASE i = Len(body[e]) + 1
        BY <2>5, <2>6, <2>7, <4>3
      <4> QED BY <1>2, <3>1, <4>1, <4>2, <4>3
    <3> HIDE DEF longer
    <3> QED BY <3>1 DEF Faithful, AllOf
  <2> HIDE DEF longer, key, root
  <2>10. TypeOK'
    BY <1>1, <2>1, <2>7 DEF IInv, TypeOK, shared, Bodies
  <2>11. PinnedWasm'
    BY <1>1 DEF IInv, PinnedWasm, shared
  <2>12. ASSUME NEW x \in Events PROVE Control(x)'
    BY <1>1, <2>1, <2>12 DEF IInv, Control, shared
  <2>13. ASSUME NEW x \in Events PROVE Answer(x)'
    <3>1. CASE x = e
      <4>1. /\ pc'[e] = "stream" /\ body'[e] = longer
            /\ want'[e] = want[e] /\ buf'[e] = buf[e] /\ meta'[e] = meta[e]
        BY <1>1, <2>1 DEF IInv, TypeOK
      <4> QED BY <1>2, <2>8, <2>9, <3>1, <4>1, Zenon DEF Answer, Persisting, key, root
    <3>2. CASE x # e
      BY <1>1, <2>1, <2>13, <3>2 DEF IInv, TypeOK, Answer, shared
    <3> QED BY <3>1, <3>2
  <2>14. CachesFaithful'
    BY <1>1 DEF IInv, CachesFaithful, ContentCache, shared
  <2> QED BY <2>10, <2>11, <2>12, <2>13, <2>14 DEF IInv
<1> QED BY <1>3, <1>4

LEMMA ReadingStep ==
    ASSUME IInv, NEW e \in Events, Reading(e)
    PROVE  IInv'
<1>1. CASE PullEnd(e)
  <2>1. pc[e] = "stream" /\ body[e] \in Bodies /\ Faithful(want[e].at, body[e])
    BY <1>1 DEF PullEnd, IInv, TypeOK, Answer, Status200
  <2>2. Whole(body[e])
    BY <1>1, <2>1, ContentAssumption DEF PullEnd, HasMore, NextChunk, Chunks, Whole, IInv, Answer
  <2> QED BY <1>1, <2>1, <2>2, CompleteKeepsInvariant DEF PullEnd
<1>2. CASE Cancel(e)
  BY <1>2, MoveKeepsInvariant DEF Cancel, PCs, Ended
<1> QED BY <1>1, <1>2, PullChunkStep DEF Reading

-----------------------------------------------------------------------------
(* Persisting. *)

\* A persisting step changes the current content cache within PinnedEntries, or nothing.
LEMMA SaveKeepsInvariant ==
    ASSUME IInv, NEW e \in Events, pc[e] \in Persisting,
           NEW label \in {"sweep", "trim", "served"}, Goto(e, label),
           contentCaches' \in [ContentCacheNames -> Seq(Entries)], ContentCache' \in Seq(PinnedEntries),
           trim' \in [Events -> SUBSET CacheKeys],
           UNCHANGED <<activated, cfg, digReady, running, wasmCache, mem, tip,
                       ask, want, via, todo, buf, meta, body>>
    PROVE  IInv'
<1>1. TypeOK'
  BY DEF IInv, TypeOK, Goto, PCs, Persisting, Ended
<1>2. PinnedWasm'
  BY DEF IInv, PinnedWasm
<1>3. ASSUME NEW x \in Events PROVE Control(x)'
  BY <1>3 DEF IInv, TypeOK, Control, Goto, Serving, Status200, Persisting
<1>4. ASSUME NEW x \in Events PROVE Answer(x)'
  BY <1>4 DEF IInv, TypeOK, Answer, Goto, Status200, Persisting
<1>5. CachesFaithful'
  BY DEF IInv, CachesFaithful
<1> QED BY <1>1, <1>2, <1>3, <1>4, <1>5 DEF IInv

\* Replacing the current content cache touches no other one.
LEMMA NewContentCache ==
    ASSUME IInv, NEW cache \in Seq(PinnedEntries),
           contentCaches' = [contentCaches EXCEPT ![CONTENT_CACHE_NAME] = cache]
    PROVE  contentCaches' \in [ContentCacheNames -> Seq(Entries)] /\ ContentCache' \in Seq(PinnedEntries)
<1>1. PinnedEntries \subseteq Entries
  BY DEF PinnedEntries, FaithfulEntries
<1>2. cache \in Seq(Entries)
  BY <1>1
<1>3. CONTENT_CACHE_NAME \in ContentCacheNames
  BY DEF CONTENT_CACHE_NAME, ContentCacheNames
<1>4. contentCaches \in [ContentCacheNames -> Seq(Entries)]
  BY DEF IInv, TypeOK
<1> QED BY <1>2, <1>3, <1>4 DEF ContentCache

LEMMA SavingStep ==
    ASSUME IInv, NEW e \in Events, Saving(e)
    PROVE  IInv'
<1>1. CASE PersistPut(e)
  <2>1. pc[e] = "put" /\ want[e].at \in CacheKeys /\ body[e] \in Bodies
    BY <1>1, WantType DEF PersistPut, IInv, TypeOK, Status200, Persisting
  <2>2. Whole(body[e]) /\ Faithful(want[e].at, body[e]) /\ want[e].at.root # Latest
    BY <2>1 DEF IInv, Answer, Control, Status200, Persisting
  <2>3. EntryOf(e) \in PinnedEntries
    BY <2>1, <2>2 DEF EntryOf, PinnedEntries, FaithfulEntries, Entries
  <2>4. Put(ContentCache, EntryOf(e)) \in Seq(PinnedEntries)
    BY <2>3, PutType DEF IInv, CachesFaithful
  <2>5. contentCaches' = [contentCaches EXCEPT ![CONTENT_CACHE_NAME] = Put(ContentCache, EntryOf(e))]
    BY <1>1 DEF PersistPut, ContentCache
  <2>6. trim' \in [Events -> SUBSET CacheKeys]
    BY <1>1 DEF PersistPut, IInv, TypeOK
  <2> QED BY <1>1, <2>1, <2>4, <2>5, <2>6, NewContentCache, SaveKeepsInvariant DEF PersistPut, Persisting
<1>2. CASE PersistSweep(e)
  <2>1. Overflow(ContentCache) \in SUBSET CacheKeys
    <3>1. ContentCache \in Seq(Entries) /\ CONTENT_CACHE_MAX \in Nat
      BY WorkerAssumption DEF IInv, TypeOK, ContentCache, ContentCacheNames, CONTENT_CACHE_NAME
    <3>2. ASSUME NEW i \in 1 .. (Len(ContentCache) - CONTENT_CACHE_MAX)
          PROVE  ContentCache[i].at \in CacheKeys
      <4>1. i \in 1 .. Len(ContentCache)
        BY <3>1, <3>2
      <4>2. ContentCache[i] \in Entries
        BY <3>1, <4>1, ElementOfSeq
      <4> QED BY <4>2 DEF Entries
    <3> QED BY <3>2 DEF Overflow
  <2>2. trim' \in [Events -> SUBSET CacheKeys]
    BY <1>2, <2>1 DEF PersistSweep, IInv, TypeOK
  <2>3. contentCaches' = contentCaches /\ ContentCache' = ContentCache
    BY <1>2 DEF PersistSweep, shared, ContentCache
  <2> QED BY <1>2, <2>2, <2>3, SaveKeepsInvariant
          DEF PersistSweep, Persisting, shared, IInv, TypeOK, CachesFaithful
<1>3. ASSUME NEW at \in trim[e], PersistTrim(e, at) PROVE IInv'
  <2>1. Without(ContentCache, at) \in Seq(PinnedEntries)
    BY WithoutType DEF IInv, CachesFaithful
  <2>2. contentCaches' = [contentCaches EXCEPT ![CONTENT_CACHE_NAME] = Without(ContentCache, at)]
    BY <1>3 DEF PersistTrim, ContentCache
  <2>3. trim' \in [Events -> SUBSET CacheKeys]
    BY <1>3 DEF PersistTrim, IInv, TypeOK
  <2> QED BY <1>3, <2>1, <2>2, <2>3, NewContentCache, SaveKeepsInvariant DEF PersistTrim, Persisting
<1>4. CASE PersistFails(e)
  <2>1. trim' \in [Events -> SUBSET CacheKeys]
    BY <1>4 DEF PersistFails, IInv, TypeOK
  <2>2. contentCaches' = contentCaches /\ ContentCache' = ContentCache
    BY <1>4 DEF PersistFails, shared, ContentCache
  <2> QED BY <1>4, <2>1, <2>2, SaveKeepsInvariant DEF PersistFails, shared, IInv, TypeOK, CachesFaithful
<1> QED BY <1>1, <1>2, <1>3, <1>4 DEF Saving

-----------------------------------------------------------------------------
(* The environment, and the theorems. *)

LEMMA ReleaseStep ==
    ASSUME IInv, NEW e \in Events, Release(e)
    PROVE  IInv'
<1>1. /\ pc' = [pc EXCEPT ![e] = "idle"] /\ ask' = [ask EXCEPT ![e] = None]
      /\ want' = [want EXCEPT ![e] = None] /\ via' = [via EXCEPT ![e] = "GET"]
      /\ todo' = [todo EXCEPT ![e] = {}] /\ buf' = [buf EXCEPT ![e] = Zeroes]
      /\ meta' = [meta EXCEPT ![e] = NoMeta] /\ body' = [body EXCEPT ![e] = <<>>]
      /\ UNCHANGED <<shared, trim>>
  BY DEF Release, Goto
<1>2. Zeroes \in Buffers /\ NoMeta \in Metas /\ <<>> \in Bodies
  BY DEF Zeroes, Buffers, Bytes, NoMeta, Metas, LensKinds, Bodies
<1>3. TypeOK'
  BY <1>1, <1>2 DEF IInv, TypeOK, shared, PCs
<1>4. PinnedWasm'
  BY <1>1 DEF IInv, PinnedWasm, shared
<1>5. ASSUME NEW x \in Events PROVE Control(x)'
  BY <1>1, <1>5 DEF IInv, TypeOK, Control, shared, Serving, Status200, Persisting
<1>6. ASSUME NEW x \in Events PROVE Answer(x)'
  BY <1>1, <1>6 DEF IInv, TypeOK, Answer, shared, Status200, Persisting
<1>7. CachesFaithful'
  BY <1>1 DEF IInv, CachesFaithful, ContentCache, shared
<1> QED BY <1>3, <1>4, <1>5, <1>6, <1>7 DEF IInv

\* A kill forgets everything but the Cache Storage, which stays faithful.
LEMMA KillStep == IInv /\ Kill => IInv'
<1> SUFFICES ASSUME IInv, Kill PROVE IInv'
  OBVIOUS
<1>1. Zeroes \in Buffers /\ NoMeta \in Metas /\ <<>> \in Bodies
  BY DEF Zeroes, Buffers, Bytes, NoMeta, Metas, LensKinds, Bodies
<1>2. TypeOK'
  BY <1>1 DEF IInv, TypeOK, Kill, PCs
<1>3. PinnedWasm'
  BY DEF IInv, PinnedWasm, Kill
<1>4. ASSUME NEW x \in Events PROVE Control(x)' /\ Answer(x)'
  BY <1>4 DEF Kill, Control, Answer, Serving, Status200, Persisting
<1>5. CachesFaithful'
  BY DEF IInv, CachesFaithful, ContentCache, Kill
<1> QED BY <1>2, <1>3, <1>4, <1>5 DEF IInv

LEMMA CommitStep == IInv /\ Commit => IInv'
<1> SUFFICES ASSUME IInv, Commit PROVE IInv'
  OBVIOUS
<1>1. TypeOK'
  BY DEF IInv, TypeOK, Commit, local
<1>2. PinnedWasm' /\ CachesFaithful'
  BY DEF IInv, PinnedWasm, CachesFaithful, ContentCache, Commit
<1>3. ASSUME NEW x \in Events PROVE Control(x)' /\ Answer(x)'
  BY <1>3 DEF IInv, Control, Answer, Commit, local
<1> QED BY <1>1, <1>2, <1>3 DEF IInv

\* Every step of every handler and of the environment preserves the invariant.
LEMMA NextInvariant == IInv /\ [Next]_vars => IInv'
<1> SUFFICES ASSUME IInv, [Next]_vars PROVE IInv'
  OBVIOUS
<1>1. CASE UNCHANGED vars
  BY <1>1 DEF IInv, TypeOK, PinnedWasm, Control, Answer, CachesFaithful, ContentCache,
              vars, shared, local
<1>2. CASE Activate \/ LoadWasm \/ Kill \/ Commit
  BY <1>2, ActivateStep, WasmStep, KillStep, CommitStep
<1>3. ASSUME NEW e \in Events, NEW q \in Asks, Intercept(e, q) \/ InterceptUnconfigured(e, q)
      PROVE  IInv'
  BY <1>3, InterceptStep
<1>4. ASSUME NEW e \in Events,
             \/ Startup(e) \/ Resolving(e) \/ Fetching(e) \/ Responding(e)
             \/ Reading(e) \/ Saving(e) \/ Release(e)
      PROVE  IInv'
  BY <1>4, StartupStep, ResolvingStep, FetchingStep, RespondingStep, ReadingStep, SavingStep, ReleaseStep
<1> QED BY <1>1, <1>2, <1>3, <1>4 DEF Next

\* The invariant holds in every reachable state.
THEOREM Invariance == Spec => []IInv
<1> QED BY InitInvariant, NextInvariant, PTL DEF Spec

\* Type correctness of the whole worker.
THEOREM TypeCorrect == Spec => []TypeOK
<1>1. IInv => TypeOK
  BY DEF IInv
<1> QED BY <1>1, Invariance, PTL

\* sw.js serveUrn fails closed: a 200 answer to a pinned read carries only what the store published
\* for that key under that root, for any network, any interleaving of handlers and any restarts.
THEOREM PinnedReadsAuthentic == Spec => []PinnedAuthentic
<1>1. IInv => PinnedAuthentic
  BY DEF IInv, Answer, PinnedAuthentic, Faithful
<1> QED BY <1>1, Invariance, PTL

\* What the worker leaves in the persistent cache, through crashes and lost sweeps, is pinned, whole
\* and authentic, so that a later worker may serve it without verifying it again.
THEOREM PersistedContentAuthentic == Spec => []PersistedAuthentic
<1>1. IInv => PersistedAuthentic
  <2> SUFFICES ASSUME IInv, NEW i \in DOMAIN ContentCache
               PROVE  /\ ContentCache[i].at.root # Latest
                      /\ Whole(ContentCache[i].body)
                      /\ AllOf(ContentCache[i].body, ContentCache[i].at.key, ContentCache[i].at.root)
    BY DEF PersistedAuthentic
  <2>1. ContentCache[i] \in PinnedEntries
    BY DEF IInv, CachesFaithful
  <2> QED BY <2>1 DEF PinnedEntries, FaithfulEntries, Faithful
<1> QED BY <1>1, Invariance, PTL

\* No truncated pinned body ends as a success, and none is kept in memory.
THEOREM NothingIsTruncated == Spec => []NothingTruncated
<1>1. IInv => NothingTruncated
  <2> SUFFICES ASSUME IInv PROVE NothingTruncated
    OBVIOUS
  <2>1. ASSUME NEW e \in Events, pc[e] \in {"served"} \cup Persisting
        PROVE  Intact(want[e].at, body[e])
    BY <2>1 DEF IInv, Answer, Status200, Faithful, Intact
  <2>2. ASSUME NEW i \in DOMAIN mem
        PROVE  Intact(mem[i].at, mem[i].body)
    <3>1. mem[i] \in FaithfulEntries
      BY DEF IInv, CachesFaithful
    <3> QED BY <3>1 DEF FaithfulEntries, Faithful, Intact
  <2> QED BY <2>1, <2>2 DEF NothingTruncated
<1> QED BY <1>1, Invariance, PTL

\* Once a pinned 200 is out, every chunk that the reply describes rightly opens: only chunk lengths
\* that are wrong after the first one can break the stream.
THEOREM PinnedStreamsAreWhole == Spec => []PinnedStreamsHold
<1>1. IInv => PinnedStreamsHold
  BY DEF IInv, Answer, PinnedStreamsHold, RootIsPinned
<1> QED BY <1>1, Invariance, PTL
-----------------------------------------------------------------------------
(* What remains to be known of a read. *)

\* Before the reference is resolved.
Before == {"idle", "config", "ready"}

\* Nothing is handed out without a 200.
Silent == \A e \in Events : pc[e] \notin Status200 => body[e] = <<>>

Grown(e) == body[e] = <<>> \/ body'[e] = body[e] \/ \E x \in Plaintexts : body'[e] = Append(body[e], x)

\* How one step treats one handler: it is begun with, it is over, it goes on with what it has, it
\* goes on saving what it has handed out, or it is left alone.
Treated(e) ==
    \/ pc[e] \in Before
    \/ pc'[e] = "idle" /\ body'[e] = <<>>
    \/ pc[e] \in Serving \cup {"stream"} /\ pc'[e] \notin Before /\ want'[e] = want[e] /\ Grown(e)
    \/ /\ pc[e] \in Persisting /\ pc'[e] \in Persisting \cup {"served"}
       /\ want'[e] = want[e] /\ body'[e] = body[e]
    \/ pc'[e] = pc[e] /\ want'[e] = want[e] /\ body'[e] = body[e]

\* A step of the handler before its reference is resolved, and the first of serveUrn after that.
LEMMA EarlyStep ==
    ASSUME IInv, Silent, NEW e \in Events,
           \/ \E q \in Asks : Intercept(e, q) \/ InterceptUnconfigured(e, q)
           \/ Startup(e) \/ DigUnavailable(e) \/ InvalidUrn(e) \/ NoStore(e)
           \/ MemoryHit(e) \/ MemoryMiss(e)
    PROVE  pc[e] \in Before /\ (pc'[e] \notin Status200 => body'[e] = <<>>)
<1>1. CASE MemoryHit(e)
  BY <1>1 DEF IInv, TypeOK, MemoryHit, Awoken, Goto, Before, Status200
<1>2. CASE ~MemoryHit(e)
  <2>1. pc[e] \in Before /\ body' = body
    BY <1>2 DEF Intercept, InterceptUnconfigured, Startup, ConfigArrives, ConfigFails,
                DigUnavailable, InvalidUrn, NoStore, MemoryMiss, Awoken, Before
  <2> QED BY <2>1 DEF Silent, Before, Status200, Persisting
<1> QED BY <1>1, <1>2

\* A step between the resolution of the reference and the response.
LEMMA ServingStep ==
    ASSUME IInv, Silent, NEW e \in Events,
           PersistentHit(e) \/ PersistentMiss(e) \/ Fetching(e) \/ Responding(e)
    PROVE  /\ pc[e] \in Serving /\ pc'[e] \notin Before /\ want'[e] = want[e] /\ body[e] = <<>>
           /\ pc'[e] \notin Status200 => body'[e] = <<>>
<1>1. pc[e] \in Serving /\ want' = want
  BY DEF PersistentHit, PersistentMiss, Fetching, FirstWindow, NextWindow, GetFails, PostFails,
         Responding, Refuse, RespondWhole, RespondStream, Serving
<1>2. body[e] = <<>>
  BY <1>1 DEF Silent, Serving, Status200, Persisting
<1>3. CASE PersistentHit(e) \/ RespondWhole(e) \/ RespondStream(e)
  <2>1. pc'[e] \in Status200
    BY <1>3 DEF IInv, TypeOK, PersistentHit, RespondWhole, RespondStream, Complete, Goto, Status200,
                Persisting
  <2> QED BY <1>1, <1>2, <2>1 DEF Before, Status200, Persisting
<1>4. CASE PersistentMiss(e) \/ Fetching(e) \/ Refuse(e)
  <2>1. body' = body /\ \E label \in {"first", "rest", "gate", "rejected", "notFound"} : Goto(e, label)
    BY <1>4 DEF PersistentMiss, Fetching, FirstWindow, NextWindow, GetFails, PostFails, Refuse
  <2>2. pc'[e] \in {"first", "rest", "gate", "rejected", "notFound"}
    BY <2>1 DEF IInv, TypeOK, Goto
  <2> QED BY <1>1, <1>2, <2>1, <2>2 DEF Before
<1> QED BY <1>3, <1>4 DEF Responding

\* A step of the stream: the body grows by a chunk, or stays what it is.
LEMMA StreamStep ==
    ASSUME IInv, NEW e \in Events, Reading(e)
    PROVE  pc[e] = "stream" /\ pc'[e] \in Status200 /\ want'[e] = want[e] /\ Grown(e)
<1>1. pc[e] = "stream" /\ want' = want
  BY DEF Reading, PullChunk, PullEnd, Cancel
<1>2. CASE PullChunk(e)
  <2> DEFINE c == NextChunk(e)
  <2>1. CASE Opens(e, c)
    <3>1. body'[e] = Append(body[e], Plain(buf[e], c)) /\ pc'[e] = "stream"
      BY <1>1, <1>2, <2>1 DEF PullChunk, IInv, TypeOK
    <3>2. c \in Chunks
      <4>1. Len(body[e]) \in 1 .. (LastChunk + 1) /\ LastChunk \in Nat
        BY <1>1, ContentAssumption DEF IInv, Answer
      <4>2. CASE c \in 1 .. LastChunk
        BY <4>1, <4>2 DEF Chunks
      <4>3. CASE c = LastChunk + 1
        <5>1. meta[e].lens = "badLater" /\ c # 0
          BY <1>2, <4>1, <4>3 DEF PullChunk, HasMore, Chunks
        <5> QED BY <2>1, <5>1 DEF Opens, ChunkOpens
      <4> QED BY <4>1, <4>2, <4>3 DEF NextChunk
    <3>3. want[e].at.key \in Keys
      BY <1>1, WantType DEF IInv, Control, Status200
    <3>4. Plain(buf[e], c) \in Plaintexts
      BY <2>1, <3>2, <3>3, OpenedChunk DEF Opens, Published, Plaintexts
    <3> QED BY <1>1, <3>1, <3>4 DEF Grown, Status200
  <2>2. CASE ~Opens(e, c)
    BY <1>1, <1>2, <2>2 DEF PullChunk, Goto, IInv, TypeOK, Grown, Status200
  <2> QED BY <2>1, <2>2
<1>3. CASE PullEnd(e)
  BY <1>1, <1>3 DEF PullEnd, Complete, Goto, IInv, TypeOK, Grown, Status200, Persisting
<1>4. CASE Cancel(e)
  BY <1>1, <1>4 DEF Cancel, Goto, IInv, TypeOK, Grown, Status200
<1> QED BY <1>2, <1>3, <1>4 DEF Reading

LEMMA SavingTreated ==
    ASSUME IInv, NEW e \in Events, Saving(e)
    PROVE  /\ pc[e] \in Persisting /\ pc'[e] \in Persisting \cup {"served"}
           /\ want'[e] = want[e] /\ body'[e] = body[e]
<1>1. /\ pc[e] \in Persisting /\ UNCHANGED <<want, body>>
      /\ \E label \in {"sweep", "trim", "served"} : Goto(e, label)
  BY DEF Saving, PersistPut, PersistSweep, PersistTrim, PersistFails, Persisting
<1> QED BY <1>1 DEF IInv, TypeOK, Goto, Persisting

\* A step of one handler leaves the places, references and bodies of the others alone.
LEMMA OthersAlone ==
    ASSUME IInv, NEW x \in Events, NEW e \in Events, e # x,
           \/ \E q \in Asks : Intercept(x, q) \/ InterceptUnconfigured(x, q)
           \/ Startup(x) \/ Resolving(x) \/ Fetching(x) \/ Responding(x)
           \/ Reading(x) \/ Saving(x) \/ Release(x)
    PROVE  pc'[e] = pc[e] /\ want'[e] = want[e] /\ body'[e] = body[e]
<1> USE DEF IInv, TypeOK, Goto
<1>1. CASE \E q \in Asks : Intercept(x, q) \/ InterceptUnconfigured(x, q)
  BY <1>1 DEF Intercept, InterceptUnconfigured
<1>2. CASE Startup(x)
  BY <1>2 DEF Startup, ConfigArrives, ConfigFails
<1>3. CASE Resolving(x)
  BY <1>3 DEF Resolving, DigUnavailable, InvalidUrn, NoStore, MemoryHit, MemoryMiss, PersistentHit,
              PersistentMiss
<1>4. CASE Fetching(x)
  BY <1>4 DEF Fetching, FirstWindow, NextWindow, GetFails, PostFails
<1>5. CASE Responding(x)
  BY <1>5 DEF Responding, Refuse, RespondWhole, RespondStream, Complete
<1>6. CASE Reading(x)
  BY <1>6 DEF Reading, PullChunk, PullEnd, Cancel, Complete
<1>7. CASE Saving(x)
  BY <1>7 DEF Saving, PersistPut, PersistSweep, PersistTrim, PersistFails
<1>8. CASE Release(x)
  BY <1>8 DEF Release
<1> QED BY <1>1, <1>2, <1>3, <1>4, <1>5, <1>6, <1>7, <1>8

LEMMA EveryoneTreated ==
    ASSUME IInv, Silent, [Next]_vars, NEW e \in Events
    PROVE  Treated(e) /\ (pc'[e] \notin Status200 => body'[e] = <<>>)
<1>1. CASE pc'[e] = pc[e] /\ want'[e] = want[e] /\ body'[e] = body[e]
  BY <1>1 DEF Treated, Silent
<1>2. CASE UNCHANGED vars \/ Activate \/ LoadWasm \/ Commit
  <2>1. UNCHANGED <<pc, want, body>>
    BY <1>2 DEF vars, local, Activate, LoadWasm, WasmFromCache, WasmFetched, WasmFails, Commit
  <2> QED BY <1>1, <2>1
<1>3. CASE Kill
  BY <1>3 DEF Kill, Treated
<1>4. ASSUME NEW x \in Events,
             \/ \E q \in Asks : Intercept(x, q) \/ InterceptUnconfigured(x, q)
             \/ Startup(x) \/ Resolving(x) \/ Fetching(x) \/ Responding(x)
             \/ Reading(x) \/ Saving(x) \/ Release(x)
      PROVE  Treated(e) /\ (pc'[e] \notin Status200 => body'[e] = <<>>)
  <2>1. CASE x # e
    BY <1>1, <1>4, <2>1, OthersAlone
  <2>2. CASE x = e /\ (PersistentHit(e) \/ PersistentMiss(e) \/ Fetching(e) \/ Responding(e))
    BY <2>2, ServingStep DEF Treated, Grown
  <2>3. CASE x = e /\ Reading(e)
    BY <2>3, StreamStep DEF Treated, Before, Status200, Persisting
  <2>4. CASE x = e /\ Saving(e)
    BY <2>4, SavingTreated DEF Treated, Status200, Persisting
  <2>5. CASE x = e /\ Release(e)
    BY <2>5 DEF Release, Goto, IInv, TypeOK, Treated
  <2>6. CASE /\ x = e
             /\ \/ \E q \in Asks : Intercept(e, q) \/ InterceptUnconfigured(e, q)
                \/ Startup(e) \/ DigUnavailable(e) \/ InvalidUrn(e) \/ NoStore(e)
                \/ MemoryHit(e) \/ MemoryMiss(e)
    BY <2>6, EarlyStep DEF Treated
  <2> QED BY <1>4, <2>1, <2>2, <2>3, <2>4, <2>5, <2>6 DEF Resolving
<1> QED BY <1>2, <1>3, <1>4 DEF Next

-----------------------------------------------------------------------------
(* Every step keeps the promise. *)

LEMMA EmptyPrefix ==
    ASSUME NEW S, NEW s \in Seq(S)
    PROVE  Promise!IsPrefix(<<>>, s)
BY DEF Promise!IsPrefix

LEMMA PrefixOfItself ==
    ASSUME NEW S, NEW s \in Seq(S)
    PROVE  Promise!IsPrefix(s, s)
BY DEF Promise!IsPrefix

LEMMA GrownPrefix ==
    ASSUME NEW S, NEW s \in Seq(S), NEW x \in S
    PROVE  Promise!IsPrefix(s, Append(s, x))
<1>1. Append(s, x) \in Seq(S) /\ Len(Append(s, x)) = Len(s) + 1 /\ Len(s) \in Nat
  BY AppendProperties
<1>2. \A i \in 1 .. Len(s) : Append(s, x)[i] = s[i]
  BY AppendProperties
<1>3. SubSeq(Append(s, x), 1, Len(s)) = SubSeq(s, 1, Len(s))
  BY <1>1, <1>2
<1> QED BY <1>1, <1>3 DEF Promise!IsPrefix

\* What each place in the code looks like from outside.
LEMMA Outside ==
    ASSUME NEW e \in Events
    PROVE  /\ pc[e] \in Before => outcome[e] = "idle"
           /\ pc[e] \in Serving \cup {"stream"} => outcome[e] = "reading"
           /\ pc[e] \in Persisting \cup {"served"} => outcome[e] = "done"
BY DEF outcome, OutcomeOf, Before, Serving, Persisting

LEMMA OutsideAfter ==
    ASSUME NEW e \in Events
    PROVE  /\ pc'[e] \in Before => outcome'[e] = "idle"
           /\ pc'[e] \in Serving \cup {"stream"} => outcome'[e] = "reading"
           /\ pc'[e] \in Persisting \cup {"served"} => outcome'[e] = "done"
           /\ pc'[e] \in {"broken", "cancelled"} => outcome'[e] = "cut"
           /\ pc'[e] \in {"notFound", "invalid", "rejected"} => outcome'[e] = "refused"
           /\ want'[e] # None => askedFor'[e] = want'[e].at
           /\ want'[e] = want[e] => askedFor'[e] = askedFor[e]
           /\ pc'[e] = pc[e] => outcome'[e] = outcome[e]
BY DEF outcome, OutcomeOf, askedFor, Before, Serving, Persisting

LEMMA GotOn ==
    ASSUME IInv', Silent', NEW e \in Events, pc'[e] \notin Before,
           NEW had, Promise!IsPrefix(had, body'[e])
    PROVE  Promise!GetOn(e, had)
<1>1. Answer(e)' /\ Control(e)' /\ pc'[e] \in PCs
  BY DEF IInv, TypeOK
<1>2. CASE pc'[e] \in Status200
  <2> DEFINE at == want'[e].at
  <2>1. want'[e] # None /\ Faithful(at, body'[e])
    BY <1>1, <1>2 DEF Answer, Control
  <2>2. askedFor'[e] = at
    BY <2>1, OutsideAfter
  <2>3. pc'[e] \in {"served"} \cup Persisting /\ at.root # Latest => Len(body'[e]) = LastChunk + 1
    BY <1>1 DEF Answer, Whole
  <2>4. /\ outcome'[e] \in {"reading", "done", "cut"}
        /\ outcome'[e] = "done" => pc'[e] \in {"served"} \cup Persisting
    BY <1>2, OutsideAfter DEF Status200
  <2> HIDE DEF at
  <2>5. \A i \in DOMAIN body'[e] : Promise!Authentic(body'[e][i], at)
    BY <2>1 DEF Faithful, AllOf, Published, Promise!Authentic
  <2> QED BY <2>2, <2>3, <2>4, <2>5 DEF Promise!GetOn
<1>3. CASE pc'[e] \notin Status200
  <2>1. body'[e] = <<>>
    BY <1>3 DEF Silent
  <2>2. pc'[e] \in Serving \cup {"notFound", "invalid", "rejected"}
    BY <1>1, <1>3 DEF PCs, Pending, Ended, Status200, Serving, Before
  <2>3. outcome'[e] \in {"reading", "refused"}
    BY <2>2, OutsideAfter
  <2>4. \A i \in DOMAIN body'[e] : Promise!Authentic(body'[e][i], askedFor'[e])
    BY <2>1
  <2> QED BY <2>1, <2>3, <2>4 DEF Promise!GetOn
<1> QED BY <1>2, <1>3

LEMMA PromiseStep ==
    ASSUME IInv, IInv', Silent, Silent', [Next]_vars, NEW e \in Events
    PROVE  Promise!Step(e)
<1>1. Treated(e)
  BY EveryoneTreated
<1>2. body[e] \in Seq(Plaintexts) /\ body'[e] \in Seq(Plaintexts)
  BY DEF IInv, TypeOK, Bodies
<1>3. CASE pc'[e] \in Before
  <2>1. outcome'[e] = "idle" /\ body'[e] = <<>>
    BY <1>3, OutsideAfter DEF Silent, Before, Status200, Persisting
  <2> QED BY <2>1 DEF Promise!Step
<1>4. CASE pc[e] \in Before /\ pc'[e] \notin Before
  <2>1. Promise!GetOn(e, <<>>)
    BY <1>2, <1>4, EmptyPrefix, GotOn
  <2> QED BY <1>4, <2>1, Outside DEF Promise!Step
<1>5. CASE pc[e] \in Serving \cup {"stream"} /\ pc'[e] \notin Before /\ want'[e] = want[e] /\ Grown(e)
  <2>1. Promise!IsPrefix(body[e], body'[e])
    <3>1. CASE body[e] = <<>>
      BY <1>2, <3>1, EmptyPrefix
    <3>2. CASE body'[e] = body[e]
      BY <1>2, <3>2, PrefixOfItself
    <3>3. ASSUME NEW x \in Plaintexts, body'[e] = Append(body[e], x)
          PROVE  Promise!IsPrefix(body[e], body'[e])
      BY <1>2, <3>3, GrownPrefix
    <3> QED BY <1>5, <3>1, <3>2, <3>3 DEF Grown
  <2>2. Promise!GetOn(e, body[e])
    BY <1>5, <2>1, GotOn
  <2>3. outcome[e] = "reading" /\ askedFor'[e] = askedFor[e]
    BY <1>5, Outside, OutsideAfter
  <2> QED BY <2>2, <2>3 DEF Promise!Step
<1>6. CASE /\ pc[e] \in Persisting /\ pc'[e] \in Persisting \cup {"served"}
           /\ want'[e] = want[e] /\ body'[e] = body[e]
  <2>1. outcome'[e] = outcome[e] /\ askedFor'[e] = askedFor[e]
    BY <1>6, Outside, OutsideAfter
  <2> QED BY <1>6, <2>1 DEF Promise!Step
<1>7. CASE pc'[e] = pc[e] /\ want'[e] = want[e] /\ body'[e] = body[e]
  <2>1. outcome'[e] = outcome[e] /\ askedFor'[e] = askedFor[e]
    BY <1>7, OutsideAfter
  <2> QED BY <1>7, <2>1 DEF Promise!Step
<1> QED BY <1>1, <1>3, <1>4, <1>5, <1>6, <1>7 DEF Treated, Before

\* serveUrn of sw.js implements the promise of VerifiedRead: what is handed out is authentic and only
\* grows, a pinned read ends well only when it is whole, and a refusal comes before any byte; with
\* any number of handlers, whatever is killed, forged, torn or evicted.
THEOREM ServiceWorkerImplementsVerifiedRead == Spec => ImplementsVerifiedRead
<1>1. Init => Silent /\ Promise!Init
  <2> SUFFICES ASSUME Init PROVE Silent /\ Promise!Init
    OBVIOUS
  <2>1. ASSUME NEW e \in Events PROVE OutcomeOf(e) = "idle"
    <3>1. pc[e] \in Before
      BY DEF Init, Before
    <3>2. outcome[e] = OutcomeOf(e)
      BY DEF outcome
    <3> QED BY <3>1, <3>2, Outside
  <2>2. outcome = [e \in Events |-> "idle"]
    BY <2>1 DEF outcome
  <2> QED BY <2>2 DEF Init, Silent, Promise!Init
<1>2. IInv /\ Silent /\ [Next]_vars => Silent'
  BY EveryoneTreated DEF Silent
<1>3. IInv /\ IInv' /\ Silent /\ Silent' /\ [Next]_vars => Promise!Next
  BY PromiseStep DEF Promise!Next
<1>4. Promise!Next => [Promise!Next]_(Promise!vars)
  OBVIOUS
<1> QED BY <1>1, <1>2, <1>3, <1>4, Invariance, PTL DEF Spec, ImplementsVerifiedRead, Promise!Spec

-----------------------------------------------------------------------------
(* Bounded caches. *)

KeysOf(cache) == {cache[i].at : i \in DOMAIN cache}
OnePerKey(cache) == \A i, j \in DOMAIN cache : cache[i].at = cache[j].at => i = j

Sweepers == {e \in Events : pc[e] \in {"sweep", "trim"}}
Trimmers == {e \in Events : pc[e] = "trim"}

\* What some of the trimming handlers have yet to delete.
Doomed(E) == UNION {trim[e] : e \in E}

\* Once those in E are done, the cache exceeds its cap by no more than the other writes.
Allowed(E) == Cardinality(KeysOf(ContentCache) \ Doomed(E)) <= CONTENT_CACHE_MAX + Cardinality(Sweepers \ E)

\* It is so for every set of trimming handlers: whichever of them are done first, none of the keys
\* that the others mean to delete need still be there.
Swept ==
    /\ OnePerKey(ContentCache)
    /\ \A E \in SUBSET Trimmers : Allowed(E)

\* No handler dies, or gives up, between its write and the end of its sweep.
SweepsComplete == {"kill", "storage"} \cap Faults = {}

\* The keys at a range of positions are no more than the positions.
LEMMA KeysAtPositions ==
    ASSUME NEW cache, NEW a \in Nat, NEW b \in Nat
    PROVE  /\ IsFiniteSet({cache[i].at : i \in a .. b})
           /\ a <= b + 1 => Cardinality({cache[i].at : i \in a .. b}) <= b - a + 1
<1> DEFINE T == {cache[i].at : i \in a .. b}
           f == [i \in a .. b |-> cache[i].at]
<1>1. f \in Surjection(a .. b, T)
  BY DEF Surjection
<1>2. IsFiniteSet(a .. b) /\ Cardinality(a .. b) = IF a > b THEN 0 ELSE b - a + 1
  BY FS_Interval
<1> HIDE DEF T, f
<1>3. IsFiniteSet(T) /\ Cardinality(T) <= Cardinality(a .. b)
  BY <1>1, <1>2, FS_Surjection
<1>4. a <= b + 1 => Cardinality(T) <= b - a + 1
  BY <1>2, <1>3, FS_CardinalityType
<1> QED BY <1>3, <1>4 DEF T

\* A cache with one entry per key has as many entries as keys.
LEMMA LenIsKeys ==
    ASSUME NEW S, NEW cache \in Seq(S), OnePerKey(cache)
    PROVE  IsFiniteSet(KeysOf(cache)) /\ Cardinality(KeysOf(cache)) = Len(cache)
<1> DEFINE n == Len(cache)
           T == KeysOf(cache)
           f == [i \in 1 .. n |-> cache[i].at]
<1>1. n \in Nat /\ DOMAIN cache = 1 .. n
  OBVIOUS
<1>2. f \in Surjection(1 .. n, T)
  BY <1>1 DEF Surjection, KeysOf
<1>3. f \in Injection(1 .. n, T)
  BY <1>1, <1>2 DEF Injection, IsInjective, Surjection, OnePerKey
<1>4. IsFiniteSet(1 .. n) /\ Cardinality(1 .. n) = n
  BY <1>1, FS_Interval
<1> HIDE DEF n, T, f
<1> QED BY <1>2, <1>3, <1>4, FS_Surjection DEF n, T

\* cache.delete removes the key and leaves the others.
LEMMA WithoutKeys ==
    ASSUME NEW S, NEW cache \in Seq(S), NEW at, OnePerKey(cache)
    PROVE  OnePerKey(Without(cache, at)) /\ KeysOf(Without(cache, at)) = KeysOf(cache) \ {at}
<1> DEFINE n == Len(cache)
           p == PositionOf(cache, at)
           rest == RemoveAt(cache, p)
<1>0. n \in Nat /\ DOMAIN cache = 1 .. n
  OBVIOUS
<1> HIDE DEF n
<1>1. CASE ~Cached(cache, at)
  <2>1. at \notin KeysOf(cache)
    BY <1>1 DEF Cached, KeysOf
  <2> QED BY <1>1, <2>1 DEF Without
<1>2. CASE Cached(cache, at)
  <2>1. p \in 1 .. n /\ cache[p].at = at
    BY <1>2, PositionInCache DEF n
  <2>2. Without(cache, at) = rest
    BY <1>2 DEF Without
  <2> HIDE DEF p
  <2>3. /\ Len(rest) = n - 1 /\ DOMAIN rest = 1 .. (n - 1)
        /\ \A i \in 1 .. (n - 1) : rest[i] = IF i < p THEN cache[i] ELSE cache[i + 1]
    <3> DEFINE before == SubSeq(cache, 1, p - 1)
               after == SubSeq(cache, p + 1, n)
    <3>1. /\ before \in Seq(S) /\ Len(before) = p - 1
          /\ \A i \in 1 .. (p - 1) : before[i] = cache[i]
      BY <1>0, <2>1, SubSeqProperties
    <3>2. /\ after \in Seq(S) /\ Len(after) = n - p
          /\ \A i \in 1 .. (n - p) : after[i] = cache[p + i]
      <4>1. \A j \in (p + 1) .. n : cache[j] \in S
        BY <1>0, <2>1
      <4>2. /\ after \in Seq(S) /\ Len(after) = IF p + 1 <= n THEN n - (p + 1) + 1 ELSE 0
            /\ \A i \in 1 .. n - (p + 1) + 1 : after[i] = cache[p + 1 + i - 1]
        BY <1>0, <2>1, <4>1, SubSeqProperties
      <4> HIDE DEF after
      <4>3. \A i \in 1 .. (n - p) : p + 1 + i - 1 = p + i
        BY <1>0, <2>1
      <4>4. Len(after) = n - p /\ n - (p + 1) + 1 = n - p
        BY <1>0, <2>1, <4>2
      <4> QED BY <4>2, <4>3, <4>4
    <3>3. rest = before \o after
      BY DEF RemoveAt, n
    <3> HIDE DEF before, after, rest
    <3>4. /\ rest \in Seq(S) /\ Len(rest) = (p - 1) + (n - p)
          /\ \A i \in 1 .. Len(rest) : rest[i] = IF i <= p - 1 THEN before[i] ELSE after[i - (p - 1)]
      <4>1. /\ before \o after \in Seq(S) /\ Len(before \o after) = Len(before) + Len(after)
            /\ \A i \in 1 .. Len(before) + Len(after) : (before \o after)[i] =
                   IF i <= Len(before) THEN before[i] ELSE after[i - Len(before)]
        BY <3>1, <3>2, ConcatProperties
      <4> QED BY <3>1, <3>2, <3>3, <4>1
    <3>5. Len(rest) = n - 1 /\ DOMAIN rest = 1 .. (n - 1)
      BY <1>0, <2>1, <3>4
    <3>6. ASSUME NEW i \in 1 .. (n - 1)
          PROVE  rest[i] = IF i < p THEN cache[i] ELSE cache[i + 1]
      <4>1. CASE i < p
        BY <1>0, <2>1, <3>1, <3>4, <3>5, <3>6, <4>1
      <4>2. CASE ~(i < p)
        <5>1. i - (p - 1) \in 1 .. (n - p) /\ p + (i - (p - 1)) = i + 1
          BY <1>0, <2>1, <3>6, <4>2
        <5>2. rest[i] = after[i - (p - 1)]
          BY <1>0, <2>1, <3>4, <3>5, <3>6, <4>2
        <5> QED BY <3>2, <4>2, <5>1, <5>2
      <4> QED BY <4>1, <4>2
    <3> QED BY <3>5, <3>6
  <2> HIDE DEF rest
  <2> DEFINE pos(i) == IF i < p THEN i ELSE i + 1
  <2>4. \A i \in 1 .. (n - 1) : pos(i) \in 1 .. n /\ pos(i) # p /\ rest[i] = cache[pos(i)]
    BY <1>0, <2>1, <2>3
  <2>5. \A i, j \in 1 .. (n - 1) : pos(i) = pos(j) => i = j
    BY <1>0, <2>1
  <2>6. \A j \in 1 .. n : j # p => \E i \in 1 .. (n - 1) : pos(i) = j
    <3> SUFFICES ASSUME NEW j \in 1 .. n, j # p PROVE \E i \in 1 .. (n - 1) : pos(i) = j
      OBVIOUS
    <3>1. CASE j < p
      BY <1>0, <2>1, <3>1
    <3>2. CASE j > p
      <4>1. j - 1 \in 1 .. (n - 1) /\ pos(j - 1) = j
        BY <1>0, <2>1, <3>2
      <4> QED BY <4>1
    <3> QED BY <1>0, <2>1, <3>1, <3>2
  <2> HIDE DEF pos
  <2>7. OnePerKey(rest)
    BY <1>0, <2>3, <2>4, <2>5 DEF OnePerKey
  <2>8. KeysOf(rest) = KeysOf(cache) \ {at}
    <3>1. ASSUME NEW i \in DOMAIN rest PROVE rest[i].at \in KeysOf(cache) \ {at}
      <4>1. rest[i] = cache[pos(i)] /\ pos(i) \in DOMAIN cache /\ pos(i) # p
        BY <1>0, <2>3, <2>4, <3>1
      <4>2. cache[pos(i)].at # cache[p].at
        BY <1>0, <2>1, <4>1 DEF OnePerKey
      <4> QED BY <2>1, <4>1, <4>2 DEF KeysOf
    <3>2. ASSUME NEW j \in DOMAIN cache, cache[j].at # at PROVE cache[j].at \in KeysOf(rest)
      <4>1. j # p
        BY <2>1, <3>2
      <4>2. PICK i \in DOMAIN rest : pos(i) = j
        BY <1>0, <2>3, <2>6, <3>2, <4>1
      <4> QED BY <2>3, <2>4, <4>2 DEF KeysOf
    <3> QED BY <3>1, <3>2 DEF KeysOf
  <2> QED BY <2>2, <2>7, <2>8
<1> QED BY <1>1, <1>2

\* cache.put replaces the entry of the key, or adds one.
LEMMA PutKeys ==
    ASSUME NEW S, NEW cache \in Seq(S), NEW e \in S, OnePerKey(cache)
    PROVE  OnePerKey(Put(cache, e)) /\ KeysOf(Put(cache, e)) = KeysOf(cache) \cup {e.at}
<1> DEFINE rest == Without(cache, e.at)
           n == Len(rest)
           new == Append(rest, e)
<1>1. rest \in Seq(S) /\ OnePerKey(rest) /\ KeysOf(rest) = KeysOf(cache) \ {e.at}
  BY WithoutType, WithoutKeys
<1>2. Put(cache, e) = new
  BY DEF Put
<1> HIDE DEF rest
<1>3. /\ n \in Nat /\ DOMAIN rest = 1 .. n /\ DOMAIN new = 1 .. (n + 1)
      /\ new[n + 1] = e /\ \A i \in 1 .. n : new[i] = rest[i]
  BY <1>1, AppendProperties
<1> HIDE DEF n, new
<1>4. \A i \in 1 .. n : rest[i].at # e.at
  BY <1>1, <1>3 DEF KeysOf
<1>5. OnePerKey(new)
  <2> SUFFICES ASSUME NEW i \in 1 .. (n + 1), NEW j \in 1 .. (n + 1), new[i].at = new[j].at
               PROVE  i = j
    BY <1>3 DEF OnePerKey
  <2>1. CASE i \in 1 .. n /\ j \in 1 .. n
    BY <1>1, <1>3, <2>1 DEF OnePerKey
  <2>2. CASE i = n + 1 \/ j = n + 1
    BY <1>3, <1>4, <2>2
  <2> QED BY <1>3, <2>1, <2>2
<1>6. KeysOf(new) = KeysOf(rest) \cup {e.at}
  <2>1. \A i \in 1 .. (n + 1) : new[i].at \in KeysOf(rest) \cup {e.at}
    <3> TAKE i \in 1 .. (n + 1)
    <3>1. CASE i \in 1 .. n
      BY <1>3, <3>1 DEF KeysOf
    <3>2. CASE i = n + 1
      BY <1>3, <3>2
    <3> QED BY <1>3, <3>1, <3>2
  <2>2. \A i \in 1 .. n : rest[i].at \in KeysOf(new)
    BY <1>3 DEF KeysOf
  <2>3. e.at \in KeysOf(new)
    BY <1>3 DEF KeysOf
  <2> QED BY <1>3, <2>1, <2>2, <2>3 DEF KeysOf
<1> QED BY <1>1, <1>2, <1>5, <1>6

\* What putContentCache decides to delete leaves as many keys as the cap allows.
LEMMA OverflowLeaves ==
    ASSUME NEW S, NEW cache \in Seq(S)
    PROVE  /\ Cardinality(KeysOf(cache) \ Overflow(cache)) <= CONTENT_CACHE_MAX
           /\ Overflow(cache) = {} => Len(cache) <= CONTENT_CACHE_MAX
<1> DEFINE n == Len(cache)
           M == CONTENT_CACHE_MAX
<1>1. n \in Nat /\ DOMAIN cache = 1 .. n /\ M \in Nat
  BY WorkerAssumption
<1> HIDE DEF n, M
<1>2. Overflow(cache) = {cache[i].at : i \in 1 .. (n - M)}
  BY DEF Overflow, n, M
<1>3. CASE n <= M
  <2> DEFINE all == {cache[i].at : i \in 1 .. n}
  <2>1. KeysOf(cache) \ Overflow(cache) = all
    BY <1>1, <1>2, <1>3 DEF KeysOf
  <2>2. 1 \in Nat /\ 1 <= n + 1 /\ n - 1 + 1 = n
    BY <1>1
  <2>3. IsFiniteSet(all) /\ Cardinality(all) <= n
    BY <1>1, <2>2, KeysAtPositions
  <2> HIDE DEF all
  <2>4. Cardinality(all) \in Nat
    BY <2>3, FS_CardinalityType
  <2>5. Cardinality(all) <= M
    BY <1>1, <1>3, <2>3, <2>4
  <2> QED BY <1>3, <2>1, <2>5 DEF n, M
<1>4. CASE n > M
  <2> DEFINE youngest == {cache[i].at : i \in (n - M + 1) .. n}
             left == KeysOf(cache) \ Overflow(cache)
  <2>1. left \subseteq youngest
    <3> SUFFICES ASSUME NEW i \in 1 .. n, cache[i].at \notin Overflow(cache)
                 PROVE  cache[i].at \in youngest
      BY <1>1 DEF KeysOf
    <3>1. i \in (n - M + 1) .. n
      BY <1>1, <1>2
    <3> QED BY <3>1
  <2>2. n - M + 1 \in Nat /\ n - M + 1 <= n + 1 /\ n - (n - M + 1) + 1 = M
    BY <1>1, <1>4
  <2>3. IsFiniteSet(youngest) /\ Cardinality(youngest) <= M
    BY <1>1, <2>2, KeysAtPositions
  <2> HIDE DEF youngest, left
  <2>4. Cardinality(left) <= Cardinality(youngest)
    BY <2>1, <2>3, FS_Subset
  <2>5. Cardinality(left) \in Nat /\ Cardinality(youngest) \in Nat
    BY <2>1, <2>3, FS_Subset, FS_CardinalityType
  <2>6. cache[1].at \in Overflow(cache)
    BY <1>1, <1>2, <1>4
  <2> QED BY <1>1, <2>3, <2>4, <2>5, <2>6 DEF left, M
<1> QED BY <1>1, <1>3, <1>4

\* The sets that are counted are finite.
LEMMA Counted ==
    ASSUME IInv, Swept
    PROVE  /\ ContentCache \in Seq(PinnedEntries)
           /\ IsFiniteSet(KeysOf(ContentCache)) /\ Cardinality(KeysOf(ContentCache)) = Len(ContentCache)
           /\ \A D : IsFiniteSet(KeysOf(ContentCache) \ D)
           /\ \A E : IsFiniteSet(Sweepers \ E)
<1>1. ContentCache \in Seq(PinnedEntries) /\ OnePerKey(ContentCache)
  BY DEF IInv, CachesFaithful, Swept
<1>2. IsFiniteSet(KeysOf(ContentCache)) /\ Cardinality(KeysOf(ContentCache)) = Len(ContentCache)
  BY <1>1, LenIsKeys
<1>3. \A D : KeysOf(ContentCache) \ D \in SUBSET KeysOf(ContentCache)
  OBVIOUS
<1>4. \A E : Sweepers \ E \in SUBSET Events
  BY DEF Sweepers
<1>5. IsFiniteSet(Events)
  BY WorkerAssumption
<1>6. \A D : IsFiniteSet(KeysOf(ContentCache) \ D)
  BY <1>2, <1>3, FS_Subset
<1>7. \A E : IsFiniteSet(Sweepers \ E)
  BY <1>4, <1>5, FS_Subset
<1> QED BY <1>1, <1>2, <1>6, <1>7

\* One more element makes a finite set at most one larger.
LEMMA OneMore ==
    ASSUME NEW S, NEW x, IsFiniteSet(S)
    PROVE  /\ IsFiniteSet(S \cup {x})
           /\ Cardinality(S \cup {x}) <= Cardinality(S) + 1
<1> DEFINE T == S \cup {x}
<1>1. Cardinality(S) \in Nat
  BY FS_CardinalityType
<1>2. IsFiniteSet(T) /\ (Cardinality(T) = Cardinality(S) \/ Cardinality(T) = Cardinality(S) + 1)
  <2>1. CASE x \in S
    <3>1. T = S
      BY <2>1
    <3> HIDE DEF T
    <3> QED BY <3>1, Zenon
  <2>2. CASE x \notin S
    <3>1. IsFiniteSet(T) /\ Cardinality(T) = Cardinality(S) + 1
      BY <2>2, FS_AddElement
    <3> QED BY <3>1, Zenon
  <2> QED BY <2>1, <2>2
<1> HIDE DEF T
<1>3. IsFiniteSet(T) /\ Cardinality(T) <= Cardinality(S) + 1
  BY <1>1, <1>2
<1> QED BY <1>3 DEF T

\* A write adds one key, and one sweep that is still to come.
LEMMA PutSweeps ==
    ASSUME IInv, Swept, NEW e \in Events, PersistPut(e)
    PROVE  Swept'
<1> DEFINE at == want[e].at
           keys == KeysOf(ContentCache)
<1>1. /\ ContentCache' = Put(ContentCache, EntryOf(e)) /\ EntryOf(e).at = at
      /\ pc[e] = "put" /\ trim' = trim
  BY DEF PersistPut, ContentCache, CONTENT_CACHE_NAME, ContentCacheNames, IInv, TypeOK, EntryOf
<1>2. OnePerKey(ContentCache') /\ KeysOf(ContentCache') = keys \cup {at}
  <2>1. EntryOf(e) \in PinnedEntries \cup {EntryOf(e)} /\ ContentCache \in Seq(PinnedEntries \cup {EntryOf(e)})
    BY DEF IInv, CachesFaithful
  <2> QED BY <1>1, <2>1, PutKeys DEF Swept
<1>3. Sweepers' = Sweepers \cup {e} /\ Trimmers' = Trimmers /\ e \notin Sweepers
  BY <1>1 DEF PersistPut, Goto, IInv, TypeOK, Sweepers, Trimmers
<1>4. ASSUME NEW E \in SUBSET Trimmers'
      PROVE  Cardinality(KeysOf(ContentCache') \ UNION {trim[x] : x \in E})
                <= CONTENT_CACHE_MAX + Cardinality(Sweepers' \ E)
  <2> DEFINE D == UNION {trim[x] : x \in E}
             before == keys \ D
             after == (keys \cup {at}) \ D
  <2>1. Cardinality(before) <= CONTENT_CACHE_MAX + Cardinality(Sweepers \ E)
    BY <1>3, <1>4 DEF Swept, Allowed, Doomed
  <2>2. IsFiniteSet(before) /\ IsFiniteSet(Sweepers \ E)
    BY Counted
  <2>3. Cardinality(before) \in Nat /\ Cardinality(Sweepers \ E) \in Nat /\ CONTENT_CACHE_MAX \in Nat
    BY <2>2, FS_CardinalityType, WorkerAssumption
  <2>4. after \in SUBSET (before \cup {at})
    OBVIOUS
  <2> HIDE DEF before, after
  <2>5. IsFiniteSet(before \cup {at}) /\ Cardinality(before \cup {at}) <= Cardinality(before) + 1
    BY <2>2, OneMore
  <2>6. Cardinality(after) <= Cardinality(before \cup {at})
        /\ Cardinality(after) \in Nat /\ Cardinality(before \cup {at}) \in Nat
    BY <2>4, <2>5, FS_Subset, FS_CardinalityType
  <2>7. e \notin E
    BY <1>1, <1>3, <1>4 DEF Trimmers
  <2>8. Sweepers' \ E = (Sweepers \ E) \cup {e} /\ e \notin Sweepers \ E
    BY <1>3, <2>7
  <2>9. Cardinality(Sweepers' \ E) = Cardinality(Sweepers \ E) + 1
    BY <2>2, <2>8, FS_AddElement
  <2> QED BY <1>2, <2>1, <2>3, <2>5, <2>6, <2>9 DEF after
<1> QED BY <1>1, <1>2, <1>4 DEF Swept, Allowed, Doomed

\* A sweep decides on all that is above the cap, or finds nothing there.
LEMMA SweepSweeps ==
    ASSUME IInv, Swept, NEW e \in Events, PersistSweep(e)
    PROVE  Swept'
<1> DEFINE keys == KeysOf(ContentCache)
           over == Overflow(ContentCache)
<1>1. /\ ContentCache' = ContentCache /\ pc[e] = "sweep"
      /\ trim' = [trim EXCEPT ![e] = over] /\ trim \in [Events -> SUBSET CacheKeys]
  BY DEF PersistSweep, shared, ContentCache, IInv, TypeOK
<1>2. ContentCache \in Seq(PinnedEntries) /\ CONTENT_CACHE_MAX \in Nat
  BY WorkerAssumption DEF IInv, CachesFaithful
<1>3. Cardinality(keys \ over) <= CONTENT_CACHE_MAX
  BY <1>2, OverflowLeaves
<1> HIDE DEF over
<1>4. e \notin Trimmers
  BY <1>1 DEF Trimmers
<1>5. ASSUME NEW E \in SUBSET Trimmers'
      PROVE  Cardinality(keys \ UNION {trim'[x] : x \in E})
                <= CONTENT_CACHE_MAX + Cardinality(Sweepers' \ E)
  <2> DEFINE D == UNION {trim'[x] : x \in E}
  <2>0. IsFiniteSet(Sweepers' \ E)
    <3>1. Sweepers' \ E \in SUBSET Events
      BY DEF Sweepers
    <3> QED BY <3>1, FS_Subset, WorkerAssumption
  <2>1. /\ Cardinality(Sweepers' \ E) \in Nat /\ Cardinality(keys \ D) \in Nat
        /\ IsFiniteSet(keys \ over) /\ Cardinality(keys \ over) \in Nat /\ IsFiniteSet(keys)
        /\ Cardinality(keys) \in Nat
    BY <2>0, Counted, FS_CardinalityType
  <2>2. CASE over = {}
    <3>1. keys \ over = keys /\ keys \ D \in SUBSET keys
      BY <2>2
    <3>2. Cardinality(keys \ D) <= Cardinality(keys)
      BY <2>1, <3>1, FS_Subset
    <3>3. Cardinality(keys) <= CONTENT_CACHE_MAX
      BY <1>3, <3>1
    <3> HIDE DEF keys, D
    <3> QED BY <1>2, <2>1, <3>2, <3>3 DEF D
  <2>3. CASE over # {} /\ e \in E
    <3>1. trim'[e] = over
      BY <1>1
    <3>2. keys \ D \in SUBSET (keys \ over)
      BY <2>3, <3>1
    <3>3. Cardinality(keys \ D) <= Cardinality(keys \ over)
      BY <2>1, <3>2, FS_Subset
    <3> QED BY <1>2, <1>3, <2>1, <3>3
  <2>4. CASE over # {} /\ e \notin E
    <3>1. Sweepers' = Sweepers /\ Trimmers' = Trimmers \cup {e}
      BY <1>1, <2>4 DEF PersistSweep, Goto, over, IInv, TypeOK, Sweepers, Trimmers
    <3>2. E \in SUBSET Trimmers
      BY <1>5, <2>4, <3>1
    <3>3. \A x \in E : trim'[x] = trim[x]
      BY <1>1, <2>4, <3>2 DEF Trimmers
    <3>4. D = UNION {trim[x] : x \in E}
      BY <3>3
    <3> QED BY <3>1, <3>2, <3>4 DEF Swept, Allowed, Doomed
  <2> QED BY <2>2, <2>3, <2>4
<1> QED BY <1>1, <1>5 DEF Swept, Allowed, Doomed

\* A deletion takes the key from the cache when it takes it from the list.
LEMMA TrimSweeps ==
    ASSUME IInv, Swept, NEW e \in Events, NEW at \in trim[e], PersistTrim(e, at)
    PROVE  Swept'
<1> DEFINE keys == KeysOf(ContentCache)
<1>1. /\ ContentCache' = Without(ContentCache, at) /\ pc[e] = "trim"
      /\ trim' = [trim EXCEPT ![e] = @ \ {at}] /\ trim \in [Events -> SUBSET CacheKeys]
  BY DEF PersistTrim, ContentCache, CONTENT_CACHE_NAME, ContentCacheNames, IInv, TypeOK
<1>2. OnePerKey(ContentCache') /\ KeysOf(ContentCache') = keys \ {at}
  BY <1>1, WithoutKeys DEF Swept, IInv, CachesFaithful
<1>3. trim'[e] = trim[e] \ {at} /\ \A x \in Events : x # e => trim'[x] = trim[x]
  BY <1>1
<1>4. e \in Trimmers /\ e \in Sweepers /\ Trimmers \subseteq Events /\ Trimmers \subseteq Sweepers
  BY <1>1 DEF Trimmers, Sweepers
<1>5. CASE trim[e] # {at}
  <2>1. Sweepers' = Sweepers /\ Trimmers' = Trimmers
    BY <1>1, <1>5 DEF PersistTrim, Goto, IInv, TypeOK, Sweepers, Trimmers
  <2>2. ASSUME NEW E \in SUBSET Trimmers
        PROVE  Cardinality((keys \ {at}) \ UNION {trim'[x] : x \in E})
                  <= CONTENT_CACHE_MAX + Cardinality(Sweepers \ E)
    <3> DEFINE before == keys \ UNION {trim[x] : x \in E}
               after == (keys \ {at}) \ UNION {trim'[x] : x \in E}
    <3>1. after \in SUBSET before
      <4> SUFFICES ASSUME NEW k \in after, NEW x \in E, k \in trim[x] PROVE FALSE
        OBVIOUS
      <4>1. k \notin trim'[x] /\ k # at
        OBVIOUS
      <4> QED BY <1>3, <1>4, <2>2, <4>1
    <3>2. Cardinality(before) <= CONTENT_CACHE_MAX + Cardinality(Sweepers \ E)
      BY <2>2 DEF Swept, Allowed, Doomed
    <3>3. IsFiniteSet(before) /\ IsFiniteSet(Sweepers \ E)
      BY Counted
    <3> HIDE DEF before, after
    <3>4. Cardinality(after) <= Cardinality(before) /\ Cardinality(after) \in Nat
      BY <3>1, <3>3, FS_Subset, FS_CardinalityType
    <3> QED BY <3>2, <3>3, <3>4, FS_CardinalityType, WorkerAssumption DEF after
  <2> QED BY <1>2, <2>1, <2>2 DEF Swept, Allowed, Doomed
<1>6. CASE trim[e] = {at}
  <2>1. Sweepers' = Sweepers \ {e} /\ Trimmers' = Trimmers \ {e}
    BY <1>1, <1>6 DEF PersistTrim, Goto, IInv, TypeOK, Sweepers, Trimmers
  <2>2. ASSUME NEW E \in SUBSET (Trimmers \ {e})
        PROVE  Cardinality((keys \ {at}) \ UNION {trim'[x] : x \in E})
                  <= CONTENT_CACHE_MAX + Cardinality((Sweepers \ {e}) \ E)
    <3> DEFINE F == E \cup {e}
    <3>1. \A x \in E : trim'[x] = trim[x]
      BY <1>3, <1>4, <2>2
    <3>2. (keys \ {at}) \ UNION {trim'[x] : x \in E} = keys \ UNION {trim[x] : x \in F}
      BY <1>6, <3>1
    <3>3. (Sweepers \ {e}) \ E = Sweepers \ F /\ F \in SUBSET Trimmers
      BY <1>4, <2>2
    <3>4. Allowed(F)
      BY <3>3 DEF Swept
    <3> QED BY <3>2, <3>3, <3>4 DEF Allowed, Doomed
  <2> QED BY <1>2, <2>1, <2>2 DEF Swept, Allowed, Doomed
<1> QED BY <1>5, <1>6

\* A step of a handler that is not sweeping, and does not begin to.
LEMMA MoveSweeps ==
    ASSUME IInv, Swept, NEW e \in Events, pc[e] \notin {"sweep", "trim"},
           NEW label, label \notin {"sweep", "trim"}, Goto(e, label),
           trim' = trim, ContentCache' = ContentCache
    PROVE  Swept'
<1>1. pc \in [Events -> PCs]
  BY DEF IInv, TypeOK
<1>2. Sweepers' = Sweepers /\ Trimmers' = Trimmers
  BY <1>1 DEF Goto, Sweepers, Trimmers
<1> QED BY <1>2 DEF Swept, Allowed, Doomed

LEMMA StillSweeps ==
    ASSUME Swept, pc' = pc, trim' = trim, ContentCache' = ContentCache
    PROVE  Swept'
BY DEF Swept, Allowed, Doomed, Sweepers, Trimmers

LEMMA SavingSweeps ==
    ASSUME IInv, Swept, SweepsComplete, NEW e \in Events, Saving(e)
    PROVE  Swept'
BY PutSweeps, SweepSweeps, TrimSweeps DEF Saving, PersistFails, SweepsComplete

LEMMA NextSweeps ==
    ASSUME IInv, Swept, SweepsComplete, [Next]_vars
    PROVE  Swept'
<1>1. CASE UNCHANGED vars
  BY <1>1, StillSweeps DEF vars, shared, local, ContentCache
<1>2. CASE Activate
  <2>1. ContentCache' = ContentCache
    BY <1>2 DEF Activate, ContentCache, CONTENT_CACHE_NAME, ContentCacheNames
  <2> QED BY <1>2, <2>1, StillSweeps DEF Activate, local
<1>3. CASE LoadWasm \/ Commit
  BY <1>3, StillSweeps DEF LoadWasm, WasmFromCache, WasmFetched, WasmFails, Commit, local, ContentCache
<1>4. CASE Kill
  BY <1>4 DEF Kill, SweepsComplete
<1>5. ASSUME NEW e \in Events, \E q \in Asks : Intercept(e, q) \/ InterceptUnconfigured(e, q) PROVE Swept'
  BY <1>5, MoveSweeps DEF Intercept, InterceptUnconfigured, shared, ContentCache
<1>6. ASSUME NEW e \in Events, Startup(e) PROVE Swept'
  BY <1>6, MoveSweeps DEF Startup, ConfigArrives, ConfigFails, shared, ContentCache
<1>7. ASSUME NEW e \in Events, Resolving(e) PROVE Swept'
  <2>1. CASE DigUnavailable(e) \/ InvalidUrn(e) \/ NoStore(e) \/ PersistentMiss(e)
    BY <1>7, <2>1, MoveSweeps
       DEF DigUnavailable, InvalidUrn, NoStore, PersistentMiss, Awoken, shared, ContentCache
  <2>2. CASE MemoryHit(e) \/ PersistentHit(e)
    BY <1>7, <2>2, MoveSweeps DEF MemoryHit, PersistentHit, Awoken, shared, ContentCache
  <2>3. CASE MemoryMiss(e)
    <3>1. Goto(e, "lookup") \/ Goto(e, "first")
      BY <2>3, Zenon DEF MemoryMiss
    <3> QED BY <1>7, <2>3, <3>1, MoveSweeps DEF MemoryMiss, Awoken, shared, ContentCache
  <2> QED BY <1>7, <2>1, <2>2, <2>3 DEF Resolving
<1>8. ASSUME NEW e \in Events, Fetching(e) PROVE Swept'
  <2>1. /\ pc[e] \in {"first", "rest"} /\ UNCHANGED <<shared, trim>>
        /\ Goto(e, "first") \/ Goto(e, "rest") \/ Goto(e, "gate") \/ Goto(e, "rejected")
    BY <1>8, Zenon DEF Fetching, FirstWindow, NextWindow, GetFails, PostFails
  <2> QED BY <1>8, <2>1, MoveSweeps DEF shared, ContentCache
<1>9. ASSUME NEW e \in Events, Responding(e) \/ Reading(e) PROVE Swept'
  <2>1. CASE Refuse(e) \/ RespondStream(e) \/ Cancel(e)
    BY <1>9, <2>1, MoveSweeps DEF Refuse, RespondStream, Cancel, shared, ContentCache
  <2>2. CASE RespondWhole(e) \/ PullEnd(e)
    <3>1. /\ pc[e] \in {"gate", "stream"} /\ UNCHANGED <<contentCaches, trim>>
          /\ Goto(e, "put") \/ Goto(e, "served")
      BY <2>2, Zenon DEF RespondWhole, PullEnd, Complete
    <3> QED BY <1>9, <3>1, MoveSweeps DEF ContentCache
  <2>3. CASE PullChunk(e)
    BY <1>9, <2>3, MoveSweeps, StillSweeps DEF PullChunk, shared, ContentCache
  <2> QED BY <1>9, <2>1, <2>2, <2>3 DEF Responding, Reading
<1>10. ASSUME NEW e \in Events, Release(e) PROVE Swept'
  BY <1>10, MoveSweeps DEF Release, Ended, shared, ContentCache
<1> QED BY <1>1, <1>2, <1>3, <1>4, <1>5, <1>6, <1>7, <1>8, <1>9, <1>10, SavingSweeps DEF Next

\* Remembering anything at all leaves the in-memory cache orderly.
LEMMA MemoryStep ==
    ASSUME IInv, Orderly(mem), [Next]_vars
    PROVE  Orderly(mem')
<1>1. ASSUME NEW x PROVE Orderly(Remember(mem, x))
  <2>1. mem \in Seq(Entries \cup {x}) /\ x \in Entries \cup {x}
    BY DEF IInv, TypeOK
  <2> QED BY <2>1, RememberOrderly, WorkerAssumption
<1>2. CASE mem' = mem
  BY <1>2
<1>3. CASE Kill
  BY <1>3, WorkerAssumption DEF Kill, Orderly
<1>4. ASSUME NEW e \in Events, PersistentHit(e) \/ Responding(e) \/ Reading(e) PROVE Orderly(mem')
  <2>1. mem' = mem \/ \E x : mem' = Remember(mem, x)
    BY <1>4 DEF PersistentHit, Responding, Refuse, RespondWhole, RespondStream, Reading, PullChunk,
                PullEnd, Cancel, Complete, shared
  <2> QED BY <1>1, <1>2, <2>1
<1>5. \/ mem' = mem \/ Kill
      \/ \E e \in Events : PersistentHit(e) \/ Responding(e) \/ Reading(e)
  BY DEF Next, vars, shared, Activate, LoadWasm, WasmFromCache, WasmFetched, WasmFails, Commit,
         Intercept, InterceptUnconfigured, Startup, ConfigArrives, ConfigFails, Resolving,
         DigUnavailable, InvalidUrn, NoStore, MemoryHit, MemoryMiss, PersistentMiss, Fetching,
         FirstWindow, NextWindow, GetFails, PostFails, Saving, PersistPut, PersistSweep, PersistTrim,
         PersistFails, Release
<1> QED BY <1>2, <1>3, <1>4, <1>5

\* rememberInMemory and putContentCache keep both caches bounded, however many handlers write, sweep
\* and delete at once from listings that are out of date: memory by CACHE_MAX, Cache Storage by
\* CONTENT_CACHE_MAX and the writes whose sweep is not over, unless a sweep dies or fails half way.
THEOREM CachesStayBounded == ASSUME SweepsComplete PROVE Spec => []CachesBounded
<1>1. Init => Orderly(mem) /\ Swept
  <2> SUFFICES ASSUME Init PROVE Orderly(mem) /\ Swept
    OBVIOUS
  <2>1. ContentCache = <<>> /\ KeysOf(ContentCache) = {} /\ Trimmers = {} /\ Sweepers = {}
    BY DEF Init, ContentCache, CONTENT_CACHE_NAME, ContentCacheNames, KeysOf, Trimmers, Sweepers
  <2>2. Cardinality({}) = 0 /\ CONTENT_CACHE_MAX \in Nat /\ CACHE_MAX \in Nat
    BY FS_EmptySet, WorkerAssumption
  <2>3. Allowed({})
    <3>1. KeysOf(ContentCache) \ Doomed({}) = {} /\ Sweepers \ {} = {}
      BY <2>1
    <3> QED BY <2>2, <3>1 DEF Allowed
  <2>4. Orderly(mem)
    BY <2>2 DEF Init, Orderly
  <2>5. OnePerKey(ContentCache)
    BY <2>1 DEF OnePerKey
  <2>6. \A E \in SUBSET Trimmers : E = {}
    BY <2>1
  <2> QED BY <2>3, <2>4, <2>5, <2>6 DEF Swept
<1>2. IInv /\ Orderly(mem) /\ Swept /\ [Next]_vars => Orderly(mem)' /\ Swept'
  BY MemoryStep, NextSweeps DEF Orderly
<1>3. IInv /\ Orderly(mem) /\ Swept => CachesBounded
  <2> SUFFICES ASSUME IInv, Orderly(mem), Swept PROVE CachesBounded
    OBVIOUS
  <2>1. Allowed({}) /\ KeysOf(ContentCache) \ Doomed({}) = KeysOf(ContentCache) /\ Sweepers \ {} = Sweepers
    BY DEF Swept, Doomed
  <2>2. Len(ContentCache) <= CONTENT_CACHE_MAX + Cardinality(Sweepers)
    BY <2>1, Counted DEF Allowed
  <2> QED BY <2>2 DEF CachesBounded, Orderly, Sweepers
<1> QED BY <1>1, <1>2, <1>3, Invariance, PTL DEF Spec

-----------------------------------------------------------------------------
(* What was published is served. *)

\* The network answers truthfully, config.json and the pinned wasm are there and the POST path answers;
\* the GET path may fail, the Cache Storage may fail, also in the look for a persisted wasm, and the
\* worker may die at any time.
Truthful == Faults \subseteq {"get", "storage", "kill"} /\ \A c \in ServedConfigs : c.active

WholeEntries == {x \in Entries : Whole(x.body)}

Steady ==
    /\ cfg # None => cfg.active
    /\ digReady = "failed" => WasmCacheFailed
    /\ mem \in Seq(WholeEntries) /\ ContentCache \in Seq(WholeEntries)

TrueMeta == [proof |-> TRUE, lens |-> "exact"]

\* The bytes of a window are what the store has to say to the read.
Landed(e, w) == buf[e][w] = Truth(want[e].at.key, want[e].at.root, tip)

\* The reader does not know the salt, or asks for a generation that never was.
Excused(e) == want[e].salt # StoreSalt \/ want[e].at.root \in Roots \ Generations

\* Whatever path it came over, what a fetch has gathered is true, and nothing but the reader's own
\* mistake ends it, once the wasm is there.
OnCourse(e) ==
    /\ pc[e] \in Serving => cfg # None
    /\ pc[e] \in {"rest", "gate", "stream"} => meta[e] = TrueMeta /\ \A w \in Windows \ todo[e] : Landed(e, w)
    /\ pc[e] \in {"gate", "stream"} => todo[e] = {}
    /\ pc[e] \in {"served"} \cup Persisting => Whole(body[e])
    /\ pc[e] \in {"notFound", "broken"} \/ (pc[e] = "rejected" /\ ~WasmCacheFailed) => Excused(e)

Honest == Steady /\ \A e \in Events : OnCourse(e)

\* All that a truthful network answers is the truth, for the window that was asked for.
LEMMA TruthfulAnswers ==
    ASSUME Truthful, NEW e \in Events, NEW w \in Windows
    PROVE  /\ AnswerBytes(e) = {Truth(want[e].at.key, want[e].at.root, tip)}
           /\ AnswerMetas = {TrueMeta} /\ Offsets(e, w) = {w} /\ ~SelfDescribed(e)
BY DEF Truthful, AnswerBytes, AnswerMetas, Offsets, SelfDescribed, TrueMeta

\* The gate opens for a read that has no excuse, and so does every chunk.
LEMMA TruthOpens ==
    ASSUME IInv, NEW e \in Events, pc[e] \in {"gate", "stream"}, ~Excused(e),
           meta[e] = TrueMeta, \A w \in Windows : Landed(e, w)
    PROVE  /\ \A c \in Chunks : Opens(e, c)
           /\ RootIsPinned(want[e].at.root) => Verified(e)
<1> DEFINE key == want[e].at.key
           root == want[e].at.root
<1>1. key \in Keys /\ root \in Roots \cup {Latest} /\ tip \in Generations
  BY WantType DEF Serving, Status200, IInv, TypeOK
<1>2. root \in Generations \/ root = Latest
  BY <1>1 DEF Excused
<1>3. PICK g \in Generations : \A w \in Windows : buf[e][w] = Published(key, g) /\ (root # Latest => g = root)
  BY <1>1, <1>2 DEF Landed, Truth
<1>4. ASSUME NEW c \in Chunks PROVE Opens(e, c)
  <2>1. Spread[c] \subseteq Windows
    BY ContentAssumption
  <2> QED BY <1>3, <2>1 DEF Opens, ChunkOpens, TrueMeta, Excused
<1>5. RootIsPinned(root) => Verified(e)
  BY <1>1, <1>3 DEF RootIsPinned, Verified, VerifyInclusion, TrueMeta
<1> QED BY <1>4, <1>5

\* A body that the caches hold is whole.
LEMMA WholeHit ==
    ASSUME NEW cache \in Seq(WholeEntries), NEW at, Cached(cache, at)
    PROVE  Whole(Lookup(cache, at))
<1>1. PICK x \in WholeEntries : x.body = Lookup(cache, at)
  BY LookupFound
<1> QED BY <1>1 DEF WholeEntries

\* Another handler moves: this one stays on course while the configuration and the tip do.
LEMMA OthersOnCourse ==
    ASSUME NEW e \in Events, OnCourse(e), tip' = tip, cfg # None => cfg' # None,
           digReady = "failed" => digReady' = "failed",
           pc'[e] = pc[e], want'[e] = want[e], todo'[e] = todo[e], buf'[e] = buf[e],
           meta'[e] = meta[e], body'[e] = body[e]
    PROVE  OnCourse(e)'
BY DEF OnCourse, Landed, Excused, WasmCacheFailed

\* What is remembered is whole.
LEMMA WholeRemembered ==
    ASSUME IInv, Honest, NEW e \in Events, pc[e] \in Serving \cup {"stream"},
           NEW chunks \in Bodies, Whole(chunks)
    PROVE  Remember(mem, [at |-> want[e].at, body |-> chunks]) \in Seq(WholeEntries)
<1>1. want[e].at \in CacheKeys
  BY WantType DEF Status200
<1>2. [at |-> want[e].at, body |-> chunks] \in WholeEntries
  BY <1>1 DEF WholeEntries, Entries
<1> QED BY <1>2, RememberType, WorkerAssumption DEF Honest, Steady, WasmCacheFailed

LEMMA BeginOnCourse ==
    ASSUME IInv, Honest, Truthful, NEW e \in Events,
           Startup(e) \/ \E q \in Asks : Intercept(e, q) \/ InterceptUnconfigured(e, q)
    PROVE  OnCourse(e)' /\ Steady' /\ tip' = tip /\ (cfg # None => cfg' # None)
<1>1. CASE ConfigFails(e)
  BY <1>1 DEF ConfigFails, Truthful
<1>2. CASE ConfigArrives(e)
  <2>1. cfg' \in Configs /\ cfg'.active /\ cfg' # None
    BY <1>2, WorkerAssumption DEF ConfigArrives, Truthful
  <2>2. pc'[e] = "ready"
    BY <1>2 DEF ConfigArrives, Goto, IInv, TypeOK
  <2>3. Steady' /\ tip' = tip
    BY <1>2, <2>1 DEF ConfigArrives, StartWasm, Honest, Steady, WasmCacheFailed, ContentCache
  <2> QED BY <2>1, <2>2, <2>3 DEF OnCourse, WasmCacheFailed, Serving, Persisting
<1>3. ASSUME NEW q \in Asks, Intercept(e, q)
      PROVE  OnCourse(e)' /\ Steady' /\ tip' = tip /\ (cfg # None => cfg' # None)
  <2>1. cfg' # None /\ cfg'.active
    BY <1>3, WorkerAssumption DEF Intercept, Honest, Steady, WasmCacheFailed
  <2>2. pc'[e] = "ready"
    BY <1>3 DEF Intercept, Goto, IInv, TypeOK
  <2>3. Steady' /\ tip' = tip
    BY <1>3, <2>1 DEF Intercept, StartWasm, Honest, Steady, WasmCacheFailed, ContentCache
  <2> QED BY <2>1, <2>2, <2>3 DEF OnCourse, WasmCacheFailed, Serving, Persisting
<1>4. ASSUME NEW q \in Asks, InterceptUnconfigured(e, q)
      PROVE  OnCourse(e)' /\ Steady' /\ tip' = tip /\ (cfg # None => cfg' # None)
  <2>1. pc'[e] = "config"
    BY <1>4 DEF InterceptUnconfigured, Goto, IInv, TypeOK
  <2>2. Steady' /\ tip' = tip /\ cfg' = cfg
    BY <1>4 DEF InterceptUnconfigured, shared, Honest, Steady, WasmCacheFailed, ContentCache
  <2> QED BY <2>1, <2>2 DEF OnCourse, WasmCacheFailed, Serving, Persisting
<1> QED BY <1>1, <1>2, <1>3, <1>4 DEF Startup

LEMMA ResolveOnCourse ==
    ASSUME IInv, Honest, Truthful, NEW e \in Events, Resolving(e)
    PROVE  OnCourse(e)' /\ Steady' /\ tip' = tip /\ cfg' = cfg
<1>0. Steady /\ OnCourse(e) /\ Control(e)
  BY DEF Honest, IInv
<1>1. CASE DigUnavailable(e)
  <2>1. pc'[e] = "rejected" /\ WasmCacheFailed /\ UNCHANGED shared
    BY <1>0, <1>1 DEF DigUnavailable, Goto, Steady, WasmCacheFailed, IInv, TypeOK
  <2> QED BY <1>0, <2>1 DEF OnCourse, Serving, Persisting, shared, Steady, ContentCache, WasmCacheFailed
<1>2. CASE NoStore(e)
  BY <1>0, <1>2, Zenon DEF NoStore, Awoken, Steady, WasmCacheFailed, Control
<1>3. CASE InvalidUrn(e)
  <2>1. pc'[e] = "invalid" /\ UNCHANGED shared
    BY <1>3 DEF InvalidUrn, Goto, IInv, TypeOK
  <2> QED BY <1>0, <2>1 DEF OnCourse, Serving, Persisting, shared, Steady, WasmCacheFailed, ContentCache
<1>4. CASE MemoryHit(e)
  <2> DEFINE found == Lookup(mem, Resolve(ask[e]).at)
  <2>1. Whole(found)
    BY <1>0, <1>4, WholeHit DEF MemoryHit, Steady, WasmCacheFailed
  <2>2. pc'[e] = "served" /\ body'[e] = found /\ UNCHANGED shared
    BY <1>4 DEF MemoryHit, Goto, IInv, TypeOK
  <2> HIDE DEF found
  <2> QED BY <1>0, <2>1, <2>2 DEF OnCourse, Serving, Persisting, shared, Steady, WasmCacheFailed, ContentCache
<1>5. CASE MemoryMiss(e)
  <2>1. (Goto(e, "lookup") \/ Goto(e, "first")) /\ pc[e] = "ready" /\ UNCHANGED shared
    BY <1>5, Zenon DEF MemoryMiss, Awoken
  <2>2. pc'[e] \in {"lookup", "first"} /\ cfg' # None
    BY <1>0, <2>1 DEF Goto, IInv, TypeOK, Control, shared
  <2> QED BY <1>0, <2>1, <2>2 DEF OnCourse, Persisting, shared, Steady, WasmCacheFailed, ContentCache
<1>6. CASE PersistentHit(e)
  <2> DEFINE found == Lookup(ContentCache, want[e].at)
  <2>1. Whole(found)
    BY <1>0, <1>6, WholeHit DEF PersistentHit, Steady, WasmCacheFailed
  <2>2. found \in Bodies
    BY <1>6, FaithfulHit DEF IInv, CachesFaithful, PersistentHit, PinnedEntries
  <2>3. /\ pc[e] = "lookup" /\ pc'[e] = "served" /\ body'[e] = found
        /\ mem' = Remember(mem, [at |-> want[e].at, body |-> found])
        /\ UNCHANGED <<cfg, digReady, contentCaches, tip>>
    BY <1>6 DEF PersistentHit, Goto, IInv, TypeOK
  <2> HIDE DEF found
  <2>4. mem' \in Seq(WholeEntries)
    BY <2>1, <2>2, <2>3, WholeRemembered DEF Serving
  <2> QED BY <1>0, <2>1, <2>3, <2>4 DEF OnCourse, Serving, Persisting, Steady, WasmCacheFailed, ContentCache
<1>7. CASE PersistentMiss(e)
  <2>1. pc[e] = "lookup" /\ pc'[e] = "first" /\ UNCHANGED shared
    BY <1>7 DEF PersistentMiss, Goto, IInv, TypeOK
  <2> QED BY <1>0, <2>1 DEF OnCourse, Serving, Persisting, shared, Steady, WasmCacheFailed, ContentCache
<1> QED BY <1>1, <1>2, <1>3, <1>4, <1>5, <1>6, <1>7 DEF Resolving

LEMMA FetchOnCourse ==
    ASSUME IInv, Honest, Truthful, NEW e \in Events, Fetching(e)
    PROVE  OnCourse(e)' /\ Steady' /\ tip' = tip /\ cfg' = cfg
<1> DEFINE truth == Truth(want[e].at.key, want[e].at.root, tip)
<1>0. Steady /\ OnCourse(e) /\ buf[e] \in [Windows -> Bytes] /\ 0 \in Windows
  BY ZeroIsWindow DEF Honest, IInv, TypeOK, Buffers
<1>1. CASE PostFails(e)
  BY <1>0, <1>1, Zenon DEF PostFails, Truthful, Steady, WasmCacheFailed, OnCourse, Serving
<1>2. CASE GetFails(e)
  <2>1. pc[e] \in {"first", "rest"} /\ pc'[e] = "first" /\ UNCHANGED shared
    BY <1>2 DEF GetFails, Goto, IInv, TypeOK
  <2> QED BY <1>0, <2>1 DEF OnCourse, Serving, Persisting, shared, Steady, WasmCacheFailed, ContentCache
<1>3. CASE FirstWindow(e)
  <2>1. /\ buf' = [buf EXCEPT ![e] = [Zeroes EXCEPT ![0] = truth]]
        /\ meta' = [meta EXCEPT ![e] = TrueMeta]
        /\ todo' = [todo EXCEPT ![e] = Windows \ {0}]
        /\ Goto(e, IF Windows \ {0} = {} THEN "gate" ELSE "rest")
        /\ pc[e] = "first" /\ UNCHANGED <<shared, want>>
    <3>1. /\ AnswerBytes(e) = {truth} /\ AnswerMetas = {TrueMeta} /\ Offsets(e, 0) = {0}
          /\ ~SelfDescribed(e)
      BY <1>0, TruthfulAnswers
    <3> HIDE DEF truth
    <3>2. pc[e] = "first" /\ UNCHANGED <<shared, want>>
      BY <1>3 DEF FirstWindow
    <3>3. buf' = [buf EXCEPT ![e] = [Zeroes EXCEPT ![0] = truth]]
      <4>1. PICK b \in AnswerBytes(e), at \in Offsets(e, 0) :
              buf' = [buf EXCEPT ![e] = [Zeroes EXCEPT ![at] = b]]
        BY <1>3 DEF FirstWindow
      <4> QED BY <3>1, <4>1
    <3>4. meta' = [meta EXCEPT ![e] = TrueMeta]
      BY <1>3, <3>1 DEF FirstWindow
    <3>5. PICK rest \in {Windows \ {0}} :
            todo' = [todo EXCEPT ![e] = rest] /\ Goto(e, IF rest = {} THEN "gate" ELSE "rest")
      BY <1>3, <3>1, Zenon DEF FirstWindow
    <3> QED BY <3>2, <3>3, <3>4, <3>5
  <2>2. pc'[e] = IF Windows \ {0} = {} THEN "gate" ELSE "rest"
    BY <2>1 DEF Goto, IInv, TypeOK
  <2> HIDE DEF truth
  <2>3. /\ buf'[e] = [Zeroes EXCEPT ![0] = truth] /\ meta'[e] = TrueMeta
        /\ todo'[e] = Windows \ {0} /\ want'[e] = want[e] /\ tip' = tip
    BY <2>1 DEF IInv, TypeOK, shared
  <2>4. buf'[e][0] = truth
    BY <1>0, <2>3 DEF Zeroes
  <2>5. \A w \in Windows \ todo'[e] : buf'[e][w] = truth
    BY <2>3, <2>4
  <2>6. \A w \in Windows \ todo'[e] : Landed(e, w)'
    BY <2>3, <2>5 DEF Landed, truth
  <2> QED BY <1>0, <2>1, <2>2, <2>3, <2>6 DEF OnCourse, Serving, Persisting, shared, Steady, WasmCacheFailed, ContentCache
<1>4. ASSUME NEW w \in Windows, NextWindow(e, w)
      PROVE  OnCourse(e)' /\ Steady' /\ tip' = tip /\ cfg' = cfg
  <2>1. /\ buf' = [buf EXCEPT ![e][w] = truth] /\ meta' = meta
        /\ todo' = [todo EXCEPT ![e] = todo[e] \ {w}]
        /\ Goto(e, IF todo[e] = {w} THEN "gate" ELSE "rest")
        /\ pc[e] = "rest" /\ UNCHANGED <<shared, want>>
    <3>1. AnswerBytes(e) = {truth} /\ Offsets(e, w) = {w} /\ ~SelfDescribed(e)
      BY TruthfulAnswers
    <3> HIDE DEF truth
    <3>2. buf' = [buf EXCEPT ![e][w] = truth]
      <4>1. PICK b \in AnswerBytes(e), at \in Offsets(e, w) : buf' = [buf EXCEPT ![e][at] = b]
        BY <1>4 DEF NextWindow
      <4> QED BY <3>1, <4>1
    <3>3. /\ meta' = meta /\ todo' = [todo EXCEPT ![e] = todo[e] \ {w}]
          /\ Goto(e, IF todo[e] = {w} THEN "gate" ELSE "rest")
          /\ pc[e] = "rest" /\ UNCHANGED <<shared, want>>
      BY <1>4, <3>1 DEF NextWindow
    <3> QED BY <3>2, <3>3
  <2>2. pc'[e] = IF todo[e] = {w} THEN "gate" ELSE "rest"
    BY <2>1 DEF Goto, IInv, TypeOK
  <2> HIDE DEF truth
  <2>3. /\ buf'[e] = [buf[e] EXCEPT ![w] = truth]
        /\ todo'[e] = todo[e] \ {w} /\ want'[e] = want[e] /\ tip' = tip
    BY <2>1 DEF IInv, TypeOK, shared
  <2>4. \A x \in Windows \ todo[e] : buf[e][x] = truth
    BY <1>0, <2>1 DEF OnCourse, WasmCacheFailed, Landed, truth
  <2>5. \A x \in Windows \ todo'[e] : buf'[e][x] = truth
    BY <1>0, <2>3, <2>4
  <2>6. \A x \in Windows \ todo'[e] : Landed(e, x)'
    BY <2>3, <2>5 DEF Landed, truth
  <2> QED BY <1>0, <2>1, <2>2, <2>3, <2>6 DEF OnCourse, Serving, Persisting, shared, Steady, WasmCacheFailed, ContentCache
<1> QED BY <1>1, <1>2, <1>3, <1>4 DEF Fetching

\* A true reply leaves the gate shut only for a reader who made a mistake.
LEMMA RespondOnCourse ==
    ASSUME IInv, Honest, NEW e \in Events, Responding(e)
    PROVE  OnCourse(e)' /\ Steady' /\ tip' = tip /\ cfg' = cfg
<1>0. Steady /\ OnCourse(e) /\ pc[e] = "gate"
  BY DEF Honest, Responding, Refuse, RespondWhole, RespondStream
<1>1. meta[e] = TrueMeta /\ todo[e] = {} /\ \A w \in Windows : Landed(e, w)
  BY <1>0 DEF OnCourse, WasmCacheFailed
<1>2. CASE Refuse(e)
  <2>1. pc'[e] = "notFound" /\ UNCHANGED <<shared, want>> /\ ~Admitted(e)
    BY <1>2 DEF Refuse, Goto, IInv, TypeOK
  <2>2. 0 \in Chunks
    BY ContentAssumption DEF Chunks
  <2>3. Excused(e)
    BY <1>0, <1>1, <2>1, <2>2, TruthOpens DEF Admitted
  <2> QED BY <1>0, <2>1, <2>3 DEF OnCourse, Excused, Serving, Persisting, shared, Steady, WasmCacheFailed, ContentCache
<1>3. CASE RespondWhole(e)
  <2> DEFINE chunks == <<Plain(buf[e], 0)>>
  <2>1. Complete(e, chunks) /\ Admitted(e) /\ OneChunk(e) /\ UNCHANGED <<cfg, digReady, contentCaches, tip>>
    BY <1>3 DEF RespondWhole
  <2>2. chunks \in Bodies /\ Whole(chunks)
    <3>1. Plain(buf[e], 0) \in Plaintexts
      BY <1>0, <2>1, AdmittedIsProven
    <3>2. LastChunk = 0
      BY <1>1, <2>1 DEF OneChunk, TrueMeta
    <3> QED BY <3>1, <3>2 DEF Bodies, Whole
  <2> HIDE DEF chunks
  <2>3. mem' \in Seq(WholeEntries)
    BY <1>0, <2>1, <2>2, WholeRemembered DEF Complete, Serving
  <2>4. (pc'[e] = "put" \/ pc'[e] = "served") /\ body'[e] = chunks
    BY <2>1 DEF Complete, Goto, IInv, TypeOK
  <2> QED BY <1>0, <2>1, <2>2, <2>3, <2>4 DEF OnCourse, Serving, Persisting, Steady, WasmCacheFailed, ContentCache
<1>4. CASE RespondStream(e)
  <2>1. /\ pc'[e] = "stream" /\ UNCHANGED <<shared, want, todo, buf, meta>>
    BY <1>4 DEF RespondStream, Goto, IInv, TypeOK
  <2> QED BY <1>0, <1>1, <2>1 DEF OnCourse, Landed, Serving, Persisting, shared, Steady, WasmCacheFailed, ContentCache
<1> QED BY <1>2, <1>3, <1>4 DEF Responding

\* Nor does a chunk of it fail to open for any other.
LEMMA ReadOnCourse ==
    ASSUME IInv, Honest, NEW e \in Events, Reading(e)
    PROVE  OnCourse(e)' /\ Steady' /\ tip' = tip /\ cfg' = cfg
<1>0. Steady /\ OnCourse(e) /\ pc[e] = "stream"
  BY DEF Honest, Reading, PullChunk, PullEnd, Cancel
<1>1. meta[e] = TrueMeta /\ todo[e] = {} /\ \A w \in Windows : Landed(e, w)
  BY <1>0 DEF OnCourse, WasmCacheFailed
<1>2. CASE PullChunk(e) /\ Opens(e, NextChunk(e))
  <2>1. pc' = pc /\ UNCHANGED <<shared, want, todo, buf, meta>>
    BY <1>2 DEF PullChunk
  <2> QED BY <1>0, <1>1, <2>1 DEF OnCourse, Landed, Serving, Persisting, shared, Steady, WasmCacheFailed, ContentCache
<1>3. CASE PullChunk(e) /\ ~Opens(e, NextChunk(e))
  <2>1. pc'[e] = "broken" /\ UNCHANGED <<shared, want>>
    BY <1>3 DEF PullChunk, Goto, IInv, TypeOK
  <2>2. NextChunk(e) \in Chunks
    BY <1>1, <1>3 DEF PullChunk, HasMore, TrueMeta
  <2>3. Excused(e)
    BY <1>0, <1>1, <1>3, <2>2, TruthOpens
  <2> QED BY <1>0, <2>1, <2>3 DEF OnCourse, Excused, Serving, Persisting, shared, Steady, WasmCacheFailed, ContentCache
<1>4. CASE PullEnd(e)
  <2>1. Complete(e, body[e]) /\ UNCHANGED <<cfg, digReady, contentCaches, tip>>
    BY <1>4 DEF PullEnd
  <2>2. body[e] \in Bodies /\ Whole(body[e])
    BY <1>0, <1>4, ContentAssumption DEF PullEnd, HasMore, NextChunk, Chunks, Whole, IInv, TypeOK, Answer
  <2>3. mem' \in Seq(WholeEntries)
    BY <1>0, <2>1, <2>2, WholeRemembered DEF Complete
  <2>4. (pc'[e] = "put" \/ pc'[e] = "served") /\ body'[e] = body[e]
    BY <2>1 DEF Complete, Goto, IInv, TypeOK
  <2> QED BY <1>0, <2>1, <2>2, <2>3, <2>4 DEF OnCourse, Serving, Persisting, Steady, WasmCacheFailed, ContentCache
<1>5. CASE Cancel(e)
  <2>1. pc'[e] = "cancelled" /\ UNCHANGED shared
    BY <1>5 DEF Cancel, Goto, IInv, TypeOK
  <2> QED BY <1>0, <2>1 DEF OnCourse, Serving, Persisting, shared, Steady, WasmCacheFailed, ContentCache
<1> QED BY <1>2, <1>3, <1>4, <1>5 DEF Reading

LEMMA SaveOnCourse ==
    ASSUME IInv, Honest, NEW e \in Events, Saving(e)
    PROVE  OnCourse(e)' /\ Steady' /\ tip' = tip /\ cfg' = cfg
<1>0. Steady /\ OnCourse(e)
  BY DEF Honest
<1>1. /\ pc[e] \in Persisting /\ pc'[e] \in Persisting \cup {"served"} /\ body'[e] = body[e]
      /\ UNCHANGED <<mem, cfg, digReady, tip>>
  BY SavingTreated DEF Saving, PersistPut, PersistSweep, PersistTrim, PersistFails, shared
<1>2. OnCourse(e)'
  BY <1>0, <1>1 DEF OnCourse, WasmCacheFailed, Serving, Persisting
<1>3. ContentCache' \in Seq(WholeEntries)
  <2>1. CASE PersistPut(e)
    <3>1. want[e].at \in CacheKeys /\ body[e] \in Bodies /\ Whole(body[e])
      BY <1>0, <1>1, WantType DEF Status200, OnCourse, WasmCacheFailed, IInv, TypeOK
    <3>2. EntryOf(e) \in WholeEntries
      BY <3>1 DEF EntryOf, WholeEntries, Entries
    <3>3. ContentCache' = Put(ContentCache, EntryOf(e))
      BY <2>1 DEF PersistPut, ContentCache, CONTENT_CACHE_NAME, ContentCacheNames, IInv, TypeOK
    <3> QED BY <1>0, <3>2, <3>3, PutType DEF Steady, WasmCacheFailed
  <2>2. ASSUME NEW at \in trim[e], PersistTrim(e, at) PROVE ContentCache' \in Seq(WholeEntries)
    <3>1. ContentCache' = Without(ContentCache, at)
      BY <2>2 DEF PersistTrim, ContentCache, CONTENT_CACHE_NAME, ContentCacheNames, IInv, TypeOK
    <3> QED BY <1>0, <3>1, WithoutType DEF Steady, WasmCacheFailed
  <2>3. CASE PersistSweep(e) \/ PersistFails(e)
    BY <1>0, <2>3 DEF PersistSweep, PersistFails, shared, ContentCache, Steady, WasmCacheFailed
  <2> QED BY <2>1, <2>2, <2>3 DEF Saving
<1> QED BY <1>0, <1>1, <1>2, <1>3 DEF Steady, WasmCacheFailed

\* A step of one handler leaves what the others have fetched alone.
LEMMA OthersFetches ==
    ASSUME IInv, NEW x \in Events, NEW e \in Events, e # x,
           \/ \E q \in Asks : Intercept(x, q) \/ InterceptUnconfigured(x, q)
           \/ Startup(x) \/ Resolving(x) \/ Fetching(x) \/ Responding(x)
           \/ Reading(x) \/ Saving(x) \/ Release(x)
    PROVE  todo'[e] = todo[e] /\ buf'[e] = buf[e] /\ meta'[e] = meta[e]
<1> USE DEF IInv, TypeOK
<1>1. CASE \E q \in Asks : Intercept(x, q) \/ InterceptUnconfigured(x, q)
  BY <1>1 DEF Intercept, InterceptUnconfigured
<1>2. CASE Startup(x)
  BY <1>2 DEF Startup, ConfigArrives, ConfigFails
<1>3. CASE Resolving(x)
  BY <1>3 DEF Resolving, DigUnavailable, InvalidUrn, NoStore, MemoryHit, MemoryMiss, PersistentHit,
              PersistentMiss
<1>4. CASE Fetching(x)
  BY <1>4 DEF Fetching, FirstWindow, NextWindow, GetFails, PostFails
<1>5. CASE Responding(x)
  BY <1>5 DEF Responding, Refuse, RespondWhole, RespondStream
<1>6. CASE Reading(x)
  BY <1>6 DEF Reading, PullChunk, PullEnd, Cancel
<1>7. CASE Saving(x)
  BY <1>7 DEF Saving, PersistPut, PersistSweep, PersistTrim, PersistFails
<1>8. CASE Release(x)
  BY <1>8 DEF Release
<1> QED BY <1>1, <1>2, <1>3, <1>4, <1>5, <1>6, <1>7, <1>8

\* Nothing that a handler does mends a wasm load that has failed.
LEMMA FailureStays ==
    ASSUME NEW x \in Events, digReady = "failed",
           \/ \E q \in Asks : Intercept(x, q) \/ InterceptUnconfigured(x, q)
           \/ Startup(x) \/ Resolving(x) \/ Fetching(x) \/ Responding(x)
           \/ Reading(x) \/ Saving(x) \/ Release(x)
    PROVE  digReady' = "failed"
<1>1. CASE Startup(x) \/ \E q \in Asks : Intercept(x, q) \/ InterceptUnconfigured(x, q)
  BY <1>1 DEF Startup, ConfigArrives, ConfigFails, Intercept, InterceptUnconfigured, StartWasm, shared
<1>2. CASE Resolving(x)
  BY <1>2 DEF Resolving, DigUnavailable, InvalidUrn, NoStore, MemoryHit, MemoryMiss, PersistentHit,
              PersistentMiss, shared
<1>3. CASE Fetching(x)
  BY <1>3 DEF Fetching, FirstWindow, NextWindow, GetFails, PostFails, shared
<1>4. CASE Responding(x) \/ Reading(x)
  BY <1>4 DEF Responding, Refuse, RespondWhole, RespondStream, Reading, PullChunk, PullEnd, Cancel, shared
<1>5. CASE Saving(x) \/ Release(x)
  BY <1>5 DEF Saving, PersistPut, PersistSweep, PersistTrim, PersistFails, Release, shared
<1> QED BY <1>1, <1>2, <1>3, <1>4, <1>5

LEMMA NextHonest ==
    ASSUME IInv, Honest, Truthful, [Next]_vars
    PROVE  Honest'
<1>0. Steady /\ \A e \in Events : OnCourse(e)
  BY DEF Honest
<1>1. CASE UNCHANGED vars
  BY <1>0, <1>1 DEF vars, shared, local, Honest, Steady, WasmCacheFailed, OnCourse, Landed, Excused, ContentCache
<1>2. CASE Activate
  <2>1. ContentCache' = ContentCache
    BY <1>2 DEF Activate, ContentCache, CONTENT_CACHE_NAME, ContentCacheNames
  <2> QED BY <1>0, <1>2, <2>1 DEF Activate, local, Honest, Steady, WasmCacheFailed, OnCourse, Landed, Excused
<1>3. CASE LoadWasm
  <2>1. /\ digReady # "failed" /\ (digReady' = "failed" => "storage" \in Faults)
        /\ UNCHANGED <<cfg, mem, contentCaches, tip, local>>
    BY <1>0, <1>3 DEF LoadWasm, WasmFromCache, WasmFetched, WasmFails, WasmBuilds, Truthful
  <2> QED BY <1>0, <2>1 DEF local, Honest, Steady, OnCourse, Landed, Excused, ContentCache, WasmCacheFailed
<1>4. CASE Commit
  BY <1>4 DEF Commit, Truthful
<1>5. CASE Kill
  <2>1. Steady'
    BY <1>0, <1>5 DEF Kill, Steady, WasmCacheFailed, ContentCache
  <2>2. ASSUME NEW e \in Events PROVE OnCourse(e)'
    <3>1. pc'[e] = "idle"
      BY <1>5 DEF Kill
    <3> QED BY <3>1 DEF OnCourse, WasmCacheFailed, Serving, Persisting
  <2> QED BY <2>1, <2>2 DEF Honest
<1>6. ASSUME NEW x \in Events,
             \/ \E q \in Asks : Intercept(x, q) \/ InterceptUnconfigured(x, q)
             \/ Startup(x) \/ Resolving(x) \/ Fetching(x) \/ Responding(x)
             \/ Reading(x) \/ Saving(x) \/ Release(x)
      PROVE  Honest'
  <2>1. OnCourse(x)' /\ Steady' /\ tip' = tip /\ (cfg # None => cfg' # None)
    <3>1. CASE Release(x)
      <4>1. pc'[x] = "idle" /\ UNCHANGED shared
        BY <3>1 DEF Release, Goto, IInv, TypeOK
      <4> QED BY <1>0, <4>1 DEF OnCourse, Serving, Persisting, shared, Steady, WasmCacheFailed, ContentCache
    <3> QED BY <1>6, <3>1, BeginOnCourse, ResolveOnCourse, FetchOnCourse, RespondOnCourse,
               ReadOnCourse, SaveOnCourse
  <2>2. ASSUME NEW e \in Events, e # x PROVE OnCourse(e)'
    BY <1>0, <1>6, <2>1, <2>2, OthersAlone, OthersFetches, OthersOnCourse, FailureStays
  <2> QED BY <2>1, <2>2 DEF Honest
<1> QED BY <1>1, <1>2, <1>3, <1>4, <1>5, <1>6 DEF Next

\* However often the GET path fails, the content cache is unavailable or the browser ends the worker:
\* while rpc.dig.net tells the truth and answers POST, serveUrn of sw.js refuses or cuts no read of
\* something the store published, and serves nothing that is not whole.  It rejects one only while
\* digReady is a promise that the unguarded cache.match of sw.js:284 has failed; where the Cache
\* Storage does not fail, it rejects none.
THEOREM PublishedContentIsServed == ASSUME Truthful PROVE Spec => []PublishedIsServed
<1>1. Init => Honest
  <2> SUFFICES ASSUME Init PROVE Honest
    OBVIOUS
  <2>1. Steady
    BY DEF Init, Steady, WasmCacheFailed, ContentCache, CONTENT_CACHE_NAME, ContentCacheNames
  <2>2. \A e \in Events : OnCourse(e)
    BY DEF Init, OnCourse, WasmCacheFailed, Serving, Persisting
  <2> QED BY <2>1, <2>2 DEF Honest
<1>2. IInv /\ Honest /\ [Next]_vars => Honest'
  BY NextHonest
<1>3. Honest => PublishedIsServed
  BY DEF Honest, OnCourse, WasmCacheFailed, Excused, PublishedIsServed
<1> QED BY <1>1, <1>2, <1>3, Invariance, PTL DEF Spec
-----------------------------------------------------------------------------
(* Nothing waits in vain, and no request goes back. *)

\* No handler waits for something nobody will bring: one that is past its configuration finds one
\* there, one that awaits digReady awaits a promise somebody made, one that awaits the windows of a
\* fetch has one outstanding, and one that evicts has something left to evict.
WaitsAreServed ==
    \A e \in Events :
        /\ pc[e] \in Pending \ {"config"} => cfg # None
        /\ pc[e] = "ready" => digReady # "none"
        /\ pc[e] = "rest" => todo[e] # {}
        /\ pc[e] = "trim" => trim[e] # {}

\* How many more steps an unanswered request can take: both paths fetch every window at most once.
OverGet(e) == LastWindow + 6 + Cardinality(todo[e])
OverPost(e) == 3 + Cardinality(todo[e])
ToDo(e) ==
    CASE pc[e] = "config" -> 2 * LastWindow + 10
      [] pc[e] = "ready" -> 2 * LastWindow + 9
      [] pc[e] = "lookup" -> 2 * LastWindow + 8
      [] pc[e] = "first" -> IF via[e] = "GET" THEN 2 * LastWindow + 7 ELSE LastWindow + 5
      [] pc[e] = "rest" -> IF via[e] = "GET" THEN OverGet(e) ELSE OverPost(e)
      [] pc[e] = "gate" -> 2
      [] OTHER -> 0

\* Whatever fails, whoever else is served and whether or not the worker survives, a request that
\* has no answer yet either stands still or comes closer to one: no step sends it back.
Advances(e) ==
    pc[e] \in Pending => UNCHANGED <<pc[e], via[e], todo[e], buf[e]>> \/ ToDo(e)' < ToDo(e)
RequestsAdvance == [][\A e \in Events : Advances(e)]_vars

Step(x) ==
    \/ \E q \in Asks : Intercept(x, q) \/ InterceptUnconfigured(x, q)
    \/ Startup(x) \/ Resolving(x) \/ Fetching(x) \/ Responding(x)
    \/ Reading(x) \/ Saving(x) \/ Release(x)

\* What WaitsAreServed says of one handler.
Waits(e) ==
    /\ pc[e] \in Pending \ {"config"} => cfg # None
    /\ pc[e] = "ready" => digReady # "none"
    /\ pc[e] = "rest" => todo[e] # {}
    /\ pc[e] = "trim" => trim[e] # {}

\* A step of a handler takes neither the configuration nor the wasm promise from the others.
LEMMA NothingIsTaken ==
    ASSUME NEW x \in Events, Step(x)
    PROVE  /\ cfg # None => cfg' # None
           /\ digReady # "none" => digReady' # "none"
<1> USE WorkerAssumption
<1>1. CASE \E q \in Asks : Intercept(x, q) \/ InterceptUnconfigured(x, q)
  BY <1>1 DEF Intercept, InterceptUnconfigured, StartWasm, shared
<1>2. CASE Startup(x)
  BY <1>2 DEF Startup, ConfigArrives, ConfigFails, StartWasm, shared
<1>3. CASE Resolving(x)
  BY <1>3 DEF Resolving, DigUnavailable, InvalidUrn, NoStore, MemoryHit, MemoryMiss, PersistentHit,
              PersistentMiss, shared
<1>4. CASE Fetching(x)
  BY <1>4 DEF Fetching, FirstWindow, NextWindow, GetFails, PostFails, shared
<1>5. CASE Responding(x)
  BY <1>5 DEF Responding, Refuse, RespondWhole, RespondStream, shared
<1>6. CASE Reading(x)
  BY <1>6 DEF Reading, PullChunk, PullEnd, Cancel, shared
<1>7. CASE Saving(x)
  BY <1>7 DEF Saving, PersistPut, PersistSweep, PersistTrim, PersistFails, shared
<1>8. CASE Release(x)
  BY <1>8 DEF Release, shared
<1> QED BY <1>1, <1>2, <1>3, <1>4, <1>5, <1>6, <1>7, <1>8 DEF Step

\* A step of one handler moves no other, neither its path nor its evictions.
LEMMA OthersStay ==
    ASSUME IInv, NEW x \in Events, NEW e \in Events, e # x, Step(x)
    PROVE  pc'[e] = pc[e] /\ via'[e] = via[e] /\ trim'[e] = trim[e]
<1> USE DEF IInv, TypeOK
<1>1. CASE \E q \in Asks : Intercept(x, q) \/ InterceptUnconfigured(x, q)
  BY <1>1 DEF Intercept, InterceptUnconfigured, Goto
<1>2. CASE Startup(x)
  BY <1>2 DEF Startup, ConfigArrives, ConfigFails, Goto
<1>3. CASE Resolving(x)
  BY <1>3 DEF Resolving, DigUnavailable, InvalidUrn, NoStore, MemoryHit, MemoryMiss, PersistentHit,
              PersistentMiss, Goto
<1>4. CASE Fetching(x)
  BY <1>4 DEF Fetching, FirstWindow, NextWindow, GetFails, PostFails, Goto
<1>5. CASE Responding(x)
  BY <1>5 DEF Responding, Refuse, RespondWhole, RespondStream, Complete, Goto
<1>6. CASE Reading(x)
  BY <1>6 DEF Reading, PullChunk, PullEnd, Cancel, Complete, Goto
<1>7. CASE Saving(x)
  BY <1>7 DEF Saving, PersistPut, PersistSweep, PersistTrim, PersistFails, Goto
<1>8. CASE Release(x)
  BY <1>8 DEF Release, Goto
<1> QED BY <1>1, <1>2, <1>3, <1>4, <1>5, <1>6, <1>7, <1>8 DEF Step

\* The handler that steps waits for something real again, if it waits at all.
LEMMA StepWaits ==
    ASSUME IInv, NEW x \in Events, Waits(x), Step(x)
    PROVE  Waits(x)'
<1> USE DEF IInv, TypeOK
<1>0. /\ cfg # None => cfg' # None
      /\ digReady # "none" => digReady' # "none"
  BY NothingIsTaken
<1>1. CASE \E q \in Asks : Intercept(x, q) \/ InterceptUnconfigured(x, q)
  <2>1. \/ pc'[x] = "ready" /\ cfg' # None /\ digReady' # "none"
        \/ pc'[x] = "config"
    BY <1>1 DEF Intercept, InterceptUnconfigured, StartWasm, Goto
  <2> QED BY <2>1 DEF Waits
<1>2. CASE Startup(x)
  <2>1. \/ pc'[x] = "ready" /\ cfg' # None /\ digReady' # "none"
        \/ pc'[x] = "rejected"
    BY <1>2, WorkerAssumption DEF Startup, ConfigArrives, ConfigFails, StartWasm, Goto
  <2> QED BY <2>1 DEF Waits, Pending
<1>3. CASE Resolving(x)
  <2>1. /\ pc[x] \in {"ready", "lookup"}
        /\ pc'[x] \in {"rejected", "invalid", "served", "lookup", "first"}
    BY <1>3 DEF Resolving, DigUnavailable, InvalidUrn, NoStore, MemoryHit, MemoryMiss,
                PersistentHit, PersistentMiss, Awoken, Goto
  <2> QED BY <1>0, <2>1 DEF Waits, Pending
<1>4. CASE Fetching(x)
  <2>1. pc[x] \in {"first", "rest"}
    BY <1>4 DEF Fetching, FirstWindow, NextWindow, GetFails, PostFails
  <2>2. pc'[x] \in {"first", "gate", "rejected"} \/ (pc'[x] = "rest" /\ todo'[x] # {})
    <3>1. CASE FirstWindow(x)
      BY <3>1 DEF FirstWindow, Goto
    <3>2. CASE \E w \in Windows : NextWindow(x, w)
      BY <3>2 DEF NextWindow, Goto
    <3>3. CASE GetFails(x) \/ PostFails(x)
      BY <3>3 DEF GetFails, PostFails, Goto
    <3> QED BY <1>4, <3>1, <3>2, <3>3 DEF Fetching
  <2> QED BY <1>0, <2>1, <2>2 DEF Waits, Pending
<1>5. CASE Responding(x)
  <2>1. pc'[x] \in {"notFound", "put", "served", "stream"}
    BY <1>5 DEF Responding, Refuse, RespondWhole, RespondStream, Complete, Goto
  <2> QED BY <2>1 DEF Waits, Pending
<1>6. CASE Reading(x)
  <2>1. pc'[x] \in {"stream", "broken", "put", "served", "cancelled"}
    BY <1>6 DEF Reading, PullChunk, PullEnd, Cancel, Complete, Goto
  <2> QED BY <2>1 DEF Waits, Pending
<1>7. CASE Saving(x)
  <2>1. pc'[x] \in {"sweep", "served"} \/ (pc'[x] = "trim" /\ trim'[x] # {})
    BY <1>7 DEF Saving, PersistPut, PersistSweep, PersistTrim, PersistFails, Goto
  <2> QED BY <2>1 DEF Waits, Pending
<1>8. CASE Release(x)
  <2>1. pc'[x] = "idle"
    BY <1>8 DEF Release, Goto
  <2> QED BY <2>1 DEF Waits, Pending
<1> QED BY <1>1, <1>2, <1>3, <1>4, <1>5, <1>6, <1>7, <1>8 DEF Step

LEMMA NextWaits ==
    ASSUME IInv, WaitsAreServed, [Next]_vars
    PROVE  WaitsAreServed'
<1> SUFFICES ASSUME NEW e \in Events PROVE Waits(e)'
  BY DEF WaitsAreServed, Waits
<1>1. \A x \in Events : Waits(x)
  BY DEF WaitsAreServed, Waits
<1>2. CASE UNCHANGED vars \/ Activate \/ Commit
  BY <1>1, <1>2 DEF vars, shared, local, Activate, Commit, Waits
<1>3. CASE LoadWasm
  <2>1. digReady' \in {"ok", "failed"} /\ UNCHANGED <<cfg, local>>
    BY <1>3 DEF LoadWasm, WasmFromCache, WasmFetched, WasmFails
  <2> QED BY <1>1, <2>1 DEF local, Waits
<1>4. CASE Kill
  <2>1. pc'[e] = "idle"
    BY <1>4 DEF Kill
  <2> QED BY <2>1 DEF Waits, Pending
<1>5. ASSUME NEW x \in Events, Step(x) PROVE Waits(e)'
  <2>1. CASE x = e
    BY <1>1, <1>5, <2>1, StepWaits
  <2>2. CASE x # e
    <3>1. /\ pc'[e] = pc[e] /\ trim'[e] = trim[e] /\ todo'[e] = todo[e]
          /\ cfg # None => cfg' # None
          /\ digReady # "none" => digReady' # "none"
      BY <1>5, <2>2, OthersStay, OthersFetches, NothingIsTaken DEF Step
    <3> QED BY <1>1, <3>1 DEF Waits
  <2> QED BY <2>1, <2>2
<1> QED BY <1>2, <1>3, <1>4, <1>5 DEF Next, Step

\* No handler of sw.js waits for what nobody will bring: digReady is a promise somebody made, and a
\* rejected one stays memoised for those who come later; CFG is there for all that need it; the lanes
\* of a fetch are out until its last window lands; and a sweep ends with its last eviction.
THEOREM WaitsAreAlwaysServed == Spec => []WaitsAreServed
<1>1. Init => WaitsAreServed
  BY DEF Init, WaitsAreServed, Pending
<1> QED BY <1>1, NextWaits, Invariance, PTL DEF Spec

\* The windows of a fetch that have not landed are finitely many, and one less after each that lands.
LEMMA ToDoIs ==
    ASSUME IInv, NEW e \in Events
    PROVE  /\ IsFiniteSet(todo[e]) /\ Cardinality(todo[e]) \in Nat
           /\ LastWindow \in Nat
           /\ pc[e] \in Pending => ToDo(e) \in Nat /\ ToDo(e) > 0
<1>1. IsFiniteSet(Windows) /\ LastWindow \in Nat
  BY ContentAssumption, FS_Interval DEF Windows
<1>2. todo[e] \subseteq Windows
  BY DEF IInv, TypeOK
<1>3. IsFiniteSet(todo[e]) /\ Cardinality(todo[e]) \in Nat
  BY <1>1, <1>2, FS_Subset, FS_CardinalityType
<1> QED BY <1>1, <1>3 DEF ToDo, OverGet, OverPost, Pending

\* After the first window at most the others remain.
LEMMA RestIsLess == Cardinality(Windows \ {0}) = LastWindow
<1>1. Windows \ {0} = 1 .. LastWindow
  BY ContentAssumption DEF Windows
<1>2. LastWindow \in Nat
  BY ContentAssumption
<1>3. Cardinality(1 .. LastWindow) = IF 1 > LastWindow THEN 0 ELSE LastWindow - 1 + 1
  BY <1>2, FS_Interval
<1>4. Cardinality(1 .. LastWindow) = LastWindow
  BY <1>2, <1>3
<1> QED BY <1>1, <1>4, Zenon

LEMMA FetchAdvances ==
    ASSUME IInv, NEW e \in Events, Fetching(e)
    PROVE  ToDo(e)' < ToDo(e)
<1> USE DEF IInv, TypeOK
<1>0. /\ IsFiniteSet(todo[e]) /\ Cardinality(todo[e]) \in Nat /\ LastWindow \in Nat
      /\ via[e] \in {"GET", "POST"}
  BY ToDoIs
<1>1. CASE FirstWindow(e)
  <2>1. pc[e] = "first" /\ via' = via
    BY <1>1 DEF FirstWindow
  <2>2. \/ pc'[e] = "gate"
        \/ pc'[e] = "rest" /\ todo'[e] = Windows \ {0}
    BY <1>1 DEF FirstWindow, Goto
  <2>3. pc'[e] = "gate" => ToDo(e)' = 2
    BY DEF ToDo
  <2>4. pc'[e] = "rest" => ToDo(e)' = IF via[e] = "GET" THEN LastWindow + 6 + Cardinality(todo'[e])
                                                       ELSE 3 + Cardinality(todo'[e])
    BY <2>1 DEF ToDo, OverGet, OverPost
  <2>5. ToDo(e) = IF via[e] = "GET" THEN 2 * LastWindow + 7 ELSE LastWindow + 5
    BY <2>1 DEF ToDo
  <2>6. pc'[e] = "rest" => Cardinality(todo'[e]) = LastWindow
    BY <2>2, RestIsLess, Zenon
  <2> QED BY <1>0, <2>2, <2>3, <2>4, <2>5, <2>6
<1>2. ASSUME NEW w \in Windows, NextWindow(e, w) PROVE ToDo(e)' < ToDo(e)
  <2>1. pc[e] = "rest" /\ via' = via /\ w \in todo[e] /\ todo'[e] = todo[e] \ {w}
    BY <1>2 DEF NextWindow
  <2>2. pc'[e] = "gate" \/ pc'[e] = "rest"
    BY <1>2 DEF NextWindow, Goto
  <2>3. Cardinality(todo'[e]) = Cardinality(todo[e]) - 1
    <3>1. Cardinality(todo[e] \ {w}) = Cardinality(todo[e]) - 1
      BY <1>0, <2>1, FS_RemoveElement, Zenon
    <3> QED BY <2>1, <3>1, Zenon
  <2>4. pc'[e] = "gate" => ToDo(e)' = 2
    BY DEF ToDo
  <2>5. pc'[e] = "rest" => ToDo(e)' = IF via[e] = "GET" THEN LastWindow + 6 + Cardinality(todo'[e])
                                                       ELSE 3 + Cardinality(todo'[e])
    BY <2>1 DEF ToDo, OverGet, OverPost
  <2>6. ToDo(e) = IF via[e] = "GET" THEN LastWindow + 6 + Cardinality(todo[e])
                                   ELSE 3 + Cardinality(todo[e])
    BY <2>1 DEF ToDo, OverGet, OverPost
  <2> QED BY <1>0, <2>2, <2>3, <2>4, <2>5, <2>6
<1>3. CASE GetFails(e)
  <2>1. ToDo(e)' = LastWindow + 5
    BY <1>3 DEF GetFails, Goto, ToDo
  <2>2. ToDo(e) > LastWindow + 5
    BY <1>0, <1>3 DEF GetFails, ToDo, OverGet
  <2> QED BY <1>0, <2>1, <2>2
<1>4. CASE PostFails(e)
  <2>1. ToDo(e)' = 0
    BY <1>4 DEF PostFails, Goto, ToDo
  <2>2. ToDo(e) > 0
    BY <1>4, ToDoIs DEF PostFails, Pending
  <2> QED BY <1>0, <2>1, <2>2
<1> QED BY <1>1, <1>2, <1>3, <1>4 DEF Fetching

LEMMA StepAdvances ==
    ASSUME IInv, NEW e \in Events, pc[e] \in Pending, Step(e)
    PROVE  ToDo(e)' < ToDo(e)
<1> USE DEF IInv, TypeOK
<1>0. ToDo(e) \in Nat /\ ToDo(e) > 0 /\ LastWindow \in Nat
  BY ToDoIs
<1>1. CASE \E q \in Asks : Intercept(e, q) \/ InterceptUnconfigured(e, q)
  BY <1>1 DEF Intercept, InterceptUnconfigured, Pending
<1>2. pc'[e] \notin Pending => ToDo(e)' = 0
  BY DEF ToDo, Pending
<1>3. CASE Startup(e)
  <2>1. pc[e] = "config" /\ pc'[e] \in {"ready", "rejected"}
    BY <1>3 DEF Startup, ConfigArrives, ConfigFails, Goto
  <2>2. pc'[e] = "ready" => ToDo(e)' = 2 * LastWindow + 9 /\ ToDo(e) = 2 * LastWindow + 10
    BY <2>1 DEF ToDo
  <2> QED BY <1>0, <1>2, <2>1, <2>2 DEF Pending
<1>4. CASE Resolving(e)
  <2>1. \/ pc[e] \in {"ready", "lookup"} /\ pc'[e] \in {"rejected", "invalid", "served"}
        \/ pc[e] = "ready" /\ pc'[e] \in {"lookup", "first"}
        \/ pc[e] = "lookup" /\ pc'[e] = "first"
    BY <1>4 DEF Resolving, DigUnavailable, InvalidUrn, NoStore, MemoryHit, MemoryMiss,
                PersistentHit, PersistentMiss, Awoken, Goto
  <2>2. /\ pc[e] = "ready" => ToDo(e) = 2 * LastWindow + 9
        /\ pc[e] = "lookup" => ToDo(e) = 2 * LastWindow + 8
    BY DEF ToDo
  <2>3. /\ pc'[e] = "lookup" => ToDo(e)' = 2 * LastWindow + 8
        /\ pc'[e] = "first" => ToDo(e)' \in {2 * LastWindow + 7, LastWindow + 5}
    BY DEF ToDo
  <2> QED BY <1>0, <1>2, <2>1, <2>2, <2>3 DEF Pending
<1>5. CASE Fetching(e)
  BY <1>5, FetchAdvances
<1>6. CASE Responding(e)
  <2>1. pc'[e] \in {"notFound", "put", "served", "stream"}
    BY <1>6 DEF Responding, Refuse, RespondWhole, RespondStream, Complete, Goto
  <2> QED BY <1>0, <1>2, <2>1 DEF Pending
<1>7. CASE Reading(e) \/ Saving(e) \/ Release(e)
  BY <1>7 DEF Reading, PullChunk, PullEnd, Cancel, Saving, PersistPut, PersistSweep, PersistTrim,
              PersistFails, Release, Ended, Pending, Persisting
<1> QED BY <1>1, <1>3, <1>4, <1>5, <1>6, <1>7 DEF Step

LEMMA NextAdvances ==
    ASSUME IInv, [Next]_vars, NEW e \in Events
    PROVE  Advances(e)
<1> SUFFICES ASSUME pc[e] \in Pending
             PROVE  UNCHANGED <<pc[e], via[e], todo[e], buf[e]>> \/ ToDo(e)' < ToDo(e)
  BY DEF Advances
<1>1. CASE UNCHANGED vars \/ Activate \/ LoadWasm \/ Commit
  BY <1>1 DEF vars, local, Activate, Commit, LoadWasm, WasmFromCache, WasmFetched, WasmFails
<1>2. CASE Kill
  <2>1. ToDo(e)' = 0
    BY <1>2 DEF Kill, ToDo
  <2> QED BY <2>1, ToDoIs
<1>3. ASSUME NEW x \in Events, Step(x)
      PROVE  UNCHANGED <<pc[e], via[e], todo[e], buf[e]>> \/ ToDo(e)' < ToDo(e)
  <2>1. CASE x = e
    BY <1>3, <2>1, StepAdvances
  <2>2. CASE x # e
    <3>1. pc'[e] = pc[e] /\ via'[e] = via[e]
      BY <1>3, <2>2, OthersStay
    <3>2. todo'[e] = todo[e] /\ buf'[e] = buf[e]
      BY <1>3, <2>2, OthersFetches DEF Step
    <3> QED BY <3>1, <3>2
  <2> QED BY <2>1, <2>2
<1> QED BY <1>1, <1>2, <1>3 DEF Next, Step

\* serveUrn of sw.js asks for nothing twice: a request without an answer falls back from GET to POST
\* once and fetches each window at most once over each, so that no failure, no other handler and no
\* restart sends it back, for any number of windows and of handlers.
THEOREM RequestsGoForward == Spec => RequestsAdvance
<1> DEFINE Advance == \A e \in Events : Advances(e)
<1>1. IInv /\ [Next]_vars => [Advance]_vars
  BY NextAdvances
<1> QED BY <1>1, Invariance, PTL DEF Spec, RequestsAdvance
=============================================================================
