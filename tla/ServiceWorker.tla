---------------------------- MODULE ServiceWorker ----------------------------
(***************************************************************************)
(* assets/sw.js: the service worker that answers every same-origin GET of  *)
(* a *.on.dig.net page by reading, verifying, decrypting, streaming and    *)
(* caching one resource of the store.                                      *)
(*                                                                         *)
(* Each fetch event runs serveUrn as a chain of asynchronous steps; one    *)
(* action is the code between two awaits, so the steps of several events   *)
(* interleave exactly where JavaScript lets them.  They share the          *)
(* configuration, the wasm module, the in-memory cache and the persistent  *)
(* caches.  The browser may kill the worker between any two steps, and     *)
(* then only the Cache Storage survives.                                   *)
(***************************************************************************)
EXTENDS DigContent, PlaintextCache, FiniteSets, SequencesExt

CONSTANTS
    Events,             \* fetch events that may be in flight together
    Asks,               \* what an intercepted request may ask for
    Registration,       \* the pin in the worker's own URL, or None (resolver path)
    ServedConfigs,      \* what /__dig/config.json may answer
    CONTENT_CACHE_MAX,  \* soft bound on the persistent content cache
    ForgedMetas,        \* metadata that a network which forges its answers may send
    Leftovers,          \* what an older worker may have left in dig-content-v1
    Faults              \* what the environment does besides answering truthfully

FaultKinds == {"config", "wasm", "get", "post", "storage", "kill", "commit", "forge"}

CacheKeys == [key : Keys, root : Roots \cup {Latest}]
Entries == [at : CacheKeys, body : Bodies]
ContentCacheNames == {"dig-content-v1", "dig-content-v2"}
CONTENT_CACHE_NAME == "dig-content-v2"

\* A path on the page's own domain, or a DIG URN, which names its store and may carry a root and a
\* salt; "invalid" stands for a URN that does not parse.
AskKinds == {"path", "urn", "invalid"}
AllAsks == [kind : AskKinds, key : Keys, root : RawRoots \cup {None}, salt : Salts \cup {None}]

\* config.json of a domain that is not active holds a status and nothing else.
Configs == [active : BOOLEAN, root : RawRoots \cup {None}, salt : Salts \cup {None}]

\* What deriveKey and the caches need to know of a request once it is resolved.
Wants == [at : CacheKeys, salt : Salts \cup {None}]

ASSUME WorkerAssumption ==
    /\ IsFiniteSet(Events)
    /\ Asks \subseteq AllAsks
    /\ \A q \in Asks : q.kind = "path" => q.root = None /\ q.salt = None
    /\ Registration \in Configs \cup {None}
    /\ Registration # None => Registration.active
    /\ ServedConfigs \subseteq Configs
    /\ \A c \in ServedConfigs : ~c.active => c.root = None /\ c.salt = None
    /\ CACHE_MAX \in Nat \ {0} /\ CONTENT_CACHE_MAX \in Nat \ {0}
    /\ ForgedMetas \subseteq Metas
    /\ Leftovers \subseteq Seq(Entries)
    /\ Faults \subseteq FaultKinds
    /\ None \notin AllAsks \cup Configs \cup Wants \cup RawRoots

VARIABLES
    activated,      \* the activate event has run
    cfg,            \* CFG
    digReady,       \* the memoised promise digReady: "none", "pending", "ok" or "failed"
    running,        \* the wasm build that was initialised: "none", "pinned", "other"
    wasmCache,      \* the build persisted in dig-wasm-v1
    mem,            \* CACHE: the in-memory cache, oldest entry first
    contentCaches,  \* the persistent content caches by name, oldest entry first
    tip,            \* the generation that rpc.dig.net resolves "latest" to now
    pc,             \* where the handler of each event is
    ask,            \* what the event asked for
    want,           \* the same, resolved against CFG
    via,            \* "GET" or "POST": the path the ciphertext is fetched over
    todo,           \* windows of the fetch that have not landed
    buf,            \* the reassembled ciphertext
    meta,           \* proof and chunk lengths of the reply
    body,           \* plaintext chunks handed to the page so far
    trim            \* keys the event is evicting from the persistent cache

shared == <<activated, cfg, digReady, running, wasmCache, mem, contentCaches, tip>>
local == <<pc, ask, want, via, todo, buf, meta, body, trim>>
vars == <<shared, local>>

\* Before a response exists; while its body can still grow; after the body is whole.
Pending == {"config", "ready", "lookup", "first", "rest", "gate"}
Persisting == {"put", "sweep", "trim"}
Ended == {"served", "broken", "cancelled", "notFound", "invalid", "rejected"}
Status200 == {"stream", "served", "broken", "cancelled"} \cup Persisting
PCs == {"idle"} \cup Pending \cup {"stream"} \cup Persisting \cup Ended

NoMeta == [proof |-> FALSE, lens |-> "badSum"]

-----------------------------------------------------------------------------
(* The persistent caches are insertion-ordered maps as well. *)

Without(cache, at) == IF Cached(cache, at) THEN RemoveAt(cache, PositionOf(cache, at)) ELSE cache

\* Cache.put replaces an entry by a new one at the end.
Put(cache, e) == Append(Without(cache, e.at), e)

\* The keys putContentCache decides to delete: the oldest ones above the cap.
Overflow(cache) == {cache[i].at : i \in 1 .. (Len(cache) - CONTENT_CACHE_MAX)}

EntryOf(e) == [at |-> want[e].at, body |-> body[e]]

ContentCache == contentCaches[CONTENT_CACHE_NAME]

-----------------------------------------------------------------------------
Init ==
    /\ activated = FALSE
    /\ cfg = None
    /\ digReady = "none" /\ running = "none" /\ wasmCache = "none"
    /\ mem = <<>>
    /\ \E old \in Leftovers :
           contentCaches = [n \in ContentCacheNames |-> IF n = "dig-content-v1" THEN old ELSE <<>>]
    /\ tip \in Generations
    /\ pc = [e \in Events |-> "idle"]
    /\ ask = [e \in Events |-> None]
    /\ want = [e \in Events |-> None]
    /\ via = [e \in Events |-> "GET"]
    /\ todo = [e \in Events |-> {}]
    /\ buf = [e \in Events |-> Zeroes]
    /\ meta = [e \in Events |-> NoMeta]
    /\ body = [e \in Events |-> <<>>]
    /\ trim = [e \in Events |-> {}]

Goto(e, label) == pc' = [pc EXCEPT ![e] = label]

(* Lifecycle ***************************************************************)

\* purgeStaleContentCaches deletes every content cache but the current one, and gives up silently
\* when the Cache Storage is unavailable.  No fetch event is dispatched before it has settled.
Activate ==
    /\ ~activated
    /\ activated' = TRUE
    /\ \/ contentCaches' = [n \in ContentCacheNames |->
                               IF n = CONTENT_CACHE_NAME THEN contentCaches[n] ELSE <<>>]
       \/ "storage" \in Faults /\ UNCHANGED contentCaches
    /\ UNCHANGED <<cfg, digReady, running, wasmCache, mem, tip, local>>

(* ensureDig ***************************************************************)

\* The promise is created once per worker, by the first handler that gets here.
StartWasm == digReady' = IF digReady = "none" THEN "pending" ELSE digReady

\* A fetch event arrives and CFG is known, or the registration URL carries the pin.
Intercept(e, q) ==
    /\ activated
    /\ pc[e] = "idle"
    /\ cfg # None \/ Registration # None
    /\ cfg' = IF cfg = None THEN Registration ELSE cfg
    /\ StartWasm
    /\ ask' = [ask EXCEPT ![e] = q]
    /\ Goto(e, "ready")
    /\ UNCHANGED <<activated, running, wasmCache, mem, contentCaches, tip,
                   want, via, todo, buf, meta, body, trim>>

\* Otherwise the handler fetches /__dig/config.json, whoever else is fetching it already.
InterceptUnconfigured(e, q) ==
    /\ activated
    /\ pc[e] = "idle"
    /\ cfg = None /\ Registration = None
    /\ ask' = [ask EXCEPT ![e] = q]
    /\ Goto(e, "config")
    /\ UNCHANGED <<shared, want, via, todo, buf, meta, body, trim>>

ConfigArrives(e) ==
    /\ pc[e] = "config"
    /\ cfg' \in ServedConfigs
    /\ StartWasm
    /\ Goto(e, "ready")
    /\ UNCHANGED <<activated, running, wasmCache, mem, contentCaches, tip,
                   ask, want, via, todo, buf, meta, body, trim>>

ConfigFails(e) ==
    /\ "config" \in Faults
    /\ pc[e] = "config"
    /\ Goto(e, "rejected")
    /\ UNCHANGED <<shared, ask, want, via, todo, buf, meta, body, trim>>

\* loadDigClientWasmResponse finds the persisted build.
WasmFromCache ==
    /\ digReady = "pending"
    /\ wasmCache # "none"
    /\ digReady' = "ok" /\ running' = wasmCache
    /\ UNCHANGED <<activated, cfg, wasmCache, mem, contentCaches, tip, local>>

\* Mutant: whatever was fetched is run and persisted.
WasmFetchedUnhashed(build) ==
    /\ digReady = "pending"
    /\ wasmCache = "none" \/ "storage" \in Faults
    /\ digReady' = "ok" /\ running' = build
    /\ wasmCache' = build
    /\ UNCHANGED <<activated, cfg, mem, contentCaches, tip, local>>

\* It fetches one, which must hash to the pinned SHA-256 before it is persisted (if it can be).
WasmFetched(build) ==
    /\ digReady = "pending"
    /\ wasmCache = "none" \/ "storage" \in Faults
    /\ IF build = "pinned"
       THEN /\ digReady' = "ok" /\ running' = build
            /\ \/ wasmCache' = build
               \/ "storage" \in Faults /\ UNCHANGED wasmCache
       ELSE digReady' = "failed" /\ UNCHANGED <<running, wasmCache>>
    /\ UNCHANGED <<activated, cfg, mem, contentCaches, tip, local>>

\* The promise rejects, and stays memoised: nothing was found and the fetch fails, or the look into
\* the wasm cache does, which unlike its opening and its filling is in no try (sw.js:284).
WasmFails ==
    /\ "storage" \in Faults \/ ("wasm" \in Faults /\ wasmCache = "none")
    /\ digReady = "pending"
    /\ digReady' = "failed"
    /\ UNCHANGED <<activated, cfg, running, wasmCache, mem, contentCaches, tip, local>>

WasmBuilds == IF "wasm" \in Faults THEN {"pinned", "other"} ELSE {"pinned"}

(* serveUrn: resolve the request, look it up in the caches ******************)

\* The URN's own root and salt win over those of CFG.
Resolve(q) ==
    [at |-> [key |-> q.key, root |-> CanonicalOrLatest(IF q.root # None THEN q.root ELSE cfg.root)],
     salt |-> IF q.salt # None THEN q.salt ELSE cfg.salt]

Awoken(e) == pc[e] = "ready" /\ digReady = "ok"

\* The store is known: from the URN, or from CFG.
NamesStore(q) == q.kind = "urn" \/ (q.kind = "path" /\ cfg.active)

DigUnavailable(e) ==
    /\ pc[e] = "ready" /\ digReady = "failed"
    /\ Goto(e, "rejected")
    /\ UNCHANGED <<shared, ask, want, via, todo, buf, meta, body, trim>>

InvalidUrn(e) ==
    /\ Awoken(e)
    /\ ask[e].kind = "invalid"
    /\ Goto(e, "invalid")
    /\ UNCHANGED <<shared, ask, want, via, todo, buf, meta, body, trim>>

\* Mutant: the configuration is asked for again, until it names a store.
NoStoreAsksAgain(e) ==
    /\ Awoken(e)
    /\ ask[e].kind = "path" /\ ~cfg.active
    /\ Goto(e, "config")
    /\ UNCHANGED <<shared, ask, want, via, todo, buf, meta, body, trim>>

\* The configuration named no store: retrievalKey(undefined, ...) throws.
NoStore(e) ==
    /\ Awoken(e)
    /\ ask[e].kind = "path" /\ ~cfg.active
    /\ Goto(e, "rejected")
    /\ UNCHANGED <<shared, ask, want, via, todo, buf, meta, body, trim>>

MemoryHit(e) ==
    /\ Awoken(e) /\ NamesStore(ask[e])
    /\ LET w == Resolve(ask[e])
       IN  /\ Cached(mem, w.at)
           /\ want' = [want EXCEPT ![e] = w]
           /\ body' = [body EXCEPT ![e] = Lookup(mem, w.at)]
    /\ Goto(e, "served")
    /\ UNCHANGED <<shared, ask, via, todo, buf, meta, trim>>

\* Not in memory: a pinned read asks the persistent cache, a "latest" read goes to the network.
MemoryMiss(e) ==
    /\ Awoken(e) /\ NamesStore(ask[e])
    /\ LET w == Resolve(ask[e])
       IN  /\ ~Cached(mem, w.at)
           /\ want' = [want EXCEPT ![e] = w]
           /\ via' = [via EXCEPT ![e] = IF RootIsPinned(w.at.root) THEN "GET" ELSE "POST"]
           /\ Goto(e, IF RootIsPinned(w.at.root) THEN "lookup" ELSE "first")
    /\ UNCHANGED <<shared, ask, todo, buf, meta, body, trim>>

PersistentHit(e) ==
    /\ pc[e] = "lookup"
    /\ Cached(ContentCache, want[e].at)
    /\ LET found == Lookup(ContentCache, want[e].at)
       IN  /\ body' = [body EXCEPT ![e] = found]
           /\ mem' = Remember(mem, [at |-> want[e].at, body |-> found])
    /\ Goto(e, "served")
    /\ UNCHANGED <<activated, cfg, digReady, running, wasmCache, contentCaches, tip,
                   ask, want, via, todo, buf, meta, trim>>

PersistentMiss(e) ==
    /\ pc[e] = "lookup"
    /\ ~Cached(ContentCache, want[e].at) \/ "storage" \in Faults
    /\ Goto(e, "first")
    /\ UNCHANGED <<shared, ask, want, via, todo, buf, meta, body, trim>>

(* fetchVerified: windows over GET, or over POST ****************************)

AnswerBytes(e) ==
    IF "forge" \in Faults THEN Bytes ELSE {Truth(want[e].at.key, want[e].at.root, tip)}

AnswerMetas ==
    IF "forge" \in Faults THEN ForgedMetas ELSE {[proof |-> TRUE, lens |-> "exact"]}

\* CFG.rpc is where POST goes; GET falls back to https://rpc.dig.net/.
Reachable(e) == via[e] = "GET" \/ cfg.active

\* A POST reply says itself at which offset its bytes go, and whether it completes the resource.
SelfDescribed(e) == via[e] = "POST" /\ "forge" \in Faults

Offsets(e, w) == IF SelfDescribed(e) THEN Windows ELSE {w}

\* Window 0 is fetched alone, for the total length and the metadata, into a zeroed buffer.
FirstWindow(e) ==
    /\ pc[e] = "first" /\ Reachable(e)
    /\ \E b \in AnswerBytes(e), at \in Offsets(e, 0) :
          buf' = [buf EXCEPT ![e] = [Zeroes EXCEPT ![at] = b]]
    /\ \E m \in AnswerMetas : meta' = [meta EXCEPT ![e] = m]
    /\ \E rest \in {Windows \ {0}} \cup (IF SelfDescribed(e) THEN {{}} ELSE {}) :
          /\ todo' = [todo EXCEPT ![e] = rest]
          /\ Goto(e, IF rest = {} THEN "gate" ELSE "rest")
    /\ UNCHANGED <<shared, ask, want, via, body, trim>>

\* The other windows are fetched in parallel and land in any order.  A POST reply may bring the
\* proof that the first one lacked.
NextWindow(e, w) ==
    /\ pc[e] = "rest" /\ Reachable(e)
    /\ w \in todo[e]
    /\ \E b \in AnswerBytes(e), at \in Offsets(e, w) : buf' = [buf EXCEPT ![e][at] = b]
    /\ \/ UNCHANGED meta
       \/ SelfDescribed(e) /\ meta' = [meta EXCEPT ![e].proof = TRUE]
    /\ todo' = [todo EXCEPT ![e] = todo[e] \ {w}]
    /\ Goto(e, IF todo[e] = {w} THEN "gate" ELSE "rest")
    /\ UNCHANGED <<shared, ask, want, via, body, trim>>

\* Mutant: there is no second path.
GetFailureRejects(e) ==
    /\ "get" \in Faults
    /\ pc[e] \in {"first", "rest"} /\ via[e] = "GET"
    /\ Goto(e, "rejected")
    /\ UNCHANGED <<shared, ask, want, via, todo, buf, meta, body, trim>>

\* Mutant: the GET path is tried again.
GetRetries(e) ==
    /\ "get" \in Faults
    /\ pc[e] \in {"first", "rest"} /\ via[e] = "GET"
    /\ todo' = [todo EXCEPT ![e] = {}]
    /\ Goto(e, "first")
    /\ UNCHANGED <<shared, ask, want, via, buf, meta, body, trim>>

\* Any failure of the GET path starts over on the POST path, into a fresh buffer.
GetFails(e) ==
    /\ "get" \in Faults
    /\ pc[e] \in {"first", "rest"} /\ via[e] = "GET"
    /\ via' = [via EXCEPT ![e] = "POST"]
    /\ todo' = [todo EXCEPT ![e] = {}]
    /\ Goto(e, "first")
    /\ UNCHANGED <<shared, ask, want, buf, meta, body, trim>>

PostFails(e) ==
    /\ pc[e] \in {"first", "rest"} /\ via[e] = "POST"
    /\ "post" \in Faults \/ ~cfg.active
    /\ Goto(e, "rejected")
    /\ UNCHANGED <<shared, ask, want, via, todo, buf, meta, body, trim>>

(* serveUrn: verify, decrypt, stream, cache *********************************)

\* Only the pinned build is known to check anything.
Verified(e) == running = "pinned" => VerifyInclusion(buf[e], meta[e], want[e].at.root)

Opens(e, c) == ChunkOpens(buf[e], meta[e], want[e].at.key, want[e].salt, c)

\* Mutant: whether the read is pinned is looked up again after the awaits.
AdmittedByCurrentCfg(e) == (RootIsPinned(Resolve(ask[e]).at.root) => Verified(e)) /\ Opens(e, 0)

\* Mutant: chunk 0 alone is the gate.
AdmittedByDecryption(e) == Opens(e, 0)

\* Nothing is committed to a status before the proof of a pinned read and chunk 0 have passed.
Admitted(e) == (RootIsPinned(want[e].at.root) => Verified(e)) /\ Opens(e, 0)

\* Mutant: a "latest" read is persisted like any other.
CompleteAndPersist(e, chunks) ==
    /\ body' = [body EXCEPT ![e] = chunks]
    /\ mem' = Remember(mem, [at |-> want[e].at, body |-> chunks])
    /\ Goto(e, "put")

\* All chunks are out: remember the plaintext, and go on to persist it if the read was pinned.
Complete(e, chunks) ==
    /\ body' = [body EXCEPT ![e] = chunks]
    /\ mem' = Remember(mem, [at |-> want[e].at, body |-> chunks])
    /\ Goto(e, IF RootIsPinned(want[e].at.root) THEN "put" ELSE "served")

Refuse(e) ==
    /\ pc[e] = "gate"
    /\ ~Admitted(e)
    /\ Goto(e, "notFound")
    /\ UNCHANGED <<shared, ask, want, via, todo, buf, meta, body, trim>>

\* The reply describes one chunk only.
OneChunk(e) == meta[e].lens = "prefix" \/ (LastChunk = 0 /\ meta[e].lens # "badLater")

\* The 200 response of a single-chunk resource is complete at once.
RespondWhole(e) ==
    /\ pc[e] = "gate"
    /\ Admitted(e)
    /\ OneChunk(e)
    /\ Complete(e, <<Plain(buf[e], 0)>>)
    /\ UNCHANGED <<activated, cfg, digReady, running, wasmCache, contentCaches, tip,
                   ask, want, via, todo, buf, meta, trim>>

\* Otherwise chunk 0 is enqueued and the others follow as the page reads.
RespondStream(e) ==
    /\ pc[e] = "gate"
    /\ Admitted(e)
    /\ ~OneChunk(e)
    /\ body' = [body EXCEPT ![e] = <<Plain(buf[e], 0)>>]
    /\ Goto(e, "stream")
    /\ UNCHANGED <<shared, ask, want, via, todo, buf, meta, trim>>

\* The next chunk to decrypt; after the last one a pull closes the stream.
NextChunk(e) == Len(body[e])

\* Mutant: the stream closes one chunk early.
HasMoreButOne(e) == NextChunk(e) + 1 \in Chunks \/ meta[e].lens = "badLater"

HasMore(e) == NextChunk(e) \in Chunks \/ meta[e].lens = "badLater"

\* Mutant: after a chunk that does not open the fetch starts over, under the same response.
PullChunkOrStartOver(e) ==
    /\ pc[e] = "stream"
    /\ HasMore(e)
    /\ IF Opens(e, NextChunk(e))
       THEN body' = [body EXCEPT ![e] = Append(@, Plain(buf[e], NextChunk(e)))] /\ UNCHANGED pc
       ELSE body' = [body EXCEPT ![e] = <<>>] /\ Goto(e, "first")
    /\ UNCHANGED <<shared, ask, want, via, todo, buf, meta, trim>>

PullChunk(e) ==
    /\ pc[e] = "stream"
    /\ HasMore(e)
    /\ IF Opens(e, NextChunk(e))
       THEN body' = [body EXCEPT ![e] = Append(@, Plain(buf[e], NextChunk(e)))] /\ UNCHANGED pc
       ELSE UNCHANGED body /\ Goto(e, "broken")
    /\ UNCHANGED <<shared, ask, want, via, todo, buf, meta, trim>>

PullEnd(e) ==
    /\ pc[e] = "stream"
    /\ ~HasMore(e)
    /\ Complete(e, body[e])
    /\ UNCHANGED <<activated, cfg, digReady, running, wasmCache, contentCaches, tip,
                   ask, want, via, todo, buf, meta, trim>>

\* The page stops reading; the stream has no cancel callback, so nothing settles.
Cancel(e) ==
    /\ pc[e] = "stream"
    /\ Goto(e, "cancelled")
    /\ UNCHANGED <<shared, ask, want, via, todo, buf, meta, body, trim>>

(* putContentCache, after the response **************************************)

PersistPut(e) ==
    /\ pc[e] = "put"
    /\ contentCaches' = [contentCaches EXCEPT ![CONTENT_CACHE_NAME] = Put(@, EntryOf(e))]
    /\ Goto(e, "sweep")
    /\ UNCHANGED <<activated, cfg, digReady, running, wasmCache, mem, tip,
                   ask, want, via, todo, buf, meta, body, trim>>

\* cache.keys() is a snapshot; the deletions follow it one by one.
PersistSweep(e) ==
    /\ pc[e] = "sweep"
    /\ trim' = [trim EXCEPT ![e] = Overflow(ContentCache)]
    /\ Goto(e, IF Overflow(ContentCache) = {} THEN "served" ELSE "trim")
    /\ UNCHANGED <<shared, ask, want, via, todo, buf, meta, body>>

PersistTrim(e, at) ==
    /\ pc[e] = "trim"
    /\ at \in trim[e]
    /\ contentCaches' = [contentCaches EXCEPT ![CONTENT_CACHE_NAME] = Without(@, at)]
    /\ trim' = [trim EXCEPT ![e] = @ \ {at}]
    /\ Goto(e, IF trim[e] = {at} THEN "served" ELSE "trim")
    /\ UNCHANGED <<activated, cfg, digReady, running, wasmCache, mem, tip,
                   ask, want, via, todo, buf, meta, body>>

\* Best effort: a failure is swallowed wherever it happens.
PersistFails(e) ==
    /\ "storage" \in Faults
    /\ pc[e] \in Persisting
    /\ trim' = [trim EXCEPT ![e] = {}]
    /\ Goto(e, "served")
    /\ UNCHANGED <<shared, ask, want, via, todo, buf, meta, body>>

(* The environment **********************************************************)

\* An event that is over makes room for another.
Release(e) ==
    /\ pc[e] \in Ended
    /\ Goto(e, "idle")
    /\ ask' = [ask EXCEPT ![e] = None]
    /\ want' = [want EXCEPT ![e] = None]
    /\ via' = [via EXCEPT ![e] = "GET"]
    /\ todo' = [todo EXCEPT ![e] = {}]
    /\ buf' = [buf EXCEPT ![e] = Zeroes]
    /\ meta' = [meta EXCEPT ![e] = NoMeta]
    /\ body' = [body EXCEPT ![e] = <<>>]
    /\ UNCHANGED <<shared, trim>>

\* The browser terminates the worker: module state and every handler are gone.
Kill ==
    /\ "kill" \in Faults
    /\ activated
    /\ cfg' = None /\ digReady' = "none" /\ running' = "none" /\ mem' = <<>>
    /\ pc' = [e \in Events |-> "idle"]
    /\ ask' = [e \in Events |-> None]
    /\ want' = [e \in Events |-> None]
    /\ via' = [e \in Events |-> "GET"]
    /\ todo' = [e \in Events |-> {}]
    /\ buf' = [e \in Events |-> Zeroes]
    /\ meta' = [e \in Events |-> NoMeta]
    /\ body' = [e \in Events |-> <<>>]
    /\ trim' = [e \in Events |-> {}]
    /\ UNCHANGED <<activated, wasmCache, contentCaches, tip>>

\* The owner of the store commits a generation.
Commit ==
    /\ "commit" \in Faults
    /\ tip' \in Generations \ {tip}
    /\ UNCHANGED <<activated, cfg, digReady, running, wasmCache, mem, contentCaches, local>>

-----------------------------------------------------------------------------
Startup(e) == ConfigArrives(e) \/ ConfigFails(e)

Resolving(e) ==
    \/ DigUnavailable(e) \/ InvalidUrn(e) \/ NoStore(e)
    \/ MemoryHit(e) \/ MemoryMiss(e) \/ PersistentHit(e) \/ PersistentMiss(e)

Fetching(e) ==
    \/ FirstWindow(e) \/ (\E w \in Windows : NextWindow(e, w))
    \/ GetFails(e) \/ PostFails(e)

Responding(e) == Refuse(e) \/ RespondWhole(e) \/ RespondStream(e)

Reading(e) == PullChunk(e) \/ PullEnd(e) \/ Cancel(e)

Saving(e) ==
    \/ PersistPut(e) \/ PersistSweep(e) \/ (\E at \in trim[e] : PersistTrim(e, at))
    \/ PersistFails(e)

LoadWasm == WasmFromCache \/ (\E build \in WasmBuilds : WasmFetched(build)) \/ WasmFails

Next ==
    \/ Activate \/ LoadWasm \/ Kill \/ Commit
    \/ \E e \in Events :
         \/ \E q \in Asks : Intercept(e, q) \/ InterceptUnconfigured(e, q)
         \/ Startup(e) \/ Resolving(e) \/ Fetching(e) \/ Responding(e)
         \/ Reading(e) \/ Saving(e) \/ Release(e)

Spec == Init /\ [][Next]_vars

\* The event loop runs every continuation, and every fetch the browser makes is answered or fails.
\* Nothing makes the page read, ask again, or the browser keep the worker alive.
Fairness ==
    /\ WF_vars(LoadWasm)
    /\ \A e \in Events :
         /\ WF_vars(Startup(e) \/ Resolving(e) \/ Fetching(e) \/ Responding(e))
         /\ WF_vars(Saving(e))

FairSpec == Spec /\ Fairness

-----------------------------------------------------------------------------
TypeOK ==
    /\ activated \in BOOLEAN
    /\ cfg \in Configs \cup {None}
    /\ digReady \in {"none", "pending", "ok", "failed"}
    /\ running \in {"none", "pinned", "other"}
    /\ wasmCache \in {"none", "pinned", "other"}
    /\ mem \in Seq(Entries)
    /\ contentCaches \in [ContentCacheNames -> Seq(Entries)]
    /\ tip \in Generations
    /\ pc \in [Events -> PCs]
    /\ ask \in [Events -> AllAsks \cup {None}]
    /\ want \in [Events -> Wants \cup {None}]
    /\ via \in [Events -> {"GET", "POST"}]
    /\ todo \in [Events -> SUBSET Windows]
    /\ buf \in [Events -> Buffers]
    /\ meta \in [Events -> Metas]
    /\ body \in [Events -> Bodies]
    /\ trim \in [Events -> SUBSET CacheKeys]

\* A 200 answer to a read pinned to a root carries, chunk by chunk, only what the store published
\* for that key under that root: whatever the network answers, whichever cache it comes from,
\* whatever an older worker left behind (the fail-closed gate of serveUrn).
PinnedAuthentic ==
    \A e \in Events :
        pc[e] \in Status200 /\ want[e].at.root # Latest
            => AllOf(body[e], want[e].at.key, want[e].at.root)

\* What outlives the worker in dig-content-v2 is pinned, whole and authentic: a "latest" read, a
\* refused read, a broken or a cancelled stream leave nothing there.
PersistedAuthentic ==
    \A i \in DOMAIN ContentCache :
        LET entry == ContentCache[i]
        IN  /\ entry.at.root # Latest
            /\ Whole(entry.body)
            /\ AllOf(entry.body, entry.at.key, entry.at.root)

Intact(at, chunks) ==
    /\ \A i \in DOMAIN chunks : chunks[i].key = at.key
    /\ at.root # Latest => Whole(chunks)

\* A body that ended without an error is of the key that was asked for and, when the read is
\* pinned, is the whole resource; the same holds of everything the in-memory cache will answer
\* with.  No truncated or cancelled read of a pinned resource passes for a short file.
NothingTruncated ==
    /\ \A e \in Events :
           pc[e] \in {"served"} \cup Persisting => Intact(want[e].at, body[e])
    /\ \A i \in DOMAIN mem : Intact(mem[i].at, mem[i].body)

\* Both caches stay bounded while handlers interleave: memory always, Cache Storage up to the
\* writes whose sweep is still to come.  Holds while no sweep is lost to a kill or a failure.
CachesBounded ==
    /\ Len(mem) <= CACHE_MAX
    /\ Len(ContentCache) <= CONTENT_CACHE_MAX + Cardinality({e \in Events : pc[e] \in {"sweep", "trim"}})

\* The one way in which a failing Cache Storage ends a read: it failed the look into the wasm cache.
WasmCacheFailed == digReady = "failed" /\ "storage" \in Faults

\* With a truthful network whose POST path answers, on an active domain, a read of something the
\* store published, under the right salt, is never refused or cut, however often the GET path fails
\* and wherever the content cache does; it is rejected only while the memoised wasm load is one that
\* the Cache Storage has failed; and what is served is whole.
PublishedIsServed ==
    \A e \in Events :
        /\ pc[e] = "served" => Whole(body[e])
        /\ pc[e] \in {"notFound", "broken"} \/ (pc[e] = "rejected" /\ ~WasmCacheFailed)
            => want[e].salt # StoreSalt \/ want[e].at.root \in Roots \ Generations

\* Every intercepted request gets its response, or an error, or dies with the worker.
RequestsSettle == \A e \in Events : pc[e] \in Pending ~> pc[e] \notin Pending

\* Chunk 0 stands for all (sw.js:576-583): once the 200 of a pinned read is committed, nothing breaks
\* its stream but chunk lengths that are wrong after the first one; those no proof covers.
PinnedStreamsHold ==
    \A e \in Events :
        pc[e] = "broken" /\ RootIsPinned(want[e].at.root) => meta[e].lens = "badLater"

\* How a request looks from outside: a read begins once its reference is resolved.
askedFor == [e \in Events |-> IF want[e] = None THEN None ELSE want[e].at]
OutcomeOf(e) ==
    CASE pc[e] \in {"idle", "config", "ready"} -> "idle"
      [] pc[e] \in {"served"} \cup Persisting -> "done"
      [] pc[e] \in {"broken", "cancelled"} -> "cut"
      [] pc[e] \in {"notFound", "invalid", "rejected"} -> "refused"
      [] OTHER -> "reading"
outcome == [e \in Events |-> OutcomeOf(e)]

\* The worker keeps the promise of VerifiedRead: a body only ever grows, by authentic chunks; it ends
\* well only when it is whole, and a refusal comes before any byte.
Promise == INSTANCE VerifiedRead WITH
    Readers <- Events, asked <- askedFor, given <- body, outcome <- outcome, Pieces <- LastChunk + 1

ImplementsVerifiedRead == Promise!Spec
=============================================================================
