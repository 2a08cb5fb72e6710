# Verification of on.dig.net

`on.dig.net` serves the content of DIG stores on `<label>.on.dig.net`. A Lambda resolves the label
to a store and a root, CloudFront caches its answer, a loader page registers a service worker, and
the service worker reads, verifies, decrypts and caches the store's resources in the browser. A
second Lambda watches the chain and invalidates the edge. This directory holds TLA+ modules of
that code, TLC runs over small instances, and TLAPS proofs.

Paths are relative to the repository. `PROJECT.json` lists runs, findings, hazards, theorems, and
for every definition the source lines it stands for.

## 1. Inventory

| part | source | state | operations | neighbours | what is hard | what makes it correct |
|---|---|---|---|---|---|---|
| Service worker | `assets/sw.js` | `CFG`, `digReady`, memory cache, Cache Storage (`dig-wasm-v1`, `dig-content-v2`), one chain of awaits per fetch event | activate, ensureDig, serveUrn, stream pull, persist and sweep | page (fetch events, stream reads), resolver (`config.json`), `rpc.dig.net`, wasm | handlers interleave at every await; the browser kills the worker anywhere; the network is not trusted | a pinned read is authentic, whole, or refused before a status is committed; nothing else is persisted; what is published is served; requests settle |
| Range fetch | `assets/sw.js` | window counter, lanes, one buffer per attempt | plan, claim, land, fail, fall back | `rpc.dig.net` over GET and POST | `Promise.all` stops no lane; the abandoned attempt overlaps its retry | the buffer handed out is the ciphertext and is final |
| URN and URL parsing | `assets/sw.js`, `assets/dig-embed.js` | none | parseDigUrn, splitQuery, fetch listener | | two copies that must agree; query versus key | one URN names one resource everywhere |
| Watcher | `src/watcher.rs`, `src/bin/watcher.rs`, `infra/watcher.tf` | its ledger table | scan, ledger get, lineage walk, decide, ledger put, invalidate | DynamoDB, coinset.org, CloudFront | the chain moves during a walk; ticks overlap, die, and fail half way | a live store is not recorded as melted; every move is purged |
| Resolver | `src/lib.rs`, `src/domain.rs`, `src/bin/bootstrap.rs` | none (reads DynamoDB) | host and label parsing, custom hosts, domain status, loader, config, HEAD | edge, DynamoDB | a failed read looks like an unknown domain; pointer and row are read one after the other | an answer fits its request; a pin is that of the host's domain |
| Edge | `infra/cloudfront.tf` | cached answers by host, path and method | fill, expire, invalidate | resolver, watcher | a fill that races an invalidation | answers are not older than their bound, and not another viewer's |
| Loader | `assets/loader.html` | `digurn`, `__digShellInert`, the painted card | fetch config, show status, hand over a URN | resolver, embed | an answer later than the snippet's patience | never blank; a status stays painted |
| Embed: reading | `assets/dig-embed.js` | memoised wasm, `CACHE`, one chain of awaits per read | readResource | `rpc.dig.net`, wasm | overlapping reads; windows in the order the server dictates | the same promise as the worker's |
| Embed: page | `assets/dig-embed.js` | tier, interceptor, overlay, elements, reload flag | boot, register, reload, fall back, swap, rewrite, follow a link | loader or host page, worker, storage | timers, reloads and failures in any order | boot settles; loading means loading; what was started is shown; what is swapped in is rewritten |
| dig-client | `assets/dig_client.js`, wasm | none | verifyInclusion, deriveKey, decryptChunk | worker, embed | vendored | relied on, not checked |
| Rollout | `publish-assets.sh`, `scripts/` | objects in the bucket | upload order, hash check | edge, worker | a worker with the hash of another wasm | every published worker finds its wasm |

Components and their status are in `PROJECT.json`; hazards are listed there at their lines.

## 2. Modules

| module | models | role |
|---|---|---|
| `DigContent` | roots, ciphertext, proof, chunks | shared vocabulary; what wasm and network promise |
| `ServiceWorker` | `assets/sw.js` | one action per stretch between two awaits |
| `ServiceWorkerLatest` | | adds which generations were current during each read |
| `PlaintextCache` | `CACHE` of `sw.js` and of `dig-embed.js` | the bounded map, shared by both readers |
| `WindowedRead` | what a fetch promises | abstract specification |
| `RangeFetch` | `fetchVerified` of `sw.js` and what it calls | implements `WindowedRead` |
| `VerifiedRead` | what reading a resource promises | abstract specification, implemented by `ServiceWorker` and `EmbedRead` |
| `EmbedRead` | `readResource` of `dig-embed.js` and what it calls | implements `VerifiedRead` |
| `EmbedPage` | `dig-embed.js` from `boot` on, the script of `loader.html` | one action per stretch between timers, events and awaits |
| `UrnText` | URN parsing and relative references, both copies | operators over token sequences; states are inputs |
| `Edge` | resolver and CloudFront | one action per read, answer, fill and expiry |
| `Watcher` | both watcher files | one action per request of a tick |
| `MC*` | | instances for TLC |
| `ContentLemmas` | | lemmas on `DigContent` and `PlaintextCache` for both readers |
| `ServiceWorkerProofs`, `RangeFetchProofs`, `EmbedReadProofs`, `EmbedPageProofs`, `UrnTextProofs`, `EdgeProofs`, `WatcherProofs` | | theorems about the module of that name |

`EmbedRead` and `ServiceWorker` build on `DigContent` and `PlaintextCache`; `EmbedPage` takes a read to
end well or badly, which is what `EmbedRead` says of it; `ServiceWorker` takes of a fetch what
`WindowedRead` promises; `Edge` takes an invalidation at any time, the watcher's or none.

### DigContent

Bytes are abstracted to their provenance: a window holds what the store published for a key under a
root, or `Garbage`. The proof binds all windows to a root but does not name the resource; a chunk
opens under the key of its resource, and that key is the same in every generation. Hence the two
gates are both needed, and a latest read, which has only the second one, can mix generations.
`Spread` says which windows a chunk lies in, so that chunks may straddle windows. All generations of
a resource have the same layout. Roots keep their canonical form and whether they were written in it;
`CanonicalOrLatest` is `canonicalizeRoot(root) || "latest"`.

### ServiceWorker

`pc[e]` is the await at which the handler of event `e` stands:

| `pc` | where in the code |
|---|---|
| `config` | the fetch of `config.json` in `ensureDig` |
| `ready` | `await digReady` |
| `lookup` | `await matchContentCache` |
| `first`, `rest` | the first and the other requests of `fetchVerified` |
| `gate` | from the proof to chunk 0 in `serveUrn` (no await in between) |
| `stream` | a 200 is out, and the page pulls chunks |
| `put`, `sweep`, `trim` | the three awaits of `putContentCache` |
| `served`, `broken`, `cancelled`, `notFound`, `invalid`, `rejected` | the ends |

`want[e]` holds the local constants of `serveUrn` (resolved once, before the later awaits);
`cfg`, `digReady`, `mem` are the module's `let`s; `contentCaches` and `wasmCache` survive `Kill`.
`Complete` is what `whenDone` sets off. The parallel windows land in any order here; that this is
what the fan-out does is the subject of `RangeFetch`. The environment answers truthfully unless
`Faults` says otherwise: `forge` (any bytes, metadata and POST offsets), `get`, `post`, `config`,
`wasm`, `storage`, `kill`, `commit`. `storage` fails every look into Cache Storage: that of a read
(`PersistentMiss`), which counts as a miss, and that of the wasm load at `sw.js:284`, which stands in no
`try` and rejects `digReady` (`WasmFails`); the rejected promise is kept until the worker dies. For
`VerifiedRead` a read begins once its reference is resolved
(`MemoryMiss`), and is done while it is being persisted.

### RangeFetch

Bytes are counted in units and a unit is its own position, so the reassembled ciphertext is right
exactly when the buffer is the identity. `lane[p][l]` is the window that lane `l` of the attempt over
path `p` awaits; both attempts exist side by side because no lane is stopped. `WindowedRead` is what
the caller sees: bytes land, the read is delivered once, when all are there; a failed GET attempt
starts over; only a failed POST attempt is a failed read. `Read == INSTANCE WindowedRead WITH ...`
maps the buffer of the awaited attempt to the set of units in place.

### EmbedRead

Not the worker's code under another name: windows are fetched one after the other, at the offset that
the last reply named, over POST and without a retry; the last proof and the first chunk lengths of the
replies count; all chunks are decrypted before any byte is handed out; a failed wasm load clears the
memoised promise. `pc[r]` is `wasm` (awaiting `loadDigClient`), `fetch` (awaiting a window), `gate` (the
synchronous part from the proof to the cache), `done`, `failed`. Nothing joins overlapping reads of one
resource. The page is on one of three networks: `honest`, `flaky` (requests also fail) or `hostile`
(replies are anything, and another wasm may be sent). `Lengths` is what `decryptChunks` makes of the
lengths: with exactly one it takes the whole ciphertext and compares no sum (`dig-embed.js:517`).
`VerifiedRead` is the promise: what was handed out
is authentic and final, a pinned read that ends well is whole, a refused one gave nothing.

### EmbedPage

`env` is what is fixed: loader shell or another page, whether the snippet is of the page's origin,
whether the browser can run a module worker, the kind of the entry, and who fails. `boot` is where
`boot`/`start`/`runTier1`/`runTier2` stand; `flag` is `dig_sw_reloaded` and outlives `Reload`, which
resets everything else; `cover` is the overlay or the adopted shell; `due` counts the timers that
`swapDocument` has set.

* The worker. `serviceWorker.ready` (`dig-embed.js:787`) resolves when a worker is activating, and its
  `clients.claim()` (`sw.js:55-57`) comes at the end of that. So `activating` is set by `Register`, and
  `Claim` may happen before the check at `dig-embed.js:788`, at any time after it, or never. `Route` is the
  patched `fetch`, `Intercepted` the service worker's own listener: a controlled page that falls back to
  tier 2, or is claimed when it has fallen back, asks that worker for the wasm of the fallback, and the
  worker has no exception for `/dig-client/*`. The wasm that it answers with is not the pinned one, so
  `LoadDig` fails.
* The document. `document.open` and `write` (`swapDocument`) replace the old document with all its elements.
  An element of the new one is `absent`, `unseen`, or `ahead`: the parser has stopped at an external script
  before it, and `Parse` brings it when the script has been loaded, which may be before or after the timer
  of the swap (`Scan`). The observer was given the root element of the host document (`dig-embed.js:731`) and
  sees neither `Parse` nor `Add` in a document that was swapped in (`Observing`).
* What is no document. An image as entry gets a document of its own (`ShowImage`); what `location.href` is set
  to at `dig-embed.js:746` and `866` is saved (`Download`) or shown in the page's place (`Leave`).

### UrnText

Tokens are what the code can tell apart (`?`, `&`, `/`, `:`, `salt=`, hex digits, 64-digit words, other
characters); `Tokens` may be any set that holds them. The loops are functions on rounds or prefixes:
`Rounds(s)[n]` is where `splitQuery` stands after `n` marks, with its renewed index, `Segments(s)[n]` and
`Walk(parts)[n]` are what `split("/")` and `normalizePath` have after `n` tokens and `n` segments. Each is
checked against a description of its result that has no loop;
`Format` writes a URN as `loader.html` does. `resolveRelativeResourceKey` is checked against the rule of
URLs (`Kept`): an empty segment is a segment, which a `..` can undo. The code drops empty segments before it
looks at `..`, so the two differ where a `..` meets an empty segment: from `d/e/f` the URL of `a//..` is
`d/e/a/`, and the key is `d/e`. `KeyIsResolved` excepts these paths, and states the URL's segments without the
empty ones for all others. The behaviours type a text token by token.

### Edge

A request reads the pointer of a custom host (`ReadPointer`) and the row (`ReadRow`) at different times,
and answers later still; `read` in an answer is when its data was read. Either read may fail, and then
counts as absence. `edge` maps cache keys to answers; `Tick` drops what has expired. A 404 is kept for
CloudFront's error minimum (`ErrorAge`) although it says `no-store`, since `cloudfront.tf` sets no
`custom_error_response`. Expired answers are taken to be gone: CloudFront's use of stale answers when the
origin is down is not modelled.

### Watcher

A lineage is a chain of coins by height; `change` holds unspent siblings. `pc[t]` is the request a
tick awaits (`get`, `spent`, `child`, `put`, `invalidate`); `last`, `cursor`, `hops`, `found`,
`needs` are locals of `run_tick` and `current_tip`. `decide_store` is the Rust match. `Moves` is the
environment: with `history` stores have commits before the watcher first looks at them, otherwise it knows
them from the mint on; with `burst` they move at any pace, without it a store rests (`AtRest`: the ledger and
the walks under way have its tip) before it moves again; without `first` it also stays as it is while a tick
that found no ledger entry walks its lineage (`FirstLook`). `Leased` are the domains that come and go, `Busy` the
stores that commit (the others may still be melted); a store leaves one sibling at most. A scan may return
part of the domains. `unpurged` records that a move has had no invalidation yet.

## 3. Runs

Passing runs:

| run | instance | shows |
|---|---|---|
| `sw_hostile` | 1 event, 2 keys, 2 generations and an unpublished root, 2 windows, 2 chunks, every fault, configurations that name no store among others | types; pinned reads authentic; the persistent cache authentic; nothing truncated; a pinned 200 breaks only by lengths that are wrong after the first chunk; the worker implements `VerifiedRead`; every request settles |
| `sw_shared` | 2 events, 1 window, 2 chunks, caches of one entry, two configurations, forged answers | the gate when handlers share `CFG` and the caches; the bounds of both caches |
| `sw_published` | 2 events, right and wrong salts, published and unpublished roots, GET and storage faults, kills | what is published is served whole, and rejected only by a worker whose one look into the wasm cache the Cache Storage has failed; every request settles |
| `fetch_whole` | 2 lanes, windows of 1 and 2 units, lengths 0 to 7, an edge with other bytes | reassembly, finality, termination and the measure behind it, a lane out for whoever waits, refinement of `WindowedRead` |
| `embed_read` | 2 readers, 3 references, 2 windows, 2 chunks, three networks, commits | authenticity also out of the cache; an orderly cache; what is published is read; reads settle; refinement of `VerifiedRead` |
| `embed_page` | the loader and other pages, capable browsers or not, a worker that claims the page early, late or never, a parser that stops half way, 1 asset, 2 links, every kind of entry and failure | types, the number of timers and polls among them; never blank; loading means loading; boot goes forward and settles; what was started is shown, unless a worker controls the page without showing it |
| `urn_text` | 4 beginnings of a URN with up to 6 tokens, relative references of up to 6 tokens | the query is the first that qualifies; parse and format round-trip; a reference leads to the segments of its URL without the empty ones, unless a `..` undoes an empty one |
| `edge` | 2 subdomains, 1 custom host, 5 targets, rows of every status that change at any time, failing reads | answers fit their request and host, and are fresh; HEAD agrees with config.json |
| `watch_paced` | 2 stores, one that commits and one whose domain comes and goes and that may only be melted, 2 overlapping ticks, siblings, commits during a first look, scans and chain reads that fail, lost ledger writes, failing invalidations, kills | no false melt, ledger near the tip; a move is forgotten only with the tick that owed its invalidation, or by a first look; every other move is purged |

Runs that find a violation, each of a sentence of the repository quoted under `findings`:

| run | what happens |
|---|---|
| `sw_latest` | a latest read is answered from memory after a commit |
| `watch_history` | the first look at a store with one commit takes it for melted, because the successor of the launcher is itself spent and is not listed; for a store that is known it takes two commits between two ticks |
| `embed_late` | what the parser brings after the one pass of the swap's timer, or a script adds later, is never rewritten, since the observer looks at the old root (`dig-embed.js:762` says that it covers later nodes) |

The passing runs leave out what they do on purpose, and adding it shows why:

* `get`, `error`, `history` or `burst` in the `Faults` of `watch_paced` violates `LedgerNearTip`. An
  unreadable ledger restarts the walk at the launcher, whose successor is long spent, and so does a first look
  at a store with history; an answer of coinset that is an error object has no `coin_records` and is read as
  "no child" (`bin/watcher.rs:101`). What is left of the property then is proved as
  `OnlyDistanceIsMistakenForMelting`.
* What `watch_paced` does not leave out, `ForgottenWithItsTick` names, and `EveryMoveIsPurged` excepts. A tick
  that dies, or whose invalidation fails, has written the ledger before, and the next tick sees no change. A
  tick that found no ledger entry takes the coin at which its walk ends for the baseline and does not
  invalidate, although another tick may have recorded the coin before it and the store moved in between:
  `watcher.rs:90` says that "a store this watcher has never checked before cannot have gone stale"; this one
  was checked, by another tick.
* Two overlapping ticks invalidate twice for one move, both having read the ledger before either wrote.
* `kill` or `storage` in `sw_shared` violates `CachesBounded`: a lost sweep leaves the cache one entry
  over its cap until the next put.
* A commit between two windows of a latest read mixes two generations: chunk 0 opens, the 200 is out, and
  a later chunk breaks the stream. `PinnedStreamsHold` is about pinned reads for that reason, and it too
  excepts chunk lengths that are wrong after the first: no proof covers them, chunk 0 opens, and the stream
  of a pinned read breaks after its 200. The comment at `sw.js:582` calls a failing chunk past chunk 0
  "unreachable via adversarial input", for either kind of read.
* `PublishedIsServed` excepts a worker whose look into the wasm cache has failed. `sw.js:284` awaits
  `cache.match` outside of any `try`, so that a Cache Storage which is unavailable at that moment rejects every
  request until the worker dies, although the network would have answered; the fetch a few lines below it is
  what the function is there to fall back to.
* `PublishedIsRead` and `ReadsSettle` leave out the hostile network: it can refuse, and by naming offsets
  in a circle it keeps a read of tier 2 going for ever.
* `StartedIsShown` has an exception: tier 1 that fails on a controlled page, or a worker that claims the page
  when tier 2 has begun (`EmbedPage`, above).
* In a browser without module service workers `detectTier` chooses tier 2, and `StartedIsShown` holds by it:
  the site is shown. `loader.html:31-33` says something else of such a browser, that the snippet shows "an
  honest message" in it.
* `a//..` (`UrnText`, above): a reference in which a `..` undoes an empty segment leads elsewhere than its URL.
* `foreign` bytes on a GET attempt that succeeds are delivered; only the gate of `ServiceWorker`
  stops them.
* `CFG` may be fetched twice by concurrent first requests and the second answer replaces the first:
  `sw_shared` serves two configurations for that reason, and the gate holds all the same.
* While the POST attempt runs, lanes of the failed GET attempt are still fetching, so the requests in
  flight can exceed `MAX_PARALLEL_RANGES`.
* `HeadAgreesWithConfig` is about one time and one row. What viewers see may differ: config.json is kept
  for 30 s, HEAD is not.

### Bounds, and why they are enough

* One hostile handler meets every combination of answers because the network is not constrained; what
  a second handler adds is shared state, and that is `sw_shared`, with one window to keep it small.
  Two windows suffice for bytes to disagree, two chunks for a stream to break after its first chunk,
  `CACHE_MAX` of 1 for every insertion to evict. The theorems of `ServiceWorkerProofs` hold for any
  number of each.
* `fetch_whole` covers zero, less than a window, exactly one, one more, and more windows than lanes, for
  both sizes; `Land` looks at other lanes only through `next` and whether they returned.
* `embed_read`: two readers are enough to overlap on one reference and on the cache; `Exposed` lets one of
  them read on the hostile network, since readers meet only in `dig` and `cache`. A cache of 2 entries
  and 3 references evicts. `ForgedMetas` has the right lengths and a prefix.
* `embed_page`: `MaxPolls` is 1 instead of 80 (the URN comes before, between and after the polls);
  `MaxTimers` 2 and two links let a navigation start before the timer of the last swap fires, and two
  documents be read at once. Timers and links are alike. `embed_late` needs one of each, and only a page that
  takes the snippet from elsewhere (`MCPlain`), with a network that does not fail.
* `urn_text`: `MaxTail` 6 holds two marks, two parameters and a hex digit in every order, which is all
  that `splitQuery` keeps apart, and two `..` that outnumber the segments before them.
* `edge`: a clock of 3 with `ConfigAge` 1, `ShellAge` 3 and `Latency` 1 lets an answer be read, stored
  one tick later and served until it expires; `Until` {1} puts the end of a reservation between them. One
  request at a time, since requests meet only in `edge`: what a second would store while the first is
  under way, the first stores too, and answers computed before an invalidation are stored after it. One
  domain changes (`Unsteady`) and the viewers ask for five targets (`Asked`), which hold every pair that
  a wrong cache key would merge.
* Two ticks are enough for one to overwrite the other; a third would repeat what the second does. In
  `watch_paced` `MaxHeight` 2 allows a commit after the mint and then a melt, so that the second move is found
  from a ledger that the first has brought up to date, or that a slow first look has set back; the second
  store adds only what ticks owe for another store, and therefore does not commit (`Busy`). Of the domains one
  has to come and go (`Leased`), or no store would ever leave a tick. `MAX_LINEAGE_HOPS` is 3 instead of 20 (2
  in `watch_history`): a first look gets past one move and meets the limit after two; with 2 it would give up
  before it could take a move for its baseline. One sibling for a store: a tick looks at the children of one
  coin at a time.
* `SYMMETRY` over events is used in `sw_shared`, which checks invariants only.

### Fairness

`ServiceWorker!Fairness`: weak fairness of the wasm load, and per event of the steps up to the
response and of persisting. The event loop runs every continuation, and the browser answers or fails
every fetch it makes. Pulls, cancellation, new requests, kills and activation get none: the page may
stop reading. `RangeFetch!Fairness`: weak fairness per lane, same reason. `EmbedRead!Fairness`: weak
fairness of the wasm load and per read; new reads get none. `EmbedPage!Fairness`: weak fairness of boot,
of the loader's fetch (which is answered or fails), of the wasm load, of timers, of each read and of the
script that a parser waits for (`Parse`); nobody has to set a URN, add an element or click, and a worker that
`ready` waits for may claim the page or not.
`Watcher!Fairness`: weak
fairness per tick slot, since EventBridge starts ticks for ever and Lambda runs or ends them; and no
failure lasts for ever, except that of the writes to the ledger: from some time on every step of a tick
`RunsWell`, which is to say that the scan returns all pages, the invalidation works, and no step is a failed
read of the chain, or the death of a tick, that could not also be a read that succeeds or a tick's own end. The
last half matters: a read that found nothing new changes the same variables as one that failed, and must not
be excluded with it. Commits, melts, domain changes and kills get no fairness.

`sw_hostile`, `sw_published`, `fetch_whole`, `embed_read`, `embed_page`, `embed_late` and `watch_paced` run under
fairness; the counterexample of `embed_late` is one in which everything that has to happen has happened.

`CHECK_DEADLOCK FALSE` stands where the system really rests: a fetch ends (`fetch_whole`), a page has
been shown (`embed_page`, `embed_late`), a text is typed (`urn_text`), the clock has reached its bound (`edge`).

## 4. Proofs

`ServiceWorkerProofs` proves, for all constants that satisfy `ContentAssumption` and
`WorkerAssumption` (any number of events, keys, roots, windows, chunks, any faults):
`TypeCorrect`, `PinnedReadsAuthentic`, `PersistedContentAuthentic`, `NothingIsTruncated`,
`PinnedStreamsAreWhole`, and those named further down.

The properties are not inductive. What a `persistent` hit serves depends on what was put there, that
on what the stream held, that on what the gate saw, that on the wasm that ran. The invariant `IInv`
adds: only the pinned build ever runs or is persisted (`PinnedWasm`); a handler past `ready` has the
wasm and its resolved request (`Control`); while a pinned body is being streamed its whole buffer is
of its key and root, its root is a published one, its salt the store's, and it has broken only if its
lengths are wrong after the first chunk (`Answer`); every memory entry is of its key and, if pinned, whole
and of its root, and every persisted entry is pinned as well (`CachesFaithful`). The hinge is
`AdmittedIsProven`: a proof gives one key for all windows, chunk 0 gives the key that was asked for, so
the two agree. Initially the current cache is empty; whatever is in the old one is never looked up, with
or without the purge.

It also proves `ServiceWorkerImplementsVerifiedRead`. To the invariant it adds `Silent`: no
chunk is handed out before a 200. Every step then treats every handler in one of five ways (`Treated`),
and in each the abstract reader has a step: a body only ever gets an authentic chunk more, or the handler
is over.

`WatcherProofs` proves, for any number of stores, domains and overlapping ticks, and lineages of any length:

* `WatcherTypeCorrect`, from `WatcherAssumption` alone.
* `LedgerStaysNearTip`, under `Paced`: no history, no bursts, no error objects taken for answers, a readable
  ledger. Ticks may die and everything else may fail. `LedgerNearTip` is not inductive: that a child is found
  follows from where the walk is, and that from where the ledger was. `AllNear` says that the ledger of a live
  store names its tip or the coin before it, and so does the cursor of every tick that reads it; a tick that
  found its coin spent stands one behind. Each part of `Paced` is necessary, as said above.
* `OnlyDistanceIsMistakenForMelting`, without error objects but with history, bursts, an unreadable ledger and
  every other fault: what the code gets wrong, and only that. A tick takes a live store for melted only if it
  asked for the successors of a coin at least two commits behind the tip. Its invariant, `AllReal`: the coin
  that the ledger names and the coin a walk has reached exist, and the latter is spent once it was found to
  be; its successor then exists, and is unspent unless there is another one after it.
* `MovesAreForgottenWithTheirTick`, with no hypothesis on the faults: what `EveryMoveIsPurged` rests on. A step lets
  a store be forgotten (`Lapses`) only in the ways that `ForgottenWithItsTick` names. A move spends the coin
  that the ledger names, so a later tick will notice it; a tick that overwrites that name with a
  newer one owes an invalidation unless it was a first look; and what a tick owes it owes until it invalidates
  or dies, through the other stores of its list.

`EmbedReadProofs` proves, from `ContentAssumption` and `EmbedAssumption`, for any number of overlapping
reads: `EmbedTypeCorrect`, `PinnedEmbedReadsAuthentic`, `EmbedCacheOrderly`, and
`EmbedReadImplementsVerifiedRead`, the refinement. `PinnedAuthentic` is not inductive, because a hit
hands out what the cache holds. `IInv` adds: only the pinned build runs, and every read past the load of
the wasm runs it (`PinnedWasm`); a read that has not ended well has handed out nothing (`Progress`);
every entry of the cache is of its key, and whole and of its root when it is pinned. `AdmittedIsFaithful`
is the gate: as in the service worker, the proof gives one key for all windows and an opened chunk gives
the key that was asked for. For the refinement every step leaves each reader alone, begins, ends or goes
on with one reference (`EveryoneTreated`), and whoever is not idle afterwards has got on from nothing
(`GotOn`). `EmbedCacheOrderly` needs `RememberOrderly`: `rememberInMemory` evicts before it inserts and
overwrites in place.

`EdgeProofs` proves, from `EdgeAssumption`, for any hosts, number of requests and ages:
`EdgeTypeCorrect`, `EdgeAnswersFit`, `EdgePinsOwn` and `EdgeAnswersFresh`. What a viewer gets may be what
another request left at the edge, so the invariant speaks of the entries (`EntryInv`): each fits its key,
is younger than its max-age, and tells of a row that was read at most `Latency` before it was stored; and
of the requests (`UnderWay`): each looks at the row of its own domain, and the clock does not leave it
behind. `ConfigAge` must be positive, as the 30 s of the code are.

`EdgeHeadAgreesWithConfig` needs no more than the types: `HeadAgrees` compares the two functions over every row and
every time.

`ServiceWorkerProofs` proves two more properties of the service worker, each under a hypothesis that its
run has too.

* `CachesStayBounded`, where no sweep is lost (`SweepsComplete`: neither `kill` nor `storage` among the
  faults; a run with either violates the property). The bound is not inductive: a sweep computed its
  deletions from a cache that others have changed since. `Swept` says, for every set of trimming handlers,
  how many keys are left when these have made their deletions: no more than the cap and one for each of
  the other sweepers. With the empty set that is the property. A put adds at most one key and one sweeper;
  a sweep makes a trimmer of its handler, with what overflows to delete. `Events` must be finite.
* `PublishedContentIsServed`, where answers are true and POST works (`Truthful`: at most `get`, `storage` and
  `kill` among the faults, every configuration that of an active domain). `Honest` adds to the invariant
  that both caches hold whole entries only, that `digReady` has failed only if Cache Storage can
  (`WasmCacheFailed`, the exception of the property), and of every handler (`OnCourse`)
  that the windows that have landed are the truth, with true metadata, so that the gate and every chunk open
  unless the reader's salt is wrong or the root was never published (`TruthOpens`).

`RangeFetchProofs` proves, from `FetchAssumption` alone, for every length of ciphertext, size of window and
number of lanes, with any failures: `FetchTypeCorrect`, `FetchReassembles`, `FetchResultIsFinal` (an action
property) and `FetchImplementsWindowedRead`. Lanes share the counter `next` and outlive their attempt, so the
invariant says three things: what has landed is in its place (`Placed`); an attempt has done nothing before its
first reply, and POST comes last (`Fresh`); and in the attempt that is awaited every unit that is not in place is
of a window that a lane awaits or will still claim, no lane returning before all are claimed (`Accounted`).
When all lanes have returned, that leaves no unit out. The buffer of the other attempt is another one, whence
finality.

`PublishedIsAlwaysRead` (in `EmbedReadProofs`) has no hypothesis: on the honest network, `OnCourse` says that the
windows before the next request hold the truth and that the metadata are complete from the first reply on;
`TruthIsAdmitted` is the gate read the other way. Commits do not matter, because a read of latest is excused.

`EmbedPageProofs` proves, from `PageAssumption`, for any assets, links and timers: `PageTypeCorrect`,
`ShellIsNeverBlank` and `LoadingIsTrue`. The type of `due` is itself a claim, that no more timers are set than
`MaxTimers` and the links allow; `TimersBounded` counts the documents being read with them, each of which
will set one. It made two assumptions explicit: the links are finitely many, and `MaxTimers` is positive
(with no timer allowed the first swap would exceed the bound). `BeforeTier2` (no read, timer or element before tier
2), `Untold` (who was told nothing still polls or gave up) and `ShellAtRest` (a shell has no links to follow) tie
cover, boot and reads together; the other two properties need all three.

`UrnTextProofs` proves, from `TextAssumption`, for texts of any length over any tokens: `QueryIsFound`,
`ParsingIsStable`, `KeysAreResolved`. A loop needs induction, and the library's induction theorems take a
predicate, which the provers cannot instantiate; so it is stated for sets of numbers (`Inductive`, from
`Least`, the well-ordering of the naturals), and `Recursion` gives the function that a loop with a given
start and given steps is.

* `splitQuery`: the loop knows (`Knows`) that no mark before the one it is at begins the query, and that its
  remembered parameter is the next one from some earlier place on. `TestIsRight` turns this into the test the
  code makes, since an index that lies behind has been renewed. Each round moves to a later mark or has left
  the loop, so that as many rounds as there are tokens are enough.
* `RoundTrip`: what was parsed is a store and perhaps a root, a key that begins with no slash and holds no
  mark that begins a query, and perhaps a salt of hex digits (`Refs`); what the loader writes from such parts
  has its first slash, its first colon and the first mark that qualifies where the parser looks for them.
* `normalizePath`: after `n` segments the stack holds, in their order, the names that stand (`Stands`): those
  from which on the `..` never outnumber the names. A `..` takes away the last of them, because of the names
  after one that stands exactly as many are undone as there are `..`. `KeptStands` compares this with the rule
  of URLs: a name that the `..` outnumber although the segments hold out is one with an empty segment after it,
  and the last such segment would be undone.

### The safety half of liveness

Fairness and ENABLED are out of the prover's reach, so the leads-to properties are only model-checked. Two
things that they rest on are safety, and are proved for all constants:

* Whoever waits is waited on. `WaitsAreAlwaysServed` (a handler of the worker: configuration, `digReady`,
  windows, evictions), `FetchIsAwaited` (a lane of the awaited attempt is out, also while those of the other
  one return and fail), `EmbedWaitsAreServed` (the memoised load, which a failure clears and takes its waiters
  with it). The worker keeps a failed `digReady` and the snippet forgets one; each is right only together with
  what its waiters do.
* Nothing goes round in circles. `RequestsGoForward`, `FetchMakesProgress`, `EmbedReadsAdvance` and
  `BootGoesForward` give each activity a measure (`ToDo`) in natural numbers that every step of its own
  lowers and no step of another raises. The measure of a request counts the fallback from GET to POST and the
  windows of both; that of a fetch the windows unclaimed and awaited of both attempts; that of a read of
  `dig-embed.js` the windows to come, where `next_offset` is true; that of boot the stages, the polls and the
  one reload that the flag allows.

Those of the fetch and of the page are checked by `fetch_whole` and `embed_page` as well; those of the two
readers (`WaitsAreServed`, `RequestsAdvance`, `ReadAdvances`) are stated in the modules that prove them, and
the runs keep to the leads-to properties that they support. In the same way the types of `RangeFetch`,
`EmbedRead`, `Edge` and `Watcher` are proved and no run repeats them.

What is left to TLC is that the step which somebody waits for is enabled and, by fairness, taken.

Only model-checked: the liveness properties (`RequestsSettle`, `FetchSettles`, `ReadsSettle`,
`BootSettles`, `StartedIsShown`, `EveryMoveIsPurged`). The safety half of `EveryMoveIsPurged` is
`ForgottenWithItsTick`.

## 5. Not modelled

Text other than URNs and references: headers, content types and MIME guesses, JSON, base64, percent
escapes in request URLs, label validation. Cryptography: hashing, AES-GCM-SIV and merkle paths appear as
what they guarantee. The second store that a URN may name. A service worker update while the old worker
still serves, and a registered worker that never activates. `XMLHttpRequest` objects that are reused,
object URLs and their revocation. `Access-Control` and CSP. Several points of presence at the edge, and
its use of stale answers when the origin fails. Uploads and vendor checks, which have no state to
explore. The parts marked `not_modelled` in `PROJECT.json`.

Seen on the way and stated by no property, because nothing says what is wanted, or because it lies outside
of what is modelled: two invalidations within one second have the same `CallerReference`
(`bin/watcher.rs:196`); a URN of another store without a root inherits the root of the configured one
(`sw.js:786`); a malformed escape throws in the fetch listener (`sw.js:891`); of two links followed at
once the document that is read last is shown (`dig-embed.js:748`); an element whose read failed is never
tried again (`dig-embed.js:681`); a reused `XMLHttpRequest` keeps what was defined on it
(`dig-embed.js:651`); `serviceWorker.ready` has no time limit (`dig-embed.js:787`).

## 6. Plan

Done: the service worker, its fetch, the watcher, both halves of the embed snippet, the loader, URN text,
the resolver and its edge; every safety invariant and every action property of the passing runs proved,
among them the safety halves of liveness; the three refinements (both readers of `VerifiedRead`, the fetch
of `WindowedRead`).

Left: the three hazards that have no property, since no document says what is wanted (`sw.js:604`,
`sw.js:797`, `dig-embed.js:599`); the second store of a URN; several points of presence at the edge.
