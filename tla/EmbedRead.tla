------------------------------ MODULE EmbedRead ------------------------------
(***************************************************************************)
(* assets/dig-embed.js: readResource, with which a page without a service  *)
(* worker (tier 2) reads, verifies, decrypts and caches resources itself.  *)
(*                                                                         *)
(* It is not the service worker's code: the ciphertext is fetched window   *)
(* after window in the order the server dictates, over POST only and with  *)
(* no second try; all chunks are decrypted before any byte is handed out;  *)
(* a failed wasm load may be repeated.  One action is the code between two *)
(* awaits.  Reads of the same resource may overlap: nothing joins them.    *)
(***************************************************************************)
EXTENDS DigContent, PlaintextCache, FiniteSets, SequencesExt

CONSTANTS
    Readers,      \* reads that may be in flight together
    Exposed,      \* those of them that read on a hostile network too (a bound for TLC)
    Refs,         \* resources that are read
    Networks,     \* subset of NetworkKinds
    ForgedMetas,  \* metadata that a hostile network may send
    WithCommits   \* whether the store commits generations meanwhile

\* An honest network answers, truthfully; a flaky one also fails; a hostile one answers anything.
NetworkKinds == {"honest", "flaky", "hostile"}

CacheKeys == [key : Keys, root : Roots \cup {Latest}]
Entries == [at : CacheKeys, body : Bodies]
AllRefs == [key : Keys, root : RawRoots, salt : Salts \cup {None}]
Wants == [at : CacheKeys, salt : Salts \cup {None}]

\* What is kept of the metadata of the replies; "absent" while no reply had chunk lengths.
Kept == [proof : BOOLEAN, lens : LensKinds \cup {"absent"}]

ASSUME EmbedAssumption ==
    /\ Refs \subseteq AllRefs
    /\ Exposed \subseteq Readers
    /\ Networks \subseteq NetworkKinds
    /\ CACHE_MAX \in Nat \ {0}
    /\ ForgedMetas \subseteq Metas
    /\ WithCommits \in BOOLEAN
    /\ None \notin Wants \cup Windows

VARIABLES
    network,  \* the kind of network the page is on
    tip,      \* the generation that rpc.dig.net resolves "latest" to now
    dig,      \* the memoised promise _dig: "none", "pending" or "ok"
    running,  \* the wasm build that was initialised: "none", "pinned", "other"
    cache,    \* CACHE: decrypted bytes, oldest entry first
    pc,       \* where each call of readResource is
    want,     \* its resolved reference
    window,   \* the window whose offset the next request asks for
    buf,      \* the ciphertext so far
    meta,     \* proof and chunk lengths so far
    body      \* the decrypted resource

local == <<pc, want, window, buf, meta, body>>
vars == <<network, tip, dig, running, cache, local>>

Reading == {"wasm", "fetch", "gate"}
PCs == {"idle", "done", "failed"} \cup Reading

NoMeta == [proof |-> FALSE, lens |-> "absent"]

-----------------------------------------------------------------------------
Init ==
    /\ network \in Networks
    /\ tip \in Generations
    /\ dig = "none" /\ running = "none"
    /\ cache = <<>>
    /\ pc = [r \in Readers |-> "idle"]
    /\ want = [r \in Readers |-> None]
    /\ window = [r \in Readers |-> 0]
    /\ buf = [r \in Readers |-> Zeroes]
    /\ meta = [r \in Readers |-> NoMeta]
    /\ body = [r \in Readers |-> <<>>]

Goto(r, label) == pc' = [pc EXCEPT ![r] = label]

\* Mutant: the generation is left out.
KeyedByResource(at) == [at EXCEPT !.root = Latest]

\* cacheKey: store, root and resource key; a "latest" read has "latest" in it.
CacheKey(at) == at

Resolve(ref) == [at |-> [key |-> ref.key, root |-> CanonicalOrLatest(ref.root)], salt |-> ref.salt]

(* readResource: the cache, then the wasm ***********************************)

MayRead(r) == network = "hostile" => r \in Exposed

Hit(r, ref) ==
    /\ pc[r] = "idle" /\ MayRead(r)
    /\ LET w == Resolve(ref)
       IN  /\ Cached(cache, CacheKey(w.at))
           /\ want' = [want EXCEPT ![r] = w]
           /\ body' = [body EXCEPT ![r] = Lookup(cache, CacheKey(w.at))]
    /\ Goto(r, "done")
    /\ UNCHANGED <<network, tip, dig, running, cache, window, buf, meta>>

Miss(r, ref) ==
    /\ pc[r] = "idle" /\ MayRead(r)
    /\ LET w == Resolve(ref)
       IN  /\ ~Cached(cache, w.at)
           /\ want' = [want EXCEPT ![r] = w]
    /\ dig' = IF dig = "none" THEN "pending" ELSE dig
    /\ Goto(r, IF dig = "ok" THEN "fetch" ELSE "wasm")
    /\ UNCHANGED <<network, tip, running, cache, window, buf, meta, body>>

\* Everyone who awaits the promise goes on with it.
Awaken(label) == pc' = [r \in Readers |-> IF pc[r] = "wasm" THEN label ELSE pc[r]]

\* The fetched build must hash to the pinned SHA-256.
WasmLoads(build) ==
    /\ dig = "pending"
    /\ build = "pinned"
    /\ dig' = "ok" /\ running' = build
    /\ Awaken("fetch")
    /\ UNCHANGED <<network, tip, cache, want, window, buf, meta, body>>

\* Mutant: the promise is forgotten, and nobody is told.
WasmForgotten ==
    /\ network # "honest"
    /\ dig = "pending"
    /\ dig' = "none"
    /\ UNCHANGED <<network, tip, running, cache, local>>

\* Any failure rejects all who wait, and clears the promise: the next read loads again.
WasmFails ==
    /\ network # "honest"
    /\ dig = "pending"
    /\ dig' = "none"
    /\ Awaken("failed")
    /\ UNCHANGED <<network, tip, running, cache, want, window, buf, meta, body>>

WasmBuilds == IF network = "hostile" THEN {"pinned", "other"} ELSE {"pinned"}

(* fetchVerified: one window after the other ********************************)

ReplyProofs == {"none", "genuine", "forged"}
Lenses == LensKinds \cup {"absent"}

\* A reply says where its bytes go and where to go on, unless it is the last; it may bring a proof
\* and the chunk lengths.
Reply(bytes, at, proof, lens, next) ==
    [bytes |-> bytes, at |-> at, proof |-> proof, lens |-> lens, next |-> next]

\* The proof comes with the first window, and the lengths with all.
HonestReplies(r) ==
    LET w == window[r]
    IN  {Reply(Truth(want[r].at.key, want[r].at.root, tip), w, IF w = 0 THEN "genuine" ELSE "none",
               "exact", IF w = LastWindow THEN None ELSE w + 1)}

HostileReplies ==
    {Reply(b, at, proof, lens, next) :
        b \in Bytes, at \in Windows, proof \in ReplyProofs,
        lens \in {m.lens : m \in ForgedMetas} \cup {"absent"}, next \in Windows \cup {None}}

Replies(r) == IF network = "hostile" THEN HostileReplies ELSE HonestReplies(r)

\* Mutant: a reply without a proof erases the one that is there.
KeepLast(m, reply) ==
    [proof |-> reply.proof = "genuine",
     lens |-> IF m.lens = "absent" THEN reply.lens ELSE m.lens]

\* The last proof and the first chunk lengths count.
Keep(m, reply) ==
    [proof |-> IF reply.proof = "none" THEN m.proof ELSE reply.proof = "genuine",
     lens |-> IF m.lens = "absent" THEN reply.lens ELSE m.lens]

Window(r) ==
    /\ pc[r] = "fetch"
    /\ \E reply \in Replies(r) :
          /\ buf' = [buf EXCEPT ![r][reply.at] = reply.bytes]
          /\ meta' = [meta EXCEPT ![r] = Keep(@, reply)]
          /\ window' = [window EXCEPT ![r] = IF reply.next = None THEN @ ELSE reply.next]
          /\ Goto(r, IF reply.next = None THEN "gate" ELSE "fetch")
    /\ UNCHANGED <<network, tip, dig, running, cache, want, body>>

\* The network, the status, an error object, or an offset outside of the buffer.
CallFails(r) ==
    /\ network # "honest"
    /\ pc[r] = "fetch"
    /\ Goto(r, "failed")
    /\ UNCHANGED <<network, tip, dig, running, cache, want, window, buf, meta, body>>

(* The gate, decryptChunks and the cache ************************************)

\* Without chunk lengths, and with exactly one, the whole ciphertext counts as one chunk: what the one
\* length says is not compared with anything.
Lengths(r) ==
    CASE LastChunk = 0 /\ meta[r].lens \in {"absent", "badSum"} -> [meta[r] EXCEPT !.lens = "exact"]
      [] LastChunk > 0 /\ meta[r].lens = "absent"               -> [meta[r] EXCEPT !.lens = "badFirst"]
      [] OTHER                                                  -> meta[r]

\* Only the pinned build is known to check anything.
Verified(r) == running = "pinned" => VerifyInclusion(buf[r], Lengths(r), want[r].at.root)

\* The chunks that the lengths tell of.
Told(r) == IF Lengths(r).lens = "prefix" THEN {0} ELSE Chunks

Opens(r) ==
    \A c \in Told(r) : ChunkOpens(buf[r], Lengths(r), want[r].at.key, want[r].salt, c)

Admitted(r) == (RootIsPinned(want[r].at.root) => Verified(r)) /\ Opens(r)

Decrypted(r) == [i \in 1 .. Cardinality(Told(r)) |-> Plain(buf[r], i - 1)]

\* Mutant: what did decrypt is handed out all the same.
RefuseWithRest(r) ==
    /\ pc[r] = "gate"
    /\ ~Admitted(r)
    /\ Goto(r, "failed")
    /\ body' = [body EXCEPT ![r] = SelectSeq(Decrypted(r), LAMBDA piece : piece # Garbage)]
    /\ UNCHANGED <<network, tip, dig, running, cache, want, window, buf, meta>>

Refuse(r) ==
    /\ pc[r] = "gate"
    /\ ~Admitted(r)
    /\ Goto(r, "failed")
    /\ UNCHANGED <<network, tip, dig, running, cache, want, window, buf, meta, body>>

Accept(r) ==
    /\ pc[r] = "gate"
    /\ Admitted(r)
    /\ body' = [body EXCEPT ![r] = Decrypted(r)]
    /\ cache' = Remember(cache, [at |-> CacheKey(want[r].at), body |-> Decrypted(r)])
    /\ Goto(r, "done")
    /\ UNCHANGED <<network, tip, dig, running, want, window, buf, meta>>

\* The caller has what it wanted, or the rejection.
Release(r) ==
    /\ pc[r] \in {"done", "failed"}
    /\ Goto(r, "idle")
    /\ want' = [want EXCEPT ![r] = None]
    /\ window' = [window EXCEPT ![r] = 0]
    /\ buf' = [buf EXCEPT ![r] = Zeroes]
    /\ meta' = [meta EXCEPT ![r] = NoMeta]
    /\ body' = [body EXCEPT ![r] = <<>>]
    /\ UNCHANGED <<network, tip, dig, running, cache>>

Commit ==
    /\ WithCommits
    /\ tip' \in Generations \ {tip}
    /\ UNCHANGED <<network, dig, running, cache, local>>

-----------------------------------------------------------------------------
LoadDig == (\E build \in WasmBuilds : WasmLoads(build)) \/ WasmFails

GoOn(r) == Window(r) \/ CallFails(r) \/ Refuse(r) \/ Accept(r)

Next ==
    \/ LoadDig \/ Commit
    \/ \E r \in Readers : GoOn(r) \/ Release(r) \/ \E ref \in Refs : Hit(r, ref) \/ Miss(r, ref)

Spec == Init /\ [][Next]_vars

\* The browser answers or fails every fetch it makes, and runs every continuation.
Fairness == WF_vars(LoadDig) /\ \A r \in Readers : WF_vars(GoOn(r))

FairSpec == Spec /\ Fairness

-----------------------------------------------------------------------------
TypeOK ==
    /\ network \in Networks
    /\ tip \in Generations
    /\ dig \in {"none", "pending", "ok"}
    /\ running \in {"none", "pinned", "other"}
    /\ cache \in Seq(Entries)
    /\ pc \in [Readers -> PCs]
    /\ want \in [Readers -> Wants \cup {None}]
    /\ window \in [Readers -> Windows]
    /\ buf \in [Readers -> Buffers]
    /\ meta \in [Readers -> Kept]
    /\ body \in [Readers -> Bodies]

\* Whatever the network answers, the bytes that a read pinned to a root resolves with are the whole
\* resource, as published under that root: also when they come out of the cache, which answers
\* before the gate is reached.
PinnedAuthentic ==
    \A r \in Readers :
        pc[r] = "done" /\ want[r].at.root # Latest
            => Whole(body[r]) /\ AllOf(body[r], want[r].at.key, want[r].at.root)

\* Overlapping reads leave one entry per reference in the cache, no more of them than CACHE_MAX, and
\* every entry is of the key it is found under.
CacheOrderly ==
    /\ Len(cache) <= CACHE_MAX
    /\ \A i, j \in DOMAIN cache : cache[i].at = cache[j].at => i = j
    /\ \A i \in DOMAIN cache : \A c \in DOMAIN cache[i].body : cache[i].body[c].key = cache[i].at.key

\* On an honest network a pinned read of what the store published, under the right salt, does not
\* fail; whoever else is reading.
PublishedIsRead ==
    \A r \in Readers :
        network = "honest" /\ pc[r] = "failed"
            => want[r].salt # StoreSalt \/ want[r].at.root \notin Generations

\* Unless the network is hostile, and then it may send a read from window to window for ever, every
\* read resolves or rejects.
ReadsSettle ==
    \A r \in Readers :
        pc[r] \in Reading /\ network # "hostile" ~> pc[r] \in {"done", "failed"}

\* How a read looks from outside.
askedFor == [r \in Readers |-> IF want[r] = None THEN None ELSE want[r].at]
outcome ==
    [r \in Readers |->
        CASE pc[r] = "idle" -> "idle"
          [] pc[r] = "done" -> "done"
          [] pc[r] = "failed" -> "refused"
          [] OTHER -> "reading"]

\* readResource keeps the promise that the service worker keeps.
Promise == INSTANCE VerifiedRead WITH
    asked <- askedFor, given <- body, outcome <- outcome, Pieces <- LastChunk + 1

ImplementsVerifiedRead == Promise!Spec
=============================================================================
