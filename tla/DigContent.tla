----------------------------- MODULE DigContent -----------------------------
(***************************************************************************)
(* What a DIG resource is to the programs that read it.                    *)
(*                                                                         *)
(* A store publishes every resource once per generation (a "root").  The   *)
(* ciphertext of a resource travels in windows (byte ranges) and is        *)
(* encrypted in AEAD chunks whose boundaries need not be window            *)
(* boundaries.  A merkle proof binds the WHOLE ciphertext to a root; the   *)
(* decryption key is derived from the store, the resource key and the      *)
(* salt, and is the same in every generation.                              *)
(*                                                                         *)
(* Bytes are abstracted to their provenance: a window holds either the     *)
(* bytes that the store published for a key in a generation or something   *)
(* else (Garbage: zeroes, a decoy, a forgery).  Every generation of a      *)
(* resource has the same windows and chunks.                               *)
(***************************************************************************)
EXTENDS Naturals, Sequences

CONSTANTS
    Keys,         \* resource keys of the store
    Roots,        \* concrete generation roots a read may be pinned to (canonical form)
    Generations,  \* the roots under which the store really published its resources
    Latest,       \* the mutable "latest" alias, canonical form
    Blank,        \* a root that is the empty string once canonicalized
    None,         \* JavaScript null / undefined
    Salts,        \* salts a reader may present
    StoreSalt,    \* the salt of the store: one of Salts, or None for a public store
    LastWindow,   \* a ciphertext has the windows 0..LastWindow
    LastChunk,    \* and the AEAD chunks 0..LastChunk
    Spread,       \* Spread[c]: the windows that hold bytes of chunk c
    Garbage       \* bytes the store never published for anything

Windows == 0 .. LastWindow
Chunks == 0 .. LastChunk

ASSUME ContentAssumption ==
    /\ Generations \subseteq Roots
    /\ Latest \notin Roots
    /\ Blank \notin Roots \cup {Latest}
    /\ None \notin Roots \cup {Latest, Blank} \cup Salts
    /\ StoreSalt \in Salts \cup {None}
    /\ LastWindow \in Nat /\ LastChunk \in Nat
    /\ Spread \in [Chunks -> (SUBSET Windows) \ {{}}] /\ 0 \in Spread[0]
    /\ Garbage \notin [key : Keys, root : Generations]

-----------------------------------------------------------------------------
(* Roots as they are written, and their one canonical form. *)

\* A root as configuration spells it: "plain" text is already canonical, "decorated" text carries
\* white space, capitals or an 0x prefix.
RawRoots == [root : Roots \cup {Latest, Blank}, text : {"plain", "decorated"}]

\* Mutant: an empty root is not replaced by "latest".
CanonicalOrBlank(raw) == IF raw = None THEN Latest ELSE raw.root

\* canonicalizeRoot drops the decoration; an empty result falls back to "latest".
CanonicalOrLatest(raw) == IF raw = None \/ raw.root = Blank THEN Latest ELSE raw.root

RootIsPinned(root) == root \notin {Latest, Blank}

-----------------------------------------------------------------------------
(* Ciphertext, proof and decryption. *)

Published(k, g) == [key |-> k, root |-> g]

Plaintexts == [key : Keys, root : Generations]
Bytes == Plaintexts \cup {Garbage}
Buffers == [Windows -> Bytes]
Zeroes == [w \in Windows |-> Garbage]

\* What the reply says about the length of the resource and of its chunks: the truth; a first
\* boundary that is wrong (also the absent header of a resource of several chunks); wrong
\* boundaries after a right first one; lengths that do not add up to the ciphertext; or a total
\* length and chunk lengths that agree with each other but stop after chunk 0.
LensKinds == {"exact", "badFirst", "badLater", "badSum", "prefix"}

\* The metadata a reply carries next to the bytes: is the proof the genuine one, and the lengths.
Metas == [proof : BOOLEAN, lens : LensKinds]

\* verifyInclusion: the leaf is a hash of the whole ciphertext, so every window must be of one
\* published resource of that root.  It does not say WHICH resource.
VerifyInclusion(buf, meta, root) ==
    /\ meta.proof /\ meta.lens # "prefix"
    /\ \E k \in Keys : \A w \in Windows : buf[w] = Published(k, root)

\* decryptChunk authenticates one chunk under the key derived from (resource key, salt).
ChunkOpens(buf, meta, k, salt, c) ==
    /\ salt = StoreSalt
    /\ meta.lens \notin {"badFirst", "badSum"}
    /\ meta.lens \in {"badLater", "prefix"} => c = 0
    /\ \E g \in Generations : \A w \in Spread[c] : buf[w] = Published(k, g)

\* What an opened chunk decrypts to.
Plain(buf, c) == buf[CHOOSE w \in Spread[c] : TRUE]

\* The answer of rpc.dig.net to a read of k under a root, when it answers truthfully: the pinned
\* generation, the generation that is latest now, or a decoy.
Truth(k, root, tip) ==
    IF root = Latest THEN Published(k, tip)
    ELSE IF root \in Generations THEN Published(k, root) ELSE Garbage

\* A decrypted resource, chunk by chunk; whole when no chunk is missing.
Bodies == Seq(Plaintexts)
Whole(body) == Len(body) = LastChunk + 1
AllOf(body, k, g) == \A i \in DOMAIN body : body[i] = Published(k, g)
=============================================================================
