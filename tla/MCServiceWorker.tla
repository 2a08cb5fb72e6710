--------------------------- MODULE MCServiceWorker ---------------------------
(* Small instances of ServiceWorker for TLC, and the properties they check.   *)
EXTENDS ServiceWorker, TLC

CONSTANTS g1, g2, gx, k1, k2, salt1, salt2

\* g1 and g2 were published, gx is a well-formed root that never was.
MCRoots == {g1, g2, gx}
MCGenerations == {g1, g2}

\* Chunk 0 lies inside window 0, chunk 1 straddles both windows.
MCSpread == (0 :> {0}) @@ (1 :> {0, 1})
MCSpreadOne == (0 :> {0})

PlainRoot(root) == [root |-> root, text |-> "plain"]
Decorated(root) == [root |-> root, text |-> "decorated"]

PathAsk(k) == [kind |-> "path", key |-> k, root |-> None, salt |-> None]
UrnAsk(k, raw, salt) == [kind |-> "urn", key |-> k, root |-> raw, salt |-> salt]
InvalidAsk == [kind |-> "invalid", key |-> k1, root |-> None, salt |-> None]

Pin(raw, salt) == [active |-> TRUE, root |-> raw, salt |-> salt]
Inactive == [active |-> FALSE, root |-> None, salt |-> None]

\* What a worker without the gate may have persisted: plaintext of another generation.
Ungated(at) == <<[at |-> at, body |-> <<Published(k1, g2), Published(k1, g2)>>]>>

(* sw_hostile *)
HostileAsks == {PathAsk(k1), UrnAsk(k2, PlainRoot(g2), None), InvalidAsk}
HostileConfigs == {Pin(Decorated(g1), None), Pin(Decorated(Blank), None), Inactive}
HostileLeftovers == {<<>>, Ungated([key |-> k1, root |-> g1])}

(* sw_shared *)
MCSpreadNarrow == (0 :> {0}) @@ (1 :> {0})
SharedAsks == {PathAsk(k1), UrnAsk(k1, PlainRoot(g2), None)}
SharedConfigs == {Pin(Decorated(g1), None), Pin(None, None)}
SharedLeftovers == {Ungated([key |-> k1, root |-> g1])}
EventSymmetry == Permutations(Events)
Meta(proof, lens) == [proof |-> proof, lens |-> lens]
SharedMetas == {Meta(TRUE, "exact"), Meta(FALSE, "exact"), Meta(TRUE, "badLater")}

(* sw_published *)
PublishedAsks ==
    {PathAsk(k1), UrnAsk(k1, None, salt2)} \cup {UrnAsk(k1, PlainRoot(g), None) : g \in {g1, gx}}
PublishedConfigs == {Pin(Decorated(g1), salt1), Pin(Decorated(Blank), salt1)}

(* sw_torn, sw_latest *)
LatestConfig == Pin(None, None)
LatestAsks == {PathAsk(k1)}
NoLeftovers == {<<>>}
=============================================================================
