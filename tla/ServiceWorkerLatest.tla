------------------------- MODULE ServiceWorkerLatest -------------------------
(***************************************************************************)
(* ServiceWorker with a history variable: which generations were the       *)
(* latest one at some moment since a fetch event arrived.                  *)
(***************************************************************************)
EXTENDS ServiceWorker

VARIABLE current

LatestInit == Init /\ current = [e \in Events |-> {}]

Observe ==
    current' = [e \in Events |->
                   IF pc'[e] = "idle" THEN {}
                   ELSE (IF pc[e] = "idle" THEN {tip} ELSE current[e]) \cup {tip'}]

LatestSpec == LatestInit /\ [][Next /\ Observe]_<<vars, current>>

\* SPEC.md:404: the browser resolves "latest" live via rpc.dig.net on every read, so what a latest
\* read answers was the latest generation at some moment of that read.
LatestIsLive ==
    \A e \in Events :
        pc[e] \in Status200 /\ want[e].at.root = Latest
            => \A i \in DOMAIN body[e] : body[e][i].root \in current[e]
=============================================================================
