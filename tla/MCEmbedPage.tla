------------------------------ MODULE MCEmbedPage ------------------------------
(* A small instance of EmbedPage for TLC. *)
EXTENDS EmbedPage

Env(host, sameOrigin, capable, entry, faults) ==
    [host |-> host, sameOrigin |-> sameOrigin, capable |-> capable, entry |-> entry, faults |-> faults]

\* The loader and a self-hosting page in a browser that can do everything and in one that cannot, and
\* pages that take the snippet from elsewhere, with every kind of entry.
MCEnvs ==
    {Env("loader", TRUE, TRUE, "html", f) : f \in SUBSET {"worker", "page"}}
    \cup {Env("loader", TRUE, FALSE, "html", {}), Env("page", TRUE, TRUE, "html", {"worker"})}
    \cup {Env("page", FALSE, TRUE, entry, {"page"}) : entry \in {"html", "image", "other"}}

\* A page that takes the snippet from elsewhere, and a network that does not fail.
MCPlain == {Env("page", FALSE, TRUE, "html", {})}
===============================================================================
