------------------------------ MODULE MCEmbedRead ------------------------------
(* A small instance of EmbedRead for TLC. *)
EXTENDS EmbedRead, TLC

CONSTANTS g1, g2, gx, k1, k2, salt1

MCRoots == {g1, g2, gx}
MCGenerations == {g1, g2}

\* Chunk 0 lies inside window 0, chunk 1 straddles both windows.
MCSpread == (0 :> {0}) @@ (1 :> {0, 1})

Ref(k, root, salt) == [key |-> k, root |-> [root |-> root, text |-> "plain"], salt |-> salt]

MCRefs == {Ref(k1, g1, salt1), Ref(k1, Blank, salt1), Ref(k2, g2, salt1)}

MCForgedMetas == [proof : BOOLEAN, lens : {"exact", "prefix"}]
===============================================================================
