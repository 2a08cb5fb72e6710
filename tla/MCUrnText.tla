------------------------------- MODULE MCUrnText -------------------------------
(* A small instance of UrnText for TLC. *)
EXTENDS UrnText

\* With and without a root, spelled with capitals and 0x, empty, and as no URN is.
MCHeads == {<<"id">>, <<"ID", ":", "0x", "ROOT">>, <<"id", ":">>, <<"id", ":", "latest">>}

MCTokens ==
    {"id", "ID", "root", "hex", "ROOT", "0x", "latest", ":", "/", "?", "&", "salt=", "x", ".", "a", "#", "d", "e", "f",
     "index.html"}
MCUrnTokens == {"/", "?", "&", "salt=", "hex", "x"}
MCPathTokens == {"/", ".", "a", "?", "#"}

\* The document is not in the topmost directory.
MCEntryKey == <<"d", "/", "e", "/", "f">>
===============================================================================
