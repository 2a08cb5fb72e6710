-------------------------------- MODULE MCEdge --------------------------------
(* A small instance of Edge for TLC. *)
EXTENDS Edge, TLC

CONSTANTS alice, bob, custom

MCPointsTo == custom :> alice

\* One custom host and its subdomain, asked in every way that may share an entry, and another one.
MCAsked ==
    [host : {alice}, path : {"/"}, method : Methods]
    \cup [host : {alice, bob, custom}, path : {"/__dig/config.json"}, method : {"GET"}]
===============================================================================
