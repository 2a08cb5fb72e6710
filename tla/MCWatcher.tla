------------------------------ MODULE MCWatcher ------------------------------
(* Small instances of Watcher for TLC.                                        *)
EXTENDS Watcher, TLC

CONSTANTS d1, d2

\* One store behind one domain; two stores.
OneStore == (d1 :> 1)
TwoStores == (d1 :> 1) @@ (d2 :> 2)
=============================================================================
