----------------------------- MODULE WindowedRead -----------------------------
(***************************************************************************)
(* What fetching a ciphertext promises to the handler that awaits it, and  *)
(* all that ServiceWorker assumes of it: the bytes of one attempt land in  *)
(* any order and the read is delivered once, when all of them are there;   *)
(* a failed GET attempt starts over, from nothing, as a POST attempt; only *)
(* the failure of a POST attempt is the failure of the read.               *)
(***************************************************************************)
EXTENDS Naturals

VARIABLES
    length,   \* bytes of the ciphertext, in units
    attempt,  \* "GET" or "POST"
    landed,   \* units of the ciphertext that are in place
    outcome   \* "reading", "delivered" or "failed"

vars == <<length, attempt, landed, outcome>>

Units == 0 .. (length - 1)

Init ==
    /\ length \in Nat
    /\ attempt \in {"GET", "POST"}
    /\ landed = {}
    /\ outcome = "reading"

\* Some bytes land; the read is over with the last of them.
Land ==
    /\ outcome = "reading"
    /\ landed \subseteq landed' /\ landed' \subseteq Units
    /\ outcome' \in {"reading", "delivered"}
    /\ outcome' = "delivered" => landed' = Units
    /\ UNCHANGED <<length, attempt>>

StartOver ==
    /\ outcome = "reading" /\ attempt = "GET"
    /\ attempt' = "POST" /\ landed' = {}
    /\ UNCHANGED <<length, outcome>>

Fail ==
    /\ outcome = "reading" /\ attempt = "POST"
    /\ outcome' = "failed" /\ landed' = {}
    /\ UNCHANGED <<length, attempt>>

Next == Land \/ StartOver \/ Fail

Spec == Init /\ [][Next]_vars
=============================================================================
