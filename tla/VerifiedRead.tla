----------------------------- MODULE VerifiedRead -----------------------------
(***************************************************************************)
(* What reading a DIG resource promises to the page, whichever program     *)
(* reads it (the service worker or dig-embed.js): bytes that were handed   *)
(* out are never taken back or replaced, they are bytes that the store     *)
(* published for the key that was asked for, of the pinned generation when *)
(* the reference has one, and a pinned read that ends well ends whole.  A  *)
(* refused read hands out nothing.  Nothing is promised of the generation  *)
(* or the length of a read of "latest".                                    *)
(***************************************************************************)
EXTENDS Naturals, Sequences, SequencesExt

CONSTANTS
    Readers,
    Latest,      \* the mutable root
    Pieces       \* pieces of a whole resource

VARIABLES
    asked,    \* what each reader asked for: a key and a root
    given,    \* the pieces it was handed out
    outcome   \* "idle", "reading", "done", "cut" or "refused"

vars == <<asked, given, outcome>>

Outcomes == {"idle", "reading", "done", "cut", "refused"}

Authentic(piece, at) == piece.key = at.key /\ (at.root # Latest => piece.root = at.root)

Init ==
    /\ outcome = [r \in Readers |-> "idle"]
    /\ given = [r \in Readers |-> <<>>]

\* From what a reader had, it gets on; it may end with that.
GetOn(r, had) ==
    /\ IsPrefix(had, given'[r])
    /\ \A i \in DOMAIN given'[r] : Authentic(given'[r][i], asked'[r])
    /\ outcome'[r] \in {"reading", "done", "cut", "refused"}
    /\ outcome'[r] = "done" => (asked'[r].root # Latest => Len(given'[r]) = Pieces)
    /\ outcome'[r] = "refused" => given'[r] = <<>>

Step(r) ==
    \/ outcome[r] = "idle" /\ GetOn(r, <<>>)
    \/ outcome[r] = "reading" /\ asked'[r] = asked[r] /\ GetOn(r, given[r])
    \/ outcome'[r] = outcome[r] /\ given'[r] = given[r] /\ asked'[r] = asked[r]
    \/ outcome'[r] = "idle" /\ given'[r] = <<>>

\* Several readers may move in one step: one failure may be the failure of all who wait.
Next == \A r \in Readers : Step(r)

Spec == Init /\ [][Next]_vars
=============================================================================
