-------------------------------- MODULE Watcher --------------------------------
(***************************************************************************)
(* src/watcher.rs and src/bin/watcher.rs: the scheduled Lambda that        *)
(* notices that the lineage of a served store has moved on chain, and      *)
(* invalidates the two dynamic paths of the edge.                          *)
(*                                                                         *)
(* One tick scans the domains, then takes the stores one by one: it reads  *)
(* its own ledger, walks the lineage through coinset.org one request at a  *)
(* time, decides, and writes the ledger; in the end it invalidates at most *)
(* once.  Every request is a step of its own.  Nothing keeps ticks apart:  *)
(* the schedule delivers at least once, a tick may take the whole minute   *)
(* to the next one, and Lambda runs a failed one again.  They die at the   *)
(* timeout, and share nothing but the ledger.                              *)
(*                                                                         *)
(* A store's lineage is a chain of coins: the launcher (height 0), which   *)
(* is spent by the mint, and one coin per commit, the last one unspent     *)
(* unless the store was melted.  A spend may also leave an even-amount     *)
(* sibling ("change") that is no part of the lineage.                      *)
(***************************************************************************)
EXTENDS Naturals

CONSTANTS
    Stores,            \* store ids, in the order of the BTreeSet
    Domains,           \* registered domains
    pinned_store_id,   \* [Domains -> Stores]
    Leased,            \* the domains that come and go
    Busy,              \* the stores that are committed to; the others may only be melted
    Ticks,             \* invocations of the Lambda that may overlap
    MAX_LINEAGE_HOPS,  \* bound on the walk of one read
    MaxHeight,         \* bound on the commits of a store
    MELTED_SENTINEL,   \* what the ledger records of a melted store
    None,              \* no ledger entry; a chain that could not be read
    Faults             \* subset of FaultKinds

\* "history": stores may have commits when the watcher first runs; "burst": they commit at any pace;
\* "first": also while a tick takes its first look at them; "error": coinset answers with a JSON
\* error; the others: that request fails, or the Lambda dies.
FaultKinds ==
    {"history", "burst", "first", "error", "scan", "get", "chain", "put", "invalidate", "kill"}

Coins == [height : 0 .. (MaxHeight + 1), lineage : BOOLEAN]
Coin(h) == [height |-> h, lineage |-> TRUE]
Change(h) == [height |-> h, lineage |-> FALSE]
Launcher == Coin(0)

\* Reserved, pending, expired and revoked domains are all the same to the watcher.
DomainStatus == {"active", "other"}

ASSUME WatcherAssumption ==
    /\ Stores \subseteq Nat
    /\ pinned_store_id \in [Domains -> Stores]
    /\ Leased \subseteq Domains /\ Busy \subseteq Stores
    /\ MAX_LINEAGE_HOPS \in Nat \ {0} /\ MaxHeight \in Nat \ {0}
    /\ {MELTED_SENTINEL, None} \cap Coins = {} /\ MELTED_SENTINEL # None
    /\ Faults \subseteq FaultKinds

VARIABLES
    height,    \* height[s]: the last coin of the lineage
    melted,    \* melted[s]: that coin is spent and has no successor
    change,    \* change[s]: heights of the unspent siblings
    status,    \* status[d]: the status of the domain row
    ledger,    \* ledger[s]: the watcher's own table
    unpurged,  \* unpurged[s]: the lineage moved and no invalidation has happened since
    pc,        \* what each tick awaits
    todo,      \* stores it has not dealt with
    last,      \* last_known of the store at hand
    cursor,    \* the coin its walk has reached
    hops,      \* and after how many hops
    found,     \* what it observed: a tip, MELTED_SENTINEL, or None if unavailable
    needs      \* needs_invalidation

chain == <<height, melted, change>>
tick == <<pc, todo, last, cursor, hops, found, needs>>
vars == <<chain, status, ledger, unpurged, tick>>

PCs == {"off", "get", "spent", "child", "put", "invalidate"}

TipOf(s) == Coin(height[s])

\* BTreeSet iterates in order.
Current(t) == CHOOSE s \in todo[t] : \A other \in todo[t] : s <= other

-----------------------------------------------------------------------------
(* The pure core of src/watcher.rs. *)

\* Mutant: the tip of a known store is never new.
DecideByPresence(known, observed) ==
    CASE known = MELTED_SENTINEL              -> "AlreadyMelted"
      [] known = None /\ observed \in Coins   -> "Baseline"
      [] known # MELTED_SENTINEL /\ observed = MELTED_SENTINEL -> "Melted"
      [] OTHER                                -> "Unchanged"

decide_store(known, observed) ==
    CASE known = MELTED_SENTINEL                                -> "AlreadyMelted"
      [] known # MELTED_SENTINEL /\ observed = None            -> "Hold"
      [] known # MELTED_SENTINEL /\ observed = MELTED_SENTINEL -> "Melted"
      [] known = None /\ observed \in Coins                      -> "Baseline"
      [] known \in Coins /\ observed = known                     -> "Unchanged"
      [] known \in Coins /\ observed \in Coins \ {known}         -> "Changed"

\* The distinct stores of the domains that the resolver serves.
active_store_ids(domains) == {pinned_store_id[d] : d \in {x \in domains : status[x] = "active"}}

-----------------------------------------------------------------------------
(* What coinset.org answers about a coin of the store s. *)

Spent(s, coin) ==
    IF coin.lineage THEN coin.height < height[s] \/ melted[s] ELSE coin.height \notin change[s]

\* get_coin_records_by_parent_ids with include_spent_coins: false.
UnspentChildren(s, coin) ==
    {c \in {Coin(coin.height + 1), Change(coin.height + 1)} :
        /\ coin.lineage
        /\ c.lineage => c.height <= height[s]
        /\ ~Spent(s, c)}

\* Mutant: whichever child comes first, whatever its amount.
FirstChild(s, coin) ==
    LET children == UnspentChildren(s, coin)
        even == {c \in children : ~c.lineage}
    IN  IF children = {} THEN None
        ELSE IF even # {} THEN CHOOSE c \in even : TRUE ELSE CHOOSE c \in children : TRUE

\* The child with the odd amount if there is one, else any child, else None.
unspent_child(s, coin) ==
    LET children == UnspentChildren(s, coin)
        odd == {c \in children : c.lineage}
    IN  IF children = {} THEN None
        ELSE IF odd # {} THEN CHOOSE c \in odd : TRUE ELSE CHOOSE c \in children : TRUE

-----------------------------------------------------------------------------
Init ==
    /\ height \in [Stores -> IF "history" \in Faults THEN 1 .. MaxHeight ELSE {1}]
    /\ melted = [s \in Stores |-> FALSE]
    /\ change = [s \in Stores |-> {}]
    /\ status \in {f \in [Domains -> DomainStatus] : \A d \in Domains \ Leased : f[d] = "active"}
    /\ ledger = [s \in Stores |-> None]
    /\ unpurged = [s \in Stores |-> FALSE]
    /\ pc = [t \in Ticks |-> "off"]
    /\ todo = [t \in Ticks |-> {}]
    /\ last = [t \in Ticks |-> None]
    /\ cursor = [t \in Ticks |-> None]
    /\ hops = [t \in Ticks |-> 0]
    /\ found = [t \in Ticks |-> None]
    /\ needs = [t \in Ticks |-> FALSE]

(* The chain ****************************************************************)

Reading(t, s) == pc[t] \in {"spent", "child", "put"} /\ Current(t) = s

\* A store at rest: the ledger knows its tip and so does every tick that is reading it.  At the pace
\* of a store that rests before each commit, a tick never has more than one commit to discover.
AtRest(s) ==
    /\ ledger[s] = TipOf(s)
    /\ \A t \in Ticks : Reading(t, s) => cursor[t] = TipOf(s)

\* The tick found no ledger entry: whatever coin its walk ends at becomes the baseline.
FirstLook(t, s) == pc[t] = "spent" /\ Current(t) = s /\ last[t] = None

\* One spend of a lineage may leave a sibling.
Siblings(s) ==
    {change[s]} \cup (IF s \in Busy /\ change[s] = {} THEN {{height[s] + 1}} ELSE {})

Moves(s) ==
    /\ ~melted[s]
    /\ "burst" \in Faults \/ AtRest(s)
    /\ "first" \in Faults \/ \A t \in Ticks : ~FirstLook(t, s)
    /\ \E unspent \in Siblings(s) : change' = [change EXCEPT ![s] = unspent]
    /\ unpurged' = [unpurged EXCEPT ![s] = TRUE]
    /\ UNCHANGED <<status, ledger, tick>>

\* The owner commits a generation.
Commit(s) ==
    /\ Moves(s)
    /\ s \in Busy /\ height[s] < MaxHeight
    /\ height' = [height EXCEPT ![s] = @ + 1]
    /\ UNCHANGED melted

\* The owner melts the store.
Melt(s) ==
    /\ Moves(s)
    /\ melted' = [melted EXCEPT ![s] = TRUE]
    /\ UNCHANGED height

\* The hub activates or takes down a domain.
SetStatus(d) ==
    /\ d \in Leased
    /\ status' \in {[status EXCEPT ![d] = new] : new \in DomainStatus \ {status[d]}}
    /\ UNCHANGED <<chain, ledger, unpurged, tick>>

(* One tick *****************************************************************)

\* The scan gives up at the first page that fails and goes on with what it has.
Start(t) ==
    /\ pc[t] = "off"
    /\ \E seen \in IF "scan" \in Faults THEN SUBSET Domains ELSE {Domains} :
          /\ todo' = [todo EXCEPT ![t] = active_store_ids(seen)]
          /\ pc' = [pc EXCEPT ![t] = IF active_store_ids(seen) = {} THEN "off" ELSE "get"]
    /\ UNCHANGED <<chain, status, ledger, unpurged, last, cursor, hops, found, needs>>

\* On to the next store; after the last one, invalidate if need be.
NextStore(t, need) ==
    /\ todo' = [todo EXCEPT ![t] = @ \ {Current(t)}]
    /\ pc' = [pc EXCEPT ![t] =
                 IF todo[t] # {Current(t)} THEN "get" ELSE IF need THEN "invalidate" ELSE "off"]
    /\ needs' = [needs EXCEPT ![t] = need]
    /\ last' = [last EXCEPT ![t] = None]
    /\ cursor' = [cursor EXCEPT ![t] = None]
    /\ hops' = [hops EXCEPT ![t] = 0]
    /\ found' = [found EXCEPT ![t] = None]

\* What run_tick does with an observation: it writes the ledger next, or passes on.
Observe(t, observed) ==
    IF decide_store(last[t], observed) \in {"Hold", "Unchanged"}
    THEN NextStore(t, needs[t])
    ELSE /\ found' = [found EXCEPT ![t] = observed]
         /\ pc' = [pc EXCEPT ![t] = "put"]
         /\ UNCHANGED <<todo, last, cursor, hops, needs>>

\* A ledger that cannot be read has no entry.  A melted store is passed over.
Get(t) ==
    /\ pc[t] = "get"
    /\ \E known \in {ledger[Current(t)]} \cup (IF "get" \in Faults THEN {None} ELSE {}) :
          IF known = MELTED_SENTINEL
          THEN NextStore(t, needs[t])
          ELSE /\ last' = [last EXCEPT ![t] = known]
               /\ cursor' = [cursor EXCEPT ![t] = IF known = None THEN Launcher ELSE known]
               /\ pc' = [pc EXCEPT ![t] = "spent"]
               /\ UNCHANGED <<todo, hops, found, needs>>
    /\ UNCHANGED <<chain, status, ledger, unpurged>>

\* get_coin_record_by_name: an unspent coin is the tip.
ReadSpent(t) ==
    /\ pc[t] = "spent"
    /\ IF Spent(Current(t), cursor[t])
       THEN pc' = [pc EXCEPT ![t] = "child"] /\ UNCHANGED <<todo, last, cursor, hops, found, needs>>
       ELSE Observe(t, cursor[t])
    /\ UNCHANGED <<chain, status, ledger, unpurged>>

\* A spent coin without a child is a melt; otherwise one hop on, unless that was the last one.
ReadChild(t) ==
    /\ pc[t] = "child"
    /\ \E child \in {unspent_child(Current(t), cursor[t])}
                       \cup (IF "error" \in Faults THEN {None} ELSE {}) :
          IF child = None THEN Observe(t, MELTED_SENTINEL)
          ELSE IF hops[t] + 1 = MAX_LINEAGE_HOPS THEN Observe(t, None)
          ELSE /\ cursor' = [cursor EXCEPT ![t] = child]
               /\ hops' = [hops EXCEPT ![t] = @ + 1]
               /\ pc' = [pc EXCEPT ![t] = "spent"]
               /\ UNCHANGED <<todo, last, found, needs>>
    /\ UNCHANGED <<chain, status, ledger, unpurged>>

\* The chain cannot be read.
ChainFails(t) ==
    /\ "chain" \in Faults
    /\ pc[t] \in {"spent", "child"}
    /\ Observe(t, None)
    /\ UNCHANGED <<chain, status, ledger, unpurged>>

\* Mutant: the flag is that of the store at hand.
PutForgetsOthers(t) ==
    /\ pc[t] = "put"
    /\ \/ ledger' = [ledger EXCEPT ![Current(t)] = found[t]]
       \/ "put" \in Faults /\ UNCHANGED ledger
    /\ NextStore(t, decide_store(last[t], found[t]) \in {"Changed", "Melted"})
    /\ UNCHANGED <<chain, status, unpurged>>

\* Nobody looks at whether the write succeeded.
Put(t) ==
    /\ pc[t] = "put"
    /\ \/ ledger' = [ledger EXCEPT ![Current(t)] = found[t]]
       \/ "put" \in Faults /\ UNCHANGED ledger
    /\ NextStore(t, needs[t] \/ decide_store(last[t], found[t]) \in {"Changed", "Melted"})
    /\ UNCHANGED <<chain, status, unpurged>>

\* One CreateInvalidation for everything; a failure is logged.
Invalidate(t) ==
    /\ pc[t] = "invalidate"
    /\ \/ unpurged' = [s \in Stores |-> FALSE]
       \/ "invalidate" \in Faults /\ UNCHANGED unpurged
    /\ pc' = [pc EXCEPT ![t] = "off"]
    /\ needs' = [needs EXCEPT ![t] = FALSE]
    /\ UNCHANGED <<chain, status, ledger, todo, last, cursor, hops, found>>

\* The Lambda reaches its timeout, or crashes.
Kill(t) ==
    /\ "kill" \in Faults
    /\ pc[t] # "off"
    /\ pc' = [pc EXCEPT ![t] = "off"]
    /\ todo' = [todo EXCEPT ![t] = {}]
    /\ last' = [last EXCEPT ![t] = None]
    /\ cursor' = [cursor EXCEPT ![t] = None]
    /\ hops' = [hops EXCEPT ![t] = 0]
    /\ found' = [found EXCEPT ![t] = None]
    /\ needs' = [needs EXCEPT ![t] = FALSE]
    /\ UNCHANGED <<chain, status, ledger, unpurged>>

-----------------------------------------------------------------------------
Watches(t) == Start(t) \/ Get(t) \/ ReadSpent(t) \/ ReadChild(t) \/ ChainFails(t) \/ Put(t)

Next ==
    \/ \E s \in Stores : Commit(s) \/ Melt(s)
    \/ \E d \in Domains : SetStatus(d)
    \/ \E t \in Ticks : Watches(t) \/ Invalidate(t) \/ Kill(t)

Spec == Init /\ [][Next]_vars

\* Nothing fails: the scan returns all pages, the invalidation works, and what looks like a failed
\* read of the chain or like the death of a tick is a read that found nothing new, or a tick's end.
RunsWell(t) ==
    /\ Kill(t) => Watches(t) \/ Invalidate(t)
    /\ Start(t) => todo' = [todo EXCEPT ![t] = active_store_ids(Domains)]
    /\ Invalidate(t) => \A s \in Stores : ~unpurged'[s]
    /\ ChainFails(t) => ReadSpent(t) \/ ReadChild(t)

\* EventBridge starts ticks for ever and Lambda runs them; no failure lasts for ever, but that of the
\* writes to the ledger, which may.
Fairness ==
    /\ \A t \in Ticks : WF_vars(Watches(t) \/ Invalidate(t))
    /\ <>[][\A t \in Ticks : RunsWell(t)]_vars

FairSpec == Spec /\ Fairness

-----------------------------------------------------------------------------
TypeOK ==
    /\ height \in [Stores -> 1 .. MaxHeight]
    /\ melted \in [Stores -> BOOLEAN]
    /\ change \in [Stores -> SUBSET (1 .. (MaxHeight + 1))]
    /\ status \in [Domains -> DomainStatus]
    /\ ledger \in [Stores -> Coins \cup {MELTED_SENTINEL, None}]
    /\ unpurged \in [Stores -> BOOLEAN]
    /\ pc \in [Ticks -> PCs]
    /\ todo \in [Ticks -> SUBSET Stores]
    /\ \A t \in Ticks : todo[t] = {} <=> pc[t] \in {"off", "invalidate"}
    /\ last \in [Ticks -> Coins \cup {None}]
    /\ cursor \in [Ticks -> Coins \cup {None}]
    /\ \A t \in Ticks : cursor[t] = None <=> pc[t] \in {"off", "get", "invalidate"}
    /\ hops \in [Ticks -> 0 .. (MAX_LINEAGE_HOPS - 1)]
    /\ found \in [Ticks -> Coins \cup {MELTED_SENTINEL, None}]
    /\ needs \in [Ticks -> BOOLEAN]

\* A store that is alive is never recorded as melted: the record ends the watching for good.
MeltIsReal == \A s \in Stores : ledger[s] = MELTED_SENTINEL => melted[s]

\* A tick mistakes a live store for a melted one only from afar: the coin whose successors it asked
\* for, of which only the unspent are listed, is at least two commits behind the tip.  Holds at any
\* pace and whatever fails, as long as coinset does not answer with an error object.
MeltsMistakenFromAfar ==
    \A t \in Ticks :
        pc[t] = "put" /\ found[t] = MELTED_SENTINEL =>
            melted[Current(t)] \/ cursor[t].height + 1 < height[Current(t)]

\* While stores rest before each commit, from their first one on, and the ledger can be read and
\* coinset does not answer with an error object, the ledger stays near the tip: a melt it records has
\* happened, and of a live store it names, even when a slow tick overwrites a newer record, a coin of
\* the lineage at most one commit behind, from which the tip can be reached.
LedgerNearTip ==
    \A s \in Stores :
        /\ ledger[s] = MELTED_SENTINEL => melted[s]
        /\ ledger[s] \in Coins /\ ~melted[s]
              => ledger[s].lineage /\ ledger[s].height \in {height[s] - 1, height[s]}

Owes(t) == needs[t] /\ pc[t] # "off"

\* No later tick will notice a move, since the ledger holds the store for melted or names a coin that
\* is unspent, and no tick under way is going to invalidate.
Forgotten(s) ==
    /\ unpurged[s]
    /\ ledger[s] = MELTED_SENTINEL \/ (ledger[s] # None /\ ~Spent(s, ledger[s]))
    /\ \A t \in Ticks : ~Owes(t)

Lineage == {Coin(h) : h \in 0 .. MaxHeight}

\* A move is forgotten only together with a tick that owed the invalidation, when it dies or its one
\* invalidation fails; or by a tick that recorded it at its first look; or because the ledger already
\* held the store for melted or for a sibling of its coins.  No overlap of ticks, no failed read or
\* write and no other store of the same tick can do it.
ForgottenWithItsTick ==
    [][\A s \in Stores : Forgotten(s)' =>
          \/ Forgotten(s)
          \/ \E t \in Ticks : Owes(t) /\ (Kill(t) \/ Invalidate(t))
          \/ \E t \in Ticks : Put(t) /\ Current(t) = s /\ last[t] = None
          \/ (Commit(s) \/ Melt(s)) /\ ledger[s] \notin Lineage]_vars

\* Every move of a store is followed by an invalidation, unless it is forgotten that way or the
\* domains of the store are taken down meanwhile.
EveryMoveIsPurged ==
    \A s \in Stores :
        unpurged[s] ~> ~unpurged[s] \/ Forgotten(s) \/ s \notin active_store_ids(Domains)
=============================================================================
