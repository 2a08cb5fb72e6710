----------------------------- MODULE WatcherProofs -----------------------------
(***************************************************************************)
(* Proofs about Watcher, for any number of stores, domains and overlapping *)
(* ticks, and lineages of any length.                                      *)
(***************************************************************************)
EXTENDS Watcher, WellFoundedInduction, TLAPS

(* LedgerNearTip is not inductive: that a child is found has to follow     *)
(* from where the walk is, and that it is there from where the ledger was  *)
(* when the walk began.                                                    *)

\* The tip of a lineage and the coin before it.
Near(s) == {Coin(height[s] - 1), Coin(height[s])}

\* The ledger of a live store is near its tip, or has no entry while nothing was committed.
LedgerNear(s) ==
    ~melted[s] => IF ledger[s] = None THEN height[s] = 1 ELSE ledger[s] \in Near(s)

\* So is a tick that reads a live store: if it found its coin spent it is one coin behind, and what
\* it is about to record is the coin where its walk stopped.
TickNear(t, s) ==
    Reading(t, s) /\ ~melted[s] =>
        /\ cursor[t] \in Near(s)
        /\ pc[t] = "child" => cursor[t] = Coin(height[s] - 1)
        /\ pc[t] = "put" => found[t] = cursor[t]

AllNear == (\A s \in Stores : LedgerNear(s)) /\ (\A t \in Ticks, s \in Stores : TickNear(t, s))

\* Stores that rest before each commit, from the first one on, genuine answers, a ledger that can be
\* read.
Paced == {"history", "burst", "error", "get"} \cap Faults = {}

-----------------------------------------------------------------------------
(* Types. *)

\* A tick that is not over has a store at hand.
LEMMA CurrentType ==
    ASSUME TypeOK, NEW t \in Ticks, pc[t] \notin {"off", "invalidate"}
    PROVE  Current(t) \in todo[t] /\ Current(t) \in Stores
<1>1. todo[t] # {} /\ todo[t] \subseteq Stores /\ todo[t] \subseteq Nat
  BY WatcherAssumption DEF TypeOK
<1>2. \E s \in todo[t] : \A other \in todo[t] : s <= other
  <2>1. PICK s \in todo[t] : \A other \in todo[t] : <<other, s>> \notin OpToRel(<, Nat)
    BY <1>1, NatLessThanWellFounded, WFMin
  <2>2. ASSUME NEW other \in todo[t] PROVE s <= other
    <3>1. ~(other < s)
      BY <1>1, <2>1, <2>2 DEF OpToRel
    <3> QED BY <1>1, <3>1
  <2> QED BY <2>2
<1>3. Current(t) \in todo[t]
  BY <1>2 DEF Current
<1> QED BY <1>1, <1>3

LEMMA CoinType ==
    /\ \A h \in 0 .. (MaxHeight + 1) : Coin(h) \in Coins /\ Change(h) \in Coins
    /\ Launcher \in Coins
    /\ MELTED_SENTINEL \notin Coins /\ None \notin Coins /\ MELTED_SENTINEL # None
BY WatcherAssumption DEF Coin, Change, Launcher, Coins

\* A child is a coin.
LEMMA ChildrenType ==
    ASSUME TypeOK, NEW s \in Stores, NEW coin \in Coins
    PROVE  UnspentChildren(s, coin) \subseteq Coins
<1> SUFFICES ASSUME NEW c \in UnspentChildren(s, coin) PROVE c \in Coins
  OBVIOUS
<1>1. height[s] \in 1 .. MaxHeight /\ change[s] \subseteq 1 .. (MaxHeight + 1) /\ MaxHeight \in Nat
  BY WatcherAssumption DEF TypeOK
<1>2. CASE c = Coin(coin.height + 1)
  <2>1. coin.height + 1 <= height[s] /\ coin.height \in Nat
    BY <1>2, <1>1 DEF UnspentChildren, Coin, Coins
  <2> QED BY <1>1, <1>2, <2>1, CoinType
<1>3. CASE c = Change(coin.height + 1)
  <2>1. coin.height + 1 \in change[s] /\ coin.height \in Nat
    BY <1>3, <1>1 DEF UnspentChildren, Change, Coins, Spent
  <2> QED BY <1>1, <1>3, <2>1, CoinType
<1> QED BY <1>2, <1>3 DEF UnspentChildren

LEMMA ChildPicked ==
    ASSUME NEW s \in Stores, NEW coin \in Coins
    PROVE  IF UnspentChildren(s, coin) = {} THEN unspent_child(s, coin) = None
           ELSE unspent_child(s, coin) \in UnspentChildren(s, coin)
<1> DEFINE children == UnspentChildren(s, coin)
           odd == {c \in children : c.lineage}
<1>1. odd # {} => (CHOOSE c \in odd : TRUE) \in children
  OBVIOUS
<1>2. children # {} => (CHOOSE c \in children : TRUE) \in children
  OBVIOUS
<1> QED BY <1>1, <1>2, Zenon DEF unspent_child

LEMMA ChildType ==
    ASSUME TypeOK, NEW s \in Stores, NEW coin \in Coins
    PROVE  unspent_child(s, coin) \in Coins \cup {None}
BY ChildrenType, ChildPicked

\* Passing on to the next store keeps every type.
LEMMA NextStoreType ==
    ASSUME TypeOK, NEW t \in Ticks, pc[t] \notin {"off", "invalidate"},
           NEW need \in BOOLEAN, NextStore(t, need)
    PROVE  /\ todo' \in [Ticks -> SUBSET Stores] /\ pc' \in [Ticks -> PCs]
           /\ \A x \in Ticks : todo'[x] = {} <=> pc'[x] \in {"off", "invalidate"}
           /\ last' \in [Ticks -> Coins \cup {None}] /\ cursor' \in [Ticks -> Coins \cup {None}]
           /\ \A x \in Ticks : cursor'[x] = None <=> pc'[x] \in {"off", "get", "invalidate"}
           /\ hops' \in [Ticks -> 0 .. (MAX_LINEAGE_HOPS - 1)]
           /\ found' \in [Ticks -> Coins \cup {MELTED_SENTINEL, None}]
           /\ needs' \in [Ticks -> BOOLEAN]
<1>1. Current(t) \in todo[t]
  BY CurrentType
<1>2. MAX_LINEAGE_HOPS \in Nat \ {0}
  BY WatcherAssumption
<1>3. ASSUME NEW x \in Ticks PROVE todo'[x] = {} <=> pc'[x] \in {"off", "invalidate"}
  BY <1>1, <1>3 DEF NextStore, TypeOK
<1>4. ASSUME NEW x \in Ticks PROVE cursor'[x] = None <=> pc'[x] \in {"off", "get", "invalidate"}
  BY <1>1, <1>4 DEF NextStore, TypeOK
<1> QED BY <1>1, <1>2, <1>3, <1>4 DEF NextStore, TypeOK, PCs

\* So does an observation.
LEMMA ObserveType ==
    ASSUME TypeOK, NEW t \in Ticks, pc[t] \in {"spent", "child"},
           NEW observed \in Coins \cup {MELTED_SENTINEL, None}, Observe(t, observed),
           UNCHANGED <<chain, status, ledger, unpurged>>
    PROVE  TypeOK'
<1>1. CASE NextStore(t, needs[t])
  <2>1. needs[t] \in BOOLEAN
    BY DEF TypeOK
  <2> HIDE DEF PCs
  <2> QED BY <1>1, <2>1, NextStoreType DEF TypeOK, chain
<1>2. CASE /\ found' = [found EXCEPT ![t] = observed]
           /\ pc' = [pc EXCEPT ![t] = "put"]
           /\ UNCHANGED <<todo, last, cursor, hops, needs>>
  BY <1>2 DEF TypeOK, chain, PCs
<1> QED BY <1>1, <1>2 DEF Observe

LEMMA InitType == Init => TypeOK
BY WatcherAssumption DEF Init, TypeOK, PCs, DomainStatus

LEMMA ChainStepType ==
    ASSUME TypeOK, NEW s \in Stores, Commit(s) \/ Melt(s)
    PROVE  TypeOK'
<1>1. change' \in [Stores -> SUBSET (1 .. (MaxHeight + 1))]
  <2>1. PICK unspent \in Siblings(s) : change' = [change EXCEPT ![s] = unspent]
    BY DEF Commit, Melt, Moves
  <2>2. height[s] + 1 \in 1 .. (MaxHeight + 1)
    BY WatcherAssumption DEF TypeOK
  <2>3. unspent \in SUBSET (1 .. (MaxHeight + 1))
    BY <2>1, <2>2 DEF Siblings, TypeOK
  <2>4. change \in [Stores -> SUBSET (1 .. (MaxHeight + 1))]
    BY DEF TypeOK
  <2> QED BY <2>1, <2>3, <2>4
<1>2. height' \in [Stores -> 1 .. MaxHeight] /\ melted' \in [Stores -> BOOLEAN]
  <2>1. CASE Commit(s)
    <3>1. height[s] + 1 \in 1 .. MaxHeight
      BY <2>1, WatcherAssumption DEF Commit, TypeOK
    <3>2. height' = [height EXCEPT ![s] = height[s] + 1] /\ melted' = melted
      BY <2>1 DEF Commit
    <3> QED BY <3>1, <3>2 DEF TypeOK
  <2>2. CASE Melt(s)
    BY <2>2 DEF Melt, TypeOK
  <2> QED BY <2>1, <2>2
<1>3. unpurged' \in [Stores -> BOOLEAN] /\ UNCHANGED <<status, ledger, tick>>
  BY DEF Commit, Melt, Moves, TypeOK
<1> QED BY <1>1, <1>2, <1>3 DEF TypeOK, tick

\* One step of a tick.
LEMMA TickStepType ==
    ASSUME TypeOK, NEW t \in Ticks, Watches(t) \/ Invalidate(t) \/ Kill(t)
    PROVE  TypeOK'
<1>1. CASE Start(t)
  <2>1. PICK seen \in SUBSET Domains :
          /\ todo' = [todo EXCEPT ![t] = active_store_ids(seen)]
          /\ pc' = [pc EXCEPT ![t] = IF active_store_ids(seen) = {} THEN "off" ELSE "get"]
    BY <1>1 DEF Start
  <2>2. active_store_ids(seen) \subseteq Stores
    BY WatcherAssumption DEF active_store_ids
  <2> QED BY <1>1, <2>1, <2>2 DEF Start, TypeOK, PCs, chain
<1>2. CASE Get(t)
  <2>1. PICK known \in {ledger[Current(t)], None} :
          IF known = MELTED_SENTINEL
          THEN NextStore(t, needs[t])
          ELSE /\ last' = [last EXCEPT ![t] = known]
               /\ cursor' = [cursor EXCEPT ![t] = IF known = None THEN Launcher ELSE known]
               /\ pc' = [pc EXCEPT ![t] = "spent"]
               /\ UNCHANGED <<todo, hops, found, needs>>
    BY <1>2 DEF Get
  <2>2. known \in Coins \cup {MELTED_SENTINEL, None}
    BY <1>2, <2>1, CurrentType DEF Get, TypeOK
  <2>3. CASE known = MELTED_SENTINEL
    <3>1. needs[t] \in BOOLEAN
      BY DEF TypeOK
    <3> QED BY <1>2, <2>1, <2>3, <3>1, NextStoreType DEF Get, TypeOK, chain
  <2>4. CASE known # MELTED_SENTINEL
    BY <1>2, <2>1, <2>2, <2>4, CoinType DEF Get, TypeOK, chain, PCs
  <2> QED BY <2>3, <2>4
<1>3. CASE ReadSpent(t)
  <2>1. CASE Spent(Current(t), cursor[t])
    BY <1>3, <2>1 DEF ReadSpent, TypeOK, chain, PCs
  <2>2. CASE ~Spent(Current(t), cursor[t])
    BY <1>3, <2>2, ObserveType DEF ReadSpent, TypeOK
  <2> QED BY <2>1, <2>2
<1>4. CASE ReadChild(t)
  <2>1. PICK child \in {unspent_child(Current(t), cursor[t]), None} :
          IF child = None THEN Observe(t, MELTED_SENTINEL)
          ELSE IF hops[t] + 1 = MAX_LINEAGE_HOPS THEN Observe(t, None)
          ELSE /\ cursor' = [cursor EXCEPT ![t] = child]
               /\ hops' = [hops EXCEPT ![t] = @ + 1]
               /\ pc' = [pc EXCEPT ![t] = "spent"]
               /\ UNCHANGED <<todo, last, found, needs>>
    BY <1>4 DEF ReadChild
  <2>2. pc[t] = "child" /\ UNCHANGED <<chain, status, ledger, unpurged>>
    BY <1>4 DEF ReadChild
  <2>3. CASE child = None \/ hops[t] + 1 = MAX_LINEAGE_HOPS
    BY <2>1, <2>2, <2>3, ObserveType
  <2>4. CASE child # None /\ hops[t] + 1 # MAX_LINEAGE_HOPS
    <3>1. child \in Coins
      BY <2>1, <2>2, <2>4, CurrentType, ChildType DEF TypeOK, PCs
    <3>2. hops[t] + 1 \in 0 .. (MAX_LINEAGE_HOPS - 1)
      BY <2>4, WatcherAssumption DEF TypeOK
    <3> QED BY <2>1, <2>2, <2>4, <3>1, <3>2 DEF TypeOK, chain, PCs
  <2> QED BY <2>3, <2>4
<1>5. CASE ChainFails(t)
  BY <1>5, ObserveType DEF ChainFails
<1>6. CASE Put(t)
  <2> DEFINE need == needs[t] \/ decide_store(last[t], found[t]) \in {"Changed", "Melted"}
  <2>1. need \in BOOLEAN /\ NextStore(t, need)
    BY <1>6 DEF Put, TypeOK
  <2>2. ledger' \in [Stores -> Coins \cup {MELTED_SENTINEL, None}]
    BY <1>6 DEF Put, TypeOK
  <2> HIDE DEF need
  <2> QED BY <1>6, <2>1, <2>2, NextStoreType DEF Put, TypeOK, chain
<1>7. CASE Invalidate(t)
  BY <1>7 DEF Invalidate, TypeOK, chain, PCs
<1>8. CASE Kill(t)
  BY <1>8, WatcherAssumption DEF Kill, TypeOK, chain, PCs
<1> QED BY <1>1, <1>2, <1>3, <1>4, <1>5, <1>6, <1>7, <1>8 DEF Watches

LEMMA StepType == TypeOK /\ [Next]_vars => TypeOK'
<1> SUFFICES ASSUME TypeOK, [Next]_vars PROVE TypeOK'
  OBVIOUS
<1>1. ASSUME NEW d \in Domains, SetStatus(d) PROVE TypeOK'
  BY <1>1 DEF SetStatus, TypeOK, chain, tick, DomainStatus
<1>2. CASE UNCHANGED vars
  BY <1>2 DEF vars, chain, tick, TypeOK
<1> QED BY <1>1, <1>2, ChainStepType, TickStepType DEF Next

\* Type correctness of the watcher.
THEOREM WatcherTypeCorrect == Spec => []TypeOK
<1> QED BY InitType, StepType, PTL DEF Spec

-----------------------------------------------------------------------------
(* A paced watcher stays near the tips. *)

LEMMA InitNear == Paced /\ Init => AllNear
BY DEF Paced, Init, AllNear, LedgerNear, TickNear, Reading

\* The coins that a live lineage has near its tip.
LEMMA NearTip ==
    ASSUME TypeOK, NEW s \in Stores, ~melted[s]
    PROVE  /\ height[s] \in Nat \ {0}
           /\ Near(s) \subseteq Coins /\ None \notin Near(s) /\ MELTED_SENTINEL \notin Near(s)
           /\ Coin(height[s]) # Coin(height[s] - 1)
           /\ ~Spent(s, Coin(height[s])) /\ Spent(s, Coin(height[s] - 1))
           /\ unspent_child(s, Coin(height[s] - 1)) = Coin(height[s])
<1>1. height[s] \in 1 .. MaxHeight /\ MaxHeight \in Nat
  BY WatcherAssumption DEF TypeOK
<1>2. Near(s) \subseteq Coins
  <2>1. height[s] \in 0 .. (MaxHeight + 1) /\ height[s] - 1 \in 0 .. (MaxHeight + 1)
    BY <1>1
  <2> QED BY <2>1, CoinType DEF Near
<1>3. Coin(height[s]) # Coin(height[s] - 1)
  BY <1>1 DEF Coin
<1>4. ~Spent(s, Coin(height[s])) /\ Spent(s, Coin(height[s] - 1))
  BY <1>1 DEF Spent, Coin
<1>5. unspent_child(s, Coin(height[s] - 1)) = Coin(height[s])
  <2> DEFINE before == Coin(height[s] - 1)
             odd == {c \in UnspentChildren(s, before) : c.lineage}
  <2>1. before.height + 1 = height[s] /\ before.lineage
    BY <1>1 DEF Coin
  <2>2. Coin(height[s]).lineage /\ Coin(height[s]).height = height[s] /\ ~Change(height[s]).lineage
    BY DEF Coin, Change
  <2>3. odd = {Coin(height[s])}
    BY <1>1, <1>4, <2>1, <2>2 DEF UnspentChildren
  <2>4. UnspentChildren(s, before) # {} /\ (CHOOSE c \in odd : TRUE) = Coin(height[s])
    BY <2>3
  <2> QED BY <2>3, <2>4 DEF unspent_child
<1> QED BY <1>1, <1>2, <1>3, <1>4, <1>5, CoinType

\* A step of a tick that records nothing leaves the ledger near, and the other ticks too; a tick
\* that passes on reads no store.
LEMMA PassOn ==
    ASSUME TypeOK, AllNear, NEW t \in Ticks, NEW need, NextStore(t, need),
           UNCHANGED <<chain, ledger>>
    PROVE  AllNear'
<1>1. ASSUME NEW s \in Stores PROVE LedgerNear(s)'
  BY <1>1 DEF AllNear, LedgerNear, Near, chain
<1>2. ASSUME NEW x \in Ticks, NEW s \in Stores PROVE TickNear(x, s)'
  <2>1. CASE x = t
    BY <2>1 DEF NextStore, TickNear, Reading, TypeOK
  <2>2. CASE x # t
    <3>1. pc'[x] = pc[x] /\ todo'[x] = todo[x] /\ cursor'[x] = cursor[x] /\ found'[x] = found[x]
      BY <2>2 DEF NextStore, TypeOK
    <3>2. Current(x)' = Current(x)
      BY <3>1 DEF Current
    <3> QED BY <3>1, <3>2 DEF AllNear, TickNear, Reading, Near, chain
  <2> QED BY <2>1, <2>2
<1> QED BY <1>1, <1>2 DEF AllNear

\* A tick that goes on reading its store stays near if it moves to a coin near the tip.
LEMMA ReadOn ==
    ASSUME TypeOK, AllNear, NEW t \in Ticks, NEW label, NEW c, NEW f,
           pc' = [pc EXCEPT ![t] = label], cursor' = [cursor EXCEPT ![t] = c],
           found' = [found EXCEPT ![t] = f], UNCHANGED <<chain, ledger, todo>>,
           \A s \in Stores : Current(t) = s /\ ~melted[s] =>
               /\ c \in Near(s)
               /\ label = "child" => c = Coin(height[s] - 1)
               /\ label = "put" => f = c
    PROVE  AllNear'
<1>1. ASSUME NEW s \in Stores PROVE LedgerNear(s)'
  BY <1>1 DEF AllNear, LedgerNear, Near, chain
<1>2. ASSUME NEW x \in Ticks, NEW s \in Stores PROVE TickNear(x, s)'
  <2>1. Current(x)' = Current(x) /\ height' = height /\ melted' = melted
    BY DEF Current, chain
  <2>2. CASE x = t
    <3>1. pc'[t] = label /\ cursor'[t] = c /\ found'[t] = f
      BY DEF TypeOK
    <3> QED BY <2>1, <2>2, <3>1 DEF TickNear, Reading, Near
  <2>3. CASE x # t
    <3>1. pc'[x] = pc[x] /\ cursor'[x] = cursor[x] /\ found'[x] = found[x]
      BY <2>3 DEF TypeOK
    <3> QED BY <2>1, <3>1 DEF AllNear, TickNear, Reading, Near
  <2> QED BY <2>2, <2>3
<1> QED BY <1>1, <1>2 DEF AllNear

\* An observation of an unspent coin records that coin or passes on.
LEMMA ObserveNear ==
    ASSUME TypeOK, AllNear, NEW t \in Ticks, NEW observed, Observe(t, observed),
           UNCHANGED <<chain, ledger>>,
           \A s \in Stores : Current(t) = s /\ ~melted[s] /\ observed # None =>
               observed = cursor[t] /\ cursor[t] \in Near(s)
    PROVE  AllNear'
<1>1. CASE NextStore(t, needs[t])
  BY <1>1, PassOn
<1>2. CASE ~NextStore(t, needs[t])
  <2>1. /\ found' = [found EXCEPT ![t] = observed]
        /\ pc' = [pc EXCEPT ![t] = "put"]
        /\ UNCHANGED <<todo, cursor>>
    BY <1>2 DEF Observe
  <2>2. observed # None
    <3>1. last[t] # MELTED_SENTINEL
      BY CoinType DEF TypeOK
    <3>2. decide_store(last[t], None) = "Hold"
      BY <3>1, CoinType DEF decide_store
    <3> QED BY <1>2, <3>2 DEF Observe
  <2>3. cursor' = [cursor EXCEPT ![t] = cursor[t]]
    BY <2>1 DEF TypeOK
  <2> QED BY <2>1, <2>2, <2>3, ReadOn
<1> QED BY <1>1, <1>2

\* The chain moves only where everything is at rest.
LEMMA ChainStepNear ==
    ASSUME TypeOK, AllNear, Paced, NEW moving \in Stores, Commit(moving) \/ Melt(moving)
    PROVE  AllNear'
<1>1. AtRest(moving) /\ ~melted[moving] /\ UNCHANGED <<ledger, tick>>
  BY DEF Commit, Melt, Moves, Paced
<1>2. \A s \in Stores : s # moving => height'[s] = height[s] /\ melted'[s] = melted[s]
  BY DEF Commit, Melt, TypeOK
<1>3. \/ melted'[moving]
      \/ height'[moving] = height[moving] + 1 /\ melted'[moving] = melted[moving]
  BY DEF Commit, Melt, TypeOK
<1>4. height[moving] \in Nat \ {0} /\ Coin(height[moving]) # Coin(height[moving] - 1)
      /\ Coin(height[moving]) # None
  BY <1>1, NearTip, CoinType DEF Near
<1>5. ASSUME NEW s \in Stores PROVE LedgerNear(s)'
  <2>1. CASE s = moving
    BY <1>1, <1>3, <1>4, <2>1 DEF LedgerNear, Near, AtRest, TipOf
  <2>2. CASE s # moving
    BY <1>1, <1>2, <2>2 DEF AllNear, LedgerNear, Near
  <2> QED BY <2>1, <2>2
<1>6. ASSUME NEW t \in Ticks, NEW s \in Stores PROVE TickNear(t, s)'
  <2>1. Current(t)' = Current(t) /\ pc' = pc /\ cursor' = cursor /\ found' = found
    BY <1>1 DEF Current, tick
  <2>2. CASE s = moving
    <3> SUFFICES ASSUME Reading(t, s)', ~melted'[s] PROVE TickNear(t, s)'
      BY DEF TickNear
    <3>1. Reading(t, s) /\ cursor[t] = Coin(height[s])
      BY <1>1, <2>1, <2>2 DEF Reading, AtRest, TipOf
    <3>2. height'[s] - 1 = height[s]
      BY <1>3, <1>4, <2>2
    <3>3. pc[t] # "child" /\ (pc[t] = "put" => found[t] = cursor[t])
      BY <1>1, <1>4, <2>2, <3>1 DEF AllNear, TickNear
    <3>4. cursor'[t] \in Near(s)'
      BY <2>1, <3>1, <3>2 DEF Near
    <3> QED BY <2>1, <3>3, <3>4 DEF TickNear
  <2>3. CASE s # moving
    BY <1>2, <2>1, <2>3 DEF AllNear, TickNear, Reading, Near
  <2> QED BY <2>2, <2>3
<1> QED BY <1>5, <1>6 DEF AllNear

LEMMA StartNear ==
    ASSUME TypeOK, AllNear, NEW t \in Ticks, Start(t) \/ Invalidate(t) \/ Kill(t)
    PROVE  AllNear'
<1>1. UNCHANGED <<chain, ledger>> /\ pc'[t] \notin {"spent", "child", "put"}
  BY DEF Start, Invalidate, Kill, TypeOK
<1>2. ASSUME NEW x \in Ticks, x # t
      PROVE  pc'[x] = pc[x] /\ todo'[x] = todo[x] /\ cursor'[x] = cursor[x] /\ found'[x] = found[x]
  BY <1>2 DEF Start, Invalidate, Kill, TypeOK
<1>3. ASSUME NEW s \in Stores PROVE LedgerNear(s)'
  BY <1>1, <1>3 DEF AllNear, LedgerNear, Near, chain
<1>4. ASSUME NEW x \in Ticks, NEW s \in Stores PROVE TickNear(x, s)'
  <2>1. CASE x = t
    BY <1>1, <2>1 DEF TickNear, Reading
  <2>2. CASE x # t
    <3>1. Current(x)' = Current(x)
      BY <1>2, <2>2 DEF Current
    <3> QED BY <1>1, <1>2, <2>2, <3>1 DEF AllNear, TickNear, Reading, Near, chain
  <2> QED BY <2>1, <2>2
<1> QED BY <1>3, <1>4 DEF AllNear

LEMMA GetNear ==
    ASSUME TypeOK, AllNear, Paced, NEW t \in Ticks, Get(t)
    PROVE  AllNear'
<1> DEFINE known == ledger[Current(t)]
           first == IF known = None THEN Launcher ELSE known
<1>1. UNCHANGED <<chain, ledger>> /\ pc[t] = "get"
  BY DEF Get
<1>2. CASE NextStore(t, needs[t])
  BY <1>1, <1>2, PassOn
<1>3. CASE ~NextStore(t, needs[t])
  <2>1. /\ cursor' = [cursor EXCEPT ![t] = first] /\ pc' = [pc EXCEPT ![t] = "spent"]
        /\ UNCHANGED <<todo, found>>
    BY <1>3 DEF Get, Paced
  <2>2. found' = [found EXCEPT ![t] = found[t]]
    BY <2>1 DEF TypeOK
  <2>3. ASSUME NEW s \in Stores, Current(t) = s, ~melted[s] PROVE first \in Near(s)
    <3>1. CASE known = None
      <4>1. height[s] = 1
        BY <2>3, <3>1 DEF AllNear, LedgerNear
      <4>2. first = Coin(height[s] - 1)
        BY <3>1, <4>1 DEF Launcher
      <4> QED BY <4>2 DEF Near
    <3>2. CASE known # None
      BY <2>3, <3>2 DEF AllNear, LedgerNear
    <3> QED BY <3>1, <3>2
  <2> HIDE DEF first
  <2>4. \A s \in Stores : Current(t) = s /\ ~melted[s] =>
           /\ first \in Near(s)
           /\ "spent" = "child" => first = Coin(height[s] - 1)
           /\ "spent" = "put" => found[t] = first
    BY <2>3
  <2> QED BY <1>1, <2>1, <2>2, <2>4, ReadOn
<1> QED BY <1>2, <1>3

LEMMA ReadNear ==
    ASSUME TypeOK, AllNear, Paced, NEW t \in Ticks,
           ReadSpent(t) \/ ReadChild(t) \/ ChainFails(t)
    PROVE  AllNear'
<1>1. UNCHANGED <<chain, ledger>> /\ pc[t] \in {"spent", "child"}
  BY DEF ReadSpent, ReadChild, ChainFails
<1>2. found' = found => found' = [found EXCEPT ![t] = found[t]]
  BY DEF TypeOK
<1>3. ASSUME NEW s \in Stores, Current(t) = s, ~melted[s]
      PROVE  cursor[t] \in Near(s) /\ (pc[t] = "child" => cursor[t] = Coin(height[s] - 1))
  BY <1>1, <1>3 DEF AllNear, TickNear, Reading
<1>4. CASE ChainFails(t)
  BY <1>1, <1>4, ObserveNear DEF ChainFails
<1>5. CASE ReadSpent(t)
  <2>1. CASE Spent(Current(t), cursor[t])
    <3>1. ASSUME NEW s \in Stores, Current(t) = s, ~melted[s] PROVE cursor[t] = Coin(height[s] - 1)
      BY <1>3, <2>1, <3>1, NearTip DEF Near
    <3>2. cursor' = [cursor EXCEPT ![t] = cursor[t]]
      BY <1>5, <2>1 DEF ReadSpent, TypeOK
    <3>3. /\ pc' = [pc EXCEPT ![t] = "child"] /\ UNCHANGED todo
          /\ found' = [found EXCEPT ![t] = found[t]]
      BY <1>2, <1>5, <2>1 DEF ReadSpent
    <3>4. \A s \in Stores : Current(t) = s /\ ~melted[s] =>
             /\ cursor[t] \in Near(s)
             /\ "child" = "child" => cursor[t] = Coin(height[s] - 1)
             /\ "child" = "put" => found[t] = cursor[t]
      BY <1>3, <3>1
    <3> QED BY <1>1, <3>2, <3>3, <3>4, ReadOn
  <2>2. CASE ~Spent(Current(t), cursor[t])
    BY <1>1, <1>3, <1>5, <2>2, ObserveNear DEF ReadSpent
  <2> QED BY <2>1, <2>2
<1>6. CASE ReadChild(t)
  <2> DEFINE child == unspent_child(Current(t), cursor[t])
  <2>1. ASSUME NEW s \in Stores, Current(t) = s, ~melted[s]
        PROVE  child = Coin(height[s]) /\ child \in Near(s) /\ child # None
    BY <1>3, <1>6, <2>1, NearTip DEF ReadChild, Near
  <2>2. Current(t) \in Stores
    BY <1>1, CurrentType
  <2>3. CASE child = None
    <3>1. melted[Current(t)] \/ ~(Current(t) \in Stores)
      BY <2>1, <2>3
    <3> QED BY <1>1, <1>6, <2>2, <2>3, <3>1, ObserveNear DEF ReadChild, Paced
  <2>4. CASE child # None /\ hops[t] + 1 = MAX_LINEAGE_HOPS
    BY <1>1, <1>6, <2>4, ObserveNear DEF ReadChild, Paced
  <2>5. CASE child # None /\ hops[t] + 1 # MAX_LINEAGE_HOPS
    <3>1. /\ cursor' = [cursor EXCEPT ![t] = child] /\ pc' = [pc EXCEPT ![t] = "spent"]
          /\ UNCHANGED <<todo, found>>
      BY <1>6, <2>5 DEF ReadChild, Paced
    <3> HIDE DEF child
    <3>2. \A s \in Stores : Current(t) = s /\ ~melted[s] =>
             /\ child \in Near(s)
             /\ "spent" = "child" => child = Coin(height[s] - 1)
             /\ "spent" = "put" => found[t] = child
      BY <2>1
    <3> QED BY <1>1, <1>2, <3>1, <3>2, ReadOn
  <2> QED BY <2>3, <2>4, <2>5
<1> QED BY <1>4, <1>5, <1>6

\* What a tick writes into the ledger of a live store is near its tip.
LEMMA PutNear ==
    ASSUME TypeOK, AllNear, NEW t \in Ticks, Put(t)
    PROVE  AllNear'
<1>1. pc[t] = "put" /\ UNCHANGED chain
  BY DEF Put
<1>2. PICK need \in BOOLEAN : NextStore(t, need)
  BY DEF Put
<1>3. ASSUME NEW s \in Stores PROVE LedgerNear(s)'
  <2>1. CASE ledger'[s] = ledger[s]
    BY <1>1, <2>1 DEF AllNear, LedgerNear, Near, chain
  <2>2. CASE ledger'[s] # ledger[s]
    <3>1. s = Current(t) /\ ledger'[s] = found[t]
      BY <2>2 DEF Put, TypeOK
    <3>2. ~melted[s] => found[t] \in Near(s) /\ found[t] # None
      BY <1>1, <3>1, NearTip DEF AllNear, TickNear, Reading
    <3> QED BY <1>1, <3>1, <3>2 DEF LedgerNear, Near, chain
  <2> QED BY <2>1, <2>2
<1>4. ASSUME NEW x \in Ticks, NEW s \in Stores PROVE TickNear(x, s)'
  <2>1. CASE x = t
    BY <1>2, <2>1 DEF NextStore, TickNear, Reading, TypeOK
  <2>2. CASE x # t
    <3>1. pc'[x] = pc[x] /\ todo'[x] = todo[x] /\ cursor'[x] = cursor[x] /\ found'[x] = found[x]
      BY <1>2, <2>2 DEF NextStore, TypeOK
    <3>2. Current(x)' = Current(x)
      BY <3>1 DEF Current
    <3> QED BY <1>1, <3>1, <3>2 DEF AllNear, TickNear, Reading, Near, chain
  <2> QED BY <2>1, <2>2
<1> QED BY <1>3, <1>4 DEF AllNear

LEMMA StepNear == Paced /\ TypeOK /\ AllNear /\ [Next]_vars => AllNear'
<1> SUFFICES ASSUME Paced, TypeOK, AllNear, [Next]_vars PROVE AllNear'
  OBVIOUS
<1>1. ASSUME UNCHANGED <<chain, ledger, tick>> PROVE AllNear'
  <2>1. \A t \in Ticks : Current(t)' = Current(t)
    BY <1>1 DEF Current, tick
  <2> QED BY <1>1, <2>1 DEF AllNear, LedgerNear, TickNear, Reading, Near, chain, tick
<1>2. CASE \E d \in Domains : SetStatus(d)
  BY <1>1, <1>2 DEF SetStatus
<1>3. CASE UNCHANGED vars
  BY <1>1, <1>3 DEF vars
<1> QED BY <1>2, <1>3, ChainStepNear, StartNear, GetNear, ReadNear, PutNear DEF Next, Watches

\* At the pace of stores that rest, every walk of every tick stays near the tip of its store.
THEOREM PacedInvariance == ASSUME Paced PROVE Spec => [](TypeOK /\ AllNear)
<1>1. Init => TypeOK /\ AllNear
  BY InitType, InitNear
<1>2. TypeOK /\ AllNear /\ [Next]_vars => (TypeOK /\ AllNear)'
  BY StepType, StepNear
<1> QED BY <1>1, <1>2, PTL DEF Spec

\* At that pace no tick, however slow, and however many overlap, die or fail to read the chain or to
\* write the ledger, takes the ledger out of reach of the tip or records a melt that did not happen.
THEOREM LedgerStaysNearTip == ASSUME Paced PROVE Spec => []LedgerNearTip
<1>1. TypeOK /\ AllNear => LedgerNearTip
  <2> SUFFICES ASSUME TypeOK, AllNear, NEW s \in Stores, ~melted[s]
               PROVE  /\ ledger[s] # MELTED_SENTINEL
                      /\ ledger[s] \in Coins
                            => ledger[s].lineage /\ ledger[s].height \in {height[s] - 1, height[s]}
    BY DEF LedgerNearTip
  <2>1. ledger[s] # None => ledger[s] \in Near(s)
    BY DEF AllNear, LedgerNear
  <2>2. ledger[s] # MELTED_SENTINEL
    BY <2>1, NearTip, CoinType
  <2>3. ledger[s] \in Coins => ledger[s] \in Near(s)
    BY <2>1, CoinType
  <2> QED BY <2>2, <2>3 DEF Near, Coin
<1> QED BY <1>1, PacedInvariance, PTL

-----------------------------------------------------------------------------
(* At any pace, whatever fails: ticks hold coins that exist. *)

Real(s, c) == IF c.lineage THEN c.height <= height[s] ELSE c.height \in change[s]

LedgerReal(s) == ledger[s] \in Coins => Real(s, ledger[s])

\* The coin a walk has reached exists, and is spent once it was found to be; only news is recorded;
\* a live store is held for melted only from afar.
TickReal(t, s) ==
    Reading(t, s) =>
        /\ Real(s, cursor[t])
        /\ pc[t] = "child" => Spent(s, cursor[t])
        /\ pc[t] = "put" =>
              /\ found[t] # None /\ found[t] # last[t]
              /\ found[t] \in Coins => Real(s, found[t])
              /\ found[t] = MELTED_SENTINEL /\ "error" \notin Faults
                    => melted[s] \/ cursor[t].height + 1 < height[s]

AllReal == (\A s \in Stores : LedgerReal(s)) /\ (\A t \in Ticks, s \in Stores : TickReal(t, s))

LEMMA InitReal == Init => AllReal
BY WatcherAssumption DEF Init, AllReal, LedgerReal, TickReal, Reading

\* A coin that exists goes on existing, and a spent one is spent for good.
LEMMA ChainStepReal ==
    ASSUME TypeOK, AllReal, NEW moving \in Stores, Commit(moving) \/ Melt(moving)
    PROVE  AllReal'
<1>1. UNCHANGED <<ledger, tick>>
  BY DEF Commit, Melt, Moves
<1>2. \A s \in Stores : height[s] \in Nat /\ height'[s] \in Nat /\ height[s] <= height'[s]
  BY DEF Commit, Melt, TypeOK
<1>3. \A s \in Stores : (melted[s] => melted'[s]) /\ change[s] \subseteq change'[s]
  <2>1. PICK unspent \in Siblings(moving) : change' = [change EXCEPT ![moving] = unspent]
    BY DEF Commit, Melt, Moves
  <2>2. change[moving] \subseteq unspent
    BY <2>1 DEF Siblings
  <2> QED BY <2>1, <2>2 DEF Commit, Melt, TypeOK
<1>4. ASSUME NEW s \in Stores, NEW c \in Coins, Real(s, c)
      PROVE  Real(s, c)' /\ (Spent(s, c) => Spent(s, c)')
  <2>1. c.height \in Nat
    BY <1>4, WatcherAssumption DEF Coins
  <2>2. CASE c.lineage
    BY <1>2, <1>3, <1>4, <2>1, <2>2 DEF Real, Spent
  <2>3. CASE ~c.lineage
    BY <1>3, <1>4, <2>3 DEF Real, Spent
  <2> QED BY <2>2, <2>3
<1>5. ASSUME NEW s \in Stores PROVE LedgerReal(s)'
  BY <1>1, <1>4, <1>5 DEF AllReal, LedgerReal
<1>6. ASSUME NEW t \in Ticks, NEW s \in Stores PROVE TickReal(t, s)'
  <2> SUFFICES ASSUME Reading(t, s)' PROVE TickReal(t, s)'
    BY DEF TickReal
  <2>1. /\ pc' = pc /\ cursor' = cursor /\ found' = found /\ last' = last
        /\ Reading(t, s)
    BY <1>1 DEF Reading, Current, tick
  <2>2. cursor[t] \in Coins
    BY <2>1 DEF Reading, TypeOK
  <2>3. cursor[t].height \in Nat
    BY <2>2, WatcherAssumption DEF Coins
  <2>4. Real(s, cursor[t])' /\ (pc[t] = "child" => Spent(s, cursor[t])')
    BY <1>4, <2>1, <2>2 DEF AllReal, TickReal
  <2>5. cursor[t].height + 1 < height[s] => cursor[t].height + 1 < height'[s]
    BY <1>2, <2>3
  <2> QED BY <1>3, <1>4, <2>1, <2>4, <2>5 DEF AllReal, TickReal
<1> QED BY <1>5, <1>6 DEF AllReal

\* A step of one tick that changes neither the chain nor the ledger leaves the others alone.
LEMMA OthersReal ==
    ASSUME TypeOK, AllReal, NEW t \in Ticks, NEW x \in Ticks, x # t, UNCHANGED chain,
           pc'[x] = pc[x], todo'[x] = todo[x], last'[x] = last[x],
           cursor'[x] = cursor[x], found'[x] = found[x]
    PROVE  \A s \in Stores : TickReal(x, s)'
<1>1. Current(x)' = Current(x)
  BY DEF Current
<1> QED BY <1>1 DEF AllReal, TickReal, Reading, Real, Spent, chain

\* A tick that reads no store after its step, and wrote nothing but a coin that exists.
LEMMA PassOnReal ==
    ASSUME TypeOK, AllReal, NEW t \in Ticks, UNCHANGED chain,
           pc'[t] \notin {"spent", "child", "put"},
           \A x \in Ticks : x # t =>
              /\ pc'[x] = pc[x] /\ todo'[x] = todo[x] /\ last'[x] = last[x]
              /\ cursor'[x] = cursor[x] /\ found'[x] = found[x],
           \A s \in Stores : ledger'[s] = ledger[s] \/ (ledger'[s] \in Coins => Real(s, ledger'[s]))
    PROVE  AllReal'
<1>1. ASSUME NEW s \in Stores PROVE LedgerReal(s)'
  BY <1>1 DEF AllReal, LedgerReal, Real, chain
<1>2. ASSUME NEW x \in Ticks PROVE \A s \in Stores : TickReal(x, s)'
  <2>1. CASE x = t
    BY <2>1 DEF TickReal, Reading
  <2>2. CASE x # t
    BY <2>2, OthersReal
  <2> QED BY <2>1, <2>2
<1> QED BY <1>1, <1>2 DEF AllReal

\* A tick that goes on reading its store holds a coin that exists if the one it moves to does.
LEMMA ReadOnReal ==
    ASSUME TypeOK, AllReal, NEW t \in Ticks, UNCHANGED <<chain, ledger, todo>>,
           NEW label, NEW known, NEW c, NEW f,
           pc' = [pc EXCEPT ![t] = label], last' = [last EXCEPT ![t] = known],
           cursor' = [cursor EXCEPT ![t] = c], found' = [found EXCEPT ![t] = f],
           \A s \in Stores : Current(t) = s =>
               /\ Real(s, c)
               /\ label = "child" => Spent(s, c)
               /\ label = "put" =>
                     /\ f # None /\ f # known
                     /\ f \in Coins => Real(s, f)
                     /\ f = MELTED_SENTINEL /\ "error" \notin Faults
                           => melted[s] \/ c.height + 1 < height[s]
    PROVE  AllReal'
<1>1. ASSUME NEW s \in Stores PROVE LedgerReal(s)'
  BY <1>1 DEF AllReal, LedgerReal, Real, chain
<1>2. ASSUME NEW x \in Ticks PROVE \A s \in Stores : TickReal(x, s)'
  <2>1. CASE x = t
    <3>1. pc'[t] = label /\ last'[t] = known /\ cursor'[t] = c /\ found'[t] = f
      BY DEF TypeOK
    <3>2. Current(t)' = Current(t)
      BY DEF Current
    <3> QED BY <2>1, <3>1, <3>2 DEF TickReal, Reading, Real, Spent, chain
  <2>2. CASE x # t
    BY <2>2, OthersReal DEF TypeOK
  <2> QED BY <2>1, <2>2
<1> QED BY <1>1, <1>2 DEF AllReal

LEMMA NextStoreReal ==
    ASSUME TypeOK, AllReal, NEW t \in Ticks, NEW need, NextStore(t, need), UNCHANGED chain,
           \A s \in Stores : ledger'[s] = ledger[s] \/ (ledger'[s] \in Coins => Real(s, ledger'[s]))
    PROVE  AllReal'
<1>1. pc'[t] \in {"get", "invalidate", "off"}
  BY DEF NextStore, TypeOK
<1>2. ASSUME NEW x \in Ticks, x # t
      PROVE  /\ pc'[x] = pc[x] /\ todo'[x] = todo[x] /\ last'[x] = last[x]
             /\ cursor'[x] = cursor[x] /\ found'[x] = found[x]
  BY <1>2 DEF NextStore, TypeOK
<1> QED BY <1>1, <1>2, PassOnReal

\* What an observation records is news and a coin that exists.
LEMMA ObserveReal ==
    ASSUME TypeOK, AllReal, NEW t \in Ticks, pc[t] \in {"spent", "child"},
           NEW observed \in {cursor[t], MELTED_SENTINEL, None}, Observe(t, observed),
           UNCHANGED <<chain, ledger>>,
           \A s \in Stores : Current(t) = s /\ observed = MELTED_SENTINEL /\ "error" \notin Faults
              => melted[s] \/ cursor[t].height + 1 < height[s]
    PROVE  AllReal'
<1>1. CASE NextStore(t, needs[t])
  BY <1>1, NextStoreReal
<1>2. CASE ~NextStore(t, needs[t])
  <2>1. /\ decide_store(last[t], observed) \notin {"Hold", "Unchanged"}
        /\ found' = [found EXCEPT ![t] = observed] /\ pc' = [pc EXCEPT ![t] = "put"]
        /\ UNCHANGED <<todo, last, cursor>>
    BY <1>2 DEF Observe
  <2>2. last[t] \in Coins \cup {None}
    BY DEF TypeOK
  <2>3. observed # None
    BY <2>1, <2>2, CoinType DEF decide_store
  <2>4. observed # last[t]
    BY <2>1, <2>2, <2>3, CoinType DEF decide_store
  <2>5. last' = [last EXCEPT ![t] = last[t]] /\ cursor' = [cursor EXCEPT ![t] = cursor[t]]
    BY <2>1 DEF TypeOK
  <2>6. ASSUME NEW s \in Stores, Current(t) = s
        PROVE  Real(s, cursor[t]) /\ (observed \in Coins => Real(s, observed))
    BY <2>6, CoinType DEF AllReal, TickReal, Reading
  <2>7. \A s \in Stores : Current(t) = s =>
               /\ Real(s, cursor[t])
               /\ "put" = "child" => Spent(s, cursor[t])
               /\ "put" = "put" =>
                     /\ observed # None /\ observed # last[t]
                     /\ observed \in Coins => Real(s, observed)
                     /\ observed = MELTED_SENTINEL /\ "error" \notin Faults
                           => melted[s] \/ cursor[t].height + 1 < height[s]
    BY <2>3, <2>4, <2>6
  <2> QED BY <2>1, <2>5, <2>7, ReadOnReal
<1> QED BY <1>1, <1>2

\* The child that is picked exists; where there is none, the tip was melted or is further on.
LEMMA ChildReal ==
    ASSUME TypeOK, NEW s \in Stores, NEW coin \in Coins, Real(s, coin), Spent(s, coin)
    PROVE  IF unspent_child(s, coin) = None THEN melted[s] \/ coin.height + 1 < height[s]
           ELSE Real(s, unspent_child(s, coin))
<1> DEFINE children == UnspentChildren(s, coin)
<1>1. height[s] \in Nat /\ coin.height \in Nat
  BY WatcherAssumption DEF TypeOK, Coins
<1>2. coin.lineage
  BY DEF Real, Spent
<1>3. /\ Coin(coin.height + 1).lineage /\ Coin(coin.height + 1).height = coin.height + 1
      /\ ~Change(coin.height + 1).lineage /\ Change(coin.height + 1).height = coin.height + 1
  BY DEF Coin, Change
<1>4. ASSUME NEW c \in children PROVE Real(s, c)
  <2>1. /\ c = Coin(coin.height + 1) \/ c = Change(coin.height + 1)
        /\ c.lineage => c.height <= height[s]
        /\ ~Spent(s, c)
    BY <1>4 DEF UnspentChildren
  <2> QED BY <1>3, <2>1 DEF Real, Spent
<1>5. children = {} => melted[s] \/ coin.height + 1 < height[s]
  <2> SUFFICES ASSUME children = {}, ~melted[s] PROVE coin.height + 1 < height[s]
    OBVIOUS
  <2>1. coin.height < height[s]
    BY <1>2 DEF Spent
  <2>2. Coin(coin.height + 1) \in children \/ Spent(s, Coin(coin.height + 1))
    BY <1>1, <1>2, <1>3, <2>1 DEF UnspentChildren
  <2> QED BY <1>1, <1>3, <2>2 DEF Spent
<1> QED BY <1>4, <1>5, ChildPicked, ChildrenType, CoinType

LEMMA TickStepReal ==
    ASSUME TypeOK, AllReal, NEW t \in Ticks, Watches(t) \/ Invalidate(t) \/ Kill(t)
    PROVE  AllReal'
<1>1. CASE Start(t) \/ Invalidate(t) \/ Kill(t)
  <2>1. UNCHANGED <<chain, ledger>> /\ pc'[t] \notin {"spent", "child", "put"}
    BY <1>1 DEF Start, Invalidate, Kill, TypeOK
  <2>2. ASSUME NEW x \in Ticks, x # t
        PROVE  /\ pc'[x] = pc[x] /\ todo'[x] = todo[x] /\ last'[x] = last[x]
               /\ cursor'[x] = cursor[x] /\ found'[x] = found[x]
    BY <1>1, <2>2 DEF Start, Invalidate, Kill, TypeOK
  <2> QED BY <2>1, <2>2, PassOnReal
<1>2. CASE Get(t)
  <2>1. UNCHANGED <<chain, ledger>> /\ pc[t] = "get" /\ Current(t) \in Stores
    BY <1>2, CurrentType DEF Get
  <2>2. CASE NextStore(t, needs[t])
    BY <2>1, <2>2, NextStoreReal
  <2>3. ASSUME NEW known \in {ledger[Current(t)], None}, known # MELTED_SENTINEL,
               last' = [last EXCEPT ![t] = known],
               cursor' = [cursor EXCEPT ![t] = IF known = None THEN Launcher ELSE known],
               pc' = [pc EXCEPT ![t] = "spent"], UNCHANGED <<todo, hops, found, needs>>
        PROVE  AllReal'
    <3> DEFINE first == IF known = None THEN Launcher ELSE known
    <3>1. found' = [found EXCEPT ![t] = found[t]]
      BY <2>3 DEF TypeOK
    <3>2. Real(Current(t), first)
      <4>1. CASE known = None
        <5>1. height[Current(t)] \in Nat /\ Launcher.lineage /\ Launcher.height = 0
          BY <2>1 DEF TypeOK, Launcher, Coin
        <5> QED BY <4>1, <5>1 DEF Real
      <4>2. CASE known # None
        <5>1. known = ledger[Current(t)] /\ known \in Coins
          BY <2>1, <2>3, <4>2 DEF TypeOK
        <5> QED BY <2>1, <4>2, <5>1 DEF AllReal, LedgerReal
      <4> QED BY <4>1, <4>2
    <3> HIDE DEF first
    <3>3. \A s \in Stores : Current(t) = s =>
               /\ Real(s, first)
               /\ "spent" = "child" => Spent(s, first)
               /\ "spent" = "put" =>
                     /\ found[t] # None /\ found[t] # known
                     /\ found[t] \in Coins => Real(s, found[t])
                     /\ found[t] = MELTED_SENTINEL /\ "error" \notin Faults
                           => melted[s] \/ first.height + 1 < height[s]
      BY <3>2
    <3>4. cursor' = [cursor EXCEPT ![t] = first]
      BY <2>3 DEF first
    <3> QED BY <2>1, <2>3, <3>1, <3>3, <3>4, ReadOnReal
  <2> QED BY <1>2, <2>2, <2>3 DEF Get
<1>3. CASE ReadSpent(t) \/ ReadChild(t) \/ ChainFails(t)
  <2>1. UNCHANGED <<chain, ledger>> /\ pc[t] \in {"spent", "child"} /\ Current(t) \in Stores
    BY <1>3, CurrentType DEF ReadSpent, ReadChild, ChainFails
  <2>2. cursor[t] \in Coins /\ Real(Current(t), cursor[t])
        /\ (pc[t] = "child" => Spent(Current(t), cursor[t]))
    BY <2>1 DEF AllReal, TickReal, Reading, TypeOK
  <2>3. found' = found => found' = [found EXCEPT ![t] = found[t]]
    BY DEF TypeOK
  <2>4. last' = last => last' = [last EXCEPT ![t] = last[t]]
    BY DEF TypeOK
  <2>5. ASSUME NEW observed \in {cursor[t], None}, Observe(t, observed) PROVE AllReal'
    <3>1. observed # MELTED_SENTINEL
      BY <2>2, <2>5, CoinType
    <3> QED BY <2>1, <2>5, <3>1, ObserveReal
  <2>6. CASE ReadSpent(t) /\ Spent(Current(t), cursor[t])
    <3>1. /\ pc' = [pc EXCEPT ![t] = "child"]
          /\ UNCHANGED <<todo, last, cursor, hops, found, needs>>
      BY <2>6 DEF ReadSpent
    <3>2. cursor' = [cursor EXCEPT ![t] = cursor[t]]
      BY <3>1 DEF TypeOK
    <3>3. \A s \in Stores : Current(t) = s =>
               /\ Real(s, cursor[t])
               /\ "child" = "child" => Spent(s, cursor[t])
               /\ "child" = "put" =>
                     /\ found[t] # None /\ found[t] # last[t]
                     /\ found[t] \in Coins => Real(s, found[t])
                     /\ found[t] = MELTED_SENTINEL /\ "error" \notin Faults
                           => melted[s] \/ cursor[t].height + 1 < height[s]
      BY <2>2, <2>6
    <3> QED BY <2>1, <2>3, <2>4, <3>1, <3>2, <3>3, ReadOnReal
  <2>7. CASE ReadSpent(t) /\ ~Spent(Current(t), cursor[t])
    BY <2>5, <2>7 DEF ReadSpent
  <2>8. CASE ChainFails(t)
    BY <2>5, <2>8 DEF ChainFails
  <2>9. CASE ReadChild(t)
    <3>1. PICK child \in {unspent_child(Current(t), cursor[t])}
                           \cup (IF "error" \in Faults THEN {None} ELSE {}) :
            IF child = None THEN Observe(t, MELTED_SENTINEL)
            ELSE IF hops[t] + 1 = MAX_LINEAGE_HOPS THEN Observe(t, None)
            ELSE /\ cursor' = [cursor EXCEPT ![t] = child]
                 /\ hops' = [hops EXCEPT ![t] = @ + 1]
                 /\ pc' = [pc EXCEPT ![t] = "spent"]
                 /\ UNCHANGED <<todo, last, found, needs>>
      BY <2>9 DEF ReadChild
    <3>2. IF unspent_child(Current(t), cursor[t]) = None
          THEN melted[Current(t)] \/ cursor[t].height + 1 < height[Current(t)]
          ELSE Real(Current(t), unspent_child(Current(t), cursor[t]))
      BY <2>1, <2>2, <2>9, ChildReal DEF ReadChild
    <3>3. CASE child = None
      <4>1. "error" \notin Faults => unspent_child(Current(t), cursor[t]) = None
        BY <3>1, <3>3
      <4> QED BY <2>1, <3>1, <3>2, <3>3, <4>1, ObserveReal
    <3>4. CASE child # None /\ hops[t] + 1 = MAX_LINEAGE_HOPS
      BY <2>5, <3>1, <3>4
    <3>5. CASE child # None /\ hops[t] + 1 # MAX_LINEAGE_HOPS
      <4>1. Real(Current(t), child)
        BY <3>1, <3>2, <3>5
      <4>2. \A s \in Stores : Current(t) = s =>
               /\ Real(s, child)
               /\ "spent" = "child" => Spent(s, child)
               /\ "spent" = "put" =>
                     /\ found[t] # None /\ found[t] # last[t]
                     /\ found[t] \in Coins => Real(s, found[t])
                     /\ found[t] = MELTED_SENTINEL /\ "error" \notin Faults
                           => melted[s] \/ child.height + 1 < height[s]
        BY <4>1
      <4>3. /\ cursor' = [cursor EXCEPT ![t] = child] /\ pc' = [pc EXCEPT ![t] = "spent"]
            /\ last' = [last EXCEPT ![t] = last[t]] /\ found' = [found EXCEPT ![t] = found[t]]
            /\ UNCHANGED <<chain, ledger, todo>>
        BY <2>1, <2>3, <2>4, <3>1, <3>5
      <4> QED BY <4>2, <4>3, ReadOnReal
    <3> QED BY <3>3, <3>4, <3>5
  <2> QED BY <1>3, <2>6, <2>7, <2>8, <2>9
<1>4. CASE Put(t)
  <2>1. pc[t] = "put" /\ UNCHANGED chain
    BY <1>4 DEF Put
  <2>2. PICK need \in BOOLEAN : NextStore(t, need)
    BY <1>4 DEF Put
  <2>3. ASSUME NEW s \in Stores, ledger'[s] # ledger[s], ledger'[s] \in Coins
        PROVE  Real(s, ledger'[s])
    <3>1. s = Current(t) /\ ledger'[s] = found[t]
      BY <1>4, <2>3 DEF Put, TypeOK
    <3> QED BY <2>1, <2>3, <3>1 DEF AllReal, TickReal, Reading
  <2> QED BY <2>1, <2>2, <2>3, NextStoreReal
<1> QED BY <1>1, <1>2, <1>3, <1>4 DEF Watches

LEMMA StepReal == TypeOK /\ AllReal /\ [Next]_vars => AllReal'
<1> SUFFICES ASSUME TypeOK, AllReal, [Next]_vars PROVE AllReal'
  OBVIOUS
<1>1. ASSUME UNCHANGED <<chain, ledger, tick>> PROVE AllReal'
  <2>1. \A t \in Ticks : Current(t)' = Current(t)
    BY <1>1 DEF Current, tick
  <2> QED BY <1>1, <2>1 DEF AllReal, LedgerReal, TickReal, Reading, Real, Spent, chain, tick
<1>2. CASE \E d \in Domains : SetStatus(d)
  BY <1>1, <1>2 DEF SetStatus
<1>3. CASE UNCHANGED vars
  BY <1>1, <1>3 DEF vars
<1> QED BY <1>2, <1>3, ChainStepReal, TickStepReal DEF Next

LEMMA RealInvariance == Spec => [](TypeOK /\ AllReal)
<1>1. Init => TypeOK /\ AllReal
  BY InitType, InitReal
<1>2. TypeOK /\ AllReal /\ [Next]_vars => (TypeOK /\ AllReal)'
  BY StepType, StepReal
<1> QED BY <1>1, <1>2, PTL DEF Spec

\* What unspent_child makes of a list of the unspent successors only: unless coinset answers with an
\* error object, a tick takes a live store for melted only if it asked for the successors of a coin
\* at least two commits behind the tip, at whatever pace stores move and whatever fails.
THEOREM OnlyDistanceIsMistakenForMelting ==
    ASSUME "error" \notin Faults PROVE Spec => []MeltsMistakenFromAfar
<1>1. TypeOK /\ AllReal => MeltsMistakenFromAfar
  <2> SUFFICES ASSUME TypeOK, AllReal, NEW t \in Ticks, pc[t] = "put", found[t] = MELTED_SENTINEL
               PROVE  melted[Current(t)] \/ cursor[t].height + 1 < height[Current(t)]
    BY DEF MeltsMistakenFromAfar
  <2>1. Current(t) \in Stores
    BY CurrentType
  <2> QED BY <2>1 DEF AllReal, TickReal, Reading
<1> QED BY <1>1, RealInvariance, PTL

-----------------------------------------------------------------------------
(* Moves are forgotten only with a tick. *)

\* What ForgottenWithItsTick allows a step to do to a store.
Lapses(s) ==
    Forgotten(s)' =>
        \/ Forgotten(s)
        \/ \E t \in Ticks : Owes(t) /\ (Kill(t) \/ Invalidate(t))
        \/ \E t \in Ticks : Put(t) /\ Current(t) = s /\ last[t] = None
        \/ (Commit(s) \/ Melt(s)) /\ ledger[s] \notin Lineage

\* Whatever leaves the chain, the ledger and the marks alone forgets no move unless a tick that owes
\* an invalidation ends.
LEMMA IdleLapses ==
    ASSUME NEW s \in Stores, chain' = chain, ledger'[s] = ledger[s], unpurged' = unpurged,
           \A t \in Ticks : Owes(t) => Owes(t)'
    PROVE  Lapses(s)
BY DEF Lapses, Forgotten, Spent, chain

\* A move is noticed later: the tip that the ledger names is spent by it.
LEMMA ChainStepLapses ==
    ASSUME TypeOK, AllReal, NEW s \in Stores, NEW moving \in Stores, Commit(moving) \/ Melt(moving)
    PROVE  Lapses(s)
<1>1. UNCHANGED <<ledger, tick>> /\ unpurged' = [unpurged EXCEPT ![moving] = TRUE]
  BY DEF Commit, Melt, Moves
<1>2. CASE s = moving /\ ledger[s] \in Lineage
  <2>1. PICK h \in 0 .. MaxHeight : ledger[s] = Coin(h)
    BY <1>2 DEF Lineage
  <2>2. h \in 0 .. (MaxHeight + 1) /\ h \in Nat /\ height[s] \in Nat
    BY WatcherAssumption DEF TypeOK
  <2>3. ledger[s] \in Coins /\ ledger[s].lineage /\ ledger[s].height = h
    BY <2>1, <2>2, CoinType DEF Coin
  <2>4. h <= height[s]
    BY <2>3 DEF AllReal, LedgerReal, Real
  <2>5. height'[s] = height[s] + 1 \/ melted'[s]
    BY <1>2 DEF Commit, Melt, TypeOK
  <2>6. Spent(s, ledger[s])'
    BY <1>1, <2>2, <2>3, <2>4, <2>5 DEF Spent
  <2>7. ledger'[s] # MELTED_SENTINEL
    BY <1>1, <2>3, CoinType
  <2> QED BY <1>1, <2>6, <2>7 DEF Lapses, Forgotten
<1>3. CASE s = moving /\ ledger[s] \notin Lineage
  BY <1>3 DEF Lapses
<1>4. CASE s # moving
  <2>1. height'[s] = height[s] /\ melted'[s] = melted[s] /\ change'[s] = change[s]
        /\ unpurged'[s] = unpurged[s]
    BY <1>1, <1>4 DEF Commit, Melt, Moves, TypeOK
  <2> QED BY <1>1, <2>1 DEF Lapses, Forgotten, Spent, Owes, tick
<1> QED BY <1>2, <1>3, <1>4

\* A tick that goes on still owes what it owed.
LEMMA NextStoreOwes ==
    ASSUME TypeOK, NEW t \in Ticks, NEW need \in BOOLEAN, NextStore(t, need), needs[t] => need
    PROVE  (need => Owes(t)') /\ \A x \in Ticks : Owes(x) => Owes(x)'
BY DEF NextStore, Owes, TypeOK

LEMMA ObserveOwes ==
    ASSUME TypeOK, NEW t \in Ticks, NEW observed, Observe(t, observed)
    PROVE  \A x \in Ticks : Owes(x) => Owes(x)'
<1>1. needs[t] \in BOOLEAN
  BY DEF TypeOK
<1>2. CASE NextStore(t, needs[t])
  BY <1>1, <1>2, NextStoreOwes
<1>3. CASE pc' = [pc EXCEPT ![t] = "put"] /\ UNCHANGED needs
  BY <1>3 DEF Owes, TypeOK
<1> QED BY <1>2, <1>3 DEF Observe

LEMMA TickStepLapses ==
    ASSUME TypeOK, AllReal, NEW s \in Stores, NEW t \in Ticks, Watches(t) \/ Invalidate(t) \/ Kill(t)
    PROVE  Lapses(s)
<1>1. CASE Start(t)
  <2>1. \A x \in Ticks : Owes(x) => Owes(x)'
    BY <1>1 DEF Start, Owes, TypeOK
  <2> QED BY <1>1, <2>1, IdleLapses DEF Start
<1>2. CASE Get(t)
  <2>1. needs[t] \in BOOLEAN
    BY DEF TypeOK
  <2>2. NextStore(t, needs[t]) \/ (pc' = [pc EXCEPT ![t] = "spent"] /\ UNCHANGED needs)
    BY <1>2 DEF Get
  <2>3. \A x \in Ticks : Owes(x) => Owes(x)'
    <3>1. CASE NextStore(t, needs[t])
      BY <2>1, <3>1, NextStoreOwes
    <3>2. CASE pc' = [pc EXCEPT ![t] = "spent"] /\ UNCHANGED needs
      BY <3>2 DEF Owes, TypeOK
    <3> QED BY <2>2, <3>1, <3>2
  <2> QED BY <1>2, <2>3, IdleLapses DEF Get
<1>3. CASE ReadSpent(t) \/ ReadChild(t) \/ ChainFails(t)
  <2>1. UNCHANGED <<chain, unpurged, ledger>>
    BY <1>3 DEF ReadSpent, ReadChild, ChainFails
  <2>2. \/ \E observed : Observe(t, observed)
        \/ \E label \in {"spent", "child"} : pc' = [pc EXCEPT ![t] = label] /\ UNCHANGED needs
    BY <1>3 DEF ReadSpent, ReadChild, ChainFails
  <2>3. \A x \in Ticks : Owes(x) => Owes(x)'
    <3>1. CASE \E observed : Observe(t, observed)
      BY <3>1, ObserveOwes
    <3>2. ASSUME NEW label \in {"spent", "child"}, pc' = [pc EXCEPT ![t] = label], UNCHANGED needs
          PROVE  \A x \in Ticks : Owes(x) => Owes(x)'
      BY <3>2 DEF Owes, TypeOK
    <3> QED BY <2>2, <3>1, <3>2
  <2> QED BY <2>1, <2>3, IdleLapses
<1>4. CASE Put(t)
  <2> DEFINE need == needs[t] \/ decide_store(last[t], found[t]) \in {"Changed", "Melted"}
  <2>1. need \in BOOLEAN /\ NextStore(t, need) /\ (needs[t] => need)
        /\ UNCHANGED <<chain, unpurged>>
    BY <1>4 DEF Put, TypeOK
  <2>2. /\ Current(t) \in Stores /\ pc[t] = "put"
        /\ last[t] \in Coins \cup {None} /\ found[t] \in Coins \cup {MELTED_SENTINEL, None}
    BY <1>4, CurrentType DEF Put, TypeOK
  <2>3. found[t] # None /\ found[t] # last[t]
    BY <2>2 DEF AllReal, TickReal, Reading
  <2>4. last[t] = None \/ need
    BY <2>2, <2>3, CoinType DEF decide_store
  <2> HIDE DEF need
  <2>5. (need => Owes(t)') /\ \A x \in Ticks : Owes(x) => Owes(x)'
    BY <2>1, NextStoreOwes
  <2>6. CASE ledger'[s] = ledger[s]
    BY <2>1, <2>5, <2>6, IdleLapses
  <2>7. CASE ledger'[s] # ledger[s]
    <3>1. Current(t) = s
      BY <1>4, <2>7 DEF Put, TypeOK
    <3> QED BY <1>4, <2>4, <2>5, <3>1 DEF Lapses, Forgotten
  <2> QED BY <2>6, <2>7
<1>5. CASE Kill(t) \/ Invalidate(t)
  <2>1. CASE Owes(t)
    BY <1>5, <2>1 DEF Lapses
  <2>2. CASE ~Owes(t)
    <3>1. \A x \in Ticks : Owes(x) => Owes(x)'
      BY <1>5, <2>2 DEF Kill, Invalidate, Owes, TypeOK
    <3>2. chain' = chain /\ ledger' = ledger /\ (unpurged' = unpurged \/ ~unpurged'[s])
      BY <1>5 DEF Kill, Invalidate
    <3>3. CASE unpurged' = unpurged
      BY <3>1, <3>2, <3>3, IdleLapses
    <3>4. CASE ~unpurged'[s]
      BY <3>4 DEF Lapses, Forgotten
    <3> QED BY <3>2, <3>3, <3>4
  <2> QED BY <2>1, <2>2
<1> QED BY <1>1, <1>2, <1>3, <1>4, <1>5 DEF Watches

LEMMA StepLapses ==
    TypeOK /\ AllReal /\ [Next]_vars => [\A s \in Stores : Lapses(s)]_vars
<1> SUFFICES ASSUME TypeOK, AllReal, Next, NEW s \in Stores PROVE Lapses(s)
  OBVIOUS
<1>1. CASE \E d \in Domains : SetStatus(d)
  <2>1. UNCHANGED <<chain, ledger, unpurged, tick>>
    BY <1>1 DEF SetStatus
  <2>2. \A t \in Ticks : Owes(t) => Owes(t)'
    BY <2>1 DEF Owes, tick
  <2> QED BY <2>1, <2>2, IdleLapses
<1> QED BY <1>1, ChainStepLapses, TickStepLapses DEF Next

\* run_tick and its ledger, at any pace of the stores, with any history and whatever fails: a move is
\* lost to the watcher only with a tick that owed its invalidation, at a first look, or on a store
\* that the ledger held for melted or confused with a sibling.
THEOREM MovesAreForgottenWithTheirTick == Spec => ForgottenWithItsTick
<1>1. TypeOK /\ AllReal /\ [Next]_vars => [\A s \in Stores : Lapses(s)]_vars
  BY StepLapses
<1>2. [][\A s \in Stores : Lapses(s)]_vars => ForgottenWithItsTick
  BY DEF Lapses, ForgottenWithItsTick
<1> QED BY <1>1, <1>2, RealInvariance, PTL DEF Spec
=============================================================================
