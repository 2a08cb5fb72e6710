---------------------------- MODULE RangeFetchProofs ----------------------------
(***************************************************************************)
(* Proofs about RangeFetch, for every length, both window sizes, any       *)
(* number of lanes and any faults.                                         *)
(***************************************************************************)
EXTENDS RangeFetch, SequenceTheorems, FiniteSetTheorems, TLAPS

(* The inductive invariant. *)

\* The windows that a fan-out over p claims.
Items(p) == Len(Remaining(p))
Window(p, w) == Remaining(p)[w].start .. Remaining(p)[w].end

\* What the buffer of p may hold at position u.
Proper(p, u) == {Zero, u} \cup (IF p = "GET" THEN {Foreign} ELSE {})
Placed == \A p \in Paths : \A u \in DOMAIN buf[p] : buf[p][u] \in Proper(p, u)

\* Before its first reply an attempt has done nothing, and POST is the last one.
Untouched(p) == lane[p] = NoLanes /\ next[p] = 1 /\ DOMAIN buf[p] = {}
Fresh ==
    /\ path = "GET" => Untouched("POST")
    /\ phase = "first" => Untouched(path)
    /\ phase = "failed" => path = "POST"

\* While the awaited attempt fans out, and when it is done, every unit is in place or belongs to a
\* window that a lane awaits or will claim; a lane returns only when all windows are claimed.
Pending(p, u) ==
    \E w \in 1 .. Items(p) : u \in Window(p, w) /\ (w >= next[p] \/ \E l \in Lanes : lane[p][l] = w)
Accounted ==
    /\ DOMAIN Result = 0 .. (length - 1)
    /\ \A u \in DOMAIN Result : Result[u] # Zero \/ Pending(path, u)
    /\ \A l \in Lanes : lane[path][l] = Idle => next[path] > Items(path)
    /\ phase = "done" <=> \A l \in Lanes : lane[path][l] = Idle

IInv ==
    /\ TypeOK
    /\ Placed
    /\ Fresh
    /\ phase \in {"rest", "done"} => Accounted

-----------------------------------------------------------------------------
(* Windows. *)

LEMMA Division ==
    ASSUME NEW a \in Nat, NEW b \in Nat \ {0}
    PROVE  a \div b \in Nat /\ (a \div b) * b <= a /\ a < (a \div b + 1) * b
OBVIOUS

LEMMA SizeType == \A p \in Paths : Size(p) \in Nat \ {0}
BY FetchAssumption DEF Size, Paths

\* planWindows: the i-th window of a plan begins where i - 1 full ones end.
LEMMA PlannedWindows ==
    ASSUME NEW total \in Nat, NEW size \in Nat \ {0}
    PROVE  LET windows == planWindows(total, size)
               count == (total + size - 1) \div size
           IN  /\ count \in Nat
               /\ windows \in Seq([start : Int, end : Int])
               /\ Len(windows) = count
               /\ \A i \in 1 .. count :
                     /\ windows[i].start = (i - 1) * size
                     /\ windows[i].end = Least(i * size, total) - 1
<1> DEFINE windows == planWindows(total, size)
           count == (total + size - 1) \div size
           first(i) == (i - 1) * size
           last(i) == Least(i * size, total) - 1
           entry(i) == [start |-> first(i), end |-> last(i)]
           Windows == [start : Int, end : Int]
<1>1. count \in Nat
  BY Division
<1>2. windows = [i \in 1 .. count |-> entry(i)]
  BY DEF planWindows
<1>3. \A i \in 1 .. count : entry(i) \in [start : Int, end : Int]
  <2> SUFFICES ASSUME NEW i \in 1 .. count PROVE entry(i) \in [start : Int, end : Int]
    OBVIOUS
  <2>1. i \in Int /\ first(i) \in Int /\ i * size \in Int
    BY <1>1
  <2>2. last(i) \in Int
    BY <2>1 DEF Least
  <2> HIDE DEF first, last
  <2> QED BY <2>1, <2>2
<1>4. windows \in [1 .. count -> Windows]
  <2> HIDE DEF count, windows, entry
  <2> QED BY <1>2, <1>3
<1>5. windows \in Seq(Windows) /\ Len(windows) = count
  <2> HIDE DEF count, windows, entry, Windows
  <2> QED BY <1>1, <1>4
<1>6. \A i \in 1 .. count : windows[i] = entry(i)
  <2> HIDE DEF count, windows, entry
  <2> QED BY <1>2
<1>7. \A i \in 1 .. count : windows[i].start = (i - 1) * size /\ windows[i].end = Least(i * size, total) - 1
  <2>1. ASSUME NEW i \in 1 .. count PROVE windows[i].start = first(i) /\ windows[i].end = last(i)
    <3>1. windows[i] = entry(i)
      BY <1>6
    <3>2. entry(i).start = first(i) /\ entry(i).end = last(i)
      OBVIOUS
    <3> HIDE DEF windows, entry
    <3> QED BY <3>1, <3>2
  <2> QED BY <2>1
<1> QED BY <1>1, <1>5, <1>7

\* The w-th of the windows that are fanned out begins after the first one and w - 1 others.
LEMMA RemainingWindows ==
    ASSUME length \in Nat, NEW p \in Paths
    PROVE  LET count == (length + Size(p) - 1) \div Size(p)
           IN  /\ Items(p) = IF count = 0 THEN 0 ELSE count - 1
               /\ Items(p) \in Nat
               /\ \A w \in 1 .. Items(p) :
                     /\ Remaining(p)[w].start = w * Size(p)
                     /\ Remaining(p)[w].end = Least((w + 1) * Size(p), length) - 1
<1> DEFINE size == Size(p)
           windows == planWindows(length, size)
           count == (length + size - 1) \div size
<1>1. size \in Nat \ {0}
  BY SizeType
<1>2. /\ count \in Nat
      /\ windows \in Seq([start : Int, end : Int])
      /\ Len(windows) = count
      /\ \A i \in 1 .. count :
            windows[i].start = (i - 1) * size /\ windows[i].end = Least(i * size, length) - 1
  <2> HIDE DEF size
  <2> QED BY <1>1, PlannedWindows
<1>3. Remaining(p) = SubSeq(windows, 2, count)
  BY <1>2 DEF Remaining
<1>4. /\ Len(Remaining(p)) = IF 2 <= count THEN count - 1 ELSE 0
      /\ \A i \in 1 .. count - 1 : Remaining(p)[i] = windows[i + 1]
  <2> DEFINE Windows == [start : Int, end : Int]
  <2> HIDE DEF windows, count, Windows
  <2>1. windows \in Seq(Windows)
    BY <1>2 DEF Windows
  <2>2. /\ Len(SubSeq(windows, 2, count)) = IF 2 <= count THEN count - 2 + 1 ELSE 0
        /\ \A i \in 1 .. count - 2 + 1 : SubSeq(windows, 2, count)[i] = windows[2 + i - 1]
    <3>1. \A i \in 2 .. count : windows[i] \in Windows
      BY <1>2, <2>1
    <3>2. 2 \in Int /\ count \in Int
      BY <1>2
    <3> QED BY <3>1, <3>2, SubSeqProperties
  <2> QED BY <1>2, <1>3, <2>2
<1>5. Items(p) = (IF count = 0 THEN 0 ELSE count - 1) /\ Items(p) \in Nat
  <2> HIDE DEF count
  <2> QED BY <1>2, <1>4 DEF Items
<1>6. ASSUME NEW w \in 1 .. Items(p)
      PROVE  Remaining(p)[w].start = w * size /\ Remaining(p)[w].end = Least((w + 1) * size, length) - 1
  <2> HIDE DEF count, windows, size
  <2>1. w \in 1 .. count - 1 /\ w + 1 \in 1 .. count /\ w + 1 - 1 = w
    BY <1>2, <1>5, <1>6
  <2>2. Remaining(p)[w] = windows[w + 1]
    BY <1>4, <2>1
  <2>3. windows[w + 1].start = (w + 1 - 1) * size /\ windows[w + 1].end = Least((w + 1) * size, length) - 1
    BY <1>2, <2>1
  <2> QED BY <2>1, <2>2, <2>3
<1> QED BY <1>5, <1>6

\* No window reaches outside of the ciphertext, and what is asked for is what comes back.
LEMMA WindowInRange ==
    ASSUME length \in Nat, NEW p \in Paths, NEW w \in 1 .. Items(p)
    PROVE  /\ Window(p, w) \subseteq 0 .. (length - 1)
           /\ Remaining(p)[w].start .. Least(Remaining(p)[w].end, length - 1) = Window(p, w)
<1>1. Items(p) \in Nat /\ Size(p) \in Nat /\ w \in Nat
  BY RemainingWindows, SizeType
<1>2. w * Size(p) \in Nat /\ (w + 1) * Size(p) \in Nat
  BY <1>1
<1>3. Remaining(p)[w].start = w * Size(p) /\ Remaining(p)[w].end = Least((w + 1) * Size(p), length) - 1
  BY RemainingWindows, Zenon
<1> HIDE DEF Size
<1> QED BY <1>1, <1>2, <1>3 DEF Window, Least

\* The first window and the remaining ones leave no gap.
LEMMA WindowsCover ==
    ASSUME length \in Nat, NEW p \in Paths, NEW u \in 0 .. (length - 1), u > Size(p) - 1
    PROVE  \E w \in 1 .. Items(p) : u \in Window(p, w)
<1> DEFINE size == Size(p)
           w == u \div size
           count == (length + size - 1) \div size
<1>1. size \in Nat \ {0} /\ u \in Nat /\ size <= u /\ u < length
  BY SizeType
<1>2. w \in Nat /\ w * size <= u /\ u < (w + 1) * size
  <2> HIDE DEF size
  <2> QED BY <1>1, Division
<1>3. 1 <= w
  <2> HIDE DEF size, w
  <2>1. CASE w = 0
    BY <1>1, <1>2, <2>1
  <2> QED BY <1>2, <2>1
<1>4. count \in Nat /\ length + size - 1 < (count + 1) * size
  <2> HIDE DEF size
  <2>1. length + size - 1 \in Nat
    BY <1>1
  <2> QED BY <1>1, <2>1, Division
<1>5. w + 1 <= count
  <2> HIDE DEF size, w, count
  <2>1. (w + 1) * size < (count + 1) * size
    <3>1. (w + 1) * size = w * size + size
      BY <1>1, <1>2
    <3> QED BY <1>1, <1>2, <1>4, <3>1
  <2>2. CASE count <= w
    <3>1. (count + 1) * size <= (w + 1) * size
      BY <1>1, <1>2, <1>4, <2>2
    <3>2. (count + 1) * size \in Nat /\ (w + 1) * size \in Nat
      BY <1>1, <1>2, <1>4
    <3> QED BY <2>1, <3>1, <3>2
  <2> QED BY <1>2, <1>4, <2>2
<1>6. w \in 1 .. Items(p)
  <2>1. Items(p) = IF count = 0 THEN 0 ELSE count - 1
    BY RemainingWindows
  <2> HIDE DEF size, w, count
  <2> QED BY <1>2, <1>3, <1>4, <1>5, <2>1
<1>7. u \in Window(p, w)
  <2>1. Remaining(p)[w].start = w * size /\ Remaining(p)[w].end = Least((w + 1) * size, length) - 1
    BY <1>6, RemainingWindows
  <2> HIDE DEF size, w
  <2>2. w * size \in Nat /\ (w + 1) * size \in Nat
    BY <1>1, <1>2
  <2> QED BY <1>1, <1>2, <2>1, <2>2 DEF Window, Least
<1> QED BY <1>6, <1>7

-----------------------------------------------------------------------------
(* Bytes. *)

\* What comes back for a range fills it with what may stand there.
LEMMA AnswerIsProper ==
    ASSUME NEW p \in Paths, NEW start, NEW end, NEW bytes \in Answers(p, start, end)
    PROVE  /\ DOMAIN bytes = start .. Least(end, length - 1)
           /\ \A u \in DOMAIN bytes : bytes[u] \in Proper(p, u)
BY DEF Answers, Proper

\* Nothing that may be written is the mark of a position that nothing was written to.
LEMMA BytesAreNotZero ==
    ASSUME length \in Nat, NEW p \in Paths, NEW start \in Nat, NEW end \in Int,
           NEW bytes \in Answers(p, start, end)
    PROVE  \A u \in DOMAIN bytes : bytes[u] # Zero
<1> DEFINE range == start .. Least(end, length - 1)
<1>1. \A u \in range : u \in Nat /\ u # Zero
  BY DEF Least, Zero
<1>2. Foreign # Zero
  BY DEF Foreign, Zero
<1>3. bytes = [u \in range |-> u] \/ bytes = [u \in range |-> Foreign]
  BY DEF Answers
<1> HIDE DEF range
<1> QED BY <1>1, <1>2, <1>3

\* The windows depend on the length alone, and that does not change.
LEMMA SameWindows ==
    ASSUME length' = length
    PROVE  \A p \in Paths :
              /\ Remaining(p)' = Remaining(p) /\ Items(p)' = Items(p)
              /\ \A w : Window(p, w)' = Window(p, w)
BY DEF Remaining, Items, Window, Size

\* What the parts of the invariant say of the types.
LEMMA FetchTypes ==
    ASSUME TypeOK
    PROVE  /\ length \in Nat /\ path \in Paths
           /\ \A p \in Paths :
                 /\ Items(p) \in Nat
                 /\ next[p] \in 1 .. (Items(p) + 1)
                 /\ lane[p] \in [Lanes -> 0 .. Items(p)]
           /\ DOMAIN next = Paths /\ DOMAIN lane = Paths /\ DOMAIN buf = Paths
<1>1. length \in Nat /\ path \in Paths
  BY FetchAssumption DEF TypeOK
<1>2. \A p \in Paths : Items(p) \in Nat
  BY <1>1, RemainingWindows
<1> QED BY <1>1, <1>2 DEF TypeOK, Items

LEMMA IInvInit == Init => IInv
<1> SUFFICES ASSUME Init PROVE IInv
  OBVIOUS
<1>1. length \in Nat /\ path \in Paths /\ phase = "first"
  BY FetchAssumption DEF Init
<1>2. \A p \in Paths : Items(p) \in Nat
  BY <1>1, RemainingWindows
<1>3. \A p \in Paths : next[p] = 1 /\ lane[p] = NoLanes /\ DOMAIN buf[p] = {}
  BY DEF Init
<1>4. TypeOK
  <2>1. \A p \in Paths : next[p] \in 1 .. (Len(Remaining(p)) + 1)
    BY <1>2, <1>3 DEF Items
  <2>2. \A p \in Paths : lane[p] \in [Lanes -> 0 .. Len(Remaining(p))]
    BY <1>2, <1>3 DEF Items, NoLanes, Idle
  <2> QED BY <1>1, <1>3, <2>1, <2>2 DEF TypeOK, Init
<1>5. Placed
  BY <1>3 DEF Placed
<1>6. Fresh
  BY <1>1, <1>3 DEF Fresh, Untouched, Paths
<1> QED BY <1>1, <1>4, <1>5, <1>6 DEF IInv

-----------------------------------------------------------------------------
(* The first reply. *)

LEMMA FirstKeeps ==
    ASSUME IInv, First
    PROVE  IInv'
<1> DEFINE p == path
           items == Items(p)
           zeros == [u \in 0 .. (length - 1) |-> Zero]
<1>1. /\ length \in Nat /\ path \in Paths /\ items \in Nat
      /\ length' = length /\ path' = path /\ phase = "first"
  BY FetchTypes DEF IInv, First
<1>2. PICK bytes \in Answers(p, 0, Size(p) - 1) : buf' = [buf EXCEPT ![p] = Write(zeros, bytes)]
  BY DEF First
<1>3. /\ DOMAIN bytes = 0 .. Least(Size(p) - 1, length - 1)
      /\ \A u \in DOMAIN bytes : bytes[u] \in Proper(p, u) /\ bytes[u] # Zero
  <2>1. Size(p) - 1 \in Int
    BY <1>1, SizeType
  <2> QED BY <1>1, <2>1, AnswerIsProper, BytesAreNotZero
<1>4. /\ DOMAIN buf = Paths /\ DOMAIN buf' = Paths
      /\ \A other \in Paths \ {p} : buf'[other] = buf[other]
      /\ DOMAIN buf'[p] = 0 .. (length - 1)
      /\ \A u \in 0 .. (length - 1) : buf'[p][u] = IF u \in DOMAIN bytes THEN bytes[u] ELSE Zero
  BY <1>1, <1>2, FetchTypes DEF IInv, Write
<1>5. /\ DOMAIN lane' = Paths /\ DOMAIN next' = Paths
      /\ \A other \in Paths \ {p} : lane'[other] = lane[other] /\ next'[other] = next[other]
      /\ lane'[p] = [l \in Lanes |-> IF l <= items THEN l ELSE Idle]
      /\ next'[p] = Least(MAX_PARALLEL_RANGES, items) + 1
      /\ phase' = IF items = 0 THEN "done" ELSE "rest"
  BY <1>1, FetchTypes DEF IInv, First, Items
<1>6. \A other \in Paths : Remaining(other)' = Remaining(other) /\ Items(other)' = Items(other)
  BY <1>1, SameWindows
<1>7. TypeOK'
  <2>1. \A other \in Paths : next'[other] \in 1 .. (Items(other) + 1)
    BY <1>1, <1>5, FetchTypes, FetchAssumption DEF IInv, Least
  <2>2. \A other \in Paths : lane'[other] \in [Lanes -> 0 .. Items(other)]
    <3>1. lane'[p] \in [Lanes -> 0 .. items]
      BY <1>1, <1>5, FetchAssumption DEF Lanes, Idle
    <3>2. \A other \in Paths \ {p} : lane'[other] \in [Lanes -> 0 .. Items(other)]
      BY <1>5, FetchTypes DEF IInv
    <3> QED BY <3>1, <3>2
  <2>3. ASSUME NEW other \in Paths
        PROVE  /\ DOMAIN buf'[other] \subseteq 0 .. (length - 1)
               /\ \A u \in DOMAIN buf'[other] : buf'[other][u] \in {Zero, Foreign} \cup 0 .. (length - 1)
    BY <1>1, <1>3, <1>4 DEF IInv, TypeOK, Proper
  <2> QED BY <1>1, <1>4, <1>5, <1>6, <2>1, <2>2, <2>3 DEF IInv, TypeOK, Items
<1>8. Placed'
  BY <1>1, <1>3, <1>4 DEF IInv, Placed, Proper
<1>9. Fresh'
  BY <1>1, <1>4, <1>5 DEF IInv, Fresh, Untouched, Paths
<1>10. Accounted'
  <2>1. ASSUME NEW u \in 0 .. (length - 1), buf'[p][u] = Zero
        PROVE  Pending(p, u)'
    <3>1. u > Size(p) - 1
      <4>1. u \notin DOMAIN bytes
        BY <1>3, <1>4, <2>1
      <4> QED BY <1>1, <1>3, <4>1, SizeType DEF Least
    <3>2. PICK w \in 1 .. items : u \in Window(p, w)
      BY <1>1, <2>1, <3>1, WindowsCover
    <3>3. w >= next'[p] \/ \E l \in Lanes : lane'[p][l] = w
      <4>1. CASE w <= MAX_PARALLEL_RANGES
        BY <1>1, <1>5, <3>2, <4>1, FetchAssumption DEF Lanes
      <4>2. CASE w > MAX_PARALLEL_RANGES
        BY <1>1, <1>5, <3>2, <4>2, FetchAssumption DEF Least
      <4> QED BY <4>1, <4>2, <3>2, <1>1, FetchAssumption
    <3> QED BY <1>1, <1>6, <3>2, <3>3, SameWindows DEF Pending
  <2>2. \A l \in Lanes : lane'[p][l] = Idle => next'[p] > items
    BY <1>1, <1>5, FetchAssumption DEF Lanes, Idle, Least
  <2>3. phase' = "done" <=> \A l \in Lanes : lane'[p][l] = Idle
    <3>1. 1 \in Lanes
      BY FetchAssumption DEF Lanes
    <3>2. CASE items = 0
      BY <1>1, <1>5, <3>2, FetchAssumption DEF Lanes, Idle
    <3>3. CASE items # 0
      BY <1>1, <1>5, <3>1, <3>3 DEF Idle
    <3> QED BY <3>2, <3>3
  <2> QED BY <1>1, <1>4, <1>6, <2>1, <2>2, <2>3 DEF Accounted, Result
<1> QED BY <1>7, <1>8, <1>9, <1>10 DEF IInv

-----------------------------------------------------------------------------
(* The other windows. *)

\* A window lands where it belongs, and the lane claims what is next or returns.
LEMMA Landing ==
    ASSUME IInv, NEW p \in Paths, NEW l \in Lanes, Land(p, l)
    PROVE  LET w == lane[p][l]
               claimed == next[p] <= Items(p)
           IN  /\ w \in 1 .. Items(p)
               /\ length' = length /\ path' = path
               /\ phase' = IF p = path /\ phase = "rest" /\ LastLane(p, l) THEN "done" ELSE phase
               /\ DOMAIN buf' = Paths /\ DOMAIN lane' = Paths /\ DOMAIN next' = Paths
               /\ \A other \in Paths \ {p} :
                     buf'[other] = buf[other] /\ lane'[other] = lane[other] /\ next'[other] = next[other]
               /\ lane'[p] = [lane[p] EXCEPT ![l] = IF claimed THEN next[p] ELSE Idle]
               /\ next'[p] = IF claimed THEN next[p] + 1 ELSE next[p]
               /\ DOMAIN buf'[p] = DOMAIN buf[p]
               /\ \A u \in DOMAIN buf[p] :
                     IF u \in Window(p, w)
                     THEN buf'[p][u] \in Proper(p, u) /\ buf'[p][u] # Zero
                     ELSE buf'[p][u] = buf[p][u]
<1> DEFINE w == lane[p][l]
           window == Remaining(p)[w]
           claimed == next[p] <= Items(p)
<1>1. /\ length \in Nat /\ Items(p) \in Nat /\ next[p] \in 1 .. (Items(p) + 1)
      /\ lane[p] \in [Lanes -> 0 .. Items(p)]
      /\ DOMAIN next = Paths /\ DOMAIN lane = Paths /\ DOMAIN buf = Paths
  BY FetchTypes DEF IInv
<1>2. w \in 1 .. Items(p)
  BY <1>1 DEF Land, Idle
<1>3. PICK bytes \in Answers(p, window.start, window.end) : buf' = [buf EXCEPT ![p] = Write(buf[p], bytes)]
  BY DEF Land
<1>4. DOMAIN bytes = Window(p, w) /\ \A u \in DOMAIN bytes : bytes[u] \in Proper(p, u)
  <2>1. window.start .. Least(window.end, length - 1) = Window(p, w)
    BY <1>1, <1>2, WindowInRange
  <2> QED BY <2>1, AnswerIsProper
<1>5. \A u \in DOMAIN bytes : bytes[u] # Zero
  <2>1. window.start = w * Size(p) /\ window.end = Least((w + 1) * Size(p), length) - 1
    BY <1>1, <1>2, RemainingWindows
  <2>2. w * Size(p) \in Nat /\ (w + 1) * Size(p) \in Nat
    BY <1>1, <1>2, SizeType
  <2>3. window.start \in Nat /\ window.end \in Int
    BY <1>1, <2>1, <2>2 DEF Least
  <2> QED BY <1>1, <2>3, BytesAreNotZero
<1>6. /\ DOMAIN buf' = Paths /\ \A other \in Paths \ {p} : buf'[other] = buf[other]
      /\ buf'[p] = Write(buf[p], bytes)
  BY <1>1, <1>3
<1>7. /\ DOMAIN buf'[p] = DOMAIN buf[p]
      /\ \A u \in DOMAIN buf[p] : buf'[p][u] = IF u \in DOMAIN bytes THEN bytes[u] ELSE buf[p][u]
  BY <1>6 DEF Write
<1>8. Claim(p, l) = IF claimed THEN next[p] ELSE Idle
  BY DEF Claim, Items
<1>9. Claim(p, l) = Idle <=> ~claimed
  BY <1>1, <1>8 DEF Idle
<1>10. /\ DOMAIN lane' = Paths /\ \A other \in Paths \ {p} : lane'[other] = lane[other]
       /\ lane'[p] = [lane[p] EXCEPT ![l] = Claim(p, l)]
  BY <1>1 DEF Land
<1>11. /\ DOMAIN next' = Paths /\ \A other \in Paths \ {p} : next'[other] = next[other]
       /\ next'[p] = IF claimed THEN next[p] + 1 ELSE next[p]
  BY <1>1, <1>9 DEF Land
<1>12. /\ length' = length /\ path' = path
       /\ phase' = IF p = path /\ phase = "rest" /\ LastLane(p, l) THEN "done" ELSE phase
  BY DEF Land
<1> HIDE DEF w, claimed
<1>13. \A u \in DOMAIN buf[p] : IF u \in Window(p, w)
                                THEN buf'[p][u] \in Proper(p, u) /\ buf'[p][u] # Zero
                                ELSE buf'[p][u] = buf[p][u]
  BY <1>4, <1>5, <1>7
<1> QED BY <1>2, <1>6, <1>7, <1>8, <1>10, <1>11, <1>12, <1>13 DEF w, claimed

\* When a lane of the awaited attempt runs, the attempt is under way or has failed.
LEMMA LaneRuns ==
    ASSUME IInv, NEW l \in Lanes, lane[path][l] # Idle
    PROVE  phase \in {"rest", "failed"} /\ (phase = "rest" => Accounted)
BY DEF IInv, TypeOK, Fresh, Untouched, NoLanes, Accounted

\* No lane but those of the GET attempt outlives the attempt that is awaited.
LEMMA OthersAreOfGet ==
    ASSUME IInv, NEW p \in Paths, NEW l \in Lanes, lane[p][l] # Idle, p # path
    PROVE  p = "GET" /\ path = "POST"
BY DEF IInv, TypeOK, Fresh, Untouched, NoLanes, Paths

\* What happens to another attempt is no concern of the awaited one.
LEMMA AccountedFrame ==
    ASSUME path \in Paths, Accounted, length' = length, path' = path, phase' = phase,
           lane'[path] = lane[path], next'[path] = next[path], buf'[path] = buf[path]
    PROVE  Accounted'
<1>1. Items(path)' = Items(path) /\ \A w : Window(path, w)' = Window(path, w)
  BY DEF Remaining, Size, Items, Window
<1>2. Result' = Result
  BY DEF Result
<1>3. \A u : Pending(path, u)' <=> Pending(path, u)
  BY <1>1 DEF Pending
<1> QED BY <1>1, <1>2, <1>3 DEF Accounted

LEMMA LandKeeps ==
    ASSUME IInv, NEW p \in Paths, NEW l \in Lanes, Land(p, l)
    PROVE  IInv'
<1> DEFINE w == lane[p][l]
           claimed == next[p] <= Items(p)
           claim == IF claimed THEN next[p] ELSE Idle
<1>1. /\ length \in Nat /\ path \in Paths /\ phase \in {"first", "rest", "done", "failed"}
      /\ \A q \in Paths : /\ Items(q) \in Nat /\ next[q] \in 1 .. (Items(q) + 1)
                          /\ lane[q] \in [Lanes -> 0 .. Items(q)]
  BY FetchTypes DEF IInv, TypeOK
<1>2. /\ w \in 1 .. Items(p)
      /\ length' = length /\ path' = path
      /\ phase' = IF p = path /\ phase = "rest" /\ LastLane(p, l) THEN "done" ELSE phase
      /\ DOMAIN buf' = Paths /\ DOMAIN lane' = Paths /\ DOMAIN next' = Paths
      /\ \A other \in Paths \ {p} :
            buf'[other] = buf[other] /\ lane'[other] = lane[other] /\ next'[other] = next[other]
      /\ lane'[p] = [lane[p] EXCEPT ![l] = claim]
      /\ next'[p] = IF claimed THEN next[p] + 1 ELSE next[p]
      /\ DOMAIN buf'[p] = DOMAIN buf[p]
  BY Landing
<1>3. \A u \in DOMAIN buf[p] : IF u \in Window(p, w)
                               THEN buf'[p][u] \in Proper(p, u) /\ buf'[p][u] # Zero
                               ELSE buf'[p][u] = buf[p][u]
  BY Landing
<1>4. \A q \in Paths : Remaining(q)' = Remaining(q) /\ Items(q)' = Items(q)
  BY <1>2, SameWindows
<1>5. \A q \in Paths : next'[q] \in 1 .. (Items(q) + 1)
  BY <1>1, <1>2
<1>6. \A q \in Paths : lane'[q] \in [Lanes -> 0 .. Items(q)]
  <2>1. claim \in 0 .. Items(p)
    BY <1>1 DEF Idle
  <2> HIDE DEF claim
  <2>2. lane'[p] \in [Lanes -> 0 .. Items(p)]
    BY <1>1, <1>2, <2>1
  <2> QED BY <1>1, <1>2, <2>2
<1>7. Placed'
  BY <1>2, <1>3 DEF IInv, Placed, Proper
<1>8. TypeOK'
  <2>1. ASSUME NEW q \in Paths
        PROVE  /\ DOMAIN buf'[q] \subseteq 0 .. (length - 1)
               /\ \A u \in DOMAIN buf'[q] : buf'[q][u] \in {Zero, Foreign} \cup 0 .. (length - 1)
    <3>1. DOMAIN buf'[q] \subseteq 0 .. (length - 1)
      BY <1>2 DEF IInv, TypeOK
    <3>2. \A u \in DOMAIN buf'[q] : buf'[q][u] \in Proper(q, u)
      BY <1>7 DEF Placed, Proper
    <3> QED BY <3>1, <3>2 DEF Proper
  <2>2. phase' \in {"first", "rest", "done", "failed"}
    BY <1>1, <1>2
  <2> QED BY <1>1, <1>2, <1>4, <1>5, <1>6, <2>1, <2>2 DEF IInv, TypeOK, Items
<1>9. CASE p # path
  <2>1. p = "GET" /\ path = "POST" /\ phase' = phase
    BY <1>1, <1>2, <1>9, OthersAreOfGet DEF Idle
  <2>2. Fresh'
    BY <1>1, <1>2, <1>9, <2>1 DEF IInv, Fresh, Untouched
  <2>3. Accounted => Accounted'
    BY <1>1, <1>2, <1>9, <2>1, AccountedFrame
  <2> QED BY <1>7, <1>8, <2>1, <2>2, <2>3 DEF IInv
<1>10. CASE p = path
  <2>1. phase \in {"rest", "failed"} /\ (phase = "rest" => Accounted)
    BY <1>2, <1>10, LaneRuns DEF Idle
  <2>2. Fresh'
    BY <1>1, <1>2, <1>10, <2>1 DEF IInv, Fresh, Untouched, Paths
  <2>3. ASSUME phase' \in {"rest", "done"} PROVE Accounted'
    <3>1. phase = "rest" /\ Accounted
      BY <1>2, <2>1, <2>3
    <3>2. ASSUME NEW u \in DOMAIN buf[p], buf'[p][u] = Zero
          PROVE  \E v \in 1 .. Items(p) :
                    u \in Window(p, v) /\ (v >= next'[p] \/ \E k \in Lanes : lane'[p][k] = v)
      <4>1. u \notin Window(p, w) /\ buf[p][u] = Zero
        BY <1>3, <3>2
      <4>2. PICK v \in 1 .. Items(p) :
               u \in Window(p, v) /\ (v >= next[p] \/ \E k \in Lanes : lane[p][k] = v)
        BY <1>10, <3>1, <4>1 DEF Accounted, Result, Pending
      <4>3. v # w
        BY <4>1, <4>2
      <4>4. CASE v >= next[p]
        BY <1>1, <1>2, <4>2, <4>4
      <4>5. ASSUME NEW k \in Lanes, lane[p][k] = v PROVE lane'[p][k] = v
        BY <1>1, <1>2, <4>3, <4>5
      <4> QED BY <4>2, <4>4, <4>5
    <3>3. ASSUME NEW k \in Lanes, lane'[p][k] = Idle PROVE next'[p] > Items(p)
      <4>1. CASE k = l
        BY <1>1, <1>2, <3>3, <4>1 DEF Idle
      <4>2. CASE k # l
        <5>1. lane[p][k] = Idle
          BY <1>1, <1>2, <3>3, <4>2
        <5> QED BY <1>1, <1>2, <1>10, <3>1, <5>1 DEF Accounted
      <4> QED BY <4>1, <4>2
    <3>4. LastLane(p, l) <=> \A k \in Lanes : lane'[p][k] = Idle
      <4>1. lane'[p][l] = claim /\ \A k \in Lanes \ {l} : lane'[p][k] = lane[p][k]
        BY <1>1, <1>2
      <4>2. Claim(p, l) = claim
        BY DEF Claim, Items
      <4> HIDE DEF claim
      <4> QED BY <4>1, <4>2 DEF LastLane
    <3>5. phase' = "done" <=> \A k \in Lanes : lane'[p][k] = Idle
      BY <1>2, <1>10, <3>1, <3>4
    <3> HIDE DEF w, claim, claimed
    <3>6. \A u \in DOMAIN buf'[p] : buf'[p][u] # Zero \/ Pending(p, u)'
      BY <1>2, <1>4, <3>2, SameWindows DEF Pending
    <3> QED BY <1>2, <1>4, <1>10, <3>1, <3>3, <3>5, <3>6 DEF Accounted, Result
  <2> QED BY <1>7, <1>8, <2>2, <2>3 DEF IInv
<1> QED BY <1>9, <1>10

-----------------------------------------------------------------------------
(* Failures. *)

LEMMA FirstGetFailsKeeps ==
    ASSUME IInv, FirstGetFails
    PROVE  IInv'
<1>1. /\ path = "GET" /\ phase = "first" /\ path' = "POST" /\ phase' = "first"
      /\ length' = length /\ next' = next /\ lane' = lane /\ buf' = buf
  BY DEF FirstGetFails, Fallback
<1>2. \A p \in Paths : Remaining(p)' = Remaining(p)
  BY <1>1, SameWindows
<1>3. TypeOK'
  BY <1>1, <1>2 DEF IInv, TypeOK, Paths
<1>4. Placed' /\ Fresh'
  BY <1>1 DEF IInv, Placed, Proper, Fresh, Untouched
<1> QED BY <1>1, <1>3, <1>4 DEF IInv

LEMMA GetFailsKeeps ==
    ASSUME IInv, NEW l \in Lanes, GetFails(l)
    PROVE  IInv'
<1>1. /\ length \in Nat /\ path \in Paths /\ "GET" \in Paths
      /\ \A p \in Paths : Items(p) \in Nat /\ lane[p] \in [Lanes -> 0 .. Items(p)]
      /\ DOMAIN lane = Paths
  BY FetchTypes DEF IInv, Paths
<1>2. /\ length' = length /\ next' = next /\ buf' = buf
      /\ lane["GET"][l] # Idle
      /\ DOMAIN lane' = Paths /\ lane'["GET"] = [lane["GET"] EXCEPT ![l] = Idle]
      /\ \A p \in Paths \ {"GET"} : lane'[p] = lane[p]
  BY <1>1 DEF GetFails
<1>3. \A p \in Paths : Remaining(p)' = Remaining(p) /\ Items(p)' = Items(p)
  BY <1>2, SameWindows
<1>4. \A p \in Paths : lane'[p] \in [Lanes -> 0 .. Items(p)]
  <2>1. lane'["GET"] \in [Lanes -> 0 .. Items("GET")]
    BY <1>1, <1>2 DEF Idle
  <2> QED BY <1>1, <1>2, <2>1
<1>5. path' \in Paths /\ phase' \in {"first", "rest", "done", "failed"}
  BY DEF IInv, TypeOK, GetFails, Fallback, Paths
<1>6. TypeOK'
  BY <1>2, <1>3, <1>4, <1>5 DEF IInv, TypeOK, Items
<1>7. Placed'
  BY <1>2 DEF IInv, Placed, Proper
<1>8. CASE path = "GET"
  <2>1. path' = "POST" /\ phase' = "first"
    BY <1>8 DEF GetFails, Fallback
  <2>2. Untouched("POST")'
    BY <1>2, <1>8 DEF IInv, Fresh, Untouched, Paths
  <2> QED BY <1>6, <1>7, <2>1, <2>2 DEF IInv, Fresh
<1>9. CASE path # "GET"
  <2>1. path = "POST" /\ path' = path /\ phase' = phase
    BY <1>1, <1>9 DEF GetFails, Paths
  <2>2. Fresh'
    BY <1>2, <1>9, <2>1 DEF IInv, Fresh, Untouched, Paths
  <2>3. Accounted => Accounted'
    BY <1>1, <1>2, <1>9, <2>1, AccountedFrame
  <2> QED BY <1>6, <1>7, <2>1, <2>2, <2>3 DEF IInv
<1> QED BY <1>8, <1>9

\* Nobody is there to catch the failure of a POST attempt.
LEMMA PostFailureKeeps ==
    ASSUME IInv, FirstPostFails \/ \E l \in Lanes : PostFails(l)
    PROVE  IInv'
<1>1. /\ length \in Nat /\ path = "POST" /\ phase \in {"first", "rest", "failed"} /\ "POST" \in Paths
      /\ \A p \in Paths : Items(p) \in Nat /\ lane[p] \in [Lanes -> 0 .. Items(p)]
      /\ DOMAIN lane = Paths
  <2>1. CASE FirstPostFails
    BY <2>1, FetchTypes DEF IInv, FirstPostFails, Paths
  <2>2. ASSUME NEW l \in Lanes, PostFails(l) PROVE path = "POST" /\ phase \in {"rest", "failed"}
    <3>1. "POST" \in Paths /\ lane["POST"][l] # Idle
      BY <2>2 DEF PostFails, Paths
    <3>2. path = "POST"
      BY <3>1, OthersAreOfGet
    <3> QED BY <3>1, <3>2, LaneRuns
  <2> QED BY <2>1, <2>2, FetchTypes DEF IInv, Paths
<1>2. /\ length' = length /\ path' = path /\ phase' = "failed" /\ next' = next /\ buf' = buf
      /\ DOMAIN lane' = Paths
      /\ \A p \in Paths : lane'[p] \in [Lanes -> 0 .. Items(p)]
  <2>1. CASE FirstPostFails
    BY <1>1, <2>1 DEF FirstPostFails
  <2>2. ASSUME NEW l \in Lanes, PostFails(l)
        PROVE  /\ length' = length /\ path' = path /\ phase' = "failed" /\ next' = next /\ buf' = buf
               /\ DOMAIN lane' = Paths
               /\ \A p \in Paths : lane'[p] \in [Lanes -> 0 .. Items(p)]
    <3>1. "POST" \in Paths /\ lane["POST"][l] # Idle
      BY <2>2 DEF PostFails, Paths
    <3>2. phase \in {"rest", "failed"}
      BY <1>1, <3>1, LaneRuns
    <3>3. lane' = [lane EXCEPT !["POST"][l] = Idle]
      BY <2>2 DEF PostFails
    <3>4. \A p \in Paths : lane'[p] \in [Lanes -> 0 .. Items(p)]
      BY <1>1, <3>3 DEF Idle
    <3> QED BY <1>1, <2>2, <3>2, <3>3, <3>4 DEF PostFails
  <2> QED BY <2>1, <2>2
<1>3. \A p \in Paths : Remaining(p)' = Remaining(p)
  BY <1>2, SameWindows
<1>4. TypeOK'
  BY <1>1, <1>2, <1>3 DEF IInv, TypeOK, Items, Paths
<1>5. Placed' /\ Fresh'
  BY <1>1, <1>2 DEF IInv, Placed, Proper, Fresh
<1> QED BY <1>2, <1>4, <1>5 DEF IInv

LEMMA IInvStutter == IInv /\ UNCHANGED vars => IInv'
<1> SUFFICES ASSUME IInv, UNCHANGED vars PROVE IInv'
  OBVIOUS
<1> USE DEF vars
<1>1. \A p \in Paths : Remaining(p)' = Remaining(p)
  BY SameWindows
<1>2. TypeOK'
  BY <1>1 DEF IInv, TypeOK
<1>3. Placed' /\ Fresh'
  BY DEF IInv, Placed, Proper, Fresh, Untouched
<1>4. Accounted => Accounted'
  BY AccountedFrame DEF IInv, TypeOK
<1> QED BY <1>2, <1>3, <1>4 DEF IInv

LEMMA IInvNext == IInv /\ [Next]_vars => IInv'
<1> SUFFICES ASSUME IInv, [Next]_vars PROVE IInv'
  OBVIOUS
<1>1. CASE FirstSettles
  BY <1>1, FirstKeeps, FirstGetFailsKeeps, PostFailureKeeps DEF FirstSettles
<1>2. ASSUME NEW p \in Paths, NEW l \in Lanes, Settles(p, l) PROVE IInv'
  BY <1>2, LandKeeps, GetFailsKeeps, PostFailureKeeps DEF Settles
<1>3. CASE UNCHANGED vars
  BY <1>3, IInvStutter
<1> QED BY <1>1, <1>2, <1>3 DEF Next

LEMMA Invariance == Spec => []IInv
BY IInvInit, IInvNext, PTL DEF Spec

-----------------------------------------------------------------------------
(* What follows. *)

\* When the attempt is done no window is pending.
LEMMA WholeWhenDone ==
    ASSUME IInv, phase = "done"
    PROVE  DOMAIN Result = 0 .. (length - 1) /\ \A u \in DOMAIN Result : Result[u] # Zero
<1>1. Accounted /\ path \in Paths /\ Items(path) \in Nat /\ next[path] \in Nat
  BY FetchTypes DEF IInv
<1>2. \A l \in Lanes : lane[path][l] = Idle
  BY <1>1 DEF Accounted
<1>3. next[path] > Items(path)
  <2>1. 1 \in Lanes
    BY FetchAssumption DEF Lanes
  <2> QED BY <1>1, <1>2, <2>1 DEF Accounted
<1>4. \A u : ~Pending(path, u)
  BY <1>1, <1>2, <1>3 DEF Pending, Idle
<1> QED BY <1>1, <1>4 DEF Accounted

LEMMA IInvReassembled == IInv => Reassembled
<1> SUFFICES ASSUME IInv, phase = "done"
             PROVE  /\ DOMAIN Result = 0 .. (length - 1)
                    /\ \A u \in DOMAIN Result : Result[u] = u \/ (path = "GET" /\ Result[u] = Foreign)
  BY DEF Reassembled
<1>1. \A u \in DOMAIN Result : Result[u] \in Proper(path, u)
  BY DEF IInv, TypeOK, Placed, Result, Proper
<1> QED BY <1>1, WholeWhenDone DEF Proper

\* Once done, whatever lands lands in the other buffer.
LEMMA DoneIsFinal == IInv /\ [Next]_vars => (phase = "done" => phase' = "done" /\ Result' = Result)
<1> SUFFICES ASSUME IInv, [Next]_vars, phase = "done" PROVE phase' = "done" /\ Result' = Result
  OBVIOUS
<1>1. \A l \in Lanes : lane[path][l] = Idle
  BY DEF IInv, Accounted
<1>2. ~FirstSettles
  BY DEF FirstSettles, First, FirstGetFails, FirstPostFails
<1>3. ASSUME NEW p \in Paths, NEW l \in Lanes, Settles(p, l)
      PROVE  phase' = "done" /\ Result' = Result
  <2>1. lane[p][l] # Idle
    BY <1>3 DEF Settles, Land, GetFails, PostFails
  <2>2. p # path
    BY <1>1, <2>1
  <2>3. p = "GET" /\ path = "POST"
    BY <2>1, <2>2, OthersAreOfGet
  <2>4. CASE Land(p, l)
    <3>1. path \in Paths \ {p}
      BY <2>3 DEF Paths
    <3>2. path' = path /\ phase' = phase /\ buf'[path] = buf[path]
      BY <2>2, <2>4, <3>1, Landing
    <3> QED BY <3>2 DEF Result
  <2>5. CASE GetFails(l)
    BY <2>3, <2>5 DEF GetFails, Result
  <2> QED BY <1>3, <2>3, <2>4, <2>5 DEF Settles
<1>4. CASE UNCHANGED vars
  BY <1>4 DEF vars, Result
<1> QED BY <1>2, <1>3, <1>4 DEF Next

-----------------------------------------------------------------------------
(* Every step brings the end nearer. *)

LEMMA OpenType ==
    ASSUME TypeOK, NEW p \in Paths
    PROVE  /\ Out(p) \subseteq Lanes /\ IsFiniteSet(Out(p)) /\ Cardinality(Out(p)) \in Nat
           /\ Open(p) \in Nat
<1>1. IsFiniteSet(Lanes)
  BY FetchAssumption, FS_Interval DEF Lanes
<1>2. Out(p) \subseteq Lanes
  BY DEF Out
<1>3. IsFiniteSet(Out(p)) /\ Cardinality(Out(p)) \in Nat
  BY <1>1, <1>2, FS_Subset, FS_CardinalityType
<1>4. Len(Remaining(p)) \in Nat /\ next[p] \in 1 .. (Len(Remaining(p)) + 1)
  BY FetchTypes DEF Items
<1> QED BY <1>2, <1>3, <1>4 DEF Open

LEMMA AheadType ==
    /\ \A p \in Paths : \A ph : Ahead(p, ph) \in Nat
    /\ Ahead("GET", "first") = 4 /\ Ahead("GET", "rest") = 3
    /\ Ahead("POST", "first") = 2 /\ Ahead("POST", "rest") = 1
    /\ \A p : Ahead(p, "done") = 0 /\ Ahead(p, "failed") = 0
BY DEF Ahead, Paths

\* Nothing is open or closed where no lane moves.
LEMMA OpenFrame ==
    ASSUME NEW p \in Paths, length' = length, lane'[p] = lane[p], next'[p] = next[p]
    PROVE  Open(p)' = Open(p)
<1>1. Remaining(p)' = Remaining(p) /\ Out(p)' = Out(p)
  BY SameWindows DEF Out
<1> QED BY <1>1 DEF Open

\* A lane that was awaiting a window returns, or goes on to the next one.
LEMMA LaneAdvances ==
    ASSUME TypeOK, NEW p \in Paths, NEW l \in Lanes, lane[p][l] # Idle, length' = length,
           NEW claim, lane'[p] = [lane[p] EXCEPT ![l] = claim],
           \/ claim = Idle /\ next'[p] = next[p]
           \/ claim # Idle /\ next'[p] = next[p] + 1
    PROVE  Open(p) \in Nat /\ Open(p)' \in Nat /\ Open(p)' = Open(p) - 1
<1>1. /\ Len(Remaining(p)) \in Nat /\ next[p] \in 1 .. (Len(Remaining(p)) + 1)
      /\ lane[p] \in [Lanes -> 0 .. Len(Remaining(p))]
      /\ Len(Remaining(p)') = Len(Remaining(p))
  BY FetchTypes, SameWindows DEF Items
<1>2. /\ IsFiniteSet(Out(p)) /\ Cardinality(Out(p)) \in Nat /\ l \in Out(p)
      /\ Cardinality(Out(p) \ {l}) = Cardinality(Out(p)) - 1 /\ Cardinality(Out(p)) >= 1
  <2>1. IsFiniteSet(Out(p)) /\ l \in Out(p)
    BY OpenType DEF Out
  <2>2. /\ Cardinality(Out(p) \ {l}) = Cardinality(Out(p)) - 1
        /\ Cardinality(Out(p) \ {l}) \in Nat /\ Cardinality(Out(p)) \in Nat
    BY <2>1, FS_RemoveElement, FS_CardinalityType
  <2> QED BY <2>1, <2>2
<1>3. CASE claim = Idle
  <2>1. Out(p)' = Out(p) \ {l}
    BY <1>1, <1>3 DEF Out
  <2>2. Cardinality(Out(p)') = Cardinality(Out(p)) - 1
    BY <1>2, <2>1
  <2>3. next'[p] = next[p]
    BY <1>3
  <2>4. Open(p)' = Len(Remaining(p)) + 1 - next[p] + (Cardinality(Out(p)) - 1)
    BY <1>1, <2>2, <2>3 DEF Open
  <2> QED BY <1>1, <1>2, <2>4 DEF Open
<1>4. CASE claim # Idle
  <2>1. Out(p)' = Out(p)
    BY <1>1, <1>2, <1>4 DEF Out
  <2>2. next'[p] = next[p] + 1
    BY <1>4
  <2>3. Open(p)' = Len(Remaining(p)) + 1 - (next[p] + 1) + Cardinality(Out(p))
    BY <1>1, <2>1, <2>2 DEF Open
  <2> QED BY <1>1, <1>2, <2>3 DEF Open
<1> QED BY <1>3, <1>4

\* With the first reply the lanes claim their first windows; nothing is open that was not.
LEMMA FirstAdvances ==
    ASSUME IInv, First
    PROVE  ToDo' < ToDo /\ ToDo' >= 0
<1> DEFINE items == Items(path)
           claimed == Least(MAX_PARALLEL_RANGES, items)
<1>1. /\ path \in Paths /\ items \in Nat /\ TypeOK /\ TypeOK'
      /\ length' = length /\ path' = path /\ phase = "first" /\ phase' \in {"rest", "done"}
      /\ DOMAIN lane = Paths /\ DOMAIN next = Paths
      /\ lane[path] = NoLanes /\ next[path] = 1
  BY FetchTypes, FirstKeeps DEF IInv, First, Fresh, Untouched
<1>2. claimed \in 0 .. items
  BY <1>1, FetchAssumption DEF Least
<1>3. /\ lane'[path] = [l \in Lanes |-> IF l <= items THEN l ELSE Idle]
      /\ next'[path] = claimed + 1
      /\ \A p \in Paths \ {path} : lane'[p] = lane[p] /\ next'[p] = next[p]
  BY <1>1 DEF First, Items
<1>4. Len(Remaining(path)) = items /\ Len(Remaining(path)') = items
  BY <1>1, SameWindows DEF Items
<1>5. Cardinality(Out(path)) = 0
  <2>1. Out(path) = {}
    BY <1>1 DEF Out, NoLanes
  <2> QED BY <2>1, FS_EmptySet
<1>6. Cardinality(Out(path)') = claimed
  <2>1. Out(path)' = 1 .. claimed
    <3>1. \A l \in Lanes : l \in Out(path)' <=> l <= items
      BY <1>1, <1>3, FetchAssumption DEF Out, Lanes, Idle
    <3>2. \A l \in Lanes : l <= items <=> l \in 1 .. claimed
      BY <1>1, FetchAssumption DEF Lanes, Least
    <3>3. 1 .. claimed \subseteq Lanes
      BY <1>1, FetchAssumption DEF Lanes, Least
    <3> QED BY <3>1, <3>2, <3>3 DEF Out
  <2> HIDE DEF claimed
  <2> QED BY <1>1, <1>2, <2>1, FS_Interval
<1>7. Open(path)' = Open(path)
  <2> HIDE DEF items, claimed
  <2> QED BY <1>1, <1>2, <1>3, <1>4, <1>5, <1>6 DEF Open
<1>8. \A p \in Paths : Open(p)' = Open(p) /\ Open(p) \in Nat
  BY <1>1, <1>3, <1>7, OpenFrame, OpenType
<1>9. Ahead(path', phase') < Ahead(path, phase) /\ Ahead(path', phase') \in Nat
  BY <1>1, AheadType DEF Paths
<1>10. Ahead(path, phase) \in Nat /\ "GET" \in Paths /\ "POST" \in Paths
  BY <1>1, AheadType DEF Paths
<1> QED BY <1>8, <1>9, <1>10 DEF ToDo

\* A step of a lane closes one window, and does not set the caller back.
LEMMA SettlesAdvances ==
    ASSUME IInv, NEW p \in Paths, NEW l \in Lanes, Settles(p, l)
    PROVE  ToDo' < ToDo /\ ToDo' >= 0
<1>1. /\ TypeOK /\ path \in Paths /\ phase \in {"first", "rest", "done", "failed"}
      /\ DOMAIN lane = Paths /\ DOMAIN next = Paths
      /\ "GET" \in Paths /\ "POST" \in Paths
      /\ \A q \in Paths : next[q] \in Nat
  BY FetchTypes DEF IInv, TypeOK, Paths
<1>2. lane[p][l] # Idle /\ length' = length
  BY DEF Settles, Land, GetFails, PostFails
<1>3. /\ Open(p) \in Nat /\ Open(p)' \in Nat /\ Open(p)' = Open(p) - 1
      /\ \A q \in Paths \ {p} : Open(q)' = Open(q)
  <2>1. CASE Land(p, l)
    <3> DEFINE claim == IF next[p] <= Items(p) THEN next[p] ELSE Idle
    <3>1. /\ lane'[p] = [lane[p] EXCEPT ![l] = claim]
          /\ next'[p] = IF next[p] <= Items(p) THEN next[p] + 1 ELSE next[p]
          /\ \A q \in Paths \ {p} : lane'[q] = lane[q] /\ next'[q] = next[q]
      BY <2>1, Landing
    <3>2. next[p] # Idle
      BY FetchTypes, <1>1 DEF Idle
    <3>3. \/ claim = Idle /\ next'[p] = next[p]
          \/ claim # Idle /\ next'[p] = next[p] + 1
      BY <3>1, <3>2
    <3> HIDE DEF claim
    <3> QED BY <1>1, <1>2, <3>1, <3>3, LaneAdvances, OpenFrame
  <2>2. CASE (p = "GET" /\ GetFails(l)) \/ (p = "POST" /\ PostFails(l))
    <3>1. /\ next' = next /\ lane'[p] = [lane[p] EXCEPT ![l] = Idle]
          /\ \A q \in Paths \ {p} : lane'[q] = lane[q]
      BY <1>1, <2>2 DEF GetFails, PostFails
    <3> QED BY <1>1, <1>2, <3>1, LaneAdvances, OpenFrame
  <2> QED BY <2>1, <2>2 DEF Settles
<1>4. Ahead(path', phase') \in Nat /\ Ahead(path', phase') <= Ahead(path, phase) /\ Ahead(path, phase) \in Nat
  <2>1. CASE Land(p, l)
    <3>1. path' = path /\ (phase' = phase \/ phase' = "done")
      BY <2>1, Landing
    <3> QED BY <1>1, <3>1, AheadType
  <2>2. CASE p = "GET" /\ GetFails(l)
    <3>1. CASE path = "GET"
      <4>1. phase = "rest"
        BY <1>2, <2>2, <3>1, LaneRuns DEF IInv, Fresh
      <4>2. path' = "POST" /\ phase' = "first"
        BY <2>2, <3>1 DEF GetFails, Fallback
      <4> QED BY <3>1, <4>1, <4>2, AheadType
    <3>2. CASE path # "GET"
      <4>1. path' = path /\ phase' = phase
        BY <2>2, <3>2 DEF GetFails
      <4> QED BY <1>1, <4>1, AheadType
    <3> QED BY <3>1, <3>2
  <2>3. CASE p = "POST" /\ PostFails(l)
    <3>1. path' = path /\ (phase' = phase \/ phase' = "failed")
      BY <2>3 DEF PostFails
    <3> QED BY <1>1, <3>1, AheadType
  <2> QED BY <2>1, <2>2, <2>3 DEF Settles
<1>5. \A q \in Paths : Open(q) \in Nat /\ Open(q)' \in Nat
  BY <1>1, <1>3, OpenType
<1>6. p = "GET" \/ p = "POST"
  BY DEF Paths
<1>7. Open("GET") \in Nat /\ Open("POST") \in Nat /\ Open("GET")' \in Nat /\ Open("POST")' \in Nat
  BY <1>1, <1>5
<1>8. Open("GET")' + Open("POST")' < Open("GET") + Open("POST")
  <2>1. CASE p = "GET"
    BY <1>1, <1>3, <1>7, <2>1
  <2>2. CASE p = "POST"
    BY <1>1, <1>3, <1>7, <2>2
  <2> QED BY <1>6, <2>1, <2>2
<1> QED BY <1>4, <1>7, <1>8 DEF ToDo

LEMMA StepAdvances == IInv /\ [Next]_vars => [ToDo' < ToDo /\ ToDo' >= 0]_vars
<1> SUFFICES ASSUME IInv, Next PROVE ToDo' < ToDo /\ ToDo' >= 0
  OBVIOUS
<1>1. CASE First
  BY <1>1, FirstAdvances
<1>2. CASE FirstGetFails \/ FirstPostFails
  <2>1. /\ length' = length /\ lane' = lane /\ next' = next
        /\ TypeOK /\ path \in Paths /\ "GET" \in Paths /\ "POST" \in Paths
    BY <1>2 DEF FirstGetFails, FirstPostFails, IInv, TypeOK, Paths
  <2>2. \A p \in Paths : Open(p)' = Open(p) /\ Open(p) \in Nat
    BY <2>1, OpenFrame, OpenType
  <2>3. /\ Ahead(path', phase') \in Nat /\ Ahead(path, phase) \in Nat
        /\ Ahead(path', phase') < Ahead(path, phase)
    BY <1>2, AheadType DEF FirstGetFails, FirstPostFails, Fallback
  <2> QED BY <2>1, <2>2, <2>3 DEF ToDo
<1>3. ASSUME NEW p \in Paths, NEW l \in Lanes, Settles(p, l) PROVE ToDo' < ToDo /\ ToDo' >= 0
  BY <1>3, SettlesAdvances
<1> QED BY <1>1, <1>2, <1>3 DEF Next, FirstSettles

-----------------------------------------------------------------------------
(* The fan-out implements WindowedRead. *)

LandedUnits == {u \in DOMAIN Result : phase # "failed" /\ Result[u] # Zero}
OutcomeOf(ph) == CASE ph = "done" -> "delivered" [] ph = "failed" -> "failed" [] OTHER -> "reading"

LEMMA Outcomes ==
    /\ OutcomeOf("first") = "reading" /\ OutcomeOf("rest") = "reading"
    /\ OutcomeOf("done") = "delivered" /\ OutcomeOf("failed") = "failed"
BY DEF OutcomeOf

\* The steps of WindowedRead, in terms of the fan-out.
ReadLands ==
    /\ OutcomeOf(phase) = "reading"
    /\ LandedUnits \subseteq LandedUnits' /\ LandedUnits' \subseteq 0 .. (length - 1)
    /\ OutcomeOf(phase') \in {"reading", "delivered"}
    /\ OutcomeOf(phase') = "delivered" => LandedUnits' = 0 .. (length - 1)
    /\ length' = length /\ path' = path
ReadStartsOver ==
    /\ OutcomeOf(phase) = "reading" /\ path = "GET"
    /\ path' = "POST" /\ LandedUnits' = {}
    /\ length' = length /\ OutcomeOf(phase') = OutcomeOf(phase)
ReadFails ==
    /\ OutcomeOf(phase) = "reading" /\ path = "POST"
    /\ OutcomeOf(phase') = "failed" /\ LandedUnits' = {}
    /\ length' = length /\ path' = path
ReadStutters ==
    /\ length' = length /\ path' = path
    /\ LandedUnits' = LandedUnits /\ OutcomeOf(phase') = OutcomeOf(phase)

LEMMA MappedSteps ==
    ASSUME ReadLands \/ ReadStartsOver \/ ReadFails \/ ReadStutters
    PROVE  [Read!Next]_Read!vars
BY DEF ReadLands, ReadStartsOver, ReadFails, ReadStutters, LandedUnits, OutcomeOf,
       Read!Next, Read!Land, Read!StartOver, Read!Fail, Read!Units, Read!vars

\* What lands is of the ciphertext, and a read that is delivered has all of it.
LandedFits ==
    /\ LandedUnits \subseteq 0 .. (length - 1)
    /\ phase = "done" => LandedUnits = 0 .. (length - 1)

LEMMA IInvLandedFits == IInv => LandedFits
<1>1. IInv => LandedUnits \subseteq 0 .. (length - 1)
  BY DEF IInv, TypeOK, LandedUnits, Result
<1>2. IInv /\ phase = "done" => LandedUnits = 0 .. (length - 1)
  BY WholeWhenDone DEF LandedUnits
<1> QED BY <1>1, <1>2 DEF LandedFits

LEMMA UntouchedHasNothing == path \in Paths /\ Untouched(path) => LandedUnits = {}
BY DEF Untouched, LandedUnits, Result

LEMMA FirstImplements ==
    ASSUME IInv, LandedFits', First
    PROVE  ReadLands
<1>1. phase = "first" /\ phase' \in {"rest", "done"} /\ length' = length /\ path' = path
  BY DEF First
<1>2. LandedUnits = {}
  BY <1>1, UntouchedHasNothing DEF IInv, TypeOK, Fresh
<1>3. LandedUnits' \subseteq 0 .. (length - 1)
  BY <1>1 DEF LandedFits
<1>4. phase' = "done" => LandedUnits' = 0 .. (length - 1)
  BY <1>1 DEF LandedFits
<1> QED BY <1>1, <1>2, <1>3, <1>4, Outcomes DEF ReadLands

LEMMA LandImplements ==
    ASSUME IInv, LandedFits', NEW p \in Paths, NEW l \in Lanes, Land(p, l)
    PROVE  ReadLands \/ ReadStutters
<1>1. /\ length' = length /\ path' = path
      /\ phase' = IF p = path /\ phase = "rest" /\ LastLane(p, l) THEN "done" ELSE phase
  BY Landing
<1>2. lane[p][l] # Idle /\ path \in Paths
  BY DEF IInv, TypeOK, Land
<1>3. CASE p # path
  <2>1. buf'[path] = buf[path] /\ phase' = phase
    BY <1>1, <1>2, <1>3, Landing
  <2> QED BY <1>1, <2>1 DEF ReadStutters, LandedUnits, Result
<1>4. CASE p = path /\ phase = "rest"
  <2>1. LandedUnits \subseteq LandedUnits'
    <3>1. DOMAIN buf'[p] = DOMAIN buf[p]
      BY Landing
    <3>2. \A u \in DOMAIN buf[p] : buf'[p][u] = buf[p][u] \/ buf'[p][u] # Zero
      BY Landing
    <3> QED BY <1>1, <1>4, <3>1, <3>2 DEF LandedUnits, Result
  <2>2. LandedUnits' \subseteq 0 .. (length - 1)
    BY <1>1 DEF LandedFits
  <2>3. phase' = "done" => LandedUnits' = 0 .. (length - 1)
    BY <1>1 DEF LandedFits
  <2> QED BY <1>1, <1>4, <2>1, <2>2, <2>3, Outcomes DEF ReadLands
<1>5. CASE p = path /\ phase # "rest"
  <2>1. phase = "failed" /\ phase' = "failed"
    BY <1>1, <1>2, <1>5, LaneRuns
  <2> QED BY <1>1, <2>1 DEF ReadStutters, LandedUnits
<1> QED BY <1>3, <1>4, <1>5

LEMMA GetFailureImplements ==
    ASSUME IInv, FirstGetFails \/ \E l \in Lanes : GetFails(l)
    PROVE  ReadStartsOver \/ ReadStutters
<1>1. length' = length /\ buf' = buf
  BY DEF FirstGetFails, GetFails
<1>2. CASE path = "GET"
  <2>1. path' = "POST" /\ phase' = "first"
    BY <1>2 DEF FirstGetFails, GetFails, Fallback
  <2>2. phase \in {"first", "rest"}
    BY <1>2, LaneRuns DEF FirstGetFails, GetFails, IInv, Fresh
  <2>3. LandedUnits' = {}
    BY <1>1, <1>2, <2>1 DEF IInv, Fresh, Untouched, LandedUnits, Result
  <2> QED BY <1>1, <1>2, <2>1, <2>2, <2>3, Outcomes DEF ReadStartsOver
<1>3. CASE path # "GET"
  <2>1. path' = path /\ phase' = phase
    BY <1>3 DEF FirstGetFails, GetFails
  <2> QED BY <1>1, <2>1 DEF ReadStutters, LandedUnits, Result
<1> QED BY <1>2, <1>3

LEMMA PostFailureImplements ==
    ASSUME IInv, FirstPostFails \/ \E l \in Lanes : PostFails(l)
    PROVE  ReadFails \/ ReadStutters
<1>1. path = "POST" /\ phase \in {"first", "rest", "failed"}
  <2>1. ASSUME NEW l \in Lanes, PostFails(l) PROVE path = "POST" /\ phase \in {"rest", "failed"}
    <3>1. "POST" \in Paths /\ lane["POST"][l] # Idle
      BY <2>1 DEF PostFails, Paths
    <3>2. path = "POST"
      BY <3>1, OthersAreOfGet
    <3> QED BY <3>1, <3>2, LaneRuns
  <2> QED BY <2>1 DEF FirstPostFails
<1>2. length' = length /\ path' = path /\ phase' = "failed"
  BY <1>1, LaneRuns DEF FirstPostFails, PostFails
<1>3. LandedUnits' = {}
  BY <1>2 DEF LandedUnits
<1>4. phase = "failed" => LandedUnits = {}
  BY DEF LandedUnits
<1> QED BY <1>1, <1>2, <1>3, <1>4, Outcomes DEF ReadFails, ReadStutters

LEMMA StepImplements == IInv /\ LandedFits' /\ [Next]_vars => [Read!Next]_Read!vars
<1> SUFFICES ASSUME IInv, LandedFits', [Next]_vars PROVE [Read!Next]_Read!vars
  OBVIOUS
<1>1. CASE FirstSettles
  BY <1>1, FirstImplements, GetFailureImplements, PostFailureImplements, MappedSteps DEF FirstSettles
<1>2. ASSUME NEW p \in Paths, NEW l \in Lanes, Settles(p, l) PROVE [Read!Next]_Read!vars
  BY <1>2, LandImplements, GetFailureImplements, PostFailureImplements, MappedSteps DEF Settles
<1>3. CASE UNCHANGED vars
  <2>1. ReadStutters
    BY <1>3 DEF vars, ReadStutters, LandedUnits, Result
  <2> QED BY <2>1, MappedSteps
<1> QED BY <1>1, <1>2, <1>3 DEF Next

LEMMA InitImplements == Init => Read!Init
<1> SUFFICES ASSUME Init PROVE Read!Init
  OBVIOUS
<1>1. length \in Nat /\ path \in {"GET", "POST"} /\ phase = "first" /\ DOMAIN buf[path] = {}
  BY FetchAssumption DEF Init, Paths
<1>2. (CASE phase = "done" -> "delivered" [] phase = "failed" -> "failed" [] OTHER -> "reading") = "reading"
  BY <1>1
<1> QED BY <1>1, <1>2 DEF Read!Init, Result

-----------------------------------------------------------------------------
(* The results. *)

\* The state of a fan-out (fetchVerified, assets/sw.js) has its types: no lane claims a window that
\* was not planned, none is written to outside of the buffer.
THEOREM FetchTypeCorrect == Spec => []TypeOK
<1>1. IInv => TypeOK
  BY DEF IInv
<1> QED BY <1>1, Invariance, PTL

\* However the lanes interleave and wherever an attempt breaks off, fetchVerified returns the bytes of
\* one attempt, every one in its place and none missing, and those of POST after a fallback.
THEOREM FetchReassembles == Spec => []Reassembled
BY IInvReassembled, Invariance, PTL

\* The lanes of an attempt that was given up go on writing, never into what fetchVerified returned.
THEOREM FetchResultIsFinal == Spec => ResultIsFinal
<1>1. IInv /\ [Next]_vars => [phase = "done" => phase' = "done" /\ Result' = Result]_vars
  BY DoneIsFinal
<1> QED BY <1>1, Invariance, PTL DEF Spec, ResultIsFinal

\* Whoever awaits the lanes of an attempt (runParallel, assets/sw.js) awaits at least one request: no
\* interleaving of lanes that return leaves a fan-out that nobody completes.
THEOREM FetchIsAwaited == Spec => []SomeLaneIsOut
<1>1. IInv => SomeLaneIsOut
  BY DEF IInv, Accounted, SomeLaneIsOut
<1> QED BY <1>1, Invariance, PTL

\* A fetch makes a bounded number of requests: every reply and every failure leaves fewer to come,
\* whatever the length, the windows and the number of lanes, and nothing is tried again but the
\* whole read, once.
THEOREM FetchMakesProgress == Spec => FetchAdvances
BY StepAdvances, Invariance, PTL DEF Spec, FetchAdvances

\* fetchVerified does what the handler that awaits it takes it to do: bytes land in any order, the read
\* is delivered once and whole, a failed GET attempt starts over from nothing, and only a failed POST
\* attempt is a failed read.
THEOREM FetchImplementsWindowedRead == Spec => ImplementsWindowedRead
<1>1. Spec => []IInv
  BY Invariance
<1> QED BY <1>1, InitImplements, IInvLandedFits, StepImplements, PTL DEF Spec, ImplementsWindowedRead, Read!Spec

=============================================================================
