------------------------------ MODULE RangeFetch ------------------------------
(***************************************************************************)
(* assets/sw.js: fetchVerified, the fan-out that brings one ciphertext.    *)
(*                                                                         *)
(* Window 0 is fetched alone, because it tells the length; the others are  *)
(* claimed by a bounded number of lanes, each of which awaits one request, *)
(* writes the bytes into the buffer of its attempt and claims the next     *)
(* window.  Promise.all rejects with the first lane that fails, but it     *)
(* stops no other lane: the lanes of a GET attempt that failed go on       *)
(* fetching, and writing, while the POST attempt runs.                     *)
(*                                                                         *)
(* Bytes are counted in units; buf[p][u] is the unit of the resource that  *)
(* stands at position u of the buffer of the attempt over p.               *)
(***************************************************************************)
EXTENDS Integers, Sequences, FiniteSets

CONSTANTS
    Lengths,              \* lengths a ciphertext may have
    GET_WINDOW,           \* window of the cacheable GET path
    RPC_CHUNK,            \* window of the JSON-RPC path
    MAX_PARALLEL_RANGES,  \* lanes of a fan-out
    Faults                \* subset of FaultKinds: requests that fail, an edge with other bytes

Paths == {"GET", "POST"}
FaultKinds == {"get", "post", "foreign"}

ASSUME FetchAssumption ==
    /\ Lengths \subseteq Nat
    /\ GET_WINDOW \in Nat \ {0} /\ RPC_CHUNK \in Nat \ {0}
    /\ MAX_PARALLEL_RANGES \in Nat \ {0}
    /\ Faults \subseteq FaultKinds

Zero == -1     \* a position of the buffer that nothing was written to
Foreign == -2  \* a byte that is not the resource's

Lanes == 1 .. MAX_PARALLEL_RANGES
Idle == 0
NoLanes == [l \in Lanes |-> Idle]

VARIABLES
    length,   \* of the ciphertext
    path,     \* of the attempt that the caller awaits
    phase,    \* "first", "rest", "done" or "failed"
    next,     \* next[p]: the next of the remaining windows to claim
    lane,     \* lane[p][l]: the one that lane l awaits, or Idle
    buf       \* buf[p]: the ciphertext reassembled over p

vars == <<length, path, phase, next, lane, buf>>

Size(p) == IF p = "GET" THEN GET_WINDOW ELSE RPC_CHUNK

Least(a, b) == IF a <= b THEN a ELSE b

\* Mutant: a last window that is not full is not planned.
PlanFullWindows(total, size) ==
    [i \in 1 .. total \div size |-> [start |-> (i - 1) * size, end |-> i * size - 1]]

\* Windows of one size that cover 0 .. total - 1, each with its first and its last unit.
planWindows(total, size) ==
    [i \in 1 .. (total + size - 1) \div size |->
        [start |-> (i - 1) * size, end |-> Least(i * size, total) - 1]]

\* All windows but the first one.
Remaining(p) ==
    LET windows == planWindows(length, Size(p))
    IN  SubSeq(windows, 2, Len(windows))

\* What comes back for start .. end: that part of the resource; or, from an edge that holds
\* something else, other bytes.
Answers(p, start, end) ==
    LET range == start .. Least(end, length - 1)
    IN  {[u \in range |-> u]}
            \cup (IF "foreign" \in Faults /\ p = "GET" THEN {[u \in range |-> Foreign]} ELSE {})

Write(buffer, bytes) == [u \in DOMAIN buffer |-> IF u \in DOMAIN bytes THEN bytes[u] ELSE buffer[u]]

-----------------------------------------------------------------------------
\* A pinned read starts on the GET path, a "latest" read on the POST path.
Init ==
    /\ length \in Lengths
    /\ path \in Paths
    /\ phase = "first"
    /\ next = [p \in Paths |-> 1]
    /\ lane = [p \in Paths |-> NoLanes]
    /\ buf = [p \in Paths |-> [u \in {} |-> Zero]]

\* The reply to the first request allocates the buffer; then every lane claims a window.
First ==
    /\ phase = "first"
    /\ \E bytes \in Answers(path, 0, Size(path) - 1) :
          buf' = [buf EXCEPT ![path] = Write([u \in 0 .. (length - 1) |-> Zero], bytes)]
    /\ LET items == Len(Remaining(path))
       IN  /\ lane' = [lane EXCEPT ![path] = [l \in Lanes |-> IF l <= items THEN l ELSE Idle]]
           /\ next' = [next EXCEPT ![path] = Least(MAX_PARALLEL_RANGES, items) + 1]
           /\ phase' = IF items = 0 THEN "done" ELSE "rest"
    /\ UNCHANGED <<length, path>>

\* What lane l of p does after its window: it claims another one, or it returns.
Claim(p, l) == IF next[p] <= Len(Remaining(p)) THEN next[p] ELSE Idle

\* Mutant: the first lane that runs out of windows completes the fan-out.
FirstLaneOut(p, l) == Claim(p, l) = Idle

\* All lanes of p but l have returned, and so does l.
LastLane(p, l) == Claim(p, l) = Idle /\ \A other \in Lanes \ {l} : lane[p][other] = Idle

\* Mutant: both attempts write into one buffer, the one that is handed out.
LandInSharedBuffer(p, l) ==
    /\ lane[p][l] # Idle
    /\ LET w == Remaining(p)[lane[p][l]]
       IN  \E bytes \in Answers(p, w.start, w.end) :
              buf' = [buf EXCEPT ![path] = Write(buf[path], bytes)]
    /\ lane' = [lane EXCEPT ![p][l] = Claim(p, l)]
    /\ next' = [next EXCEPT ![p] = IF Claim(p, l) = Idle THEN @ ELSE @ + 1]
    /\ phase' = IF p = path /\ phase = "rest" /\ LastLane(p, l) THEN "done" ELSE phase
    /\ UNCHANGED <<length, path>>

\* A window lands, also one of an attempt that nobody awaits any more.
Land(p, l) ==
    /\ lane[p][l] # Idle
    /\ LET w == Remaining(p)[lane[p][l]]
       IN  \E bytes \in Answers(p, w.start, w.end) : buf' = [buf EXCEPT ![p] = Write(buf[p], bytes)]
    /\ lane' = [lane EXCEPT ![p][l] = Claim(p, l)]
    /\ next' = [next EXCEPT ![p] = IF Claim(p, l) = Idle THEN @ ELSE @ + 1]
    /\ phase' = IF p = path /\ phase = "rest" /\ LastLane(p, l) THEN "done" ELSE phase
    /\ UNCHANGED <<length, path>>

\* The first failure of the GET attempt is caught, and the POST attempt begins.
Fallback == path' = "POST" /\ phase' = "first"

FirstGetFails ==
    /\ "get" \in Faults
    /\ phase = "first" /\ path = "GET"
    /\ Fallback
    /\ UNCHANGED <<length, next, lane, buf>>

\* Mutant: the rejection of one lane is not the rejection of the attempt.
LaneDies(l) ==
    /\ "get" \in Faults
    /\ lane["GET"][l] # Idle
    /\ lane' = [lane EXCEPT !["GET"][l] = Idle]
    /\ UNCHANGED <<length, path, phase, next, buf>>

\* A lane that fails returns; it is alone in that.
GetFails(l) ==
    /\ "get" \in Faults
    /\ lane["GET"][l] # Idle
    /\ lane' = [lane EXCEPT !["GET"][l] = Idle]
    /\ IF path = "GET" THEN Fallback ELSE UNCHANGED <<path, phase>>
    /\ UNCHANGED <<length, next, buf>>

\* Mutant: there is always another attempt.
StartOver ==
    /\ "post" \in Faults
    /\ phase = "first" /\ path = "POST"
    /\ path' = "GET"
    /\ UNCHANGED <<length, phase, next, lane, buf>>

FirstPostFails ==
    /\ "post" \in Faults
    /\ phase = "first" /\ path = "POST"
    /\ phase' = "failed"
    /\ UNCHANGED <<length, path, next, lane, buf>>

PostFails(l) ==
    /\ "post" \in Faults
    /\ lane["POST"][l] # Idle
    /\ lane' = [lane EXCEPT !["POST"][l] = Idle]
    /\ phase' = IF phase = "rest" THEN "failed" ELSE phase
    /\ UNCHANGED <<length, path, next, buf>>

-----------------------------------------------------------------------------
FirstSettles == First \/ FirstGetFails \/ FirstPostFails

Settles(p, l) == Land(p, l) \/ (p = "GET" /\ GetFails(l)) \/ (p = "POST" /\ PostFails(l))

Next == FirstSettles \/ \E p \in Paths, l \in Lanes : Settles(p, l)

Spec == Init /\ [][Next]_vars

\* The browser answers or fails every request it sends.
Fairness == WF_vars(FirstSettles) /\ \A p \in Paths, l \in Lanes : WF_vars(Settles(p, l))

FairSpec == Spec /\ Fairness

-----------------------------------------------------------------------------
TypeOK ==
    /\ length \in Lengths
    /\ path \in Paths
    /\ phase \in {"first", "rest", "done", "failed"}
    /\ \A p \in Paths : next[p] \in 1 .. (Len(Remaining(p)) + 1)
    /\ DOMAIN next = Paths /\ DOMAIN lane = Paths /\ DOMAIN buf = Paths
    /\ \A p \in Paths : lane[p] \in [Lanes -> 0 .. Len(Remaining(p))]
    /\ \A p \in Paths :
          /\ DOMAIN buf[p] \subseteq 0 .. (length - 1)
          /\ \A u \in DOMAIN buf[p] : buf[p][u] \in {Zero, Foreign} \cup 0 .. (length - 1)

Result == buf[path]

\* What fetchVerified returns is what its servers sent, every unit at its place and none missing,
\* whatever the length is to the two window sizes and however the lanes interleave.  When the GET
\* attempt broke off, nothing of it is left: the result is the ciphertext that POST brought, also
\* if the edge sent, and is still sending, something else.
Reassembled ==
    phase = "done" =>
        /\ DOMAIN Result = 0 .. (length - 1)
        /\ \A u \in DOMAIN Result : Result[u] = u \/ (path = "GET" /\ Result[u] = Foreign)

\* No lane that is still running reaches into the ciphertext that verification has begun to read.
ResultIsFinal ==
    [][phase = "done" => phase' = "done" /\ Result' = Result]_vars

\* Who awaits the fan-out awaits a request: the Promise.all of the awaited attempt has a lane that has
\* not returned, also while lanes of the other attempt return and fail.
SomeLaneIsOut == phase = "rest" => \E l \in Lanes : lane[path][l] # Idle

\* What is left to do: the windows of an attempt that nobody claimed yet and those that are awaited,
\* and what is ahead of the caller.
Out(p) == {l \in Lanes : lane[p][l] # Idle}
Open(p) == Len(Remaining(p)) + 1 - next[p] + Cardinality(Out(p))
Ahead(p, ph) ==
    CASE ph = "first" -> IF p = "GET" THEN 4 ELSE 2
      [] ph = "rest"  -> IF p = "GET" THEN 3 ELSE 1
      [] OTHER        -> 0
ToDo == Ahead(path, phase) + Open("GET") + Open("POST")

\* Every reply and every failure brings the read nearer to its end: no window is asked for twice on
\* one path, GET is tried once and POST is tried once, so a fetch makes a bounded number of requests.
FetchAdvances == [][ToDo' < ToDo /\ ToDo' >= 0]_vars

\* Every read is delivered or fails; none waits for a lane that died.
FetchSettles == phase \in {"first", "rest"} ~> phase \in {"done", "failed"}

\* The fan-out does what ServiceWorker takes a fetch to do.
Read == INSTANCE WindowedRead WITH
    attempt <- path,
    landed <- {u \in DOMAIN Result : phase # "failed" /\ Result[u] # Zero},
    outcome <- CASE phase = "done" -> "delivered" [] phase = "failed" -> "failed" [] OTHER -> "reading"

ImplementsWindowedRead == Read!Spec
=============================================================================
