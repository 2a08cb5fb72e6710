---------------------------- MODULE UrnTextProofs ----------------------------
(***************************************************************************)
(* Proofs about UrnText, for texts of any length over any tokens.  The     *)
(* loops of the parsers are functions on a prefix or on rounds; what they  *)
(* compute is shown by induction, which is stated here for sets of         *)
(* numbers, since the provers cannot instantiate a predicate.              *)
(***************************************************************************)
EXTENDS UrnText, Integers, SequenceTheorems, FiniteSetTheorems, WellFoundedInduction, TLAPS

-----------------------------------------------------------------------------
(* Induction and recursion over an interval *********************************)

\* Every set of natural numbers has a least element.
LEMMA Least ==
    ASSUME NEW T \in SUBSET Nat, T # {}
    PROVE  \E m \in T : \A k \in T : m <= k
<1> DEFINE R == OpToRel(<, Nat)
<1>1. IsWellFoundedOn(R, Nat)
  BY NatLessThanWellFounded
<1>2. \A x, y \in Nat : x < y => <<x, y>> \in R
  BY DEF OpToRel
<1> HIDE DEF R
<1>3. PICK x \in T : \A y \in T : <<y, x>> \notin R
  BY <1>1, WFMin
<1>4. \A y \in T : ~ (y < x)
  BY <1>2, <1>3
<1>5. \A y \in T : x <= y
  BY <1>4
<1> QED BY <1>5

\* A set that begins an interval and is closed under successors there holds all of it.
LEMMA Inductive ==
    ASSUME NEW N \in Nat, NEW T, 0 \in T,
           \A n \in 1 .. N : n - 1 \in T => n \in T
    PROVE  \A n \in 0 .. N : n \in T
<1> DEFINE Out == {n \in 0 .. N : n \notin T}
<1> SUFFICES ASSUME Out # {} PROVE FALSE
  OBVIOUS
<1>1. PICK m \in Out : \A k \in Out : m <= k
  <2>1. Out \in SUBSET Nat
    OBVIOUS
  <2> QED BY <2>1, Least
<1>2. m \in 1 .. N /\ m - 1 \in 0 .. N /\ ~ (m <= m - 1)
  <2>1. m \in 0 .. N /\ m # 0
    BY <1>1
  <2> QED BY <2>1
<1>3. m - 1 \in T
  BY <1>1, <1>2
<1> QED BY <1>1, <1>2, <1>3

Steps(N, V) == [1 .. N -> [V -> V]]

\* f begins with v and takes its steps.
Takes(f, N, V, v, step) ==
    f \in [0 .. N -> V] /\ f[0] = v /\ \A n \in 1 .. N : f[n] = step[n][f[n - 1]]

\* A value for 0 and a step for each later number are met by some function.
LEMMA Recursion ==
    ASSUME NEW N \in Nat, NEW V, NEW v \in V, NEW step \in Steps(N, V)
    PROVE  \E f : Takes(f, N, V, v, step)
<1>0. step \in [1 .. N -> [V -> V]]
  BY DEF Steps
<1> DEFINE Good(n, f) == f[0] = v /\ \A m \in 1 .. n : f[m] = step[m][f[m - 1]]
           T == {n \in 0 .. N : \E f \in [0 .. N -> V] : Good(n, f)}
<1>1. 0 \in T
  <2> DEFINE f == [i \in 0 .. N |-> v]
  <2>1. f \in [0 .. N -> V] /\ Good(0, f)
    OBVIOUS
  <2> HIDE DEF f, Good
  <2> QED BY <2>1
<1>2. ASSUME NEW n \in 1 .. N, n - 1 \in T PROVE n \in T
  <2>1. PICK f \in [0 .. N -> V] : Good(n - 1, f)
    BY <1>2
  <2> DEFINE g == [f EXCEPT ![n] = step[n][f[n - 1]]]
  <2>2. f[n - 1] \in V /\ step[n][f[n - 1]] \in V
    BY <1>0, <2>1
  <2>3. g \in [0 .. N -> V] /\ \A i \in 0 .. N : g[i] = IF i = n THEN step[n][f[n - 1]] ELSE f[i]
    BY <2>1, <2>2
  <2> HIDE DEF g
  <2>4. \A m \in 1 .. n : g[m] = step[m][g[m - 1]]
    <3> TAKE m \in 1 .. n
    <3>1. m \in 0 .. N /\ m - 1 \in 0 .. N /\ m - 1 # n
      OBVIOUS
    <3>2. CASE m = n
      BY <2>3, <3>1, <3>2
    <3>3. CASE m # n
      <4>1. m \in 1 .. (n - 1)
        BY <3>3
      <4> QED BY <2>1, <2>3, <3>1, <3>3, <4>1
    <3> QED BY <3>2, <3>3
  <2>5. g[0] = v
    BY <2>1, <2>3
  <2> QED BY <2>3, <2>4, <2>5
<1>3. N \in T
  <2> HIDE DEF T, Good
  <2>1. \A n \in 0 .. N : n \in T
    BY <1>1, <1>2, Inductive
  <2> QED BY <2>1
<1> QED BY <1>3 DEF Takes

-----------------------------------------------------------------------------
(* The search for the query **************************************************)

\* First is 0 for no places, and otherwise the least of them.
LEMMA FirstPlace ==
    ASSUME NEW P \in SUBSET (Nat \ {0})
    PROVE  /\ P = {} => First(P) = 0
           /\ P # {} => First(P) \in P /\ \A p \in P : First(P) <= p
<1>1. CASE P = {}
  BY <1>1 DEF First
<1>2. CASE P # {}
  <2>1. \E m \in P : \A k \in P : m <= k
    BY <1>2, Least
  <2>2. Min(P) \in P /\ \A k \in P : Min(P) <= k
    BY <2>1 DEF Min
  <2> QED BY <1>2, <2>2 DEF First
<1> QED BY <1>1, <1>2

Places(s) == 0 .. Len(s)

\* Where an "&salt=" is.
Amps(s) == {i \in DOMAIN s : s[i] = "&" /\ Has(s, i + 1, "salt=")}

Marks(s) == {i \in DOMAIN s : s[i] = "?"}

\* A place searched from a place on is the first one there.
LEMMA IndexOfMark ==
    ASSUME NEW s \in Seq(Tokens), NEW t, NEW from \in Nat \ {0}
    PROVE  LET P == {i \in DOMAIN s : s[i] = t /\ i >= from}
           IN  IF P = {} THEN IndexOf(s, t, from) = 0
               ELSE IndexOf(s, t, from) \in P /\ \A p \in P : IndexOf(s, t, from) <= p
<1> DEFINE P == {i \in DOMAIN s : s[i] = t /\ i >= from}
           Q == {i \in from .. Len(s) : s[i] = t}
<1>1. P = Q /\ Q \in SUBSET (Nat \ {0})
  OBVIOUS
<1>2. IndexOf(s, t, from) = First(Q)
  BY DEF IndexOf
<1> HIDE DEF P, Q
<1>3. IF P = {} THEN IndexOf(s, t, from) = 0
      ELSE IndexOf(s, t, from) \in P /\ \A p \in P : IndexOf(s, t, from) <= p
  BY <1>1, <1>2, FirstPlace
<1> QED BY <1>3 DEF P

LEMMA AmpFromIsFirst ==
    ASSUME NEW s \in Seq(Tokens), NEW from \in Nat \ {0}
    PROVE  LET P == {i \in Amps(s) : i >= from}
           IN  IF P = {} THEN AmpFrom(s, from) = 0
               ELSE AmpFrom(s, from) \in P /\ \A p \in P : AmpFrom(s, from) <= p
<1> DEFINE P == {i \in Amps(s) : i >= from}
           Q == {i \in from .. Len(s) : s[i] = "&" /\ Has(s, i + 1, "salt=")}
<1>1. P = Q /\ Q \in SUBSET (Nat \ {0})
  BY DEF Amps
<1>2. AmpFrom(s, from) = First(Q)
  BY DEF AmpFrom
<1> HIDE DEF P, Q
<1>3. IF P = {} THEN AmpFrom(s, from) = 0
      ELSE AmpFrom(s, from) \in P /\ \A p \in P : AmpFrom(s, from) <= p
  BY <1>1, <1>2, FirstPlace
<1> QED BY <1>3 DEF P

Loops(s) == [at : Places(s), amp : Places(s)]

\* The searches stay in the text.
LEMMA SearchTypes ==
    ASSUME NEW s \in Seq(Tokens), NEW from \in Nat \ {0}
    PROVE  IndexOf(s, "?", from) \in Places(s) /\ AmpFrom(s, from) \in Places(s)
<1>1. IndexOf(s, "?", from) \in Places(s)
  BY IndexOfMark DEF Places
<1>2. AmpFrom(s, from) \in Places(s)
  BY AmpFromIsFirst DEF Places, Amps
<1> QED BY <1>1, <1>2

LEMMA RoundType ==
    ASSUME NEW s \in Seq(Tokens), NEW was \in Loops(s)
    PROVE  Round(s, was) \in Loops(s)
<1>1. was.at \in Nat /\ was.at + 1 \in Nat \ {0} /\ was.at \in Places(s) /\ was.amp \in Places(s)
  BY DEF Loops, Places
<1>2. Renewed(s, was.at, was.amp) \in Places(s)
  BY <1>1, SearchTypes DEF Renewed, Places
<1>3. IndexOf(s, "?", was.at + 1) \in Places(s)
  BY <1>1, SearchTypes
<1> QED BY <1>2, <1>3 DEF Round, Loops

\* The loop over the marks is well defined: its rounds follow one another.
LEMMA RoundsFollow ==
    ASSUME NEW s \in Seq(Tokens)
    PROVE  /\ Rounds(s) \in [0 .. Len(s) -> Loops(s)]
           /\ Rounds(s)[0] = [at |-> IndexOf(s, "?", 1), amp |-> AmpFrom(s, 1)]
           /\ \A n \in 1 .. Len(s) : Rounds(s)[n] = Round(s, Rounds(s)[n - 1])
<1> DEFINE v == [at |-> IndexOf(s, "?", 1), amp |-> AmpFrom(s, 1)]
           N == Len(s)
           V == Loops(s)
           step == [n \in 1 .. N |-> [x \in V |-> Round(s, x)]]
           Meets(f) == f = [n \in 0 .. N |-> IF n = 0 THEN v ELSE Round(s, f[n - 1])]
<1>1. Rounds(s) = CHOOSE f : Meets(f)
  BY DEF Rounds
<1>2. v \in V
  BY SearchTypes DEF Loops
<1>3. step \in Steps(N, V)
  BY RoundType DEF Steps
<1>4. N \in Nat
  OBVIOUS
<1> HIDE DEF v, N, V, Meets
<1>5. PICK f : Takes(f, N, V, v, step)
  <2> HIDE DEF step
  <2> QED BY <1>2, <1>3, <1>4, Recursion
<1>6. \A n \in 1 .. N : f[n - 1] \in V /\ step[n][f[n - 1]] = Round(s, f[n - 1])
  BY <1>4, <1>5 DEF Takes
<1>7. Meets(f)
  <2> HIDE DEF step
  <2>1. \A n \in 0 .. N : f[n] = IF n = 0 THEN v ELSE Round(s, f[n - 1])
    BY <1>4, <1>5, <1>6 DEF Takes
  <2>2. f = [n \in 0 .. N |-> f[n]]
    BY <1>5 DEF Takes
  <2> QED BY <2>1, <2>2 DEF Meets
<1>8. Meets(Rounds(s))
  BY <1>1, <1>7
<1>9. /\ DOMAIN Rounds(s) = 0 .. N /\ Rounds(s)[0] = v
      /\ \A n \in 1 .. N : Rounds(s)[n] = Round(s, Rounds(s)[n - 1])
  BY <1>4, <1>8 DEF Meets
<1>10. \A n \in 0 .. N : Rounds(s)[n] \in V
  <2> DEFINE T == {n \in 0 .. N : Rounds(s)[n] \in V}
  <2>1. 0 \in T
    BY <1>2, <1>4, <1>9
  <2>2. \A n \in 1 .. N : n - 1 \in T => n \in T
    BY <1>4, <1>9, RoundType DEF V
  <2> HIDE DEF T
  <2>3. \A n \in 0 .. N : n \in T
    BY <1>4, <2>1, <2>2, Inductive
  <2> QED BY <2>3 DEF T
<1>11. Rounds(s) \in [0 .. N -> V]
  <2>1. Rounds(s) = [n \in 0 .. N |-> Rounds(s)[n]]
    BY <1>8 DEF Meets
  <2> QED BY <1>10, <2>1
<1> QED BY <1>9, <1>11 DEF v, N, V

\* What the loop knows when it is at a mark: no mark before it begins the query, and amp is the
\* first parameter from some earlier place on, if there is one from the mark on.
Knows(s, l) ==
    /\ l.at > 0 => l.at \in Marks(s)
    /\ \A i \in Starts(s) : l.at > 0 /\ l.at <= i
    /\ l.at > 0 /\ l.amp = 0 => \A j \in Amps(s) : j < l.at
    /\ l.at > 0 /\ l.amp > 0 => l.amp \in Amps(s) /\ \A j \in Amps(s) : l.at <= j => l.amp <= j

Left(s, l) == l.at = 0 \/ l.at \in Starts(s)

\* A mark begins the query if the code's test says so with a renewed amp.
LEMMA TestIsRight ==
    ASSUME NEW s \in Seq(Tokens), NEW l \in Loops(s), Knows(s, l), l.at > 0
    PROVE  LET amp == Renewed(s, l.at, l.amp)
           IN  /\ BeginsQuery(s, l.at, amp) <=> l.at \in Starts(s)
               /\ amp = 0 => \A j \in Amps(s) : j < l.at
               /\ amp > 0 => amp \in Amps(s) /\ \A j \in Amps(s) : l.at <= j => amp <= j
<1> DEFINE amp == Renewed(s, l.at, l.amp)
<1>1. l.at \in Nat \ {0} /\ l.amp \in Nat /\ l.at \in Marks(s)
  BY DEF Loops, Places, Knows
<1>2. Amps(s) \in SUBSET (1 .. Len(s)) /\ Len(s) \in Nat
  BY DEF Amps
<1>3. /\ amp = 0 => \A j \in Amps(s) : j < l.at
      /\ amp > 0 => amp \in Amps(s) /\ l.at <= amp /\ \A j \in Amps(s) : l.at <= j => amp <= j
  <2>1. CASE l.amp > 0 /\ l.amp < l.at
    <3>1. amp = AmpFrom(s, l.at)
      BY <2>1 DEF Renewed
    <3> HIDE DEF amp
    <3>2. IF {i \in Amps(s) : i >= l.at} = {} THEN amp = 0
          ELSE amp \in {i \in Amps(s) : i >= l.at} /\ \A p \in {i \in Amps(s) : i >= l.at} : amp <= p
      BY <1>1, <3>1, AmpFromIsFirst
    <3> QED BY <1>1, <1>2, <3>2
  <2>2. CASE ~ (l.amp > 0 /\ l.amp < l.at)
    <3>1. amp = l.amp
      BY <2>2 DEF Renewed
    <3> HIDE DEF amp
    <3> QED BY <1>1, <1>2, <2>2, <3>1 DEF Knows
  <2> QED BY <2>1, <2>2
<1> HIDE DEF amp
<1>4. l.at \notin Amps(s)
  BY <1>1 DEF Marks, Amps
<1>5. amp \in Nat
  BY <1>2, <1>3, <1>1, SearchTypes DEF amp, Renewed, Places
<1>6. amp > l.at <=> \E j \in Amps(s) : j > l.at
  BY <1>1, <1>2, <1>3, <1>4, <1>5
<1>7. l.at \in Starts(s) <=> Has(s, l.at + 1, "salt=") \/ \E j \in Amps(s) : j > l.at
  BY <1>1 DEF Starts, Marks, Amps
<1>8. BeginsQuery(s, l.at, amp) <=> l.at \in Starts(s)
  BY <1>6, <1>7 DEF BeginsQuery
<1> QED BY <1>3, <1>8 DEF amp

\* A round keeps what the loop knows, and either the loop is left or it has moved on.
LEMMA RoundKnows ==
    ASSUME NEW s \in Seq(Tokens), NEW l \in Loops(s), Knows(s, l)
    PROVE  /\ Knows(s, Round(s, l))
           /\ Left(s, l) => Round(s, l) = l
           /\ Left(s, Round(s, l)) \/ l.at < Round(s, l).at
<1> DEFINE amp == Renewed(s, l.at, l.amp)
           next == IndexOf(s, "?", l.at + 1)
<1>1. l.at \in Nat /\ l.at \in Places(s)
  BY DEF Loops, Places
<1>2. CASE l.at = 0
  BY <1>2 DEF Round, Left
<1>3. CASE l.at > 0 /\ l.at \in Starts(s)
  <2>1. BeginsQuery(s, l.at, amp)
    BY <1>3, TestIsRight
  <2> QED BY <1>3, <2>1 DEF Round, Left
<1>4. CASE l.at > 0 /\ l.at \notin Starts(s)
  <2>1. /\ ~ BeginsQuery(s, l.at, amp)
        /\ amp = 0 => \A j \in Amps(s) : j < l.at
        /\ amp > 0 => amp \in Amps(s) /\ \A j \in Amps(s) : l.at <= j => amp <= j
    BY <1>4, TestIsRight
  <2>2. Round(s, l) = [at |-> next, amp |-> amp]
    BY <1>4, <2>1 DEF Round
  <2>3. LET P == {i \in DOMAIN s : s[i] = "?" /\ i >= l.at + 1}
        IN  IF P = {} THEN next = 0 ELSE next \in P /\ \A p \in P : next <= p
    BY <1>1, IndexOfMark
  <2>4. next \in Nat /\ Amps(s) \in SUBSET Nat /\ Starts(s) \in SUBSET Marks(s) /\ Marks(s) \in SUBSET Nat
    BY <1>1, SearchTypes DEF Places, Amps, Starts, Marks
  <2> HIDE DEF next
  <2>5. /\ next = 0 => \A i \in Marks(s) : i <= l.at
        /\ next > 0 => next \in Marks(s) /\ l.at < next /\ \A i \in Marks(s) : l.at < i => next <= i
    BY <1>1, <2>3, <2>4 DEF Marks
  <2>6. \A i \in Starts(s) : l.at < i
    BY <1>1, <1>4, <2>4 DEF Knows
  <2>7. \A i \in Starts(s) : next > 0 /\ next <= i
    BY <1>1, <2>4, <2>5, <2>6
  <2> HIDE DEF amp
  <2>8. /\ amp = 0 => \A j \in Amps(s) : next > 0 => j < next
        /\ amp > 0 => amp \in Amps(s) /\ \A j \in Amps(s) : (next > 0 /\ next <= j) => amp <= j
    BY <1>1, <2>1, <2>4, <2>5
  <2>9. CASE next > 0
    <3>1. Knows(s, Round(s, l))
      BY <2>2, <2>4, <2>5, <2>7, <2>8, <2>9 DEF Knows
    <3> QED BY <1>4, <2>2, <2>5, <2>9, <3>1 DEF Left
  <2>10. CASE next = 0
    BY <1>1, <1>4, <2>2, <2>7, <2>10 DEF Knows, Left
  <2> QED BY <2>4, <2>9, <2>10
<1> QED BY <1>1, <1>2, <1>3, <1>4

LEMMA FirstRound ==
    ASSUME NEW s \in Seq(Tokens)
    PROVE  Knows(s, Rounds(s)[0])
<1> DEFINE at == IndexOf(s, "?", 1)
           amp == AmpFrom(s, 1)
<1>1. Rounds(s)[0] = [at |-> at, amp |-> amp]
  BY RoundsFollow
<1>2. Starts(s) \in SUBSET Marks(s) /\ Marks(s) \in SUBSET (Nat \ {0}) /\ Amps(s) \in SUBSET (Nat \ {0})
  BY DEF Starts, Marks, Amps
<1>3. LET P == {i \in DOMAIN s : s[i] = "?" /\ i >= 1}
      IN  IF P = {} THEN at = 0 ELSE at \in P /\ \A p \in P : at <= p
  BY IndexOfMark
<1>4. LET P == {i \in Amps(s) : i >= 1}
      IN  IF P = {} THEN amp = 0 ELSE amp \in P /\ \A p \in P : amp <= p
  BY AmpFromIsFirst
<1> HIDE DEF at, amp
<1>5. IF Marks(s) = {} THEN at = 0 ELSE at \in Marks(s) /\ \A i \in Marks(s) : at <= i
  BY <1>3 DEF Marks
<1>6. IF Amps(s) = {} THEN amp = 0 ELSE amp \in Amps(s) /\ \A i \in Amps(s) : amp <= i
  BY <1>2, <1>4
<1>7. (at = 0 \/ at > 0) /\ (at > 0 => at \in Marks(s)) /\ \A i \in Starts(s) : at > 0 /\ at <= i
  BY <1>2, <1>5
<1>8. /\ amp = 0 => \A j \in Amps(s) : j < at
      /\ amp > 0 => amp \in Amps(s) /\ \A j \in Amps(s) : at <= j => amp <= j
  BY <1>2, <1>6
<1> QED BY <1>1, <1>7, <1>8 DEF Knows

\* Where splitQuery cuts: at the first mark that begins the query, if there is one.
LEMMA SplitAtFirst ==
    ASSUME NEW s \in Seq(Tokens)
    PROVE  LET at == Rounds(s)[Len(s)].at
           IN  IF Starts(s) = {} THEN at = 0 ELSE at \in Starts(s) /\ \A i \in Starts(s) : at <= i
<1> DEFINE N == Len(s)
           R(n) == Rounds(s)[n]
           T == {n \in 0 .. N : Knows(s, R(n)) /\ (Left(s, R(n)) \/ n < R(n).at)}
<1>1. N \in Nat /\ Starts(s) \in SUBSET (1 .. N)
  BY DEF Starts
<1>2. \A n \in 0 .. N : R(n) \in Loops(s) /\ R(n).at \in 0 .. N
  BY RoundsFollow DEF Loops, Places
<1>3. \A n \in 1 .. N : R(n) = Round(s, R(n - 1))
  BY RoundsFollow
<1>4. 0 \in T
  <2>1. Knows(s, R(0)) /\ R(0).at \in 0 .. N /\ 0 \in 0 .. N
    BY <1>1, <1>2, FirstRound
  <2>2. Left(s, R(0)) \/ 0 < R(0).at
    <3> HIDE DEF R
    <3> QED BY <1>1, <2>1 DEF Left
  <2> QED BY <2>1, <2>2
<1> HIDE DEF R, N
<1>5. ASSUME NEW n \in 1 .. N, n - 1 \in T PROVE n \in T
  <2>1. n \in 0 .. N /\ n - 1 \in 0 .. N /\ n \in Nat
    BY <1>1
  <2>2. R(n - 1) \in Loops(s) /\ Knows(s, R(n - 1)) /\ R(n) = Round(s, R(n - 1))
    BY <1>2, <1>3, <1>5, <2>1
  <2>3. /\ Knows(s, R(n)) /\ (Left(s, R(n - 1)) => R(n) = R(n - 1))
        /\ Left(s, R(n)) \/ R(n - 1).at < R(n).at
    BY <2>2, RoundKnows
  <2>4. Left(s, R(n)) \/ n < R(n).at
    <3>1. Left(s, R(n - 1)) \/ n - 1 < R(n - 1).at
      BY <1>5
    <3>2. R(n - 1).at \in 0 .. N /\ R(n).at \in 0 .. N
      BY <1>2, <2>1
    <3> QED BY <1>1, <2>1, <2>3, <3>1, <3>2
  <2> QED BY <2>1, <2>3, <2>4
<1>6. N \in T
  <2> HIDE DEF T
  <2>1. \A n \in 0 .. N : n \in T
    BY <1>1, <1>4, <1>5, Inductive
  <2> QED BY <1>1, <2>1
<1>7. Knows(s, R(N)) /\ Left(s, R(N))
  <2>1. R(N).at \in 0 .. N
    BY <1>1, <1>2
  <2> QED BY <1>1, <1>6, <2>1
<1>8. R(N).at = 0 \/ (R(N).at > 0 /\ R(N).at \in Starts(s))
  BY <1>1, <1>7 DEF Left
<1>9. IF Starts(s) = {} THEN R(N).at = 0 ELSE R(N).at \in Starts(s) /\ \A i \in Starts(s) : R(N).at <= i
  BY <1>7, <1>8 DEF Knows
<1> QED BY <1>9 DEF R, N

\* splitQuery, for any text.
LEMMA SplitQuery ==
    ASSUME NEW s \in Seq(Tokens)
    PROVE  /\ Starts(s) = {} => splitQuery(s) = [base |-> s, salt |-> None]
           /\ \A i \in Starts(s) :
                 (\A j \in Starts(s) : i <= j)
                    => splitQuery(s) = [base |-> Upto(s, i - 1), salt |-> SaltOf(After(s, i))]
<1> DEFINE at == Rounds(s)[Len(s)].at
<1>1. IF Starts(s) = {} THEN at = 0 ELSE at \in Starts(s) /\ \A i \in Starts(s) : at <= i
  BY SplitAtFirst
<1>2. splitQuery(s) = IF at = 0 THEN [base |-> s, salt |-> None]
                      ELSE [base |-> Upto(s, at - 1), salt |-> SaltOf(After(s, at))]
  BY DEF splitQuery
<1> HIDE DEF at
<1>3. Starts(s) \in SUBSET (Nat \ {0})
  BY DEF Starts
<1>4. ASSUME NEW i \in Starts(s), \A j \in Starts(s) : i <= j
      PROVE  at = i /\ at # 0
  BY <1>1, <1>3, <1>4
<1> QED BY <1>1, <1>2, <1>4

-----------------------------------------------------------------------------
(* The texts that are typed *************************************************)

Texts == head \in Seq(Tokens) /\ tail \in Seq(Tokens)

LEMMA TextsTyped == Spec => []Texts
<1>1. Init => Texts
  <2>1. <<>> \in Seq(Tokens)
    OBVIOUS
  <2>2. ASSUME Init PROVE head \in Seq(Tokens) /\ tail \in Seq(Tokens)
    <3>1. tail = <<>> /\ (head \in Heads \/ head = <<>>)
      BY <2>2 DEF Init
    <3> QED BY <2>1, <3>1, TextAssumption, Zenon
  <2> QED BY <2>2 DEF Texts
<1>2. Texts /\ [Next]_vars => Texts'
  <2> SUFFICES ASSUME Texts, [Next]_vars PROVE Texts'
    OBVIOUS
  <2>1. CASE Type
    <3>1. PICK t \in Tokens : tail' = Append(tail, t)
      BY <2>1, TextAssumption DEF Type
    <3> QED BY <2>1, <3>1 DEF Texts, Type
  <2>2. CASE UNCHANGED vars
    BY <2>2 DEF Texts, vars
  <2> QED BY <2>1, <2>2 DEF Next
<1> QED BY <1>1, <1>2, PTL DEF Spec

LEMMA TextIsText == Texts => text \in Seq(Tokens)
  BY DEF Texts, text

\* In every text, however long and of whatever tokens, the one pass of splitQuery over the marks,
\* with a parameter that it looks up again only when it has passed it, cuts at the first mark that
\* begins a query with a salt.
THEOREM QueryIsFound == Spec => []QueryIsFirst
<1>1. Texts => QueryIsFirst
  <2> SUFFICES ASSUME Texts PROVE QueryIsFirst
    OBVIOUS
  <2>1. text \in Seq(Tokens)
    BY TextIsText
  <2>2. CASE Starts(text) = {}
    BY <2>1, <2>2, SplitQuery DEF QueryIsFirst
  <2>3. CASE Starts(text) # {}
    <3>1. Starts(text) \in SUBSET Nat
      BY <2>1 DEF Starts
    <3>2. \E i \in Starts(text) : \A j \in Starts(text) : i <= j
      BY <2>3, <3>1, Least
    <3>3. Min(Starts(text)) \in Starts(text) /\ \A j \in Starts(text) : Min(Starts(text)) <= j
      BY <3>2 DEF Min
    <3>4. splitQuery(text).base = Upto(text, Min(Starts(text)) - 1)
      BY <2>1, <3>3, SplitQuery
    <3> QED BY <2>3, <3>4 DEF QueryIsFirst
  <2> QED BY <2>2, <2>3
<1> QED BY <1>1, TextsTyped, PTL

-----------------------------------------------------------------------------
(* Parts of texts ***********************************************************)

LEMMA UptoIs ==
    ASSUME NEW S, NEW s \in Seq(S), NEW i \in 0 .. Len(s)
    PROVE  Upto(s, i) \in Seq(S) /\ Len(Upto(s, i)) = i /\ \A k \in 1 .. i : Upto(s, i)[k] = s[k]
<1>1. \A k \in 1 .. i : s[k] \in S
  OBVIOUS
<1> QED BY <1>1, SubSeqProperties DEF Upto

LEMMA AfterIs ==
    ASSUME NEW S, NEW s \in Seq(S), NEW i \in 0 .. Len(s)
    PROVE  /\ After(s, i) \in Seq(S) /\ Len(After(s, i)) = Len(s) - i
           /\ \A k \in 1 .. Len(s) - i : After(s, i)[k] = s[i + k]
<1>1. \A k \in (i + 1) .. Len(s) : s[k] \in S
  OBVIOUS
<1>2. /\ SubSeq(s, i + 1, Len(s)) \in Seq(S)
      /\ Len(SubSeq(s, i + 1, Len(s))) = IF i + 1 <= Len(s) THEN Len(s) - (i + 1) + 1 ELSE 0
      /\ \A k \in 1 .. Len(s) - (i + 1) + 1 : SubSeq(s, i + 1, Len(s))[k] = s[i + 1 + k - 1]
  BY <1>1, SubSeqProperties
<1> QED BY <1>2 DEF After

\* The whole text is what comes after nothing.
LEMMA AfterNothing ==
    ASSUME NEW S, NEW s \in Seq(S)
    PROVE  After(s, 0) = s
  BY AfterIs, SeqEqual

\* A part of a text without a query has none.
LEMMA UptoIsClean ==
    ASSUME NEW s \in Seq(Tokens), NEW i \in 0 .. Len(s), \A j \in Starts(s) : i < j
    PROVE  Starts(Upto(s, i)) = {}
<1> DEFINE u == Upto(s, i)
<1>1. u \in Seq(Tokens) /\ Len(u) = i /\ \A k \in 1 .. i : u[k] = s[k]
  BY UptoIs
<1> HIDE DEF u
<1>2. ASSUME NEW j \in Starts(u) PROVE j \in Starts(s) /\ j <= i
  BY <1>1, <1>2 DEF Starts, Has
<1>3. Starts(u) \in SUBSET Nat /\ Starts(s) \in SUBSET Nat
  BY <1>1 DEF Starts
<1>4. Starts(u) = {}
  BY <1>2, <1>3
<1> QED BY <1>4 DEF u

LEMMA AfterIsClean ==
    ASSUME NEW s \in Seq(Tokens), NEW i \in 0 .. Len(s), Starts(s) = {}
    PROVE  Starts(After(s, i)) = {}
<1> DEFINE u == After(s, i)
<1>1. u \in Seq(Tokens) /\ Len(u) = Len(s) - i /\ \A k \in 1 .. Len(s) - i : u[k] = s[i + k]
  BY AfterIs
<1> HIDE DEF u
<1>2. ASSUME NEW j \in Starts(u) PROVE i + j \in Starts(s)
  <2>1. j \in 1 .. Len(u) /\ u[j] = "?" /\ i + j \in DOMAIN s /\ s[i + j] = "?"
    BY <1>1 DEF Starts
  <2>2. CASE Has(u, j + 1, "salt=")
    <3>1. j + 1 \in 1 .. Len(u) /\ u[j + 1] = "salt="
      BY <1>1, <2>2 DEF Has
    <3>2. i + j + 1 \in DOMAIN s /\ s[i + j + 1] = "salt="
      BY <1>1, <2>1, <3>1
    <3> QED BY <2>1, <3>2 DEF Starts, Has
  <2>3. CASE ~ Has(u, j + 1, "salt=")
    <3>1. PICK k \in j + 1 .. Len(u) : u[k] = "&" /\ Has(u, k + 1, "salt=")
      BY <2>3 DEF Starts
    <3>2. i + k \in i + j + 1 .. Len(s) /\ s[i + k] = "&"
      BY <1>1, <2>1, <3>1
    <3>3. Has(s, i + k + 1, "salt=")
      BY <1>1, <2>1, <3>1 DEF Has
    <3> QED BY <2>1, <3>2, <3>3 DEF Starts
  <2> QED BY <2>2, <2>3
<1> QED BY <1>2 DEF u

\* What is put before a text adds no query to it, when it has no mark.
LEMMA PrefixedIsClean ==
    ASSUME NEW p \in Seq(Tokens), NEW s \in Seq(Tokens), Starts(s) = {},
           \A k \in 1 .. Len(p) : p[k] # "?"
    PROVE  Starts(p \o s) = {}
<1> DEFINE u == p \o s
<1>1. u \in Seq(Tokens) /\ Len(u) = Len(p) + Len(s)
      /\ \A k \in 1 .. Len(u) : u[k] = IF k <= Len(p) THEN p[k] ELSE s[k - Len(p)]
  BY ConcatProperties
<1> HIDE DEF u
<1>2. ASSUME NEW j \in Starts(u) PROVE j - Len(p) \in Starts(s)
  <2>1. j \in 1 .. Len(u) /\ u[j] = "?"
    BY <1>1 DEF Starts
  <2>2. j > Len(p)
    BY <1>1, <2>1
  <2>3. j - Len(p) \in DOMAIN s /\ s[j - Len(p)] = "?"
    BY <1>1, <2>1, <2>2
  <2>4. CASE Has(u, j + 1, "salt=")
    BY <1>1, <2>1, <2>2, <2>3, <2>4 DEF Starts, Has
  <2>5. CASE ~ Has(u, j + 1, "salt=")
    <3>1. PICK k \in j + 1 .. Len(u) : u[k] = "&" /\ Has(u, k + 1, "salt=")
      BY <2>5 DEF Starts
    <3>2. k - Len(p) \in (j - Len(p)) + 1 .. Len(s) /\ s[k - Len(p)] = "&"
      BY <1>1, <2>1, <2>2, <3>1
    <3>3. Has(s, (k - Len(p)) + 1, "salt=")
      BY <1>1, <2>1, <2>2, <3>1 DEF Has
    <3> QED BY <2>3, <3>2, <3>3 DEF Starts
  <2> QED BY <2>4, <2>5
<1> QED BY <1>2 DEF u

\* The base that splitQuery leaves has no query.
LEMMA BaseIsClean ==
    ASSUME NEW s \in Seq(Tokens)
    PROVE  splitQuery(s).base \in Seq(Tokens) /\ Starts(splitQuery(s).base) = {}
<1>1. CASE Starts(s) = {}
  BY <1>1, SplitQuery
<1>2. CASE Starts(s) # {}
  <2>1. Starts(s) \in SUBSET (1 .. Len(s))
    BY DEF Starts
  <2>2. PICK i \in Starts(s) : \A j \in Starts(s) : i <= j
    BY <1>2, <2>1, Least
  <2>3. splitQuery(s).base = Upto(s, i - 1)
    BY <2>2, SplitQuery
  <2>4. i - 1 \in 0 .. Len(s) /\ \A j \in Starts(s) : i - 1 < j
    BY <2>1, <2>2
  <2> QED BY <2>3, <2>4, UptoIs, UptoIsClean
<1> QED BY <1>1, <1>2

Hexes == {"id", "root", "hex"}

Salts == Seq(Hexes) \ {<<>>}

\* Lower case has no capitals.
LEMMA LowerIs ==
    ASSUME NEW s \in Seq(Tokens)
    PROVE  /\ Lower(s) \in Seq(Tokens) /\ Len(Lower(s)) = Len(s)
           /\ (\A k \in 1 .. Len(s) : IsHex(s[k])) => Lower(s) \in Seq(Hexes)
           /\ (\A k \in 1 .. Len(s) : s[k] \notin {"ID", "ROOT", "HEX"}) => Lower(s) = s
<1> DEFINE l == Lower(s)
<1>1. DOMAIN l = 1 .. Len(s) /\ Len(s) \in Nat
  BY DEF Lower
<1>2. \A k \in 1 .. Len(s) :
         /\ s[k] = "ID" => l[k] = "id"
         /\ s[k] = "ROOT" => l[k] = "root"
         /\ s[k] = "HEX" => l[k] = "hex"
         /\ s[k] \notin {"ID", "ROOT", "HEX"} => l[k] = s[k]
  BY DEF Lower
<1>3. l = [k \in 1 .. Len(s) |-> l[k]]
  BY <1>1 DEF Lower
<1> HIDE DEF l
<1>4. \A k \in 1 .. Len(s) : l[k] \in Tokens
  <2> TAKE k \in 1 .. Len(s)
  <2>1. l[k] \in {"id", "root", "hex", s[k]}
    BY <1>2
  <2>2. s[k] \in Tokens
    OBVIOUS
  <2> QED BY <2>1, <2>2, TextAssumption DEF Written
<1>5. l \in Seq(Tokens) /\ Len(l) = Len(s)
  BY <1>1, <1>3, <1>4
<1>6. ASSUME \A k \in 1 .. Len(s) : IsHex(s[k]) PROVE l \in Seq(Hexes)
  <2>1. \A k \in 1 .. Len(s) : l[k] \in Hexes
    BY <1>2, <1>6 DEF IsHex, Hexes
  <2> QED BY <1>1, <1>3, <2>1
<1>7. ASSUME \A k \in 1 .. Len(s) : s[k] \notin {"ID", "ROOT", "HEX"} PROVE l = s
  BY <1>2, <1>5, <1>7, SeqEqual
<1> QED BY <1>5, <1>6, <1>7 DEF l

\* Where the run of hex digits after a place ends.
HexEnd(s, at) == Min({i \in at + 1 .. Len(s) + 1 : i > Len(s) \/ ~IsHex(s[i])})

LEMMA HexEndIs ==
    ASSUME NEW s \in Seq(Tokens), NEW at \in 0 .. Len(s)
    PROVE  /\ HexEnd(s, at) \in at + 1 .. Len(s) + 1
           /\ HexEnd(s, at) > Len(s) \/ ~IsHex(s[HexEnd(s, at)])
           /\ \A i \in at + 1 .. HexEnd(s, at) - 1 : IsHex(s[i])
<1> DEFINE P == {i \in at + 1 .. Len(s) + 1 : i > Len(s) \/ ~IsHex(s[i])}
<1>1. P \in SUBSET Nat /\ Len(s) + 1 \in P
  OBVIOUS
<1>2. HexEnd(s, at) = Min(P)
  BY DEF HexEnd
<1>3. Min(P) \in P /\ \A i \in P : Min(P) <= i
  <2> HIDE DEF P
  <2>1. \E m \in P : \A k \in P : m <= k
    BY <1>1, Least
  <2> QED BY <2>1 DEF Min
<1> DEFINE m == HexEnd(s, at)
<1>4. m \in P /\ \A i \in P : m <= i
  BY <1>2, <1>3
<1> HIDE DEF m
<1>5. \A i \in at + 1 .. m - 1 : i \notin P /\ i \in at + 1 .. Len(s) + 1
  BY <1>1, <1>4
<1>6. \A i \in at + 1 .. m - 1 : IsHex(s[i])
  BY <1>5
<1> QED BY <1>4, <1>6 DEF m

SaltPlaces(s) ==
    {i \in DOMAIN s : /\ s[i] = "salt="
                      /\ i = 1 \/ s[i - 1] \in {"&", "?"}
                      /\ i + 1 \in DOMAIN s /\ IsHex(s[i + 1])}

\* A salt is there or not, and when it is, it is a number.
LEMMA SaltType ==
    ASSUME NEW s \in Seq(Tokens)
    PROVE  SaltOf(s) \in Salts \cup {None}
<1> DEFINE at == First(SaltPlaces(s))
           end == HexEnd(s, at)
<1>1. SaltOf(s) = IF at = 0 THEN None ELSE Lower(SubSeq(s, at + 1, end - 1))
  BY DEF SaltOf, HexEnd, SaltPlaces
<1>2. SaltPlaces(s) \in SUBSET (Nat \ {0})
  BY DEF SaltPlaces
<1>3. at = 0 \/ at \in SaltPlaces(s)
  BY <1>2, FirstPlace
<1> HIDE DEF at
<1>4. CASE at = 0
  BY <1>1, <1>4
<1>5. CASE at # 0
  <2>1. at \in 1 .. Len(s) /\ at + 1 \in 1 .. Len(s) /\ IsHex(s[at + 1])
    BY <1>3, <1>5 DEF SaltPlaces
  <2>2. end \in at + 1 .. Len(s) + 1 /\ \A i \in at + 1 .. end - 1 : IsHex(s[i])
    BY <2>1, HexEndIs
  <2>3. end # at + 1
    BY <2>1, HexEndIs
  <2> HIDE DEF end
  <2> DEFINE u == SubSeq(s, at + 1, end - 1)
  <2>4. \A i \in at + 1 .. end - 1 : s[i] \in Tokens
    BY <2>1, <2>2
  <2>5. /\ u \in Seq(Tokens) /\ Len(u) = IF at + 1 <= end - 1 THEN end - 1 - (at + 1) + 1 ELSE 0
        /\ \A i \in 1 .. end - 1 - (at + 1) + 1 : u[i] = s[at + 1 + i - 1]
    BY <2>1, <2>2, <2>4, SubSeqProperties
  <2>6. Len(u) = end - 1 - at /\ Len(u) > 0 /\ \A i \in 1 .. Len(u) : u[i] = s[at + i] /\ at + i \in at + 1 .. end - 1
    BY <2>1, <2>2, <2>3, <2>5
  <2>7. \A i \in 1 .. Len(u) : IsHex(u[i])
    BY <2>2, <2>6
  <2> HIDE DEF u
  <2>8. Lower(u) \in Seq(Hexes) /\ Len(Lower(u)) > 0
    BY <2>5, <2>6, <2>7, LowerIs
  <2>9. Lower(u) # <<>>
    BY <2>8
  <2> QED BY <1>1, <1>5, <2>8, <2>9 DEF u, Salts
<1> QED BY <1>4, <1>5

LEMMA SaltsAreTexts ==
    ASSUME NEW salt \in Salts
    PROVE  /\ salt \in Seq(Tokens) /\ Len(salt) > 0 /\ salt # None
           /\ \A k \in 1 .. Len(salt) : salt[k] \in Hexes
<1>1. salt \in Seq(Hexes) /\ salt # <<>>
  BY DEF Salts
<1>2. Hexes \subseteq Tokens
  BY TextAssumption DEF Hexes, Written
<1>3. salt \in Seq(Tokens)
  BY <1>1, <1>2, SeqMonotonic
<1>4. Len(salt) > 0
  BY <1>1, EmptySeq
<1> QED BY <1>1, <1>3, <1>4, TextAssumption

\* A query that carries a salt and nothing else.
Query(salt) == <<"?", "salt=">> \o salt

LEMMA QueryIs ==
    ASSUME NEW salt \in Salts
    PROVE  /\ Query(salt) \in Seq(Tokens) /\ Len(Query(salt)) = Len(salt) + 2
           /\ Query(salt)[1] = "?" /\ Query(salt)[2] = "salt="
           /\ \A k \in 1 .. Len(salt) : Query(salt)[k + 2] = salt[k] /\ salt[k] \in Hexes
<1>1. /\ salt \in Seq(Tokens) /\ Len(salt) > 0
      /\ \A k \in 1 .. Len(salt) : salt[k] \in Hexes
  BY SaltsAreTexts
<1>2. <<"?", "salt=">> \in Seq(Tokens)
  BY TextAssumption DEF Written
<1>3. /\ Query(salt) \in Seq(Tokens) /\ Len(Query(salt)) = 2 + Len(salt)
      /\ \A k \in 1 .. 2 + Len(salt) :
            Query(salt)[k] = IF k <= 2 THEN <<"?", "salt=">>[k] ELSE salt[k - 2]
  BY <1>1, <1>2, ConcatProperties DEF Query
<1> QED BY <1>1, <1>3

\* The query gives its salt back.
LEMMA SaltOfQuery ==
    ASSUME NEW q \in Seq(Tokens), NEW salt \in Salts, Len(q) = Len(salt) + 1, q[1] = "salt=",
           \A k \in 1 .. Len(salt) : q[k + 1] = salt[k]
    PROVE  SaltOf(q) = salt
<1> DEFINE at == First(SaltPlaces(q))
           end == HexEnd(q, at)
<1>1. SaltOf(q) = IF at = 0 THEN None ELSE Lower(SubSeq(q, at + 1, end - 1))
  BY DEF SaltOf, HexEnd, SaltPlaces
<1>2. /\ salt \in Seq(Tokens) /\ Len(salt) > 0
      /\ \A k \in 1 .. Len(salt) : salt[k] \in Hexes
  BY SaltsAreTexts
<1>3. \A k \in 2 .. Len(q) : IsHex(q[k])
  <2> TAKE k \in 2 .. Len(q)
  <2>1. k - 1 \in 1 .. Len(salt) /\ q[(k - 1) + 1] = salt[k - 1]
    BY <1>2
  <2> QED BY <1>2, <2>1 DEF IsHex, Hexes
<1>4. 1 \in SaltPlaces(q) /\ SaltPlaces(q) \in SUBSET (Nat \ {0})
  BY <1>2, <1>3 DEF SaltPlaces
<1>5. at = 1
  BY <1>4, FirstPlace
<1> HIDE DEF at
<1>6. end = Len(q) + 1
  <2>1. at \in 0 .. Len(q)
    BY <1>2, <1>5
  <2>2. /\ end \in at + 1 .. Len(q) + 1
        /\ end > Len(q) \/ ~IsHex(q[end])
    BY <2>1, HexEndIs
  <2> HIDE DEF end
  <2>3. /\ end \in 2 .. Len(q) + 1
        /\ end > Len(q) \/ ~IsHex(q[end])
    BY <1>5, <2>2
  <2> QED BY <1>2, <1>3, <2>3
<1> HIDE DEF end
<1>7. SubSeq(q, at + 1, end - 1) = After(q, 1)
  BY <1>2, <1>5, <1>6 DEF After
<1>8. After(q, 1) = salt
  <2>1. 1 \in 0 .. Len(q) /\ Len(q) - 1 = Len(salt)
    BY <1>2
  <2>2. /\ After(q, 1) \in Seq(Tokens) /\ Len(After(q, 1)) = Len(q) - 1
        /\ \A k \in 1 .. Len(q) - 1 : After(q, 1)[k] = q[1 + k]
    BY <2>1, AfterIs
  <2>3. /\ After(q, 1) \in Seq(Tokens) /\ Len(After(q, 1)) = Len(salt)
        /\ \A k \in 1 .. Len(salt) : After(q, 1)[k] = q[1 + k]
    BY <2>1, <2>2
  <2>4. \A k \in 1 .. Len(salt) : q[1 + k] = salt[k]
    OBVIOUS
  <2> QED BY <1>2, <2>3, <2>4, SeqEqual
<1>9. Lower(salt) = salt
  BY <1>2, LowerIs DEF Hexes
<1>10. at # 0
  BY <1>5
<1> QED BY <1>1, <1>7, <1>8, <1>9, <1>10

\* A query put behind a text that has none is the one that is found.
LEMMA SplitOfQuery ==
    ASSUME NEW b \in Seq(Tokens), Starts(b) = {}, NEW salt \in Salts
    PROVE  splitQuery(b \o Query(salt)) = [base |-> b, salt |-> salt]
<1> DEFINE s == b \o Query(salt)
           n == Len(b)
<1>1. /\ Query(salt) \in Seq(Tokens) /\ Len(Query(salt)) = Len(salt) + 2
      /\ Query(salt)[1] = "?" /\ Query(salt)[2] = "salt="
      /\ \A k \in 1 .. Len(salt) : Query(salt)[k + 2] = salt[k] /\ salt[k] \in Hexes
  BY QueryIs
<1>2. salt \in Seq(Tokens) /\ Len(salt) \in Nat /\ Len(salt) > 0 /\ n \in Nat
  BY SaltsAreTexts
<1>3. /\ s \in Seq(Tokens) /\ Len(s) = n + Len(salt) + 2
      /\ \A k \in 1 .. n : s[k] = b[k]
      /\ s[n + 1] = "?" /\ s[n + 2] = "salt="
      /\ \A k \in 1 .. Len(salt) : s[n + 2 + k] = salt[k] /\ s[n + 2 + k] \in Hexes
  <2>1. /\ s \in Seq(Tokens) /\ Len(s) = n + Len(Query(salt))
        /\ \A k \in 1 .. n + Len(Query(salt)) : s[k] = IF k <= n THEN b[k] ELSE Query(salt)[k - n]
    BY <1>1, ConcatProperties
  <2> HIDE DEF s, n
  <2>2. /\ s \in Seq(Tokens) /\ Len(s) = n + (Len(salt) + 2)
        /\ \A k \in 1 .. n + (Len(salt) + 2) : s[k] = IF k <= n THEN b[k] ELSE Query(salt)[k - n]
    BY <1>1, <2>1
  <2>3. \A k \in 1 .. Len(salt) : s[n + 2 + k] = Query(salt)[k + 2]
    <3> TAKE k \in 1 .. Len(salt)
    <3>1. n + 2 + k \in 1 .. n + (Len(salt) + 2) /\ ~ (n + 2 + k <= n) /\ (n + 2 + k) - n = k + 2
      BY <1>2
    <3> QED BY <2>2, <3>1
  <2>4. s[n + 1] = Query(salt)[1] /\ s[n + 2] = Query(salt)[2]
    <3>1. n + 1 \in 1 .. n + (Len(salt) + 2) /\ ~ (n + 1 <= n) /\ (n + 1) - n = 1
      BY <1>2
    <3>2. n + 2 \in 1 .. n + (Len(salt) + 2) /\ ~ (n + 2 <= n) /\ (n + 2) - n = 2
      BY <1>2
    <3> QED BY <2>2, <3>1, <3>2
  <2>5. \A k \in 1 .. n : s[k] = b[k]
    BY <1>2, <2>2
  <2>6. Len(s) = n + Len(salt) + 2
    BY <1>2, <2>2
  <2> QED BY <1>1, <2>2, <2>3, <2>4, <2>5, <2>6
<1> HIDE DEF s
<1>4. n + 1 \in Starts(s)
  BY <1>2, <1>3 DEF Starts, Has
<1>5. ASSUME NEW i \in Starts(s), i <= n PROVE FALSE
  <2>1. i \in 1 .. n /\ b[i] = "?"
    BY <1>2, <1>3, <1>5 DEF Starts
  <2>2. ASSUME NEW j \in 1 .. Len(s), s[j] \in {"&", "salt="}, j # n + 2 PROVE j \in 1 .. n /\ s[j] = b[j]
    <3>1. j # n + 1
      BY <1>3, <2>2
    <3>2. ASSUME j > n + 2 PROVE FALSE
      <4>1. j - n - 2 \in 1 .. Len(salt) /\ n + 2 + (j - n - 2) = j
        BY <1>2, <1>3, <3>2
      <4>2. s[j] \in Hexes
        BY <1>3, <4>1
      <4> QED BY <2>2, <4>2 DEF Hexes
    <3>3. j \in 1 .. n
      BY <1>2, <2>2, <3>1, <3>2
    <3> QED BY <1>3, <3>3
  <2>3. CASE Has(s, i + 1, "salt=")
    <3>1. i + 1 \in 1 .. Len(s) /\ s[i + 1] = "salt=" /\ i + 1 # n + 2
      BY <1>2, <1>3, <2>1, <2>3 DEF Has
    <3>2. Has(b, i + 1, "salt=")
      BY <2>2, <3>1 DEF Has
    <3> QED BY <2>1, <3>2 DEF Starts
  <2>4. CASE ~ Has(s, i + 1, "salt=")
    <3>1. PICK j \in i + 1 .. Len(s) : s[j] = "&" /\ Has(s, j + 1, "salt=")
      BY <2>4 DEF Starts
    <3>2. j \in 1 .. Len(s) /\ j # n + 2
      BY <1>3, <2>1, <3>1
    <3>3. j \in 1 .. n /\ b[j] = "&"
      BY <2>2, <3>1, <3>2
    <3>4. j + 1 \in 1 .. Len(s) /\ s[j + 1] = "salt=" /\ j + 1 # n + 2
      BY <1>2, <3>1, <3>3 DEF Has
    <3>5. Has(b, j + 1, "salt=")
      BY <2>2, <3>4 DEF Has
    <3> QED BY <2>1, <3>1, <3>3, <3>5 DEF Starts
  <2> QED BY <2>3, <2>4
<1>6. \A i \in Starts(s) : n + 1 <= i
  <2>1. \A i \in Starts(s) : i \in Nat
    BY DEF Starts
  <2> QED BY <1>2, <1>5, <2>1
<1>7. splitQuery(s) = [base |-> Upto(s, n), salt |-> SaltOf(After(s, n + 1))]
  <2>1. splitQuery(s) = [base |-> Upto(s, (n + 1) - 1), salt |-> SaltOf(After(s, n + 1))]
    BY <1>3, <1>4, <1>6, SplitQuery
  <2>2. (n + 1) - 1 = n
    BY <1>2
  <2> QED BY <2>1, <2>2
<1>8. Upto(s, n) = b
  <2>1. n \in 0 .. Len(s)
    BY <1>2, <1>3
  <2>2. Upto(s, n) \in Seq(Tokens) /\ Len(Upto(s, n)) = n /\ \A k \in 1 .. n : Upto(s, n)[k] = s[k]
    BY <1>3, <2>1, UptoIs
  <2> QED BY <1>3, <2>2, SeqEqual
<1>9. SaltOf(After(s, n + 1)) = salt
  <2> DEFINE q == After(s, n + 1)
  <2>1. n + 1 \in 0 .. Len(s) /\ Len(s) - (n + 1) = Len(salt) + 1
    BY <1>2, <1>3
  <2>2. q \in Seq(Tokens) /\ Len(q) = Len(s) - (n + 1) /\ \A k \in 1 .. Len(s) - (n + 1) : q[k] = s[n + 1 + k]
    BY <1>3, <2>1, AfterIs
  <2> HIDE DEF q
  <2>3. q \in Seq(Tokens) /\ Len(q) = Len(salt) + 1 /\ \A k \in 1 .. Len(salt) + 1 : q[k] = s[n + 1 + k]
    BY <2>1, <2>2
  <2>4. q[1] = "salt="
    <3>1. 1 \in 1 .. Len(salt) + 1 /\ n + 1 + 1 = n + 2
      BY <1>2
    <3> QED BY <1>3, <2>3, <3>1
  <2>5. \A k \in 1 .. Len(salt) : q[k + 1] = salt[k]
    <3> TAKE k \in 1 .. Len(salt)
    <3>1. k + 1 \in 1 .. Len(salt) + 1 /\ n + 1 + (k + 1) = n + 2 + k
      BY <1>2
    <3> QED BY <1>3, <2>3, <3>1
  <2> QED BY <2>3, <2>4, <2>5, SaltOfQuery DEF q
<1> QED BY <1>7, <1>8, <1>9 DEF s

-----------------------------------------------------------------------------
(* What is parsed, and parsed again *****************************************)

\* The leading slashes are dropped, all of them and nothing else.
LEMMA DropSlashesIs ==
    ASSUME NEW s \in Seq(Tokens)
    PROVE  /\ \E m \in 0 .. Len(s) : DropSlashes(s) = After(s, m)
           /\ ~ Has(DropSlashes(s), 1, "/")
           /\ ~ Has(s, 1, "/") => DropSlashes(s) = s
<1> DEFINE P == {i \in 0 .. Len(s) : ~Has(s, i + 1, "/")}
           m == Min(P)
<1>1. P \in SUBSET Nat /\ Len(s) \in P
  BY DEF Has
<1>2. m \in P /\ \A i \in P : m <= i
  <2> HIDE DEF P
  <2>1. \E k \in P : \A i \in P : k <= i
    BY <1>1, Least
  <2> QED BY <2>1 DEF Min
<1>3. DropSlashes(s) = After(s, m)
  BY DEF DropSlashes
<1> HIDE DEF m
<1>4. m \in 0 .. Len(s) /\ ~Has(s, m + 1, "/")
  BY <1>2
<1>5. After(s, m) \in Seq(Tokens) /\ Len(After(s, m)) = Len(s) - m
      /\ \A k \in 1 .. Len(s) - m : After(s, m)[k] = s[m + k]
  BY <1>4, AfterIs
<1>6. ~ Has(After(s, m), 1, "/")
  BY <1>4, <1>5 DEF Has
<1>7. ~ Has(s, 1, "/") => m = 0
  BY <1>2
<1> QED BY <1>3, <1>4, <1>6, <1>7, AfterNothing

Names == {<<"id">>, <<"root">>}

\* A reference that parseDigRef may return.
Refs ==
    {r \in [storeId : Names, root : Names \cup {None}, resourceKey : Seq(Tokens), salt : Salts \cup {None}] :
        r.resourceKey # <<>> /\ ~ Has(r.resourceKey, 1, "/") /\ Starts(r.resourceKey) = {}}

\* What comes before the key.
Front64(r) == r.storeId \o (IF r.root = None THEN <<>> ELSE <<":">> \o r.root)

LEMMA NoStarts ==
    /\ <<>> \in Seq(Tokens) /\ Starts(<<>>) = {}
    /\ <<"index.html">> \in Seq(Tokens) /\ Starts(<<"index.html">>) = {}
    /\ ~ Has(<<"index.html">>, 1, "/") /\ <<"index.html">> # <<>>
<1>1. <<>> \in Seq(Tokens) /\ Starts(<<>>) = {}
  BY DEF Starts
<1>2. <<"index.html">> \in Seq(Tokens) /\ <<"index.html">> # <<>>
  BY TextAssumption DEF Written
<1>3. Starts(<<"index.html">>) = {}
  BY DEF Starts
<1>4. ~ Has(<<"index.html">>, 1, "/")
  BY DEF Has
<1> QED BY <1>1, <1>2, <1>3, <1>4

\* The key, cut out of a base without a query, is one of a reference.
LEMMA KeyIsKey ==
    ASSUME NEW b \in Seq(Tokens), Starts(b) = {}, NEW slash \in 0 .. Len(b)
    PROVE  LET k == DropSlashes(IF slash = 0 THEN <<>> ELSE After(b, slash))
               key == IF k = <<>> THEN <<"index.html">> ELSE k
           IN  key \in Seq(Tokens) /\ key # <<>> /\ ~ Has(key, 1, "/") /\ Starts(key) = {}
<1> DEFINE u == IF slash = 0 THEN <<>> ELSE After(b, slash)
           k == DropSlashes(u)
<1>1. u \in Seq(Tokens) /\ Starts(u) = {}
  <2>1. CASE slash = 0
    BY <2>1, NoStarts
  <2>2. CASE slash # 0
    <3>1. After(b, slash) \in Seq(Tokens) /\ Starts(After(b, slash)) = {}
      BY AfterIs, AfterIsClean
    <3> QED BY <2>2, <3>1
  <2> QED BY <2>1, <2>2
<1> HIDE DEF u
<1>2. PICK m \in 0 .. Len(u) : k = After(u, m)
  BY <1>1, DropSlashesIs
<1>3. ~ Has(k, 1, "/")
  BY <1>1, DropSlashesIs
<1>4. After(u, m) \in Seq(Tokens) /\ Starts(After(u, m)) = {}
  BY <1>1, AfterIs, AfterIsClean
<1> HIDE DEF k
<1>5. CASE k = <<>>
  BY <1>5, NoStarts DEF k, u
<1>6. CASE k # <<>>
  BY <1>2, <1>3, <1>4, <1>6 DEF k, u
<1> QED BY <1>5, <1>6

\* What parseDigRef returns, for any text.
LEMMA ParsedIsRef ==
    ASSUME NEW s \in Seq(Tokens), parseDigRef(s) # None
    PROVE  parseDigRef(s) \in Refs
<1> DEFINE split == splitQuery(s)
           slash == IndexOf(split.base, "/", 1)
           first == IF slash = 0 THEN split.base ELSE Upto(split.base, slash - 1)
           k     == DropSlashes(IF slash = 0 THEN <<>> ELSE After(split.base, slash))
           key   == IF k = <<>> THEN <<"index.html">> ELSE k
           colon == IndexOf(first, ":", 1)
           store == Lower(IF colon = 0 THEN first ELSE Upto(first, colon - 1))
           root  == IF colon = 0 THEN <<>> ELSE canonicalizeRoot(After(first, colon))
           ref   == [storeId |-> store, root |-> IF root = <<>> THEN None ELSE root,
                     resourceKey |-> key, salt |-> split.salt]
<1>1. parseDigRef(s) = IF ~Is64Hex(store) \/ (root # <<>> /\ ~Is64Hex(root)) THEN None ELSE ref
  BY DEF parseDigRef
<1>2. split.base \in Seq(Tokens) /\ Starts(split.base) = {}
  BY BaseIsClean
<1>3. slash \in 0 .. Len(split.base)
  BY <1>2, IndexOfMark
<1>4. key \in Seq(Tokens) /\ key # <<>> /\ ~ Has(key, 1, "/") /\ Starts(key) = {}
  <2> HIDE DEF split, slash
  <2> QED BY <1>2, <1>3, KeyIsKey
<1>5. split.salt \in Salts \cup {None}
  <2>1. CASE Starts(s) = {}
    BY <2>1, SplitQuery
  <2>2. CASE Starts(s) # {}
    <3>1. Starts(s) \in SUBSET (1 .. Len(s))
      BY DEF Starts
    <3>2. PICK i \in Starts(s) : \A j \in Starts(s) : i <= j
      BY <2>2, <3>1, Least
    <3>3. split.salt = SaltOf(After(s, i))
      BY <3>2, SplitQuery
    <3>4. i \in 0 .. Len(s)
      BY <3>1
    <3> QED BY <3>3, <3>4, AfterIs, SaltType
  <2> QED BY <2>1, <2>2
<1> HIDE DEF split, key, store, root
<1>6. parseDigRef(s) = ref /\ store \in Names /\ (root = <<>> \/ root \in Names)
  BY <1>1 DEF Is64Hex, Names
<1>7. (IF root = <<>> THEN None ELSE root) \in Names \cup {None}
  BY <1>6
<1> HIDE DEF ref
<1>8. ref.resourceKey = key /\ ref \in [storeId : Names, root : Names \cup {None}, resourceKey : Seq(Tokens), salt : Salts \cup {None}]
  BY <1>4, <1>5, <1>6, <1>7 DEF ref
<1> QED BY <1>4, <1>6, <1>8 DEF Refs

\* The name before the key is one token, or three, and is taken apart again at its colon.
LEMMA FrontIs ==
    ASSUME NEW r \in Refs
    PROVE  LET f     == Front64(r)
               colon == IndexOf(f, ":", 1)
               root  == IF colon = 0 THEN <<>> ELSE canonicalizeRoot(After(f, colon))
           IN  /\ f \in Seq(Tokens) /\ \A k \in 1 .. Len(f) : f[k] \in {"id", "root", ":"}
               /\ Lower(IF colon = 0 THEN f ELSE Upto(f, colon - 1)) = r.storeId
               /\ root = IF r.root = None THEN <<>> ELSE r.root
<1> DEFINE f == Front64(r)
           colon == IndexOf(f, ":", 1)
           root == IF colon = 0 THEN <<>> ELSE canonicalizeRoot(After(f, colon))
<1>1. r.storeId \in Names /\ r.root \in Names \cup {None}
  BY DEF Refs
<1>2. PICK x \in {"id", "root"} : r.storeId = <<x>>
  BY <1>1 DEF Names
<1>3. x \in Tokens /\ ":" \in Tokens /\ "id" \in Tokens /\ "root" \in Tokens
  BY TextAssumption DEF Written
<1>4. \A y \in {"id", "root"} : <<y>> \in Seq(Tokens) /\ Lower(<<y>>) = <<y>>
  <2> TAKE y \in {"id", "root"}
  <2>1. y \in Tokens
    BY <1>3
  <2>2. <<y>> \in Seq(Tokens) /\ Len(<<y>>) = 1 /\ <<y>>[1] = y
    BY <2>1
  <2>3. \A k \in 1 .. Len(<<y>>) : <<y>>[k] \notin {"ID", "ROOT", "HEX"}
    BY <2>2
  <2> QED BY <2>2, <2>3, LowerIs
<1>5. CASE r.root = None
  <2>1. f = <<x>>
    <3>1. f = <<x>> \o <<>>
      BY <1>2, <1>5 DEF Front64
    <3>2. <<x>> \in Seq(Tokens)
      BY <1>4
    <3> QED BY <3>1, <3>2, ConcatEmptySeq
  <2>2. f \in Seq(Tokens) /\ Len(f) = 1 /\ f[1] = x
    BY <1>4, <2>1
  <2>3. colon = 0
    <3> HIDE DEF f
    <3>1. {i \in DOMAIN f : f[i] = ":" /\ i >= 1} = {}
      BY <2>2
    <3> QED BY <2>2, <3>1, IndexOfMark
  <2> HIDE DEF colon, f
  <2>4. Lower(f) = r.storeId
    BY <1>2, <1>4, <2>1
  <2> QED BY <1>5, <2>2, <2>3, <2>4 DEF colon, f
<1>6. CASE r.root # None
  <2>1. PICK y \in {"id", "root"} : r.root = <<y>>
    BY <1>1, <1>6 DEF Names
  <2>2. f \in Seq(Tokens) /\ Len(f) = 3 /\ f[1] = x /\ f[2] = ":" /\ f[3] = y
    <3>1. f = <<x>> \o (<<":">> \o <<y>>)
      BY <1>2, <1>6, <2>1 DEF Front64
    <3>2. y \in Tokens
      BY <1>3
    <3> HIDE DEF f
    <3> QED BY <1>3, <3>1, <3>2
  <2>3. colon = 2
    <3> HIDE DEF f
    <3>1. 2 \in {i \in DOMAIN f : f[i] = ":" /\ i >= 1}
      BY <2>2
    <3>2. 1 \notin {i \in DOMAIN f : f[i] = ":" /\ i >= 1}
      BY <2>2
    <3> DEFINE P == {i \in DOMAIN f : f[i] = ":" /\ i >= 1}
    <3>3. IF P = {} THEN colon = 0 ELSE colon \in P /\ \A p \in P : colon <= p
      BY <2>2, IndexOfMark
    <3>4. P \in SUBSET (Nat \ {0})
      BY <2>2
    <3> HIDE DEF P, colon
    <3> QED BY <3>1, <3>2, <3>3, <3>4 DEF P
  <2> HIDE DEF colon, f
  <2>4. Upto(f, 1) = <<x>> /\ After(f, 2) = <<y>>
    <3>1. Upto(f, 1) \in Seq(Tokens) /\ Len(Upto(f, 1)) = 1 /\ \A k \in 1 .. 1 : Upto(f, 1)[k] = f[k]
      <4>1. 1 \in 0 .. Len(f)
        BY <2>2
      <4> QED BY <2>2, <4>1, UptoIs
    <3>2. After(f, 2) \in Seq(Tokens) /\ Len(After(f, 2)) = 1 /\ \A k \in 1 .. 1 : After(f, 2)[k] = f[2 + k]
      <4>1. 2 \in 0 .. Len(f) /\ Len(f) - 2 = 1
        BY <2>2
      <4>2. After(f, 2) \in Seq(Tokens) /\ Len(After(f, 2)) = Len(f) - 2 /\ \A k \in 1 .. Len(f) - 2 : After(f, 2)[k] = f[2 + k]
        BY <2>2, <4>1, AfterIs
      <4> QED BY <4>1, <4>2
    <3>3. Upto(f, 1)[1] = x /\ After(f, 2)[1] = y
      BY <2>2, <3>1, <3>2
    <3>4. <<x>> \in Seq(Tokens) /\ <<y>> \in Seq(Tokens) /\ Len(<<x>>) = 1 /\ Len(<<y>>) = 1
          /\ <<x>>[1] = x /\ <<y>>[1] = y
      BY <1>3
    <3>5. Upto(f, 1) = <<x>>
      BY <3>1, <3>3, <3>4, SeqEqual
    <3>6. After(f, 2) = <<y>>
      BY <3>2, <3>3, <3>4, SeqEqual
    <3> QED BY <3>5, <3>6
  <2>5. canonicalizeRoot(<<y>>) = <<y>>
    <3>1. ~ Has(<<y>>, 1, "0x")
      BY DEF Has
    <3> QED BY <1>4, <3>1 DEF canonicalizeRoot
  <2>6. root = r.root
    BY <2>1, <2>3, <2>4, <2>5
  <2>7. Lower(IF colon = 0 THEN f ELSE Upto(f, colon - 1)) = r.storeId
    BY <1>2, <1>4, <2>3, <2>4
  <2>8. \A k \in 1 .. Len(f) : f[k] \in {"id", "root", ":"}
    <3> TAKE k \in 1 .. Len(f)
    <3>1. k \in {1, 2, 3}
      BY <2>2
    <3> QED BY <2>2, <3>1
  <2> QED BY <1>6, <2>2, <2>6, <2>7, <2>8 DEF colon, f
<1> QED BY <1>5, <1>6

\* The base that is written for a reference has its name before the first slash, and its key after.
LEMMA BaseIs ==
    ASSUME NEW f \in Seq(Tokens), NEW key \in Seq(Tokens), \A k \in 1 .. Len(f) : f[k] # "/"
    PROVE  LET b == f \o <<"/">> \o key
           IN  /\ b \in Seq(Tokens) /\ IndexOf(b, "/", 1) = Len(f) + 1
               /\ Upto(b, Len(f)) = f /\ After(b, Len(f) + 1) = key
<1> DEFINE b == f \o <<"/">> \o key
           n == Len(f)
           P == {i \in DOMAIN b : b[i] = "/" /\ i >= 1}
<1>1. n \in Nat /\ Len(key) \in Nat /\ f \o <<"/">> \in Seq(Tokens) /\ Len(f \o <<"/">>) = n + 1
      /\ \A k \in 1 .. n + 1 : (f \o <<"/">>)[k] = IF k <= n THEN f[k] ELSE "/"
  <2>1. <<"/">> \in Seq(Tokens) /\ Len(<<"/">>) = 1 /\ <<"/">>[1] = "/"
    BY TextAssumption DEF Written
  <2>2. f \o <<"/">> \in Seq(Tokens) /\ Len(f \o <<"/">>) = n + Len(<<"/">>)
        /\ \A k \in 1 .. n + Len(<<"/">>) : (f \o <<"/">>)[k] = IF k <= n THEN f[k] ELSE <<"/">>[k - n]
    BY <2>1, ConcatProperties
  <2>3. ASSUME NEW k \in 1 .. n + 1 PROVE (f \o <<"/">>)[k] = IF k <= n THEN f[k] ELSE "/"
    <3>1. n \in Nat
      OBVIOUS
    <3> HIDE DEF n
    <3>2. CASE k <= n
      BY <2>1, <2>2, <3>1, <3>2
    <3>3. CASE ~ (k <= n)
      <4>1. k = n + 1 /\ k - n = 1
        BY <3>1, <3>3
      <4> QED BY <2>1, <2>2, <3>1, <3>3, <4>1
    <3> QED BY <3>2, <3>3
  <2> QED BY <2>1, <2>2, <2>3
<1>2. b \in Seq(Tokens) /\ Len(b) = n + 1 + Len(key)
      /\ (\A k \in 1 .. n : b[k] = f[k]) /\ b[n + 1] = "/" /\ \A k \in 1 .. Len(key) : b[n + 1 + k] = key[k]
  <2> DEFINE g == f \o <<"/">>
  <2>1. b \in Seq(Tokens) /\ Len(b) = Len(g) + Len(key)
        /\ \A k \in 1 .. Len(g) + Len(key) : b[k] = IF k <= Len(g) THEN g[k] ELSE key[k - Len(g)]
    BY <1>1, ConcatProperties
  <2>2. Len(g) = n + 1 /\ \A k \in 1 .. n + 1 : g[k] = IF k <= n THEN f[k] ELSE "/"
    BY <1>1
  <2>3. n \in Nat /\ Len(key) \in Nat
    OBVIOUS
  <2> HIDE DEF b, g, n
  <2>4. \A k \in 1 .. n : b[k] = f[k]
    BY <2>1, <2>2, <2>3
  <2>5. b[n + 1] = "/"
    BY <2>1, <2>2, <2>3
  <2>6. \A k \in 1 .. Len(key) : b[n + 1 + k] = key[k]
    <3> TAKE k \in 1 .. Len(key)
    <3>1. n + 1 + k \in 1 .. Len(g) + Len(key) /\ ~ (n + 1 + k <= Len(g)) /\ (n + 1 + k) - Len(g) = k
      BY <2>2, <2>3
    <3> QED BY <2>1, <3>1
  <2> QED BY <2>1, <2>2, <2>4, <2>5, <2>6
<1> HIDE DEF b
<1>3. IndexOf(b, "/", 1) = n + 1
  <2>1. P \in SUBSET Nat /\ n + 1 \in P /\ \A i \in P : n + 1 <= i
    <3>1. P \in SUBSET Nat /\ n + 1 \in P
      BY <1>1, <1>2
    <3>2. ASSUME NEW i \in P, i <= n PROVE FALSE
      <4>1. i \in 1 .. n /\ b[i] = "/"
        BY <1>1, <1>2, <3>2
      <4>2. b[i] = f[i] /\ f[i] # "/"
        BY <1>2, <4>1
      <4> QED BY <4>1, <4>2
    <3> HIDE DEF P
    <3> QED BY <1>1, <3>1, <3>2
  <2>2. IF P = {} THEN IndexOf(b, "/", 1) = 0
        ELSE IndexOf(b, "/", 1) \in P /\ \A p \in P : IndexOf(b, "/", 1) <= p
    BY <1>2, IndexOfMark
  <2> DEFINE at == IndexOf(b, "/", 1)
  <2> HIDE DEF at, P
  <2>3. at \in P /\ \A p \in P : at <= p
    BY <2>1, <2>2 DEF at
  <2>4. at = n + 1
    BY <1>1, <2>1, <2>3
  <2> QED BY <2>4 DEF at
<1>4. Upto(b, n) = f
  <2>1. n \in 0 .. Len(b)
    BY <1>1, <1>2
  <2>2. Upto(b, n) \in Seq(Tokens) /\ Len(Upto(b, n)) = n /\ \A k \in 1 .. n : Upto(b, n)[k] = b[k]
    BY <1>2, <2>1, UptoIs
  <2> QED BY <1>2, <2>2, SeqEqual
<1>5. After(b, n + 1) = key
  <2>1. n + 1 \in 0 .. Len(b) /\ Len(b) - (n + 1) = Len(key)
    BY <1>1, <1>2
  <2>2. After(b, n + 1) \in Seq(Tokens) /\ Len(After(b, n + 1)) = Len(b) - (n + 1)
        /\ \A k \in 1 .. Len(b) - (n + 1) : After(b, n + 1)[k] = b[n + 1 + k]
    BY <1>2, <2>1, AfterIs
  <2>3. \A k \in 1 .. Len(key) : After(b, n + 1)[k] = key[k]
    BY <1>2, <2>1, <2>2
  <2> QED BY <2>1, <2>2, <2>3, SeqEqual
<1> QED BY <1>2, <1>3, <1>4, <1>5 DEF b

\* What is written for a reference is parsed to it again.
LEMMA FormatParses ==
    ASSUME NEW r \in Refs
    PROVE  parseDigRef(Format(r)) = r
<1> DEFINE f == Front64(r)
           b == f \o <<"/">> \o r.resourceKey
           s == Format(r)
<1>1. /\ r.resourceKey \in Seq(Tokens) /\ r.resourceKey # <<>>
      /\ ~ Has(r.resourceKey, 1, "/") /\ Starts(r.resourceKey) = {}
      /\ r.storeId \in Names /\ r.root \in Names \cup {None} /\ r.salt \in Salts \cup {None}
  BY DEF Refs
<1>2. f \in Seq(Tokens) /\ \A k \in 1 .. Len(f) : f[k] \in {"id", "root", ":"}
  BY FrontIs
<1> HIDE DEF f
<1>3. /\ b \in Seq(Tokens) /\ IndexOf(b, "/", 1) = Len(f) + 1
      /\ Upto(b, Len(f)) = f /\ After(b, Len(f) + 1) = r.resourceKey
  <2>1. \A k \in 1 .. Len(f) : f[k] # "/"
    BY <1>2
  <2> QED BY <1>1, <1>2, <2>1, BaseIs
<1>4. Starts(b) = {}
  <2> DEFINE g == f \o <<"/">>
  <2>1. <<"/">> \in Seq(Tokens) /\ Len(<<"/">>) = 1 /\ <<"/">>[1] = "/"
    BY TextAssumption DEF Written
  <2>2. g \in Seq(Tokens) /\ Len(g) = Len(f) + Len(<<"/">>)
        /\ \A k \in 1 .. Len(f) + Len(<<"/">>) : g[k] = IF k <= Len(f) THEN f[k] ELSE <<"/">>[k - Len(f)]
    BY <1>2, <2>1, ConcatProperties
  <2>3. Len(f) \in Nat
    BY <1>2
  <2> HIDE DEF g
  <2>4. ASSUME NEW k \in 1 .. Len(g) PROVE g[k] # "?"
    <3>1. CASE k <= Len(f)
      <4>1. k \in 1 .. Len(f) /\ g[k] = f[k]
        BY <2>1, <2>2, <2>3, <3>1
      <4> QED BY <1>2, <4>1
    <3>2. CASE ~ (k <= Len(f))
      <4>1. k - Len(f) = 1 /\ g[k] = <<"/">>[k - Len(f)]
        BY <2>1, <2>2, <2>3, <3>2
      <4> QED BY <2>1, <4>1
    <3> QED BY <3>1, <3>2
  <2>5. b = g \o r.resourceKey
    BY DEF g
  <2> HIDE DEF b
  <2> QED BY <1>1, <2>2, <2>4, <2>5, PrefixedIsClean
<1>5. s = IF r.salt = None THEN b ELSE b \o Query(r.salt)
  <2>1. CASE r.salt = None
    <3>1. s = b \o <<>>
      BY <2>1 DEF Format, Front64, f
    <3> HIDE DEF b, s
    <3>2. b \o <<>> = b
      BY <1>3, ConcatEmptySeq
    <3> QED BY <2>1, <3>1, <3>2
  <2>2. CASE r.salt # None
    BY <2>2 DEF Format, Front64, Query, f
  <2> QED BY <2>1, <2>2
<1> HIDE DEF s, b
<1>6. splitQuery(s) = [base |-> b, salt |-> r.salt]
  <2>1. CASE r.salt = None
    BY <1>3, <1>4, <1>5, <2>1, SplitQuery
  <2>2. CASE r.salt # None
    BY <1>1, <1>3, <1>4, <1>5, <2>2, SplitOfQuery
  <2> QED BY <2>1, <2>2
<1> DEFINE split == splitQuery(s)
           slash == IndexOf(split.base, "/", 1)
           first == IF slash = 0 THEN split.base ELSE Upto(split.base, slash - 1)
           key   == DropSlashes(IF slash = 0 THEN <<>> ELSE After(split.base, slash))
           colon == IndexOf(first, ":", 1)
           store == Lower(IF colon = 0 THEN first ELSE Upto(first, colon - 1))
           root  == IF colon = 0 THEN <<>> ELSE canonicalizeRoot(After(first, colon))
<1>7. parseDigRef(s) =
        IF ~Is64Hex(store) \/ (root # <<>> /\ ~Is64Hex(root)) THEN None
        ELSE [storeId |-> store, root |-> IF root = <<>> THEN None ELSE root,
              resourceKey |-> IF key = <<>> THEN <<"index.html">> ELSE key, salt |-> split.salt]
  BY DEF parseDigRef
<1>8. split.base = b /\ split.salt = r.salt
  BY <1>6
<1> HIDE DEF split
<1>9. slash = Len(f) + 1 /\ slash # 0 /\ slash - 1 = Len(f)
  <2>1. Len(f) \in Nat
    BY <1>2
  <2> QED BY <1>3, <1>8, <2>1
<1> HIDE DEF slash
<1>10. first = f
  BY <1>3, <1>8, <1>9
<1>11. key = r.resourceKey
  <2>1. key = DropSlashes(r.resourceKey)
    BY <1>3, <1>8, <1>9
  <2> QED BY <1>1, <2>1, DropSlashesIs
<1> HIDE DEF first, key
<1>12. store = r.storeId /\ root = IF r.root = None THEN <<>> ELSE r.root
  BY <1>10, FrontIs DEF f
<1> HIDE DEF store, root
<1>13. Is64Hex(store) /\ (root = <<>> \/ Is64Hex(root)) /\ (IF root = <<>> THEN None ELSE root) = r.root
  <2>1. Is64Hex(store)
    BY <1>1, <1>12 DEF Is64Hex, Names
  <2>2. CASE r.root = None
    BY <1>12, <2>1, <2>2
  <2>3. CASE r.root # None
    <3>1. r.root \in Names /\ r.root # <<>>
      <4>1. PICK y \in {"id", "root"} : r.root = <<y>>
        BY <1>1, <2>3 DEF Names
      <4>2. <<y>> # <<>>
        OBVIOUS
      <4> QED BY <1>1, <2>3, <4>1, <4>2
    <3> QED BY <1>12, <2>1, <2>3, <3>1 DEF Is64Hex, Names
  <2> QED BY <2>2, <2>3
<1>14. parseDigRef(s) = [storeId |-> r.storeId, root |-> r.root, resourceKey |-> r.resourceKey, salt |-> r.salt]
  BY <1>1, <1>7, <1>8, <1>11, <1>12, <1>13
<1>15. r = [storeId |-> r.storeId, root |-> r.root, resourceKey |-> r.resourceKey, salt |-> r.salt]
  BY DEF Refs
<1> QED BY <1>14, <1>15 DEF s

\* Whatever text is parsed, what the loader writes for the result is parsed to the same store, root,
\* key and salt: nothing inside a key can be taken for a query, a slash or a colon the second time.
THEOREM ParsingIsStable == Spec => []RoundTrip
<1>1. Texts => RoundTrip
  BY TextIsText, ParsedIsRef, FormatParses DEF RoundTrip
<1> QED BY <1>1, TextsTyped, PTL

-----------------------------------------------------------------------------
(* Paths and their segments *************************************************)

Paths == Seq(Seq(Tokens))

LEMMA WithTokenType ==
    ASSUME NEW parts \in Paths \ {<<>>}, NEW t \in Tokens
    PROVE  /\ WithToken(parts, t) \in Paths \ {<<>>}
           /\ Len(WithToken(parts, t)) = IF t = "/" THEN Len(parts) + 1 ELSE Len(parts)
<1>1. parts \in Paths /\ Len(parts) \in Nat /\ Len(parts) > 0
  BY EmptySeq DEF Paths
<1>2. CASE t = "/"
  <2>1. <<>> \in Seq(Tokens)
    OBVIOUS
  <2>2. /\ Append(parts, <<>>) \in Seq(Seq(Tokens)) /\ Append(parts, <<>>) # <<>>
        /\ Len(Append(parts, <<>>)) = Len(parts) + 1
    BY <1>1, <2>1, AppendProperties DEF Paths
  <2> QED BY <1>2, <2>2 DEF WithToken, Paths
<1>3. CASE t # "/"
  <2> DEFINE e == Append(parts[Len(parts)], t)
  <2>1. WithToken(parts, t) = [parts EXCEPT ![Len(parts)] = e]
    BY <1>3 DEF WithToken
  <2>2. parts[Len(parts)] \in Seq(Tokens) /\ Len(parts) \in 1 .. Len(parts)
    BY <1>1 DEF Paths
  <2>3. e \in Seq(Tokens)
    BY <2>2, AppendProperties
  <2> HIDE DEF e
  <2>4. /\ WithToken(parts, t) \in Seq(Seq(Tokens)) /\ Len(WithToken(parts, t)) = Len(parts)
    BY <1>1, <2>1, <2>2, <2>3, ExceptSeq DEF Paths
  <2> HIDE DEF WithToken
  <2>5. WithToken(parts, t) # <<>>
    BY <1>1, <2>4
  <2> QED BY <1>3, <2>4, <2>5 DEF Paths
<1> QED BY <1>2, <1>3

\* The loop of split is well defined.
LEMMA SegmentsFollow ==
    ASSUME NEW s \in Seq(Tokens)
    PROVE  /\ Segments(s) \in [0 .. Len(s) -> Paths \ {<<>>}]
           /\ Segments(s)[0] = <<<<>>>>
           /\ \A n \in 1 .. Len(s) : Segments(s)[n] = WithToken(Segments(s)[n - 1], s[n])
<1> DEFINE v == <<<<>>>>
           N == Len(s)
           V == Paths \ {<<>>}
           step == [n \in 1 .. N |-> [x \in V |-> WithToken(x, s[n])]]
           Meets(f) == f = [n \in 0 .. N |-> IF n = 0 THEN v ELSE WithToken(f[n - 1], s[n])]
<1>1. Segments(s) = CHOOSE f : Meets(f)
  BY DEF Segments
<1>2. v \in V
  BY DEF Paths
<1>3. \A n \in 1 .. N : s[n] \in Tokens
  OBVIOUS
<1>4. step \in Steps(N, V)
  BY <1>3, WithTokenType DEF Steps
<1>5. N \in Nat
  OBVIOUS
<1> HIDE DEF v, N, V, Meets
<1>6. PICK f : Takes(f, N, V, v, step)
  <2> HIDE DEF step
  <2> QED BY <1>2, <1>4, <1>5, Recursion
<1>7. \A n \in 1 .. N : f[n - 1] \in V /\ step[n][f[n - 1]] = WithToken(f[n - 1], s[n])
  BY <1>5, <1>6 DEF Takes
<1>8. Meets(f)
  <2> HIDE DEF step
  <2>1. \A n \in 0 .. N : f[n] = IF n = 0 THEN v ELSE WithToken(f[n - 1], s[n])
    BY <1>5, <1>6, <1>7 DEF Takes
  <2>2. f = [n \in 0 .. N |-> f[n]]
    BY <1>6 DEF Takes
  <2> QED BY <2>1, <2>2 DEF Meets
<1>9. Meets(Segments(s))
  BY <1>1, <1>8
<1>10. /\ DOMAIN Segments(s) = 0 .. N /\ Segments(s)[0] = v
       /\ \A n \in 1 .. N : Segments(s)[n] = WithToken(Segments(s)[n - 1], s[n])
  BY <1>5, <1>9 DEF Meets
<1>11. \A n \in 0 .. N : Segments(s)[n] \in V
  <2> DEFINE T == {n \in 0 .. N : Segments(s)[n] \in V}
  <2>1. 0 \in T
    BY <1>2, <1>5, <1>10
  <2>2. \A n \in 1 .. N : n - 1 \in T => n \in T
    BY <1>3, <1>5, <1>10, WithTokenType DEF V
  <2> HIDE DEF T
  <2>3. \A n \in 0 .. N : n \in T
    BY <1>5, <2>1, <2>2, Inductive
  <2> QED BY <2>3 DEF T
<1>12. Segments(s) \in [0 .. N -> V]
  <2>1. Segments(s) = [n \in 0 .. N |-> Segments(s)[n]]
    BY <1>9 DEF Meets
  <2> QED BY <1>11, <2>1
<1> QED BY <1>10, <1>12 DEF v, N, V

LEMMA FrontOf ==
    ASSUME NEW S, NEW s \in Seq(S), s # <<>>
    PROVE  /\ Front(s) \in Seq(S) /\ Len(Front(s)) = Len(s) - 1
           /\ \A k \in 1 .. Len(s) - 1 : Front(s)[k] = s[k]
<1>1. Len(s) \in Nat /\ Len(s) > 0
  BY EmptySeq
<1>2. Front(s) = Upto(s, Len(s) - 1)
  BY DEF Front, Upto
<1>3. Len(s) - 1 \in 0 .. Len(s)
  BY <1>1
<1> QED BY <1>2, <1>3, UptoIs

LEMMA WithPartType ==
    ASSUME NEW out \in Paths, NEW part \in Seq(Tokens)
    PROVE  WithPart(out, part) \in Paths
<1>1. Append(out, part) \in Paths
  BY AppendProperties DEF Paths
<1>2. out # <<>> => Front(out) \in Paths
  BY FrontOf DEF Paths
<1> QED BY <1>1, <1>2 DEF WithPart

\* The loop of normalizePath is well defined.
LEMMA WalkFollows ==
    ASSUME NEW parts \in Paths
    PROVE  /\ Walk(parts) \in [0 .. Len(parts) -> Paths]
           /\ Walk(parts)[0] = <<>>
           /\ \A n \in 1 .. Len(parts) : Walk(parts)[n] = WithPart(Walk(parts)[n - 1], parts[n])
<1> DEFINE v == <<>>
           N == Len(parts)
           V == Paths
           step == [n \in 1 .. N |-> [x \in V |-> WithPart(x, parts[n])]]
           Meets(f) == f = [n \in 0 .. N |-> IF n = 0 THEN v ELSE WithPart(f[n - 1], parts[n])]
<1>1. Walk(parts) = CHOOSE f : Meets(f)
  BY DEF Walk
<1>2. v \in V
  BY DEF Paths
<1>3. \A n \in 1 .. N : parts[n] \in Seq(Tokens)
  BY DEF Paths
<1>4. step \in Steps(N, V)
  BY <1>3, WithPartType DEF Steps
<1>5. N \in Nat
  BY DEF Paths
<1> HIDE DEF v, N, V, Meets
<1>6. PICK f : Takes(f, N, V, v, step)
  <2> HIDE DEF step
  <2> QED BY <1>2, <1>4, <1>5, Recursion
<1>7. \A n \in 1 .. N : f[n - 1] \in V /\ step[n][f[n - 1]] = WithPart(f[n - 1], parts[n])
  BY <1>5, <1>6 DEF Takes
<1>8. Meets(f)
  <2> HIDE DEF step
  <2>1. \A n \in 0 .. N : f[n] = IF n = 0 THEN v ELSE WithPart(f[n - 1], parts[n])
    BY <1>5, <1>6, <1>7 DEF Takes
  <2>2. f = [n \in 0 .. N |-> f[n]]
    BY <1>6 DEF Takes
  <2> QED BY <2>1, <2>2 DEF Meets
<1>9. Meets(Walk(parts))
  BY <1>1, <1>8
<1>10. /\ DOMAIN Walk(parts) = 0 .. N /\ Walk(parts)[0] = v
       /\ \A n \in 1 .. N : Walk(parts)[n] = WithPart(Walk(parts)[n - 1], parts[n])
  BY <1>5, <1>9 DEF Meets
<1>11. \A n \in 0 .. N : Walk(parts)[n] \in V
  <2> DEFINE T == {n \in 0 .. N : Walk(parts)[n] \in V}
  <2>1. 0 \in T
    BY <1>2, <1>5, <1>10
  <2>2. \A n \in 1 .. N : n - 1 \in T => n \in T
    BY <1>3, <1>5, <1>10, WithPartType DEF V
  <2> HIDE DEF T
  <2>3. \A n \in 0 .. N : n \in T
    BY <1>5, <2>1, <2>2, Inductive
  <2> QED BY <2>3 DEF T
<1>12. Walk(parts) \in [0 .. N -> V]
  <2>1. Walk(parts) = [n \in 0 .. N |-> Walk(parts)[n]]
    BY <1>9 DEF Meets
  <2> QED BY <1>11, <2>1
<1> QED BY <1>10, <1>12 DEF v, N, V

-----------------------------------------------------------------------------
(* What the walk leaves ******************************************************)

\* A set of numbers below a bound has a greatest element.
LEMMA Greatest ==
    ASSUME NEW N \in Nat, NEW K \in SUBSET (1 .. N), K # {}
    PROVE  \E g \in K : \A k \in K : k <= g
<1> DEFINE B == {b \in 0 .. N : \A k \in K : k <= b}
<1>1. N \in B /\ B \in SUBSET Nat
  OBVIOUS
<1>2. PICK g \in B : \A b \in B : g <= b
  <2> HIDE DEF B
  <2> QED BY <1>1, Least
<1>3. g \in 0 .. N /\ \A k \in K : k <= g
  BY <1>2
<1>4. g \in K
  <2> SUFFICES ASSUME g \notin K PROVE FALSE
    OBVIOUS
  <2>1. g > 0 /\ g - 1 \in 0 .. N /\ \A k \in K : k <= g - 1
    <3>1. \A k \in K : k \in Nat /\ k # 0 /\ k <= g /\ k # g
      BY <1>3
    <3>2. g \in Nat
      BY <1>3
    <3>3. PICK k \in K : TRUE
      OBVIOUS
    <3>4. g > 0
      BY <3>1, <3>2, <3>3
    <3>5. \A j \in K : j <= g - 1
      BY <3>1, <3>2
    <3> QED BY <1>3, <3>4, <3>5
  <2>2. g - 1 \in B
    BY <2>1
  <2>3. g <= g - 1
    BY <1>2, <2>2
  <2> QED BY <1>3, <2>3
<1> QED BY <1>3, <1>4

\* How many numbers of a set an interval holds, with its last number and without.
LEMMA CountStep ==
    ASSUME NEW i \in Nat, NEW n \in Nat, i <= n, NEW A
    PROVE  /\ Cardinality({m \in i .. n : m \in A}) \in Nat
           /\ Cardinality({m \in i .. n - 1 : m \in A}) \in Nat
           /\ Cardinality({m \in i .. n : m \in A}) =
                Cardinality({m \in i .. n - 1 : m \in A}) + IF n \in A THEN 1 ELSE 0
<1> DEFINE X == {m \in i .. n - 1 : m \in A}
           Y == {m \in i .. n : m \in A}
<1>1. IsFiniteSet(X) /\ IsFiniteSet(Y)
  <2>1. IsFiniteSet(i .. n - 1) /\ IsFiniteSet(i .. n)
    BY FS_Interval
  <2>2. X \in SUBSET (i .. n - 1) /\ Y \in SUBSET (i .. n)
    OBVIOUS
  <2> QED BY <2>1, <2>2, FS_Subset
<1>2. n \notin X /\ Y = IF n \in A THEN X \cup {n} ELSE X
  OBVIOUS
<1> HIDE DEF X, Y
<1>3. Cardinality(X) \in Nat /\ Cardinality(Y) \in Nat
  BY <1>1, FS_CardinalityType
<1>4. Cardinality(X \cup {n}) = Cardinality(X) + 1
  BY <1>1, <1>2, FS_AddElement
<1>5. Cardinality(Y) = Cardinality(X) + IF n \in A THEN 1 ELSE 0
  BY <1>2, <1>3, <1>4
<1> QED BY <1>3, <1>5 DEF X, Y

IsName(part) == part \notin Nothing \cup {Up}

Ups(parts, i, j)   == Cardinality({m \in i .. j : parts[m] = Up})
NamesIn(parts, i, j) == Cardinality({m \in i .. j : IsName(parts[m])})

\* The names among the first n segments that no ".." among them undoes.
Standing(parts, n) ==
    {i \in 1 .. n : /\ IsName(parts[i])
                    /\ \A j \in i + 1 .. n : Ups(parts, i + 1, j) <= NamesIn(parts, i + 1, j)}

LEMMA Counts ==
    ASSUME NEW parts, NEW i \in Nat, NEW n \in Nat, i <= n
    PROVE  /\ Ups(parts, i, n) \in Nat /\ Ups(parts, i, n - 1) \in Nat
           /\ NamesIn(parts, i, n) \in Nat /\ NamesIn(parts, i, n - 1) \in Nat
           /\ Ups(parts, i, n) = Ups(parts, i, n - 1) + IF parts[n] = Up THEN 1 ELSE 0
           /\ NamesIn(parts, i, n) = NamesIn(parts, i, n - 1) + IF IsName(parts[n]) THEN 1 ELSE 0
<1> DEFINE A == {m \in Nat : parts[m] = Up}
           B == {m \in Nat : IsName(parts[m])}
<1>1. /\ {m \in i .. n : parts[m] = Up} = {m \in i .. n : m \in A}
      /\ {m \in i .. n - 1 : parts[m] = Up} = {m \in i .. n - 1 : m \in A}
      /\ {m \in i .. n : IsName(parts[m])} = {m \in i .. n : m \in B}
      /\ {m \in i .. n - 1 : IsName(parts[m])} = {m \in i .. n - 1 : m \in B}
  OBVIOUS
<1>2. (n \in A <=> parts[n] = Up) /\ (n \in B <=> IsName(parts[n]))
  OBVIOUS
<1> HIDE DEF A, B
<1>3. /\ Ups(parts, i, n) \in Nat /\ Ups(parts, i, n - 1) \in Nat
      /\ Ups(parts, i, n) = Ups(parts, i, n - 1) + IF n \in A THEN 1 ELSE 0
  <2>1. /\ Ups(parts, i, n) = Cardinality({m \in i .. n : m \in A})
        /\ Ups(parts, i, n - 1) = Cardinality({m \in i .. n - 1 : m \in A})
    BY <1>1, Zenon DEF Ups
  <2> QED BY <2>1, CountStep
<1>4. /\ NamesIn(parts, i, n) \in Nat /\ NamesIn(parts, i, n - 1) \in Nat
      /\ NamesIn(parts, i, n) = NamesIn(parts, i, n - 1) + IF n \in B THEN 1 ELSE 0
  <2>1. /\ NamesIn(parts, i, n) = Cardinality({m \in i .. n : m \in B})
        /\ NamesIn(parts, i, n - 1) = Cardinality({m \in i .. n - 1 : m \in B})
    BY <1>1, Zenon DEF NamesIn
  <2> QED BY <2>1, CountStep
<1> QED BY <1>2, <1>3, <1>4

\* From the name that was just taken on there is nothing yet.
LEMMA NoCounts ==
    ASSUME NEW parts, NEW n \in Nat
    PROVE  Ups(parts, n + 1, n) = 0 /\ NamesIn(parts, n + 1, n) = 0
<1>1. {m \in n + 1 .. n : parts[m] = Up} = {} /\ {m \in n + 1 .. n : IsName(parts[m])} = {}
  OBVIOUS
<1> QED BY <1>1, FS_EmptySet DEF Ups, NamesIn

\* What still stands after one more segment.
LEMMA StandingStep ==
    ASSUME NEW parts, NEW n \in Nat \ {0}
    PROVE  \A i \in 1 .. n : i \in Standing(parts, n) <=>
              IF i = n THEN IsName(parts[n])
              ELSE i \in Standing(parts, n - 1) /\ Ups(parts, i + 1, n) <= NamesIn(parts, i + 1, n)
<1> TAKE i \in 1 .. n
<1>1. CASE i = n
  <2>1. i + 1 .. n = {}
    BY <1>1
  <2> QED BY <1>1, <2>1 DEF Standing
<1>2. CASE i # n
  <2>1. i \in 1 .. n - 1 /\ i + 1 .. n = (i + 1 .. n - 1) \cup {n}
    BY <1>2
  <2> QED BY <1>2, <2>1 DEF Standing
<1> QED BY <1>1, <1>2

\* How many of some numbers are up to one, and how many are after it.
LEMMA Ranks ==
    ASSUME NEW N \in Nat, NEW K \in SUBSET (1 .. N), NEW i
    PROVE  /\ IsFiniteSet(K) /\ Cardinality(K) \in Nat
           /\ IsFiniteSet({m \in K : m <= i}) /\ Cardinality({m \in K : m <= i}) \in Nat
           /\ IsFiniteSet({m \in K : m > i}) /\ Cardinality({m \in K : m > i}) \in Nat
<1>1. IsFiniteSet(1 .. N)
  BY FS_Interval
<1>2. K \in SUBSET (1 .. N) /\ {m \in K : m <= i} \in SUBSET (1 .. N) /\ {m \in K : m > i} \in SUBSET (1 .. N)
  OBVIOUS
<1>3. IsFiniteSet(K) /\ IsFiniteSet({m \in K : m <= i}) /\ IsFiniteSet({m \in K : m > i})
  BY <1>1, <1>2, FS_Subset
<1> QED BY <1>3, FS_CardinalityType

\* What the walk has after n segments is the names that stand, in their order; the names after one
\* of them that are not undone are those that stand after it.
Stands(parts, n, out) ==
    LET K == Standing(parts, n)
    IN  /\ Len(out) = Cardinality(K)
        /\ \A i \in K : out[Cardinality({m \in K : m <= i})] = parts[i]
        /\ \A i \in K : NamesIn(parts, i + 1, n) = Ups(parts, i + 1, n) + Cardinality({m \in K : m > i})

\* A segment that is not a name and not ".." changes nothing.
LEMMA NothingStands ==
    ASSUME NEW parts, NEW n \in Nat \ {0}, NEW out, Stands(parts, n - 1, out),
           parts[n] # Up, ~ IsName(parts[n])
    PROVE  Stands(parts, n, out)
<1> DEFINE K == Standing(parts, n - 1)
           L == Standing(parts, n)
<1>1. n - 1 \in Nat /\ K \in SUBSET (1 .. n - 1) /\ K \in SUBSET (1 .. n) /\ L \in SUBSET (1 .. n)
  BY DEF Standing
<1>2. ASSUME NEW i \in K
      PROVE  /\ Ups(parts, i + 1, n) = Ups(parts, i + 1, n - 1)
             /\ NamesIn(parts, i + 1, n) = NamesIn(parts, i + 1, n - 1)
             /\ Ups(parts, i + 1, n) <= NamesIn(parts, i + 1, n)
  <2>1. i + 1 \in Nat /\ i + 1 <= n
    BY <1>1
  <2>2. NamesIn(parts, i + 1, n - 1) = Ups(parts, i + 1, n - 1) + Cardinality({m \in K : m > i})
    BY DEF Stands
  <2>3. Cardinality({m \in K : m > i}) \in Nat
    BY <1>1, Ranks
  <2>4. /\ Ups(parts, i + 1, n) \in Nat /\ Ups(parts, i + 1, n - 1) \in Nat
        /\ Ups(parts, i + 1, n) = Ups(parts, i + 1, n - 1) + 0
        /\ NamesIn(parts, i + 1, n) \in Nat /\ NamesIn(parts, i + 1, n - 1) \in Nat
        /\ NamesIn(parts, i + 1, n) = NamesIn(parts, i + 1, n - 1) + 0
    BY <2>1, Counts
  <2> QED BY <2>2, <2>3, <2>4
<1>3. L = K
  <2>1. \A i \in 1 .. n : i \in L <=>
           IF i = n THEN IsName(parts[n]) ELSE i \in K /\ Ups(parts, i + 1, n) <= NamesIn(parts, i + 1, n)
    BY StandingStep
  <2> HIDE DEF K, L
  <2>2. \A i \in 1 .. n : i \in L <=> i \in K
    BY <1>1, <1>2, <2>1
  <2> QED BY <1>1, <2>2, Zenon
<1> QED BY <1>2, <1>3 DEF Stands

\* A name stands after all that stood.
LEMMA NameStands ==
    ASSUME NEW parts, NEW n \in Nat \ {0}, NEW out \in Paths, Stands(parts, n - 1, out),
           IsName(parts[n]), parts[n] \in Seq(Tokens)
    PROVE  Stands(parts, n, Append(out, parts[n]))
<1> DEFINE K == Standing(parts, n - 1)
           L == Standing(parts, n)
           new == Append(out, parts[n])
<1>1. /\ n - 1 \in Nat /\ K \in SUBSET (1 .. n - 1) /\ K \in SUBSET (1 .. n) /\ L \in SUBSET (1 .. n)
      /\ n \notin K /\ n \in 1 .. n
  BY DEF Standing
<1>2. ASSUME NEW i \in K
      PROVE  /\ NamesIn(parts, i + 1, n) = Ups(parts, i + 1, n) + Cardinality({m \in K : m > i}) + 1
             /\ Ups(parts, i + 1, n) <= NamesIn(parts, i + 1, n)
  <2>1. parts[n] # Up
    BY DEF IsName
  <2>2. i + 1 \in Nat /\ i + 1 <= n
    BY <1>1
  <2>3. NamesIn(parts, i + 1, n - 1) = Ups(parts, i + 1, n - 1) + Cardinality({m \in K : m > i})
    BY DEF Stands
  <2>4. Cardinality({m \in K : m > i}) \in Nat
    BY <1>1, Ranks
  <2>5. /\ Ups(parts, i + 1, n) \in Nat /\ Ups(parts, i + 1, n - 1) \in Nat
        /\ Ups(parts, i + 1, n) = Ups(parts, i + 1, n - 1) + 0
        /\ NamesIn(parts, i + 1, n) \in Nat /\ NamesIn(parts, i + 1, n - 1) \in Nat
        /\ NamesIn(parts, i + 1, n) = NamesIn(parts, i + 1, n - 1) + 1
    BY <2>1, <2>2, Counts
  <2> QED BY <2>3, <2>4, <2>5
<1>3. L = K \cup {n}
  <2>1. \A i \in 1 .. n : i \in L <=>
           IF i = n THEN IsName(parts[n]) ELSE i \in K /\ Ups(parts, i + 1, n) <= NamesIn(parts, i + 1, n)
    BY StandingStep
  <2> HIDE DEF K, L
  <2>2. \A i \in 1 .. n : i \in L <=> i \in K \cup {n}
    BY <1>1, <1>2, <2>1
  <2>3. K \cup {n} \in SUBSET (1 .. n)
    BY <1>1
  <2> QED BY <1>1, <2>2, <2>3, Zenon
<1>4. /\ Len(out) = Cardinality(K) /\ Len(out) \in Nat
      /\ \A i \in K : out[Cardinality({m \in K : m <= i})] = parts[i]
  BY DEF Stands, Paths
<1>5. /\ Len(new) = Len(out) + 1 /\ new[Len(out) + 1] = parts[n]
      /\ \A k \in 1 .. Len(out) : new[k] = out[k]
  BY AppendProperties DEF Paths
<1> HIDE DEF K, L, new
<1>6. Cardinality(L) = Cardinality(K) + 1
  BY <1>1, <1>3, Ranks, FS_AddElement
<1>7. ASSUME NEW i \in K
      PROVE  /\ new[Cardinality({m \in L : m <= i})] = parts[i]
             /\ NamesIn(parts, i + 1, n) = Ups(parts, i + 1, n) + Cardinality({m \in L : m > i})
  <2>1. i \in Nat /\ i < n
    BY <1>1
  <2>2. {m \in L : m <= i} = {m \in K : m <= i}
    BY <1>1, <1>3, <2>1
  <2>3. {m \in L : m > i} = {m \in K : m > i} \cup {n} /\ n \notin {m \in K : m > i}
    BY <1>1, <1>3, <2>1
  <2>4. Cardinality({m \in L : m > i}) = Cardinality({m \in K : m > i}) + 1
    <3> DEFINE X == {m \in K : m > i}
    <3>1. IsFiniteSet(X)
      BY <1>1, Ranks
    <3> HIDE DEF X
    <3>2. Cardinality(X \cup {n}) = Cardinality(X) + 1
      BY <2>3, <3>1, FS_AddElement DEF X
    <3> QED BY <2>3, <3>2 DEF X
  <2>5. Cardinality({m \in K : m <= i}) \in 1 .. Len(out)
    <3> DEFINE X == {m \in K : m <= i}
    <3>1. IsFiniteSet(K) /\ Cardinality(K) \in Nat /\ IsFiniteSet(X) /\ Cardinality(X) \in Nat
      BY <1>1, Ranks
    <3>2. X \subseteq K /\ i \in X
      BY <2>1
    <3> HIDE DEF X
    <3>3. Cardinality(X) <= Cardinality(K)
      BY <3>1, <3>2, FS_Subset
    <3>4. Cardinality(X) # 0
      BY <3>1, <3>2, FS_EmptySet
    <3> QED BY <1>4, <3>1, <3>3, <3>4 DEF X
  <2>6. new[Cardinality({m \in L : m <= i})] = parts[i]
    BY <1>4, <1>5, <2>2, <2>5
  <2>7. NamesIn(parts, i + 1, n) = Ups(parts, i + 1, n) + Cardinality({m \in L : m > i})
    <3>1. i + 1 \in Nat /\ i + 1 <= n
      BY <2>1
    <3>2. Ups(parts, i + 1, n) \in Nat
      BY <3>1, Counts
    <3>3. Cardinality({m \in K : m > i}) \in Nat
      BY <1>1, Ranks
    <3> QED BY <1>2, <2>4, <3>2, <3>3
  <2> QED BY <2>6, <2>7
<1>8. /\ new[Cardinality({m \in L : m <= n})] = parts[n]
      /\ NamesIn(parts, n + 1, n) = Ups(parts, n + 1, n) + Cardinality({m \in L : m > n})
  <2>1. \A m \in L : m <= n /\ ~ (m > n)
    BY <1>1
  <2>2. {m \in L : m <= n} = L /\ {m \in L : m > n} = {}
    BY <2>1
  <2>3. Cardinality({}) = 0
    BY FS_EmptySet
  <2>4. new[Cardinality(L)] = parts[n]
    BY <1>4, <1>5, <1>6
  <2>5. n \in Nat
    OBVIOUS
  <2>6. Ups(parts, n + 1, n) = 0 /\ NamesIn(parts, n + 1, n) = 0
    BY <2>5, NoCounts
  <2>7. Cardinality({m \in L : m <= n}) = Cardinality(L) /\ Cardinality({m \in L : m > n}) = 0
    BY <2>2, <2>3, Zenon
  <2>8. 0 = 0 + Cardinality({m \in L : m > n})
    <3> DEFINE c == Cardinality({m \in L : m > n})
    <3>1. c = 0
      BY <2>7
    <3> HIDE DEF c
    <3>2. 0 = 0 + c
      BY <3>1
    <3> QED BY <3>2 DEF c
  <2> QED BY <2>4, <2>6, <2>7, <2>8, Zenon
<1>9. Len(new) = Cardinality(L)
  BY <1>4, <1>5, <1>6
<1> QED BY <1>3, <1>7, <1>8, <1>9 DEF Stands, L, new

\* ".." undoes the last of what stood, if anything stood.
LEMMA UpStands ==
    ASSUME NEW parts, NEW n \in Nat \ {0}, NEW out \in Paths, Stands(parts, n - 1, out),
           parts[n] = Up
    PROVE  Stands(parts, n, IF out = <<>> THEN out ELSE Front(out))
<1> DEFINE K == Standing(parts, n - 1)
           L == Standing(parts, n)
           new == IF out = <<>> THEN out ELSE Front(out)
<1>1. n - 1 \in Nat /\ K \in SUBSET (1 .. n - 1) /\ K \in SUBSET (1 .. n) /\ L \in SUBSET (1 .. n)
  BY DEF Standing
<1>2. ~ IsName(parts[n])
  BY DEF IsName
<1>3. ASSUME NEW i \in K
      PROVE  /\ Ups(parts, i + 1, n) \in Nat
             /\ NamesIn(parts, i + 1, n) + 1 = Ups(parts, i + 1, n) + Cardinality({m \in K : m > i})
             /\ NamesIn(parts, i + 1, n) \in Nat
             /\ Cardinality({m \in K : m > i}) \in Nat
             /\ Ups(parts, i + 1, n) <= NamesIn(parts, i + 1, n) <=> Cardinality({m \in K : m > i}) # 0
  <2>1. i + 1 \in Nat /\ i + 1 <= n
    BY <1>1
  <2>2. NamesIn(parts, i + 1, n - 1) = Ups(parts, i + 1, n - 1) + Cardinality({m \in K : m > i})
    BY DEF Stands
  <2>3. Cardinality({m \in K : m > i}) \in Nat
    BY <1>1, Ranks
  <2>4. /\ Ups(parts, i + 1, n) \in Nat /\ Ups(parts, i + 1, n - 1) \in Nat
        /\ Ups(parts, i + 1, n) = Ups(parts, i + 1, n - 1) + 1
        /\ NamesIn(parts, i + 1, n) \in Nat /\ NamesIn(parts, i + 1, n - 1) \in Nat
        /\ NamesIn(parts, i + 1, n) = NamesIn(parts, i + 1, n - 1) + 0
    BY <1>2, <2>1, Counts
  <2> DEFINE c == Cardinality({m \in K : m > i})
  <2>5. c \in Nat /\ NamesIn(parts, i + 1, n - 1) = Ups(parts, i + 1, n - 1) + c
    BY <2>2, <2>3
  <2> HIDE DEF c
  <2>6. /\ NamesIn(parts, i + 1, n) + 1 = Ups(parts, i + 1, n) + c
        /\ Ups(parts, i + 1, n) <= NamesIn(parts, i + 1, n) <=> c # 0
    BY <2>4, <2>5
  <2> QED BY <2>4, <2>5, <2>6 DEF c
<1>4. \A i \in 1 .. n : i \in L <=> i \in K /\ Cardinality({m \in K : m > i}) # 0
  <2>1. \A i \in 1 .. n : i \in L <=>
           IF i = n THEN IsName(parts[n]) ELSE i \in K /\ Ups(parts, i + 1, n) <= NamesIn(parts, i + 1, n)
    BY StandingStep
  <2> HIDE DEF K, L
  <2> QED BY <1>1, <1>2, <1>3, <2>1
<1>5. /\ Len(out) = Cardinality(K) /\ Len(out) \in Nat
      /\ \A i \in K : out[Cardinality({m \in K : m <= i})] = parts[i]
  BY DEF Stands, Paths
<1>6. CASE K = {}
  <2>1. L = {}
    BY <1>1, <1>4, <1>6
  <2>2. Len(out) = 0
    BY <1>5, <1>6, FS_EmptySet
  <2>3. out = <<>>
    BY <2>2, EmptySeq DEF Paths
  <2>4. new = out /\ Cardinality(L) = 0
    BY <2>1, <2>3, FS_EmptySet
  <2> QED BY <2>1, <2>2, <2>4 DEF Stands
<1>7. CASE K # {}
  <2>1. PICK g \in K : \A k \in K : k <= g
    BY <1>1, <1>7, Greatest
  <2>2. L = K \ {g}
    <3>1. ASSUME NEW i \in K PROVE Cardinality({m \in K : m > i}) # 0 <=> i # g
      <4>1. IsFiniteSet({m \in K : m > i})
        BY <1>1, Ranks
      <4>2. Cardinality({m \in K : m > i}) = 0 <=> {m \in K : m > i} = {}
        BY <4>1, FS_EmptySet
      <4>3. {m \in K : m > i} = {} <=> i = g
        BY <1>1, <2>1
      <4> QED BY <4>2, <4>3
    <3> HIDE DEF K, L
    <3>2. \A i \in 1 .. n : i \in L <=> i \in K \ {g}
      BY <1>1, <1>4, <3>1
    <3> QED BY <1>1, <3>2, Zenon
  <2> HIDE DEF L, K
  <2>3. /\ Cardinality(L) = Cardinality(K) - 1 /\ Cardinality(L) \in Nat
        /\ IsFiniteSet(K) /\ IsFiniteSet(L) /\ Cardinality(K) \in Nat
    <3>1. IsFiniteSet(K) /\ Cardinality(K) \in Nat
      BY <1>1, Ranks
    <3>2. IsFiniteSet(L) /\ Cardinality(L) = Cardinality(K) - 1
      BY <2>1, <2>2, <3>1, FS_RemoveElement
    <3> QED BY <3>1, <3>2, FS_CardinalityType
  <2>4. /\ out # <<>> /\ new = Front(out) /\ Len(new) = Len(out) - 1
        /\ \A k \in 1 .. Len(out) - 1 : new[k] = out[k]
    <3>1. Len(out) # 0
      BY <1>5, <2>3
    <3>2. out # <<>>
      BY <3>1
    <3> QED BY <3>2, FrontOf DEF Paths
  <2> HIDE DEF new
  <2>5. ASSUME NEW i \in L
        PROVE  /\ new[Cardinality({m \in L : m <= i})] = parts[i]
               /\ NamesIn(parts, i + 1, n) = Ups(parts, i + 1, n) + Cardinality({m \in L : m > i})
    <3>1. i \in K /\ i \in Nat /\ i < g /\ g \in Nat
      BY <1>1, <2>1, <2>2
    <3>2. {m \in L : m <= i} = {m \in K : m <= i}
      BY <1>1, <2>2, <3>1
    <3> DEFINE X == {m \in L : m <= i}
               Y == {m \in K : m > i}
    <3>3. Cardinality(X) \in 1 .. Len(out) - 1
      <4>1. IsFiniteSet(X) /\ Cardinality(X) \in Nat
        BY <1>1, Ranks
      <4>2. X \subseteq L /\ i \in X
        BY <3>1
      <4> HIDE DEF X
      <4>3. Cardinality(X) <= Cardinality(L)
        BY <2>3, <4>2, FS_Subset
      <4>4. Cardinality(X) # 0
        BY <4>1, <4>2, FS_EmptySet
      <4> QED BY <1>5, <2>3, <4>1, <4>3, <4>4
    <3>4. new[Cardinality(X)] = parts[i]
      <4>1. out[Cardinality({m \in K : m <= i})] = parts[i]
        BY <1>5, <3>1
      <4>2. out[Cardinality(X)] = parts[i]
        BY <3>2, <4>1
      <4> HIDE DEF X
      <4> QED BY <2>4, <3>3, <4>2
    <3>5. Cardinality({m \in L : m > i}) = Cardinality(Y) - 1 /\ Cardinality(Y) \in Nat
      <4>1. {m \in L : m > i} = Y \ {g} /\ g \in Y
        BY <2>1, <2>2, <3>1
      <4>2. IsFiniteSet(Y) /\ Cardinality(Y) \in Nat
        BY <1>1, Ranks
      <4> HIDE DEF Y
      <4>3. Cardinality(Y \ {g}) = Cardinality(Y) - 1
        BY <4>1, <4>2, FS_RemoveElement
      <4> QED BY <4>1, <4>2, <4>3
    <3>6. /\ NamesIn(parts, i + 1, n) + 1 = Ups(parts, i + 1, n) + Cardinality(Y)
          /\ Ups(parts, i + 1, n) \in Nat /\ NamesIn(parts, i + 1, n) \in Nat
      BY <1>3, <3>1
    <3>7. NamesIn(parts, i + 1, n) = Ups(parts, i + 1, n) + Cardinality({m \in L : m > i})
      <4> HIDE DEF Y
      <4> QED BY <3>5, <3>6
    <3> QED BY <3>4, <3>7
  <2>6. Len(new) = Cardinality(L)
    BY <1>5, <2>3, <2>4
  <2> QED BY <2>5, <2>6 DEF Stands, L, new
<1> QED BY <1>6, <1>7

\* After each segment the walk has exactly what stands, for any segments.
LEMMA WalkStands ==
    ASSUME NEW parts \in Paths
    PROVE  \A n \in 0 .. Len(parts) : Stands(parts, n, Walk(parts)[n])
<1> DEFINE N == Len(parts)
           T == {n \in 0 .. N : Stands(parts, n, Walk(parts)[n])}
<1>1. /\ N \in Nat /\ Walk(parts)[0] = <<>>
      /\ \A n \in 0 .. N : Walk(parts)[n] \in Paths
      /\ \A n \in 1 .. N : Walk(parts)[n] = WithPart(Walk(parts)[n - 1], parts[n])
  <2>1. N \in Nat
    BY DEF Paths
  <2>2. /\ Walk(parts) \in [0 .. N -> Paths] /\ Walk(parts)[0] = <<>>
        /\ \A n \in 1 .. N : Walk(parts)[n] = WithPart(Walk(parts)[n - 1], parts[n])
    BY WalkFollows
  <2> QED BY <2>1, <2>2
<1>2. 0 \in T
  <2>1. Standing(parts, 0) = {}
    BY DEF Standing
  <2>2. Stands(parts, 0, <<>>)
    BY <2>1, FS_EmptySet DEF Stands
  <2> QED BY <1>1, <2>2
<1>3. ASSUME NEW n \in 1 .. N, n - 1 \in T PROVE n \in T
  <2>1. n \in Nat \ {0} /\ n \in 0 .. N /\ n - 1 \in 0 .. N /\ parts[n] \in Seq(Tokens)
    BY <1>1 DEF Paths
  <2> DEFINE out == Walk(parts)[n - 1]
  <2>2. out \in Paths /\ Stands(parts, n - 1, out) /\ Walk(parts)[n] = WithPart(out, parts[n])
    BY <1>1, <1>3, <2>1
  <2> HIDE DEF out
  <2>3. Stands(parts, n, WithPart(out, parts[n]))
    <3>1. Up \notin Nothing
      BY DEF Up, Nothing
    <3>2. CASE parts[n] \in Nothing
      <4>1. WithPart(out, parts[n]) = out /\ parts[n] # Up /\ ~ IsName(parts[n])
        BY <3>1, <3>2 DEF WithPart, IsName
      <4> QED BY <2>1, <2>2, <4>1, NothingStands
    <3>3. CASE parts[n] = Up
      <4>1. WithPart(out, parts[n]) = IF out = <<>> THEN out ELSE Front(out)
        BY <3>1, <3>3 DEF WithPart
      <4> QED BY <2>1, <2>2, <3>3, <4>1, UpStands
    <3>4. CASE parts[n] \notin Nothing /\ parts[n] # Up
      <4>1. WithPart(out, parts[n]) = Append(out, parts[n]) /\ IsName(parts[n])
        BY <3>4 DEF WithPart, IsName
      <4> QED BY <2>1, <2>2, <4>1, NameStands
    <3> QED BY <3>2, <3>3, <3>4
  <2> QED BY <2>1, <2>2, <2>3
<1> HIDE DEF T, N
<1>4. \A n \in 0 .. N : n \in T
  BY <1>1, <1>2, <1>3, Inductive
<1> QED BY <1>4 DEF T, N

\* How many numbers of a set an interval holds, on the two sides of a number that is not in it.
LEMMA CountSides ==
    ASSUME NEW i \in Nat, NEW g \in Nat, NEW n \in Nat, i <= g, g <= n, NEW A, g \notin A
    PROVE  /\ Cardinality((i .. n) \cap A) \in Nat
           /\ Cardinality((i .. g - 1) \cap A) \in Nat
           /\ Cardinality((g + 1 .. n) \cap A) \in Nat
           /\ Cardinality((i .. n) \cap A) =
                Cardinality((i .. g - 1) \cap A) + Cardinality((g + 1 .. n) \cap A)
<1> DEFINE X == (i .. g - 1) \cap A
           Y == (g + 1 .. n) \cap A
           Z == (i .. n) \cap A
<1>1. IsFiniteSet(X) /\ IsFiniteSet(Y) /\ IsFiniteSet(Z)
  <2>1. IsFiniteSet(i .. g - 1) /\ IsFiniteSet(g + 1 .. n) /\ IsFiniteSet(i .. n)
    BY FS_Interval
  <2>2. X \in SUBSET (i .. g - 1) /\ Y \in SUBSET (g + 1 .. n) /\ Z \in SUBSET (i .. n)
    OBVIOUS
  <2> QED BY <2>1, <2>2, FS_Subset
<1>2. Z = X \cup Y /\ X \cap Y = {}
  OBVIOUS
<1> HIDE DEF X, Y, Z
<1>3. Cardinality(X) \in Nat /\ Cardinality(Y) \in Nat /\ Cardinality(Z) \in Nat
  BY <1>1, FS_CardinalityType
<1>4. Cardinality(Z) = Cardinality(X) + Cardinality(Y) - Cardinality({})
  BY <1>1, <1>2, FS_Union
<1>5. Cardinality(Z) = Cardinality(X) + Cardinality(Y)
  BY <1>3, <1>4, FS_EmptySet
<1> QED BY <1>3, <1>5 DEF X, Y, Z

\* Ups and names on the two sides of a segment that is neither.
LEMMA Sides ==
    ASSUME NEW parts, NEW i \in Nat, NEW n \in Nat, NEW g \in i .. n,
           parts[g] # Up, ~ IsName(parts[g])
    PROVE  /\ Ups(parts, i, n) \in Nat /\ NamesIn(parts, i, n) \in Nat
           /\ Ups(parts, i, g - 1) \in Nat /\ NamesIn(parts, i, g - 1) \in Nat
           /\ Ups(parts, g + 1, n) \in Nat /\ NamesIn(parts, g + 1, n) \in Nat
           /\ Ups(parts, i, n) = Ups(parts, i, g - 1) + Ups(parts, g + 1, n)
           /\ NamesIn(parts, i, n) = NamesIn(parts, i, g - 1) + NamesIn(parts, g + 1, n)
<1> DEFINE A == {m \in Nat : parts[m] = Up}
           B == {m \in Nat : IsName(parts[m])}
<1>1. /\ {m \in i .. n : parts[m] = Up} = (i .. n) \cap A
      /\ {m \in i .. g - 1 : parts[m] = Up} = (i .. g - 1) \cap A
      /\ {m \in g + 1 .. n : parts[m] = Up} = (g + 1 .. n) \cap A
      /\ {m \in i .. n : IsName(parts[m])} = (i .. n) \cap B
      /\ {m \in i .. g - 1 : IsName(parts[m])} = (i .. g - 1) \cap B
      /\ {m \in g + 1 .. n : IsName(parts[m])} = (g + 1 .. n) \cap B
  OBVIOUS
<1>2. g \notin A /\ g \notin B /\ g \in Nat /\ i <= g /\ g <= n
  OBVIOUS
<1> HIDE DEF A, B
<1>3. /\ Ups(parts, i, n) = Cardinality((i .. n) \cap A)
      /\ Ups(parts, i, g - 1) = Cardinality((i .. g - 1) \cap A)
      /\ Ups(parts, g + 1, n) = Cardinality((g + 1 .. n) \cap A)
  BY <1>1, Zenon DEF Ups
<1>4. /\ NamesIn(parts, i, n) = Cardinality((i .. n) \cap B)
      /\ NamesIn(parts, i, g - 1) = Cardinality((i .. g - 1) \cap B)
      /\ NamesIn(parts, g + 1, n) = Cardinality((g + 1 .. n) \cap B)
  BY <1>1, Zenon DEF NamesIn
<1>5. \A S : g \notin S =>
         /\ Cardinality((i .. n) \cap S) \in Nat
         /\ Cardinality((i .. g - 1) \cap S) \in Nat
         /\ Cardinality((g + 1 .. n) \cap S) \in Nat
         /\ Cardinality((i .. n) \cap S) =
              Cardinality((i .. g - 1) \cap S) + Cardinality((g + 1 .. n) \cap S)
  BY <1>2, CountSides, Zenon
<1>6. /\ Ups(parts, i, n) \in Nat /\ Ups(parts, i, g - 1) \in Nat /\ Ups(parts, g + 1, n) \in Nat
      /\ Ups(parts, i, n) = Ups(parts, i, g - 1) + Ups(parts, g + 1, n)
  BY <1>2, <1>3, <1>5, Zenon
<1>7. /\ NamesIn(parts, i, n) \in Nat /\ NamesIn(parts, i, g - 1) \in Nat /\ NamesIn(parts, g + 1, n) \in Nat
      /\ NamesIn(parts, i, n) = NamesIn(parts, i, g - 1) + NamesIn(parts, g + 1, n)
  BY <1>2, <1>4, <1>5, Zenon
<1> QED BY <1>6, <1>7

\* The names and empty segments of an interval.
SegsIn(parts, i, j) == Cardinality({m \in i .. j : parts[m] \notin {<<".">>, Up}})

\* Where no segment is empty, segments are names.
LEMMA SegsAreNames ==
    ASSUME NEW parts, NEW i, NEW j, \A m \in i .. j : parts[m] # <<>>
    PROVE  SegsIn(parts, i, j) = NamesIn(parts, i, j)
<1>1. {m \in i .. j : parts[m] \notin {<<".">>, Up}} = {m \in i .. j : IsName(parts[m])}
  BY DEF IsName, Nothing
<1> QED BY <1>1 DEF SegsIn, NamesIn

\* Names are segments.
LEMMA NamesAreSegs ==
    ASSUME NEW parts, NEW i \in Nat, NEW j \in Nat
    PROVE  NamesIn(parts, i, j) \in Nat /\ SegsIn(parts, i, j) \in Nat
           /\ NamesIn(parts, i, j) <= SegsIn(parts, i, j)
<1> DEFINE X == {m \in i .. j : IsName(parts[m])}
           Y == {m \in i .. j : parts[m] \notin {<<".">>, Up}}
<1>1. X \subseteq Y
  BY DEF IsName, Nothing
<1>2. IsFiniteSet(Y)
  <2>1. IsFiniteSet(i .. j) /\ Y \in SUBSET (i .. j)
    BY FS_Interval
  <2> QED BY <2>1, FS_Subset
<1> HIDE DEF X, Y
<1>3. IsFiniteSet(X) /\ Cardinality(X) <= Cardinality(Y)
  BY <1>1, <1>2, FS_Subset
<1>4. Cardinality(X) \in Nat /\ Cardinality(Y) \in Nat
  BY <1>2, <1>3, FS_CardinalityType
<1> QED BY <1>3, <1>4 DEF X, Y, NamesIn, SegsIn

\* Unless a ".." undoes an empty segment, a URL keeps of the names those that stand.
LEMMA KeptStands ==
    ASSUME NEW parts \in Paths, \A i \in 2 .. Len(parts) : parts[i] = <<>> => i \in Kept(parts)
    PROVE  {i \in Kept(parts) : parts[i] # <<>>} = Standing(parts, Len(parts))
<1> DEFINE N == Len(parts)
<1>1. DOMAIN parts = 1 .. N /\ N \in Nat
  BY DEF Paths
<1>2. Kept(parts) = {i \in 1 .. N : /\ parts[i] \notin {<<".">>, Up}
                                    /\ \A j \in i + 1 .. N : Ups(parts, i + 1, j) <= SegsIn(parts, i + 1, j)}
  BY <1>1 DEF Kept, Ups, SegsIn
<1> HIDE DEF N
<1>3. ASSUME NEW i \in Standing(parts, N) PROVE i \in Kept(parts) /\ parts[i] # <<>>
  <2>1. i \in 1 .. N /\ IsName(parts[i])
        /\ \A j \in i + 1 .. N : Ups(parts, i + 1, j) <= NamesIn(parts, i + 1, j)
    BY <1>3 DEF Standing
  <2>2. parts[i] \notin {<<".">>, Up} /\ parts[i] # <<>>
    BY <2>1 DEF IsName, Nothing
  <2>3. ASSUME NEW j \in i + 1 .. N PROVE Ups(parts, i + 1, j) <= SegsIn(parts, i + 1, j)
    <3>1. i + 1 \in Nat /\ j \in Nat /\ i + 1 <= j
      BY <1>1, <2>1
    <3>2. Ups(parts, i + 1, j) \in Nat /\ Ups(parts, i + 1, j) <= NamesIn(parts, i + 1, j)
      BY <2>1, <3>1, Counts
    <3> QED BY <3>1, <3>2, NamesAreSegs
  <2> QED BY <1>2, <2>1, <2>2, <2>3
<1>4. ASSUME NEW i \in Kept(parts), parts[i] # <<>> PROVE i \in Standing(parts, N)
  <2>1. i \in 1 .. N /\ IsName(parts[i])
        /\ \A j \in i + 1 .. N : Ups(parts, i + 1, j) <= SegsIn(parts, i + 1, j)
    BY <1>2, <1>4 DEF IsName, Nothing
  <2> DEFINE Bad == {j \in i + 1 .. N : ~ (Ups(parts, i + 1, j) <= NamesIn(parts, i + 1, j))}
  <2> SUFFICES ASSUME Bad # {} PROVE FALSE
    BY <2>1 DEF Standing
  <2>2. PICK n \in Bad : \A j \in Bad : n <= j
    <3>1. Bad \in SUBSET Nat
      BY <1>1, <2>1
    <3> HIDE DEF Bad
    <3> QED BY <3>1, Least
  <2>3. n \in i + 1 .. N /\ n \in Nat /\ i + 1 \in Nat /\ i + 1 <= n
    BY <1>1, <2>1, <2>2
  <2>4. ~ (Ups(parts, i + 1, n) <= NamesIn(parts, i + 1, n))
    BY <2>2
  <2> DEFINE Empty == {m \in i + 1 .. n : parts[m] = <<>>}
  <2>5. CASE Empty = {}
    <3>1. SegsIn(parts, i + 1, n) = NamesIn(parts, i + 1, n)
      BY <2>5, SegsAreNames
    <3> QED BY <2>1, <2>3, <2>4, <3>1
  <2>6. CASE Empty # {}
    <3>1. PICK g \in Empty : \A m \in Empty : m <= g
      <4>1. Empty \in SUBSET (1 .. n)
        BY <2>1, <2>3
      <4> HIDE DEF Empty
      <4> QED BY <2>3, <2>6, <4>1, Greatest
    <3>2. g \in i + 1 .. n /\ parts[g] = <<>> /\ g \in 2 .. N /\ g \in Nat /\ g + 1 \in Nat
      BY <1>1, <2>1, <2>3, <3>1
    <3>3. \A m \in g + 1 .. n : parts[m] # <<>>
      <4> SUFFICES ASSUME NEW m \in g + 1 .. n, parts[m] = <<>> PROVE FALSE
        OBVIOUS
      <4>1. m \in Empty /\ ~ (m <= g)
        BY <2>3, <3>2
      <4> QED BY <3>1, <4>1
    <3>4. Ups(parts, g + 1, n) <= NamesIn(parts, g + 1, n)
      <4>1. CASE g = n
        <5>1. Ups(parts, g + 1, n) = 0 /\ NamesIn(parts, g + 1, n) = 0
          BY <2>3, <4>1, NoCounts
        <5> QED BY <5>1
      <4>2. CASE g # n
        <5>1. n \in g + 1 .. N
          BY <1>1, <2>3, <3>2, <4>2
        <5>2. g \in Kept(parts)
          BY <3>2 DEF N
        <5>3. Ups(parts, g + 1, n) <= SegsIn(parts, g + 1, n)
          BY <1>2, <5>1, <5>2
        <5> QED BY <3>3, <5>3, SegsAreNames
      <4> QED BY <4>1, <4>2
    <3>5. Ups(parts, i + 1, g - 1) <= NamesIn(parts, i + 1, g - 1)
      <4>1. CASE g = i + 1
        <5>1. i \in Nat /\ g - 1 = i
          BY <2>1, <4>1
        <5>2. Ups(parts, i + 1, i) = 0 /\ NamesIn(parts, i + 1, i) = 0
          BY <5>1, NoCounts
        <5> QED BY <5>1, <5>2
      <4>2. CASE g # i + 1
        <5>1. g - 1 \in i + 1 .. N /\ ~ (n <= g - 1)
          BY <1>1, <2>1, <2>3, <3>2, <4>2
        <5> QED BY <2>2, <5>1
      <4> QED BY <4>1, <4>2
    <3>6. parts[g] # Up /\ ~ IsName(parts[g])
      <4>1. Up \notin Nothing /\ parts[g] \in Nothing
        BY <3>2 DEF Up, Nothing
      <4> QED BY <4>1 DEF IsName
    <3>7. /\ Ups(parts, i + 1, n) = Ups(parts, i + 1, g - 1) + Ups(parts, g + 1, n)
          /\ NamesIn(parts, i + 1, n) = NamesIn(parts, i + 1, g - 1) + NamesIn(parts, g + 1, n)
          /\ Ups(parts, i + 1, g - 1) \in Nat /\ NamesIn(parts, i + 1, g - 1) \in Nat
          /\ Ups(parts, g + 1, n) \in Nat /\ NamesIn(parts, g + 1, n) \in Nat
      BY <2>3, <3>2, <3>6, Sides
    <3> QED BY <2>4, <3>4, <3>5, <3>7
  <2> QED BY <2>5, <2>6
<1>5. Standing(parts, N) \subseteq {i \in Kept(parts) : parts[i] # <<>>}
  BY <1>3
<1>6. {i \in Kept(parts) : parts[i] # <<>>} \subseteq Standing(parts, N)
  BY <1>4
<1> QED BY <1>5, <1>6 DEF N

-----------------------------------------------------------------------------
(* Segments of texts that are put together ************************************)

LEMMA WithTokenIs ==
    ASSUME NEW P \in Paths \ {<<>>}, NEW t \in Tokens
    PROVE  /\ \A k \in 1 .. Len(P) :
                 WithToken(P, t)[k] = IF t = "/" \/ k # Len(P) THEN P[k] ELSE Append(P[k], t)
           /\ t = "/" => WithToken(P, t)[Len(P) + 1] = <<>>
<1>1. P \in Seq(Seq(Tokens)) /\ <<>> \in Seq(Tokens)
  BY DEF Paths
<1>2. CASE t = "/"
  <2>1. WithToken(P, t) = Append(P, <<>>)
    BY <1>2 DEF WithToken
  <2>2. /\ \A k \in 1 .. Len(P) : Append(P, <<>>)[k] = P[k]
        /\ Append(P, <<>>)[Len(P) + 1] = <<>>
    BY <1>1, AppendProperties
  <2> QED BY <1>2, <2>1, <2>2
<1>3. CASE t # "/"
  <2>1. WithToken(P, t) = [P EXCEPT ![Len(P)] = Append(P[Len(P)], t)]
    BY <1>3 DEF WithToken
  <2>2. DOMAIN P = 1 .. Len(P)
    BY <1>1
  <2> QED BY <1>3, <2>1, <2>2
<1> QED BY <1>2, <1>3

\* A token is added to the last segment, whatever segments come before.
LEMMA WithTokenShift ==
    ASSUME NEW X \in Paths, NEW P \in Paths \ {<<>>}, NEW t \in Tokens
    PROVE  WithToken(X \o P, t) = X \o WithToken(P, t)
<1>1. /\ X \in Seq(Seq(Tokens)) /\ P \in Seq(Seq(Tokens)) /\ Len(P) > 0
      /\ Len(X) \in Nat /\ Len(P) \in Nat
  BY EmptySeq DEF Paths
<1>2. /\ X \o P \in Seq(Seq(Tokens)) /\ Len(X \o P) = Len(X) + Len(P)
      /\ \A k \in 1 .. Len(X) + Len(P) : (X \o P)[k] = IF k <= Len(X) THEN X[k] ELSE P[k - Len(X)]
  BY <1>1, ConcatProperties
<1> DEFINE W == WithToken(P, t)
           V == WithToken(X \o P, t)
<1>3. X \o P \in Paths \ {<<>>}
  <2>1. Len(X \o P) # 0
    BY <1>1, <1>2
  <2>2. X \o P # <<>>
    BY <2>1
  <2> QED BY <1>2, <2>2 DEF Paths
<1>4. /\ W \in Paths /\ Len(W) = IF t = "/" THEN Len(P) + 1 ELSE Len(P)
      /\ V \in Paths /\ Len(V) = IF t = "/" THEN Len(X \o P) + 1 ELSE Len(X \o P)
  BY <1>3, WithTokenType
<1>5. /\ X \o W \in Seq(Seq(Tokens)) /\ Len(X \o W) = Len(X) + Len(W)
      /\ \A k \in 1 .. Len(X) + Len(W) : (X \o W)[k] = IF k <= Len(X) THEN X[k] ELSE W[k - Len(X)]
  BY <1>1, <1>4, ConcatProperties DEF Paths
<1>6. /\ \A k \in 1 .. Len(P) : W[k] = IF t = "/" \/ k # Len(P) THEN P[k] ELSE Append(P[k], t)
      /\ t = "/" => W[Len(P) + 1] = <<>>
  BY WithTokenIs
<1> DEFINE Q == X \o P
<1>7. /\ \A k \in 1 .. Len(Q) : V[k] = IF t = "/" \/ k # Len(Q) THEN Q[k] ELSE Append(Q[k], t)
      /\ t = "/" => V[Len(Q) + 1] = <<>>
  BY <1>3, WithTokenIs
<1>8. /\ Q \in Seq(Seq(Tokens)) /\ Len(Q) = Len(X) + Len(P)
      /\ \A k \in 1 .. Len(X) + Len(P) : Q[k] = IF k <= Len(X) THEN X[k] ELSE P[k - Len(X)]
      /\ Len(V) = IF t = "/" THEN Len(Q) + 1 ELSE Len(Q)
  BY <1>2, <1>4
<1> DEFINE Y == X \o W
<1>9. /\ Y \in Seq(Seq(Tokens)) /\ Len(Y) = Len(X) + Len(W)
      /\ \A k \in 1 .. Len(X) + Len(W) : Y[k] = IF k <= Len(X) THEN X[k] ELSE W[k - Len(X)]
  BY <1>5
<1> HIDE DEF Q, V, W, Y
<1>10. Len(V) = Len(Y)
  BY <1>1, <1>4, <1>8, <1>9
<1>11. ASSUME NEW k \in 1 .. Len(V) PROVE V[k] = Y[k]
  <2>1. CASE k <= Len(X)
    <3>1. k \in 1 .. Len(Q) /\ k # Len(Q) /\ k \in 1 .. Len(X) + Len(P)
      BY <1>1, <1>8, <2>1
    <3>2. V[k] = Q[k]
      BY <1>7, <3>1
    <3>3. Q[k] = X[k] /\ Y[k] = X[k]
      BY <1>8, <1>9, <1>10, <2>1, <3>1
    <3> QED BY <3>2, <3>3
  <2>2. CASE k > Len(X) /\ k <= Len(Q)
    <3>1. k \in 1 .. Len(Q) /\ k - Len(X) \in 1 .. Len(P) /\ (k = Len(Q) <=> k - Len(X) = Len(P)) /\ ~ (k <= Len(X))
      BY <1>1, <1>8, <2>2
    <3>2. Q[k] = P[k - Len(X)] /\ Y[k] = W[k - Len(X)]
      BY <1>8, <1>9, <1>10, <3>1
    <3>3. V[k] = IF t = "/" \/ k # Len(Q) THEN Q[k] ELSE Append(Q[k], t)
      BY <1>7, <3>1
    <3>4. W[k - Len(X)] = IF t = "/" \/ k - Len(X) # Len(P) THEN P[k - Len(X)] ELSE Append(P[k - Len(X)], t)
      BY <1>6, <3>1
    <3> QED BY <3>1, <3>2, <3>3, <3>4
  <2>3. CASE k > Len(Q)
    <3>1. t = "/" /\ Len(V) = Len(Q) + 1
      BY <1>1, <1>8, <2>3
    <3>2. t = "/" /\ k = Len(Q) + 1 /\ k - Len(X) = Len(P) + 1 /\ ~ (k <= Len(X))
      <4>1. k \in 1 .. Len(Q) + 1
        BY <3>1
      <4>2. Len(Q) = Len(X) + Len(P) /\ Len(X) \in Nat /\ Len(P) \in Nat /\ Len(P) > 0
        BY <1>1, <1>8
      <4>3. k = Len(Q) + 1
        BY <2>3, <4>1, <4>2
      <4> QED BY <3>1, <4>2, <4>3
    <3>3. Y[k] = W[k - Len(X)]
      BY <1>9, <1>10, <3>2
    <3> QED BY <1>6, <1>7, <3>2, <3>3
  <2> QED BY <1>1, <1>8, <2>1, <2>2, <2>3
<1>12. V = Y
  BY <1>4, <1>9, <1>10, <1>11, SeqEqual DEF Paths
<1> QED BY <1>12 DEF V, Y, W

\* The segments of a text that is put together: first those of its beginning, then, when that ends
\* with an empty segment, those of the rest.
LEMMA SegmentsOfBoth ==
    ASSUME NEW a \in Seq(Tokens), NEW q \in Seq(Tokens), NEW X \in Paths, Split(a) = Append(X, <<>>)
    PROVE  Split(a \o q) = X \o Split(q)
<1> DEFINE s == a \o q
           n == Len(a)
           N == Len(q)
           A == {k \in 0 .. n : Segments(s)[k] = Segments(a)[k]}
           B == {k \in 0 .. N : Segments(s)[n + k] = X \o Segments(q)[k]}
<1>1. /\ n \in Nat /\ N \in Nat /\ s \in Seq(Tokens) /\ Len(s) = n + N
      /\ \A k \in 1 .. n : s[k] = a[k] /\ a[k] \in Tokens
      /\ \A k \in 1 .. N : s[n + k] = q[k] /\ q[k] \in Tokens
  <2>1. n \in Nat /\ N \in Nat
    OBVIOUS
  <2>2. /\ s \in Seq(Tokens) /\ Len(s) = Len(a) + Len(q)
        /\ \A k \in 1 .. Len(a) + Len(q) : s[k] = IF k <= Len(a) THEN a[k] ELSE q[k - Len(a)]
    BY ConcatProperties
  <2>3. (\A k \in 1 .. n : a[k] \in Tokens) /\ \A k \in 1 .. N : q[k] \in Tokens
    OBVIOUS
  <2>4. /\ s \in Seq(Tokens) /\ Len(s) = n + N
        /\ \A k \in 1 .. n + N : s[k] = IF k <= n THEN a[k] ELSE q[k - n]
    BY <2>2
  <2> HIDE DEF s, n, N
  <2>5. \A k \in 1 .. n : s[k] = a[k]
    BY <2>1, <2>4
  <2>6. \A k \in 1 .. N : s[n + k] = q[k]
    <3> TAKE k \in 1 .. N
    <3>1. n + k \in 1 .. n + N /\ ~ (n + k <= n) /\ (n + k) - n = k
      BY <2>1
    <3> QED BY <2>4, <3>1
  <2> QED BY <2>1, <2>3, <2>4, <2>5, <2>6
<1> HIDE DEF s
<1>2. /\ Segments(s)[0] = <<<<>>>>
      /\ \A k \in 1 .. n + N : Segments(s)[k] = WithToken(Segments(s)[k - 1], s[k])
  BY <1>1, SegmentsFollow
<1>3. /\ Segments(a)[0] = <<<<>>>>
      /\ \A k \in 1 .. n : Segments(a)[k] = WithToken(Segments(a)[k - 1], a[k])
  BY SegmentsFollow
<1>4. /\ Segments(q)[0] = <<<<>>>>
      /\ \A k \in 0 .. N : Segments(q)[k] \in Paths \ {<<>>}
      /\ \A k \in 1 .. N : Segments(q)[k] = WithToken(Segments(q)[k - 1], q[k])
  BY SegmentsFollow
<1> HIDE DEF n, N
<1>5. n \in A
  <2>1. 0 \in A
    <3>1. 0 \in 0 .. n
      BY <1>1
    <3>2. Segments(s)[0] = Segments(a)[0]
      BY <1>2, <1>3, Zenon
    <3> QED BY <3>1, <3>2
  <2>2. ASSUME NEW k \in 1 .. n, k - 1 \in A PROVE k \in A
    <3>1. k \in 1 .. n + N /\ k \in 0 .. n
      BY <1>1
    <3>2. Segments(s)[k - 1] = Segments(a)[k - 1]
      BY <2>2
    <3> QED BY <1>1, <1>2, <1>3, <3>1, <3>2
  <2> HIDE DEF A
  <2>3. \A k \in 0 .. n : k \in A
    BY <1>1, <2>1, <2>2, Inductive
  <2> QED BY <1>1, <2>3
<1>6. Segments(s)[n] = Append(X, <<>>)
  BY <1>5 DEF Split, n
<1>7. Append(X, <<>>) = X \o <<<<>>>>
  <2>1. X \in Seq(Seq(Tokens)) /\ <<>> \in Seq(Tokens)
    BY DEF Paths
  <2> QED BY <2>1, AppendIsConcat
<1>8. N \in B
  <2>1. 0 \in B
    <3>1. n + 0 = n /\ 0 \in 0 .. N
      BY <1>1
    <3>2. Segments(s)[n + 0] = X \o Segments(q)[0]
      BY <1>4, <1>6, <1>7, <3>1, Zenon
    <3> QED BY <3>1, <3>2
  <2>2. ASSUME NEW k \in 1 .. N, k - 1 \in B PROVE k \in B
    <3>1. n + k \in 1 .. n + N /\ k \in 0 .. N /\ k - 1 \in 0 .. N /\ (n + k) - 1 = n + (k - 1)
      BY <1>1
    <3>2. Segments(s)[n + (k - 1)] = X \o Segments(q)[k - 1]
      BY <2>2
    <3>3. Segments(s)[n + k] = WithToken(X \o Segments(q)[k - 1], q[k])
      BY <1>1, <1>2, <3>1, <3>2
    <3>4. WithToken(X \o Segments(q)[k - 1], q[k]) = X \o WithToken(Segments(q)[k - 1], q[k])
      BY <1>1, <1>4, <3>1, WithTokenShift
    <3>5. Segments(s)[n + k] = X \o Segments(q)[k]
      BY <1>4, <3>3, <3>4
    <3> QED BY <3>1, <3>5
  <2> HIDE DEF B
  <2>3. \A k \in 0 .. N : k \in B
    BY <1>1, <2>1, <2>2, Inductive
  <2> QED BY <1>1, <2>3
<1>9. Segments(s)[n + N] = X \o Segments(q)[N]
  BY <1>8
<1> QED BY <1>1, <1>9 DEF Split, N, s

\* A text without a slash is one segment.
LEMMA OneSegment ==
    ASSUME NEW r \in Seq(Tokens), \A k \in 1 .. Len(r) : r[k] # "/"
    PROVE  Split(r) \in Paths /\ Len(Split(r)) = 1
<1> DEFINE N == Len(r)
           T == {k \in 0 .. N : Len(Segments(r)[k]) = 1}
<1>1. /\ Segments(r)[0] = <<<<>>>>
      /\ \A k \in 0 .. N : Segments(r)[k] \in Paths \ {<<>>}
      /\ \A k \in 1 .. N : Segments(r)[k] = WithToken(Segments(r)[k - 1], r[k])
  BY SegmentsFollow
<1>2. N \in Nat /\ \A k \in 1 .. N : r[k] \in Tokens /\ r[k] # "/"
  OBVIOUS
<1>3. Split(r) = Segments(r)[N]
  BY DEF Split
<1> HIDE DEF N
<1>4. 0 \in T
  <2>1. 0 \in 0 .. N
    BY <1>2
  <2>2. Len(<<<<>>>>) = 1
    OBVIOUS
  <2>3. Len(Segments(r)[0]) = 1
    BY <1>1, <2>2, Zenon
  <2> QED BY <2>1, <2>3
<1>5. ASSUME NEW k \in 1 .. N, k - 1 \in T PROVE k \in T
  <2>1. k \in 0 .. N /\ k - 1 \in 0 .. N
    BY <1>2
  <2>2. Len(Segments(r)[k]) = Len(Segments(r)[k - 1])
    <3> DEFINE P == Segments(r)[k - 1]
    <3>1. P \in Paths \ {<<>>} /\ r[k] \in Tokens /\ r[k] # "/" /\ Segments(r)[k] = WithToken(P, r[k])
      BY <1>1, <1>2, <2>1
    <3> HIDE DEF P
    <3>2. Len(WithToken(P, r[k])) = Len(P)
      BY <3>1, WithTokenType
    <3> QED BY <3>1, <3>2 DEF P
  <2>3. Len(Segments(r)[k - 1]) = 1
    BY <1>5
  <2> QED BY <2>1, <2>2, <2>3
<1> HIDE DEF T
<1>6. \A k \in 0 .. N : k \in T
  BY <1>2, <1>4, <1>5, Inductive
<1>7. N \in 0 .. N
  BY <1>2
<1>8. N \in T
  BY <1>6, <1>7
<1> QED BY <1>1, <1>3, <1>7, <1>8 DEF T

\* The directory of a text: up to its last slash.
DirEnd(base) == Max({i \in 0 .. Len(base) : i = 0 \/ base[i] = "/"})

\* The segments of a directory with something after it are those of the document but its last, and
\* then those of what comes after.
LEMMA SegmentsFromDirectory ==
    ASSUME NEW base \in Seq(Tokens), NEW q \in Seq(Tokens)
    PROVE  /\ Front(Split(base)) \in Paths /\ Upto(base, DirEnd(base)) \in Seq(Tokens)
           /\ Split(Upto(base, DirEnd(base)) \o q) = Front(Split(base)) \o Split(q)
<1> DEFINE end == DirEnd(base)
           a == Upto(base, end)
           r == After(base, end)
           P == {i \in 0 .. Len(base) : i = 0 \/ base[i] = "/"}
<1>1. /\ end \in 0 .. Len(base) /\ (end = 0 \/ base[end] = "/")
      /\ \A i \in 1 .. Len(base) : base[i] = "/" => i <= end
  <2>1. P \in SUBSET Nat /\ 0 \in P
    OBVIOUS
  <2>2. \E g \in P : \A k \in P : k <= g
    <3> DEFINE K == P \ {0}
    <3>1. K \in SUBSET (1 .. Len(base)) /\ Len(base) \in Nat
      OBVIOUS
    <3>2. CASE K = {}
      <4>1. \A k \in P : k <= 0
        BY <2>1, <3>2
      <4> QED BY <2>1, <4>1
    <3>3. CASE K # {}
      <4> HIDE DEF K
      <4>1. PICK g \in K : \A k \in K : k <= g
        BY <3>1, <3>3, Greatest
      <4>2. g \in P /\ \A k \in P : k <= g
        BY <2>1, <3>1, <4>1 DEF K
      <4> QED BY <4>2
    <3> QED BY <3>2, <3>3
  <2>3. Max(P) \in P /\ \A k \in P : Max(P) >= k
    <3>1. \E g \in P : \A k \in P : g >= k
      BY <2>1, <2>2
    <3> HIDE DEF P
    <3> QED BY <3>1 DEF Max
  <2>4. end = Max(P)
    BY DEF DirEnd
  <2> HIDE DEF end
  <2>5. end \in P /\ \A k \in P : k <= end
    BY <2>1, <2>3, <2>4
  <2> QED BY <2>5
<1> HIDE DEF end
<1>2. a \in Seq(Tokens) /\ Len(a) = end /\ \A k \in 1 .. end : a[k] = base[k]
  BY <1>1, UptoIs
<1>3. r \in Seq(Tokens) /\ Len(r) = Len(base) - end /\ \A k \in 1 .. Len(base) - end : r[k] = base[end + k]
  BY <1>1, AfterIs
<1>4. \A k \in 1 .. Len(r) : r[k] # "/"
  <2> TAKE k \in 1 .. Len(r)
  <2>1. end + k \in 1 .. Len(base) /\ ~ (end + k <= end) /\ r[k] = base[end + k]
    BY <1>1, <1>3
  <2> QED BY <1>1, <2>1
<1>5. base = a \o r
  <2> HIDE DEF a, r
  <2> DEFINE c == a \o r
  <2>1. /\ c \in Seq(Tokens) /\ Len(c) = Len(a) + Len(r)
        /\ \A k \in 1 .. Len(a) + Len(r) : c[k] = IF k <= Len(a) THEN a[k] ELSE r[k - Len(a)]
    BY <1>2, <1>3, ConcatProperties
  <2> HIDE DEF c
  <2>2. Len(c) = Len(base)
    BY <1>1, <1>2, <1>3, <2>1
  <2>3. ASSUME NEW k \in 1 .. Len(base) PROVE c[k] = base[k]
    <3>1. CASE k <= end
      BY <1>1, <1>2, <1>3, <2>1, <2>2, <3>1
    <3>2. CASE ~ (k <= end)
      <4>1. k - end \in 1 .. Len(base) - end /\ end + (k - end) = k
        BY <1>1, <3>2
      <4>2. c[k] = r[k - end]
        BY <1>1, <1>2, <1>3, <2>1, <2>2, <3>2
      <4> QED BY <1>3, <4>1, <4>2
    <3> QED BY <3>1, <3>2
  <2>4. c = base
    BY <2>1, <2>2, <2>3, SeqEqual
  <2> QED BY <2>4 DEF c
<1> HIDE DEF a, r
<1>6. PICK X \in Paths : Split(a) = Append(X, <<>>)
  <2>1. CASE end = 0
    <3>1. Split(a) = <<<<>>>>
      BY <1>2, <2>1, SegmentsFollow DEF Split
    <3>2. <<<<>>>> = Append(<<>>, <<>>) /\ <<>> \in Paths
      BY DEF Paths
    <3> QED BY <3>1, <3>2
  <2>2. CASE end # 0
    <3>1. end \in 1 .. Len(a) /\ a[end] = "/" /\ end - 1 \in 0 .. Len(a)
      BY <1>1, <1>2, <2>2
    <3> DEFINE X == Segments(a)[end - 1]
    <3>2. Segments(a)[end] = WithToken(X, a[end]) /\ X \in Paths
      BY <1>2, <3>1, SegmentsFollow
    <3> HIDE DEF X
    <3>3. Split(a) = Append(X, <<>>)
      BY <1>2, <3>1, <3>2 DEF Split, WithToken
    <3> QED BY <3>2, <3>3
  <2> QED BY <2>1, <2>2
<1>7. Split(base) = X \o Split(r) /\ Split(a \o q) = X \o Split(q)
  BY <1>2, <1>3, <1>5, <1>6, SegmentsOfBoth
<1>8. Front(Split(base)) = X
  <2> DEFINE R == Split(r)
             F == Split(base)
  <2>1. R \in Seq(Seq(Tokens)) /\ Len(R) = 1 /\ X \in Seq(Seq(Tokens)) /\ Len(X) \in Nat
    BY <1>3, <1>4, OneSegment DEF Paths
  <2>2. F = X \o R
    BY <1>7
  <2> HIDE DEF R, F
  <2>3. /\ F \in Seq(Seq(Tokens)) /\ Len(F) = Len(X) + Len(R)
        /\ \A k \in 1 .. Len(X) + Len(R) : F[k] = IF k <= Len(X) THEN X[k] ELSE R[k - Len(X)]
    BY <2>1, <2>2, ConcatProperties
  <2>4. Len(F) = Len(X) + 1 /\ F # <<>> /\ \A k \in 1 .. Len(X) : F[k] = X[k]
    <3>1. Len(F) = Len(X) + 1 /\ \A k \in 1 .. Len(X) : F[k] = X[k]
      BY <2>1, <2>3
    <3>2. Len(F) # 0
      BY <2>1, <3>1
    <3> QED BY <3>1, <3>2
  <2>5. /\ Front(F) \in Seq(Seq(Tokens)) /\ Len(Front(F)) = Len(F) - 1
        /\ \A k \in 1 .. Len(F) - 1 : Front(F)[k] = F[k]
    BY <2>3, <2>4, FrontOf
  <2>6. Len(Front(F)) = Len(X) /\ \A k \in 1 .. Len(X) : Front(F)[k] = X[k]
    BY <2>1, <2>4, <2>5
  <2>7. Front(F) = X
    BY <2>1, <2>5, <2>6, SeqEqual
  <2> QED BY <2>7 DEF F
<1> QED BY <1>2, <1>7, <1>8 DEF a, end

-----------------------------------------------------------------------------
(* Relative references ********************************************************)

\* Where a text is cut before a token.
Cut(t, u) == Min({i \in 0 .. Len(u) : i = Len(u) \/ u[i + 1] = t})

LEMMA CutIs ==
    ASSUME NEW u \in Seq(Tokens), NEW t
    PROVE  /\ Cut(t, u) \in 0 .. Len(u)
           /\ Cut(t, u) = Len(u) \/ u[Cut(t, u) + 1] = t
           /\ \A i \in 1 .. Cut(t, u) : u[i] # t
<1> DEFINE P == {i \in 0 .. Len(u) : i = Len(u) \/ u[i + 1] = t}
           c == Cut(t, u)
<1>1. P \in SUBSET Nat /\ Len(u) \in P
  OBVIOUS
<1>2. Min(P) \in P /\ \A i \in P : Min(P) <= i
  <2> HIDE DEF P
  <2>1. \E m \in P : \A k \in P : m <= k
    BY <1>1, Least
  <2> QED BY <2>1 DEF Min
<1>3. c = Min(P)
  BY DEF Cut
<1> HIDE DEF c
<1>4. c \in P /\ \A i \in P : c <= i
  BY <1>2, <1>3
<1>5. \A i \in 1 .. c : u[i] # t
  <2> TAKE i \in 1 .. c
  <2>1. i - 1 \in 0 .. Len(u) /\ ~ (c <= i - 1) /\ (i - 1) + 1 = i
    BY <1>4
  <2> QED BY <1>4, <2>1
<1> QED BY <1>4, <1>5 DEF c

\* A reference without its query and fragment.
PathOf(s) ==
    LET path == First({i \in DOMAIN s : s[i] \in {"?", "#"}})
    IN  IF path = 0 THEN s ELSE Upto(s, path - 1)

\* The two cuts of stripQueryHash leave what is before the first of both marks.
LEMMA StripIsPath ==
    ASSUME NEW s \in Seq(Tokens)
    PROVE  stripQueryHash(s) = PathOf(s) /\ PathOf(s) \in Seq(Tokens)
<1> DEFINE h == Cut("#", s)
           u == Upto(s, h)
           q == Cut("?", u)
           P == {i \in DOMAIN s : s[i] \in {"?", "#"}}
           path == First(P)
           e == IF path = 0 THEN Len(s) ELSE path - 1
<1>1. stripQueryHash(s) = Upto(u, q)
  BY DEF stripQueryHash, Cut
<1>2. /\ h \in 0 .. Len(s) /\ (h = Len(s) \/ s[h + 1] = "#")
      /\ \A i \in 1 .. h : s[i] # "#"
  BY CutIs
<1>3. P \in SUBSET (Nat \ {0})
  OBVIOUS
<1>4. (P = {} => path = 0) /\ (P # {} => path \in P /\ \A p \in P : path <= p)
  BY <1>3, FirstPlace
<1>5. PathOf(s) = IF path = 0 THEN s ELSE Upto(s, path - 1)
  BY DEF PathOf
<1> HIDE DEF h, path
<1>6. u \in Seq(Tokens) /\ Len(u) = h /\ \A i \in 1 .. h : u[i] = s[i]
  BY <1>2, UptoIs
<1> HIDE DEF u
<1>7. /\ q \in 0 .. h /\ (q = h \/ u[q + 1] = "?")
      /\ \A i \in 1 .. q : u[i] # "?"
  BY <1>6, CutIs
<1> HIDE DEF q
<1>8. /\ e \in 0 .. Len(s) /\ (e = Len(s) \/ s[e + 1] \in {"?", "#"})
      /\ \A i \in 1 .. e : s[i] # "?" /\ s[i] # "#"
  <2>1. CASE path = 0
    <3>1. P = {}
      BY <1>3, <1>4, <2>1
    <3> QED BY <2>1, <3>1
  <2>2. CASE path # 0
    <3>1. path \in 1 .. Len(s) /\ s[path] \in {"?", "#"} /\ \A p \in P : path <= p
      BY <1>4, <2>2
    <3>2. path - 1 \in 0 .. Len(s) /\ (path - 1) + 1 = path
      BY <3>1
    <3>3. ASSUME NEW i \in 1 .. path - 1 PROVE s[i] # "?" /\ s[i] # "#"
      <4>1. i \in DOMAIN s /\ ~ (path <= i)
        BY <3>1
      <4> QED BY <3>1, <4>1
    <3> QED BY <2>2, <3>1, <3>2, <3>3
  <2> QED BY <2>1, <2>2
<1>9. PathOf(s) = Upto(s, e)
  <2>1. CASE path = 0
    <3>1. Len(s) \in 0 .. Len(s)
      OBVIOUS
    <3>2. Upto(s, Len(s)) \in Seq(Tokens) /\ Len(Upto(s, Len(s))) = Len(s)
          /\ \A i \in 1 .. Len(s) : Upto(s, Len(s))[i] = s[i]
      BY <3>1, UptoIs
    <3>3. Upto(s, Len(s)) = s
      BY <3>2, SeqEqual
    <3> QED BY <1>5, <2>1, <3>3
  <2>2. CASE path # 0
    BY <1>5, <2>2
  <2> QED BY <2>1, <2>2
<1> HIDE DEF e, P
<1>10. e <= h
  <2> SUFFICES ASSUME h < e PROVE FALSE
    BY <1>2, <1>8
  <2>1. h + 1 \in 1 .. e /\ h # Len(s)
    BY <1>2, <1>8
  <2> QED BY <1>2, <1>8, <2>1
<1>11. q <= e
  <2> SUFFICES ASSUME e < q PROVE FALSE
    BY <1>7, <1>8
  <2>1. e + 1 \in 1 .. q /\ e + 1 \in 1 .. h /\ e # Len(s)
    BY <1>2, <1>7, <1>8
  <2>2. u[e + 1] = s[e + 1] /\ s[e + 1] # "#" /\ u[e + 1] # "?"
    BY <1>2, <1>6, <1>7, <2>1
  <2> QED BY <1>8, <2>1, <2>2
<1>12. e <= q
  <2> SUFFICES ASSUME q < e PROVE FALSE
    BY <1>7, <1>8
  <2>1. q + 1 \in 1 .. e /\ q + 1 \in 1 .. h /\ q # h
    BY <1>2, <1>7, <1>8, <1>10
  <2> QED BY <1>6, <1>7, <1>8, <2>1
<1>13. q = e
  BY <1>7, <1>8, <1>11, <1>12
<1>14. Upto(u, q) = Upto(s, e)
  <2>1. Upto(u, q) \in Seq(Tokens) /\ Len(Upto(u, q)) = q /\ \A i \in 1 .. q : Upto(u, q)[i] = u[i]
    BY <1>6, <1>7, UptoIs
  <2>2. Upto(s, e) \in Seq(Tokens) /\ Len(Upto(s, e)) = e /\ \A i \in 1 .. e : Upto(s, e)[i] = s[i]
    BY <1>8, UptoIs
  <2>3. \A i \in 1 .. e : u[i] = s[i]
    BY <1>2, <1>6, <1>8, <1>10
  <2> DEFINE v == Upto(u, q)
             w == Upto(s, e)
  <2>4. v \in Seq(Tokens) /\ Len(v) = e /\ \A i \in 1 .. e : v[i] = s[i]
    BY <1>13, <2>1, <2>3
  <2> HIDE DEF v
  <2>5. w \in Seq(Tokens) /\ Len(w) = e /\ \A i \in 1 .. e : w[i] = s[i]
    BY <2>2
  <2> HIDE DEF w
  <2>6. v = w
    BY <2>4, <2>5, SeqEqual
  <2> QED BY <2>6 DEF v, w
<1>15. Upto(s, e) \in Seq(Tokens)
  BY <1>8, UptoIs
<1> QED BY <1>1, <1>9, <1>14, <1>15

\* The segments that a reference leads through.
AllParts(r) == IF Has(r, 1, "/") THEN Split(r) ELSE Front(Split(EntryKey)) \o Split(r)

LEMMA SplitIs ==
    ASSUME NEW s \in Seq(Tokens)
    PROVE  Split(s) \in Paths
<1>1. Len(s) \in 0 .. Len(s)
  OBVIOUS
<1> QED BY <1>1, SegmentsFollow DEF Split

\* A key is what a walk through all the segments leaves.
LEMMA KeyIsWalked ==
    ASSUME NEW s \in Seq(Tokens)
    PROVE  LET r   == PathOf(s)
               all == AllParts(r)
               key == resolveRelativeResourceKey(EntryKey, s)
           IN  /\ r = <<>> => key = Split(DropSlashes(EntryKey))
               /\ r # <<>> => all \in Paths /\ key = Walk(all)[Len(all)]
<1> DEFINE r == PathOf(s)
           key == resolveRelativeResourceKey(EntryKey, s)
<1>1. stripQueryHash(s) = r /\ r \in Seq(Tokens)
  BY StripIsPath
<1>2. key = IF r = <<>> THEN Split(DropSlashes(EntryKey))
            ELSE IF r[1] = "/" THEN normalizePath(r)
            ELSE normalizePath(Upto(EntryKey, DirEnd(EntryKey)) \o r)
  BY <1>1 DEF resolveRelativeResourceKey, DirEnd
<1> HIDE DEF r, key
<1>3. ASSUME r # <<>> PROVE AllParts(r) \in Paths /\ key = Walk(AllParts(r))[Len(AllParts(r))]
  <2>1. 1 \in DOMAIN r
    <3>1. Len(r) > 0
      BY <1>1, <1>3, EmptySeq
    <3> QED BY <1>1, <3>1
  <2>2. CASE r[1] = "/"
    <3>1. AllParts(r) = Split(r)
      BY <2>1, <2>2 DEF AllParts, Has
    <3>2. key = normalizePath(r)
      BY <1>2, <1>3, <2>2
    <3> QED BY <1>1, <3>1, <3>2, SplitIs DEF normalizePath
  <2>3. CASE r[1] # "/"
    <3> DEFINE t == Upto(EntryKey, DirEnd(EntryKey)) \o r
    <3>1. AllParts(r) = Front(Split(EntryKey)) \o Split(r)
      BY <2>3 DEF AllParts, Has
    <3>2. key = normalizePath(t)
      BY <1>2, <1>3, <2>3
    <3>3. /\ Front(Split(EntryKey)) \in Paths /\ Upto(EntryKey, DirEnd(EntryKey)) \in Seq(Tokens)
          /\ Split(t) = Front(Split(EntryKey)) \o Split(r)
      BY <1>1, TextAssumption, SegmentsFromDirectory
    <3> HIDE DEF t
    <3>4. Split(r) \in Paths
      BY <1>1, SplitIs
    <3>5. Front(Split(EntryKey)) \o Split(r) \in Paths
      BY <3>3, <3>4, ConcatProperties DEF Paths
    <3> QED BY <3>1, <3>2, <3>3, <3>5 DEF normalizePath
  <2> QED BY <2>2, <2>3
<1> QED BY <1>2, <1>3 DEF r, key

\* For every document and every relative reference, of any length and depth: the key consists of the
\* segments that the reference's URL would have, in their order, but for the empty ones, unless a ".."
\* undoes an empty one; and a reference without a path leads to the document itself.
THEOREM KeysAreResolved == Spec => []KeyIsResolved
<1>1. Texts => KeyIsResolved
  <2> SUFFICES ASSUME Texts PROVE KeyIsResolved
    OBVIOUS
  <2> DEFINE r    == PathOf(text)
             all  == AllParts(r)
             kept == {i \in Kept(all) : all[i] # <<>>}
             key  == resolveRelativeResourceKey(EntryKey, text)
  <2>1. text \in Seq(Tokens)
    BY TextIsText
  <2>2. /\ r = <<>> => key = Split(DropSlashes(EntryKey))
        /\ r # <<>> => all \in Paths /\ key = Walk(all)[Len(all)]
    BY <2>1, KeyIsWalked
  <2> HIDE DEF r, key
  <2>3. ASSUME r # <<>>, \A i \in 2 .. Len(all) : all[i] = <<>> => i \in Kept(all)
        PROVE  /\ Len(key) = Cardinality(kept)
               /\ \A i \in kept : key[Cardinality({m \in kept : m <= i})] = all[i]
    <3> HIDE DEF all
    <3>1. all \in Paths /\ key = Walk(all)[Len(all)]
      BY <2>2, <2>3
    <3>2. Len(all) \in 0 .. Len(all)
      BY <3>1 DEF Paths
    <3>3. Stands(all, Len(all), key)
      BY <3>1, <3>2, WalkStands
    <3>4. kept = Standing(all, Len(all))
      BY <2>3, <3>1, KeptStands
    <3> HIDE DEF kept
    <3> QED BY <3>3, <3>4 DEF Stands
  <2>4. IF r = <<>> THEN key = Split(DropSlashes(EntryKey))
        ELSE (\A i \in 2 .. Len(all) : all[i] = <<>> => i \in Kept(all)) =>
             /\ Len(key) = Cardinality(kept)
             /\ \A i \in kept : key[Cardinality({m \in kept : m <= i})] = all[i]
    <3> HIDE DEF all, kept
    <3> QED BY <2>2, <2>3
  <2> QED BY <2>4 DEF KeyIsResolved, PathOf, AllParts, r, all, kept, key
<1> QED BY <1>1, TextsTyped, PTL
=============================================================================
