------------------------------ MODULE EdgeProofs ------------------------------
(***************************************************************************)
(* Proofs about Edge, for every value of its constants: any domains and    *)
(* hosts, any number of requests in flight, any clock and any ages.        *)
(***************************************************************************)
EXTENDS Edge, TLAPS

-----------------------------------------------------------------------------
(* The inductive invariant. *)

Own(host) == IF host \in Subs THEN host ELSE PointsTo[host]

\* The answer is of a kind that the target may be answered with, and tells no other domain's pin.
Fits(t, answer) ==
    /\ answer.kind \in IF t.path # "/" THEN {"config", "notFound"}
                       ELSE IF t.method = "HEAD" THEN {"urn", "notFound"}
                       ELSE {"shell", "notFound"}
    /\ answer.pin # None => answer.sub = Own(t.host)

\* An entry of the edge fits its key, is kept no longer than it may be, and tells of a row that was
\* read no longer before it was stored than a request takes.
EntryInv(k) ==
    /\ Fits(k, edge[k].answer)
    /\ edge[k].stored <= clock
    /\ Fresh(edge[k], clock)
    /\ edge[k].answer.kind # "shell" => edge[k].stored - edge[k].answer.read <= Latency

\* A request that is under way is young, and looks at the row of the domain its host is of.
UnderWay(q) ==
    /\ q.target \in Targets
    /\ q.at <= q.read /\ q.read <= clock /\ clock - q.at <= Latency
    /\ q.sub # None => q.sub = Own(q.target.host)
    /\ q.sub = None => q.row = None
    /\ q.stage = "pointer" => q.target.host \in Customs /\ q.sub = None
    /\ q.stage = "row" => q.sub # None

\* One that is answered has a fitting answer, of a row that was read a bounded time ago.
WellAnswered(q) ==
    /\ q.target \in Targets /\ q.answer \in Answers
    /\ Fits(q.target, q.answer)
    /\ q.answer.kind # "shell" => q.at - q.answer.read < ConfigAge + Latency

RequestInv(q) ==
    /\ q.stage \in {"pointer", "row", "respond"} => UnderWay(q)
    /\ q.stage = "answered" => WellAnswered(q)

IInv ==
    /\ TypeOK
    /\ \A k \in DOMAIN edge : EntryInv(k)
    /\ \A r \in Requests : RequestInv(req[r])

-----------------------------------------------------------------------------
(* Lemmas about the handlers. *)

LEMMA IdleIsFine == Idle \in Reqs /\ RequestInv(Idle)
BY EdgeAssumption DEF Idle, Reqs, Stages, Times, RequestInv

\* Only an answer with the status "active", or a URN, tells a pin; it is that of the row.
LEMMA BodyOfRequest ==
    ASSUME NEW q \in Reqs, UnderWay(q)
    PROVE  /\ Body(q).kind \in {"shell", "config", "urn", "notFound"}
           /\ Body(q).status \in (Statuses \ {"reserved"}) \cup {"available", None}
           /\ Body(q).pin \in Pins \cup {None}
           /\ Body(q).pin # None => q.sub = Own(q.target.host)
           /\ Fits(q.target, [kind |-> Body(q).kind, status |-> Body(q).status, pin |-> None,
                              sub |-> None, read |-> 0])
<1> DEFINE head == head_urn_for(q.row, clock)
           config == config_json_for(q.row, clock)
           none == [kind |-> "notFound", status |-> None, pin |-> None]
<1>0. q.target \in Targets /\ q.row \in Rows \cup {None} /\ (q.row # None => q.sub = Own(q.target.host))
  BY DEF Reqs, UnderWay
<1>1. ASSUME NEW row \in Rows
      PROVE  row.status \in Statuses /\ row.pin \in Pins
  BY <1>1 DEF Rows, Statuses
<1>2. /\ head.kind \in {"urn", "notFound"} /\ head.status = None /\ head.pin \in Pins \cup {None}
      /\ head.pin # None => q.row # None
  BY <1>0, <1>1 DEF head_urn_for
<1>3. /\ render_for(q.row, clock) \in (Statuses \ {"reserved"}) \cup {"available"}
      /\ render_for(q.row, clock) = "active" => q.row # None
  BY <1>0, <1>1 DEF render_for, Statuses
<1>4. /\ config.kind = "config" /\ config.status \in (Statuses \ {"reserved"}) \cup {"available"}
      /\ config.pin \in Pins \cup {None} /\ (config.pin # None => q.row # None)
  BY <1>0, <1>1, <1>3 DEF config_json_for
<1> HIDE DEF head, config
<1>5. CASE q.target.method = "HEAD" /\ q.target.path = "/"
  <2>1. Body(q) = head
    BY <1>5 DEF Body, head
  <2> QED BY <1>0, <1>2, <1>5, <2>1 DEF Fits
<1>6. CASE ~(q.target.method = "HEAD" /\ q.target.path = "/") /\ q.sub = None
  <2>1. Body(q) = none
    BY <1>6 DEF Body
  <2> QED BY <1>6, <2>1 DEF Fits
<1>7. CASE q.target.path # "/" /\ q.sub # None
  <2>1. Body(q) = config
    BY <1>7 DEF Body, config
  <2> QED BY <1>0, <1>4, <1>7, <2>1 DEF Fits
<1>8. CASE q.target.path = "/" /\ q.target.method # "HEAD" /\ q.sub # None
  <2>1. Body(q) = [none EXCEPT !.kind = "shell"]
    BY <1>8 DEF Body
  <2> QED BY <1>8, <2>1 DEF Fits
<1> QED BY <1>5, <1>6, <1>7, <1>8

\* Nothing but the shell is kept for longer than config.json.
LEMMA AgeOfAnswer ==
    ASSUME NEW answer
    PROVE  /\ MaxAge(answer) \in Nat
           /\ answer.kind # "shell" => MaxAge(answer) <= ConfigAge
BY EdgeAssumption DEF MaxAge

-----------------------------------------------------------------------------
(* The steps. *)

\* One request moves, and nothing else.
LEMMA RequestMoves ==
    ASSUME IInv, NEW r \in Requests, NEW q \in Reqs, RequestInv(q),
           req' = [req EXCEPT ![r] = q], UNCHANGED <<clock, rows, attached, edge>>
    PROVE  IInv'
<1>1. TypeOK'
  BY DEF IInv, TypeOK
<1>2. \A x \in Requests : req'[x] = IF x = r THEN q ELSE req[x]
  BY DEF IInv, TypeOK
<1>3. \A x \in Requests : RequestInv(req'[x])
  BY <1>2 DEF IInv
<1>4. \A x \in Requests : RequestInv(req[x])'
  BY <1>3 DEF RequestInv, UnderWay, WellAnswered, Fits
<1>5. \A k \in DOMAIN edge' : EntryInv(k)'
  BY DEF IInv, EntryInv, Fresh, MaxAge, Fits
<1> QED BY <1>1, <1>4, <1>5 DEF IInv

LEMMA HitStep ==
    ASSUME IInv, NEW r \in Requests, NEW t \in Asked, Hit(r, t)
    PROVE  IInv'
<1> DEFINE answer == edge[t].answer
           q == [req[r] EXCEPT !.stage = "answered", !.target = t, !.at = clock, !.answer = answer]
<1>1. /\ req' = [req EXCEPT ![r] = q] /\ UNCHANGED <<clock, rows, attached, edge>>
      /\ t \in DOMAIN edge /\ t \in Targets
  BY EdgeAssumption DEF Hit, Kept, CacheKey, IInv, TypeOK
<1>2. answer \in Answers /\ edge[t].stored \in Times /\ clock \in Times /\ EntryInv(t)
  BY <1>1 DEF IInv, TypeOK
<1>3. q \in Reqs
  BY <1>1, <1>2 DEF IInv, TypeOK, Reqs, Stages
<1>4. answer.kind # "shell" => clock - answer.read < ConfigAge + Latency
  BY <1>2, AgeOfAnswer, EdgeAssumption DEF EntryInv, Fresh, Times, Answers
<1>5. q.stage = "answered" /\ q.target = t /\ q.at = clock /\ q.answer = answer
  BY <1>1 DEF IInv, TypeOK, Reqs
<1>6. RequestInv(q)
  BY <1>1, <1>2, <1>4, <1>5 DEF RequestInv, WellAnswered, EntryInv
<1> QED BY <1>1, <1>3, <1>6, RequestMoves

LEMMA MissStep ==
    ASSUME IInv, NEW r \in Requests, NEW t \in Asked, Miss(r, t)
    PROVE  IInv'
<1> DEFINE own == t.host \in Subs
           stage == IF ~own THEN "pointer" ELSE IF ReadsRow(t) THEN "row" ELSE "respond"
           sub == IF own THEN t.host ELSE None
           q == [Idle EXCEPT !.stage = stage, !.target = t, !.sub = sub, !.at = clock, !.read = clock]
<1>1. req' = [req EXCEPT ![r] = q] /\ UNCHANGED <<clock, rows, attached, edge>>
  BY DEF Miss
<1>2. t \in Targets /\ t.host \in Hosts /\ clock \in Times
  BY EdgeAssumption DEF IInv, TypeOK, Targets
<1>3. stage \in {"pointer", "row", "respond"} /\ sub \in Subs \cup {None}
  OBVIOUS
<1>4. /\ stage = "pointer" => t.host \in Customs /\ sub = None
      /\ stage = "row" => sub # None
      /\ sub # None => sub = Own(t.host)
  BY <1>2, EdgeAssumption DEF Hosts, Own
<1> HIDE DEF stage, sub
<1>5. /\ q.stage = stage /\ q.target = t /\ q.sub = sub /\ q.row = None
      /\ q.at = clock /\ q.read = clock
  BY DEF Idle
<1>6. q \in Reqs
  BY <1>2, <1>3, IdleIsFine DEF Reqs, Stages
<1> HIDE DEF q
<1>7. UnderWay(q)
  BY <1>2, <1>4, <1>5, EdgeAssumption DEF UnderWay, Times
<1> QED BY <1>1, <1>3, <1>5, <1>6, <1>7, RequestMoves DEF RequestInv

LEMMA ReadPointerStep ==
    ASSUME IInv, NEW r \in Requests, ReadPointer(r)
    PROVE  IInv'
<1> DEFINE host == req[r].target.host
           stage == IF ReadsRow(req[r].target) THEN "row" ELSE "respond"
           found == [req[r] EXCEPT !.stage = stage, !.sub = PointsTo[host]]
           missed == [req[r] EXCEPT !.stage = "respond", !.read = clock]
<1>1. /\ req' = [req EXCEPT ![r] = found] \/ req' = [req EXCEPT ![r] = missed]
      /\ UNCHANGED <<clock, rows, attached, edge>> /\ req[r].stage = "pointer"
  BY DEF ReadPointer
<1>2. req[r] \in Reqs /\ UnderWay(req[r]) /\ clock \in Times /\ host \in Customs
  BY <1>1 DEF IInv, TypeOK, RequestInv, UnderWay
<1>3. PointsTo[host] \in Subs /\ PointsTo[host] = Own(host) /\ PointsTo[host] # None
  BY <1>2, EdgeAssumption DEF Own
<1>4. found \in Reqs /\ missed \in Reqs
  BY <1>2, <1>3 DEF Reqs, Stages
<1>5. UnderWay(found) /\ found.stage \in {"row", "respond"}
  BY <1>2, <1>3 DEF UnderWay, Reqs
<1>6. UnderWay(missed) /\ missed.stage = "respond"
  BY <1>1, <1>2 DEF UnderWay, Reqs, Times
<1> HIDE DEF found, missed
<1>7. RequestInv(found) /\ RequestInv(missed)
  BY <1>5, <1>6 DEF RequestInv
<1> QED BY <1>1, <1>4, <1>7, RequestMoves

LEMMA ReadRowStep ==
    ASSUME IInv, NEW r \in Requests, ReadRow(r)
    PROVE  IInv'
<1>1. PICK got \in {rows[req[r].sub], None} :
        req' = [req EXCEPT ![r] = [@ EXCEPT !.stage = "respond", !.row = got, !.read = clock]]
  BY DEF ReadRow
<1> DEFINE q == [req[r] EXCEPT !.stage = "respond", !.row = got, !.read = clock]
<1>2. /\ req' = [req EXCEPT ![r] = q] /\ req[r].stage = "row"
      /\ UNCHANGED <<clock, rows, attached, edge>>
  BY <1>1 DEF ReadRow
<1>3. req[r] \in Reqs /\ UnderWay(req[r]) /\ clock \in Times
  BY <1>2 DEF IInv, TypeOK, RequestInv
<1>4. req[r].sub \in Subs /\ req[r].sub # None
  BY <1>2, <1>3 DEF UnderWay, Reqs
<1>5. got \in Rows \cup {None}
  BY <1>4 DEF IInv, TypeOK
<1>6. q \in Reqs
  BY <1>3, <1>5 DEF Reqs, Stages
<1>7. UnderWay(q) /\ q.stage = "respond"
  BY <1>3, <1>4 DEF UnderWay, Reqs, Times
<1> HIDE DEF q
<1> QED BY <1>2, <1>6, <1>7, RequestMoves DEF RequestInv

\* An answer goes to the viewer and, unless it may not be kept, to the edge.
LEMMA RespondStep ==
    ASSUME IInv, NEW r \in Requests, Respond(r)
    PROVE  IInv'
<1> DEFINE q == req[r]
           b == Body(q)
           static == b.kind = "shell"
           read == IF static THEN clock ELSE q.read
           answer == [kind |-> b.kind, status |-> b.status, pin |-> b.pin,
                      sub |-> IF static THEN None ELSE q.sub, read |-> read]
           done == [q EXCEPT !.stage = "answered", !.answer = answer, !.row = None, !.at = clock]
           entry == [answer |-> answer, stored |-> clock]
<1>1. /\ Store(q.target, answer) /\ req' = [req EXCEPT ![r] = done] /\ q.stage = "respond"
      /\ UNCHANGED <<clock, rows, attached>>
  BY DEF Respond
<1>2. q \in Reqs /\ UnderWay(q) /\ clock \in Times /\ q.target \in Targets
  BY <1>1 DEF IInv, TypeOK, RequestInv, UnderWay
<1>3. /\ b.kind \in {"shell", "config", "urn", "notFound"}
      /\ b.status \in (Statuses \ {"reserved"}) \cup {"available", None}
      /\ b.pin \in Pins \cup {None} /\ (b.pin # None => q.sub = Own(q.target.host))
      /\ Fits(q.target, [kind |-> b.kind, status |-> b.status, pin |-> None, sub |-> None, read |-> 0])
  BY <1>2, BodyOfRequest
<1>4. static => b.pin = None
  <2>1. ASSUME static PROVE b = [kind |-> "shell", status |-> None, pin |-> None]
    BY <2>1 DEF Body, head_urn_for, config_json_for
  <2> QED BY <2>1
<1> HIDE DEF b
<1>5. answer \in Answers
  BY <1>2, <1>3 DEF Answers, Reqs
<1>6. Fits(q.target, answer)
  BY <1>3, <1>4 DEF Fits
<1>7. answer.read \in Nat /\ clock \in Nat /\ clock - answer.read <= Latency /\ Latency \in Nat
  BY <1>2, EdgeAssumption DEF UnderWay, Reqs, Times
<1>8. done \in Reqs /\ done.stage = "answered" /\ done.target = q.target /\ done.answer = answer
      /\ done.at = clock
  BY <1>2, <1>5 DEF Reqs, Stages
<1> HIDE DEF answer, done, q
<1>9. WellAnswered(done)
  BY <1>2, <1>5, <1>6, <1>7, <1>8, EdgeAssumption DEF WellAnswered
<1>10. /\ \A k \in DOMAIN edge' : k \in Targets /\ edge'[k].answer \in Answers /\ edge'[k].stored \in Times
       /\ \A k \in DOMAIN edge' : EntryInv(k)'
  <2>1. CASE MaxAge(answer) = 0
    <3>1. edge' = edge
      BY <1>1, <2>1 DEF Store
    <3> QED BY <1>1, <3>1 DEF IInv, TypeOK, EntryInv, Fresh, MaxAge, Fits
  <2>2. CASE MaxAge(answer) # 0
    <3>0. PICK t \in Targets : t = q.target
      BY <1>2
    <3>1. /\ DOMAIN edge' = DOMAIN edge \cup {t}
          /\ \A k \in DOMAIN edge' : edge'[k] = IF k = t THEN entry ELSE edge[k]
      BY <1>1, <2>2, <3>0 DEF Store, CacheKey
    <3>2. ASSUME NEW k \in DOMAIN edge', k # t
          PROVE  EntryInv(k)' /\ k \in Targets /\ edge'[k].answer \in Answers /\ edge'[k].stored \in Times
      <4>1. k \in DOMAIN edge /\ edge'[k] = edge[k]
        BY <3>1, <3>2
      <4> QED BY <1>1, <4>1 DEF IInv, TypeOK, EntryInv, Fresh, MaxAge, Fits
    <3>3. EntryInv(t)' /\ edge'[t] = entry
      <4>1. edge'[t] = entry /\ edge'[t].answer = answer /\ edge'[t].stored = clock
        BY <3>1
      <4>2. MaxAge(answer) \in Nat /\ MaxAge(answer) > 0
        BY <2>2, AgeOfAnswer
      <4>3. clock' - edge'[t].stored < MaxAge(edge'[t].answer)
        BY <1>1, <1>7, <4>1, <4>2
      <4>4. Fits(t, edge'[t].answer)
        BY <1>6, <3>0, <4>1
      <4>5. /\ edge'[t].stored <= clock'
            /\ edge'[t].stored - edge'[t].answer.read <= Latency
        BY <1>1, <1>7, <4>1
      <4> QED BY <4>1, <4>3, <4>4, <4>5 DEF EntryInv, Fresh, MaxAge, Fits
    <3> QED BY <1>2, <1>5, <3>1, <3>2, <3>3
  <2> QED BY <2>1, <2>2
<1>11. TypeOK'
  BY <1>1, <1>8, <1>10 DEF IInv, TypeOK
<1>12. ASSUME NEW x \in Requests PROVE RequestInv(req[x])'
  <2>1. CASE x = r
    <3>1. req'[x] = done
      BY <1>1, <2>1 DEF IInv, TypeOK
    <3> QED BY <1>8, <1>9, <3>1 DEF RequestInv, WellAnswered, Fits
  <2>2. CASE x # r
    <3>1. req'[x] = req[x]
      BY <1>1, <2>2 DEF IInv, TypeOK
    <3> QED BY <1>1, <1>12, <3>1 DEF IInv, RequestInv, UnderWay, WellAnswered, Fits
  <2> QED BY <2>1, <2>2
<1> QED BY <1>10, <1>11, <1>12 DEF IInv

\* The clock waits for requests that have used up their time, and the edge drops what is too old.
LEMMA TickStep == IInv /\ Tick => IInv'
<1> SUFFICES ASSUME IInv, Tick PROVE IInv'
  OBVIOUS
<1>1. /\ clock' = clock + 1 /\ clock \in Times /\ clock' \in Times
      /\ UNCHANGED <<rows, attached, req>>
  BY EdgeAssumption DEF Tick, IInv, TypeOK, Times
<1>2. /\ DOMAIN edge' = {k \in DOMAIN edge : Fresh(edge[k], clock + 1)}
      /\ \A k \in DOMAIN edge' : edge'[k] = edge[k]
  BY DEF Tick, Restrict
<1>3. TypeOK'
  BY <1>1, <1>2 DEF IInv, TypeOK
<1>4. ASSUME NEW k \in DOMAIN edge' PROVE EntryInv(k)'
  BY <1>1, <1>2, <1>4 DEF IInv, TypeOK, EntryInv, Fresh, MaxAge, Fits, Times
<1>5. ASSUME NEW r \in Requests PROVE RequestInv(req[r])'
  <2>1. CASE r \in InFlight
    <3>1. clock - req[r].at < Latency /\ UnderWay(req[r])
      BY <1>5, <2>1 DEF Tick, IInv, RequestInv, InFlight
    <3>2. req[r] \in Reqs /\ Latency \in Nat
      BY <1>5, EdgeAssumption DEF IInv, TypeOK
    <3>3. UnderWay(req[r])'
      BY <1>1, <3>1, <3>2 DEF UnderWay, Reqs, Times
    <3> QED BY <1>1, <2>1, <3>3 DEF RequestInv, InFlight
  <2>2. CASE r \notin InFlight
    BY <1>1, <1>5, <2>2 DEF IInv, RequestInv, InFlight, WellAnswered, Fits
  <2> QED BY <2>1, <2>2
<1> QED BY <1>3, <1>4, <1>5 DEF IInv

LEMMA InitInvariant == Init => IInv
<1> SUFFICES ASSUME Init PROVE IInv
  OBVIOUS
<1>1. DOMAIN edge = {} /\ clock \in Times
  BY EdgeAssumption DEF Init, Times
<1>2. TypeOK
  BY <1>1, IdleIsFine DEF Init, TypeOK
<1> QED BY <1>1, <1>2, IdleIsFine DEF Init, IInv

LEMMA NextInvariant == IInv /\ [Next]_vars => IInv'
<1> SUFFICES ASSUME IInv, [Next]_vars PROVE IInv'
  OBVIOUS
<1>1. CASE UNCHANGED vars
  BY <1>1 DEF vars, IInv, TypeOK, EntryInv, Fresh, MaxAge, RequestInv, UnderWay, WellAnswered, Fits
<1>2. ASSUME NEW s \in Subs, NEW row \in Rows \cup {None}, SetRow(s, row) PROVE IInv'
  BY <1>2 DEF SetRow, IInv, TypeOK, EntryInv, Fresh, MaxAge, RequestInv, UnderWay, WellAnswered, Fits
<1>3. ASSUME NEW c \in Customs, Attach(c) PROVE IInv'
  BY <1>3 DEF Attach, IInv, TypeOK, EntryInv, Fresh, MaxAge, RequestInv, UnderWay, WellAnswered, Fits
<1>4. CASE Invalidate
  <2>1. DOMAIN edge' = {}
    BY <1>4 DEF Invalidate
  <2> QED BY <1>4, <2>1 DEF Invalidate, IInv, TypeOK, RequestInv, UnderWay, WellAnswered, Fits
<1>5. CASE Tick
  BY <1>5, TickStep
<1>6. ASSUME NEW r \in Requests, ReadPointer(r) \/ ReadRow(r) \/ Respond(r) PROVE IInv'
  BY <1>6, ReadPointerStep, ReadRowStep, RespondStep
<1>7. ASSUME NEW r \in Requests, Done(r) PROVE IInv'
  BY <1>7, IdleIsFine, RequestMoves DEF Done
<1>8. ASSUME NEW r \in Requests, NEW t \in Asked, Hit(r, t) \/ Miss(r, t) PROVE IInv'
  BY <1>8, HitStep, MissStep
<1> QED BY <1>1, <1>2, <1>3, <1>4, <1>5, <1>6, <1>7, <1>8 DEF Next

\* The invariant holds in every reachable state.
THEOREM Invariance == Spec => []IInv
<1> QED BY InitInvariant, NextInvariant, PTL DEF Spec

-----------------------------------------------------------------------------
\* Every variable of the resolver and its edge cache keeps its type.
THEOREM EdgeTypeCorrect == Spec => []TypeOK
<1>1. IInv => TypeOK
  BY DEF IInv
<1> QED BY <1>1, Invariance, PTL

\* Behind the edge cache of cloudfront.tf no request is ever answered with what belongs to another
\* method or path.
THEOREM EdgeAnswersFit == Spec => []AnswersFitTheRequest
<1>1. IInv => AnswersFitTheRequest
  BY DEF IInv, RequestInv, WellAnswered, Fits, AnswersFitTheRequest, Answered
<1> QED BY <1>1, Invariance, PTL

\* No host is ever told what another domain pins, whether bootstrap.rs or the edge answers.
THEOREM EdgePinsOwn == Spec => []PinOfItsHost
<1>1. IInv => PinOfItsHost
  BY DEF IInv, RequestInv, WellAnswered, Fits, Own, PinOfItsHost, Answered
<1> QED BY <1>1, Invariance, PTL

\* What a viewer is told of a row was read less than config.json's max-age and one request's time
\* ago, whatever the rows, the reads and the invalidations do.
THEOREM EdgeAnswersFresh == Spec => []AnswersFresh
<1>1. IInv => AnswersFresh
  BY DEF IInv, RequestInv, WellAnswered, AnswersFresh, Answered
<1> QED BY <1>1, Invariance, PTL

\* The HEAD handler and config.json decide of one row alike at any time, reserved rows that have run
\* out included.
LEMMA HeadAgrees ==
    ASSUME NEW row, NEW now
    PROVE  /\ head_urn_for(row, now).pin = config_json_for(row, now).pin
           /\ head_urn_for(row, now).kind = "urn" <=> config_json_for(row, now).status = "active"
<1>1. CASE row = None \/ is_reclaimable(row, now)
  BY <1>1 DEF head_urn_for, config_json_for, render_for
<1>2. CASE ~(row = None \/ is_reclaimable(row, now)) /\ row.status = "active"
  BY <1>2 DEF head_urn_for, config_json_for, render_for
<1>3. CASE ~(row = None \/ is_reclaimable(row, now)) /\ row.status # "active"
  BY <1>3 DEF head_urn_for, config_json_for, render_for
<1> QED BY <1>1, <1>2, <1>3

\* head_urn_for and config_json_for of lib.rs test a row's hold and status separately; whatever
\* hub.dig.net writes and whenever it is read, no row is live to one of them and not to the other.
THEOREM EdgeHeadAgreesWithConfig == Spec => []HeadAgreesWithConfig
<1>1. TypeOK => HeadAgreesWithConfig
  BY HeadAgrees DEF HeadAgreesWithConfig
<1> QED BY <1>1, EdgeTypeCorrect, PTL
=============================================================================
