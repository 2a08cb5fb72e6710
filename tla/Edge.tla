--------------------------------- MODULE Edge ---------------------------------
(***************************************************************************)
(* The resolver Lambda (lib.rs, domain.rs, bin/bootstrap.rs) behind its    *)
(* edge cache (infra/cloudfront.tf): what a viewer is answered while the   *)
(* domain rows change, reads of them fail, and answers are kept.           *)
(*                                                                         *)
(* A request reads the pointer of a custom host and the row of the domain  *)
(* at two different times, answers later still, and the edge keeps the     *)
(* answer for as long as its Cache-Control says.  Time is counted in ticks *)
(* of the clock that the ages below are multiples of.                      *)
(***************************************************************************)
EXTENDS Naturals, FiniteSets, Functions

CONSTANTS
    None,
    Subs,        \* subdomains of on.dig.net
    Customs,     \* hosts of other domains
    PointsTo,    \* PointsTo[c]: the subdomain that custom host c is attached to
    Pins,        \* what an active row pins: a store and a root
    Requests,    \* requests in flight together
    Latency,     \* a request is answered, or fails, within so many ticks
    ConfigAge,   \* max-age of config.json (30 s)
    ShellAge,    \* max-age of the loader shell (300 s)
    ErrorAge,    \* for how long CloudFront keeps a 404 whatever its headers say (10 s unless set)
    MaxClock,    \* bound on the clock
    Until,       \* when the holds of reserved names may end (a bound for TLC)
    Unsteady,    \* the domains whose rows change (a bound for TLC)
    Asked        \* the targets that viewers ask for (a bound for TLC)

Hosts == Subs \cup Customs
Times == 0 .. MaxClock

\* A row: its status, what it pins, and, of a reserved name, until when it is held.
Statuses == {"reserved", "pending", "active", "expired", "revoked"}
Rows == [status : Statuses \ {"reserved"}, pin : Pins, until : {None}]
        \cup [status : {"reserved"}, pin : Pins, until : Until]

Paths == {"/", "/__dig/config.json"}
Methods == {"GET", "HEAD"}
Targets == [host : Hosts, path : Paths, method : Methods]

\* An answer: what it is, the status and the pin it tells, and where and when that was read.
Answers ==
    [kind : {"shell", "config", "urn", "notFound"},
     status : (Statuses \ {"reserved"}) \cup {"available", None}, pin : Pins \cup {None},
     sub : Subs \cup {None}, read : Times]

Stages == {"idle", "pointer", "row", "respond", "answered"}

\* A request: how far it is, what for, the subdomain and the row it found, its times, its answer.
Reqs ==
    [stage : Stages, target : Targets \cup {None}, sub : Subs \cup {None}, row : Rows \cup {None},
     at : Times, read : Times, answer : Answers \cup {None}]

ASSUME EdgeAssumption ==
    /\ Subs \cap Customs = {} /\ PointsTo \in [Customs -> Subs]
    /\ Unsteady \subseteq Subs /\ Asked \subseteq Targets /\ Until \subseteq Times
    /\ {Latency, ShellAge, MaxClock} \subseteq Nat
    /\ ConfigAge \in Nat \ {0} /\ ErrorAge \in 0 .. ConfigAge
    /\ None \notin Subs \cup Pins \cup Times \cup Rows \cup Targets \cup Answers

VARIABLES
    clock,
    rows,      \* the rows that hub.dig.net writes, None where there is none
    attached,  \* the custom hosts whose pointer is active
    edge,      \* the answers that the edge keeps, by cache key, with the time they were stored
    req        \* the requests; at: when one began, and then when it was answered

vars == <<clock, rows, attached, edge, req>>

Idle ==
    [stage |-> "idle", target |-> None, sub |-> None, row |-> None, at |-> 0, read |-> 0,
     answer |-> None]

Init ==
    /\ clock = 0
    /\ rows \in [Subs -> Rows \cup {None}]
    /\ \A s \in Subs \ Unsteady : rows[s] # None /\ rows[s].status = "active"
    /\ attached = {}
    /\ edge = <<>>
    /\ req = [r \in Requests |-> Idle]

-----------------------------------------------------------------------------
(* lib.rs *******************************************************************)

is_reclaimable(row, now) == row.status = "reserved" /\ now > row.until

\* render_for and status_str.
render_for(row, now) ==
    IF row = None \/ is_reclaimable(row, now) THEN "available"
    ELSE IF row.status = "reserved" THEN "pending" ELSE row.status

config_json_for(row, now) ==
    LET status == render_for(row, now)
    IN  [kind |-> "config", status |-> status, pin |-> IF status = "active" THEN row.pin ELSE None]

\* Mutant: only what was taken down is hidden.
head_urn_unless_revoked(row, now) ==
    IF row = None \/ is_reclaimable(row, now) \/ row.status = "revoked"
    THEN [kind |-> "notFound", status |-> None, pin |-> None]
    ELSE [kind |-> "urn", status |-> None, pin |-> row.pin]

head_urn_for(row, now) ==
    IF row = None \/ is_reclaimable(row, now) \/ row.status # "active"
    THEN [kind |-> "notFound", status |-> None, pin |-> None]
    ELSE [kind |-> "urn", status |-> None, pin |-> row.pin]

-----------------------------------------------------------------------------
(* cloudfront.tf ************************************************************)

\* Mutant: GET and HEAD share an entry, as they do by default.
KeyWithoutMethod(t) == [t EXCEPT !.method = "GET"]

\* Mutant: a static page is the same for every host, so why not keep one.
KeyWithoutHost(t) == [t EXCEPT !.host = CHOOSE h \in Hosts : TRUE]

\* x-dig-host, path and x-dig-method.
CacheKey(t) == t

\* Mutant: whatever has no max-age is kept for as long as the policy allows.
DefaultAge(answer) == IF answer.kind = "config" THEN ConfigAge ELSE ShellAge

\* Cache-Control, within the policy's min_ttl of 0 and max_ttl of 300 s.  A URN is no-store; so is a
\* 404, but the distribution has no custom_error_response, and errors are kept for a minimum then.
MaxAge(answer) ==
    CASE answer.kind = "shell" -> ShellAge
      [] answer.kind = "config" -> ConfigAge
      [] answer.kind = "notFound" -> ErrorAge
      [] OTHER -> 0

Kept(t) == CacheKey(t) \in DOMAIN edge

Fresh(entry, now) == now - entry.stored < MaxAge(entry.answer)

Store(t, answer) ==
    edge' = IF MaxAge(answer) = 0 THEN edge
            ELSE [k \in DOMAIN edge \cup {CacheKey(t)} |->
                     IF k = CacheKey(t) THEN [answer |-> answer, stored |-> clock] ELSE edge[k]]

-----------------------------------------------------------------------------
(* A request ****************************************************************)

InFlight == {r \in Requests : req[r].stage \in {"pointer", "row", "respond"}}

\* The edge answers from what it keeps.
Hit(r, t) ==
    /\ req[r].stage = "idle" /\ Kept(t)
    /\ req' = [req EXCEPT ![r] = [@ EXCEPT !.stage = "answered", !.target = t, !.at = clock,
                                           !.answer = edge[CacheKey(t)].answer]]
    /\ UNCHANGED <<clock, rows, attached, edge>>

\* Only HEAD / and config.json read the row.
ReadsRow(t) == t.method = "HEAD" \/ t.path # "/"

\* Or asks the resolver: a subdomain is its own name, another host has a pointer to one.
Miss(r, t) ==
    /\ req[r].stage = "idle" /\ ~Kept(t)
    /\ LET own == t.host \in Subs
       IN  req' = [req EXCEPT ![r] =
                     [Idle EXCEPT !.stage = IF ~own THEN "pointer"
                                            ELSE IF ReadsRow(t) THEN "row" ELSE "respond",
                                  !.target = t, !.sub = IF own THEN t.host ELSE None,
                                  !.at = clock, !.read = clock]]
    /\ UNCHANGED <<clock, rows, attached, edge>>

\* resolve_custom_host: a read that fails is a host that nobody attached.
ReadPointer(r) ==
    /\ req[r].stage = "pointer"
    /\ \/ /\ req[r].target.host \in attached
          /\ req' = [req EXCEPT ![r] =
                       [@ EXCEPT !.stage = IF ReadsRow(req[r].target) THEN "row" ELSE "respond",
                                 !.sub = PointsTo[req[r].target.host]]]
       \/ req' = [req EXCEPT ![r] = [@ EXCEPT !.stage = "respond", !.read = clock]]
    /\ UNCHANGED <<clock, rows, attached, edge>>

\* read_domain: a read that fails is a domain that does not exist.
ReadRow(r) ==
    /\ req[r].stage = "row"
    /\ \E got \in {rows[req[r].sub], None} :
          req' = [req EXCEPT ![r] = [@ EXCEPT !.stage = "respond", !.row = got, !.read = clock]]
    /\ UNCHANGED <<clock, rows, attached, edge>>

Body(q) ==
    LET none == [kind |-> "notFound", status |-> None, pin |-> None]
    IN  IF q.target.method = "HEAD" /\ q.target.path = "/" THEN head_urn_for(q.row, clock)
        ELSE IF q.sub = None THEN none
        ELSE IF q.target.path # "/" THEN config_json_for(q.row, clock)
        ELSE [none EXCEPT !.kind = "shell"]

Respond(r) ==
    /\ req[r].stage = "respond"
    /\ LET q == req[r]
           b == Body(q)
           static == b.kind = "shell"  \* the same for every host, and never out of date
           answer == [kind |-> b.kind, status |-> b.status, pin |-> b.pin,
                      sub |-> IF static THEN None ELSE q.sub,
                      read |-> IF static THEN clock ELSE q.read]
       IN  /\ Store(q.target, answer)
           /\ req' = [req EXCEPT ![r] = [@ EXCEPT !.stage = "answered", !.answer = answer,
                                                  !.row = None, !.at = clock]]
    /\ UNCHANGED <<clock, rows, attached>>

\* The viewer has the answer, or the Lambda died or was too slow.
Done(r) ==
    /\ req[r].stage # "idle"
    /\ req' = [req EXCEPT ![r] = Idle]
    /\ UNCHANGED <<clock, rows, attached, edge>>

(* The others ***************************************************************)

SetRow(s, row) ==
    /\ s \in Unsteady /\ rows[s] # row
    /\ rows' = [rows EXCEPT ![s] = row]
    /\ UNCHANGED <<clock, attached, edge, req>>

Attach(c) ==
    /\ attached' = IF c \in attached THEN attached \ {c} ELSE attached \cup {c}
    /\ UNCHANGED <<clock, rows, edge, req>>

\* The watcher's invalidation; the answers that are under way are stored afterwards.
Invalidate ==
    /\ edge # <<>>
    /\ edge' = <<>>
    /\ UNCHANGED <<clock, rows, attached, req>>

Tick ==
    /\ clock < MaxClock
    /\ \A r \in InFlight : clock - req[r].at < Latency
    /\ clock' = clock + 1
    /\ edge' = Restrict(edge, {k \in DOMAIN edge : Fresh(edge[k], clock + 1)})
    /\ UNCHANGED <<rows, attached, req>>

Next ==
    \/ Tick \/ Invalidate
    \/ \E s \in Subs, row \in Rows \cup {None} : SetRow(s, row)
    \/ \E c \in Customs : Attach(c)
    \/ \E r \in Requests :
          \/ ReadPointer(r) \/ ReadRow(r) \/ Respond(r) \/ Done(r)
          \/ \E t \in Asked : Hit(r, t) \/ Miss(r, t)

Spec == Init /\ [][Next]_vars

-----------------------------------------------------------------------------
TypeOK ==
    /\ clock \in Times
    /\ rows \in [Subs -> Rows \cup {None}]
    /\ attached \subseteq Customs
    /\ DOMAIN edge \subseteq Targets
    /\ \A k \in DOMAIN edge : edge[k].answer \in Answers /\ edge[k].stored \in Times
    /\ req \in [Requests -> Reqs]

Answered == {r \in Requests : req[r].stage = "answered"}

\* Whatever was asked before, by whom and with which method: HEAD / is answered with a URN or 404,
\* GET / never with either but a 404 for a host that is nobody's, config.json with a status.
AnswersFitTheRequest ==
    \A r \in Answered :
        LET t == req[r].target
            kind == req[r].answer.kind
        IN  IF t.path # "/" THEN kind \in {"config", "notFound"}
            ELSE IF t.method = "HEAD" THEN kind \in {"urn", "notFound"}
            ELSE kind \in {"shell", "notFound"}

\* A pin that is told is the pin of the domain that the host is of.
PinOfItsHost ==
    \A r \in Answered :
        req[r].answer.pin # None =>
            LET h == req[r].target.host
            IN  req[r].answer.sub = IF h \in Subs THEN h ELSE PointsTo[h]

\* However a row was read, and also when it was not: what a viewer is told of it was read no longer
\* ago than config.json may be kept and a request may take.
AnswersFresh ==
    \A r \in Answered :
        req[r].answer.kind # "shell" => req[r].at - req[r].answer.read < ConfigAge + Latency

\* HEAD / and config.json never disagree about whether a domain is live, or what it pins, at one time
\* and of one row, however near the end of a reservation.
HeadAgreesWithConfig ==
    \A s \in Subs :
        LET config == config_json_for(rows[s], clock)
            head == head_urn_for(rows[s], clock)
        IN  head.pin = config.pin /\ (head.kind = "urn" <=> config.status = "active")
=============================================================================
