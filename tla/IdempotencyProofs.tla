-------------------------- MODULE IdempotencyProofs --------------------------
(***************************************************************************)
(* Proofs about idempotency keys, for any number of keys, bodies, requests *)
(* and rows, and for operations with and without a check before the key.   *)
(***************************************************************************)
EXTENDS Idempotency, TLAPS

----------------------------------------------------------------------------
(* The inductive invariant *)

UnderOwn(r) == request[r].pc \in UnderReservation

\* Ids are handed out once: rows, requests and writes know only those up to
\* lastId, and no two rows and no two reservations share one.
IdsKnown ==
  /\ \A k \in Keys : record[k] # None => record[k].id <= lastId
  /\ \A r \in Requests : /\ Running(r) => request[r].id <= lastId
                         /\ UnderOwn(r) => request[r].id # 0
  /\ \A n \in DOMAIN executed : executed[n].id <= lastId
IdsDistinct ==
  /\ \A k, l \in Keys : record[k] # None /\ record[l] # None /\ record[k].id = record[l].id => k = l
  /\ \A r, s \in Requests : UnderOwn(r) /\ UnderOwn(s) /\ request[r].id = request[s].id => r = s

\* What a request takes over is stale, and stays so.
ReplacesStale == \A r \in Requests : request[r].pc = "replace" => request[r].id \in expired

\* Nothing is written under a reservation before it executes, and what a
\* request drops hides no write that it has seen.
WritesFollowExecute ==
  \A r \in Requests, n \in DOMAIN executed :
    /\ request[r].pc = "execute" => executed[n].id # request[r].id
    /\ request[r].pc = "drop" /\ executed[n].id = request[r].id =>
         ~executed[n].seen /\ request[r].verdict = "failed"
VerdictsNegative ==
  \A r \in Requests : request[r].pc = "drop" => request[r].verdict \in {"refused", "failed"}

\* A write that was seen keeps the row of its key until that expires.
SeenKeepsRow ==
  \A n \in DOMAIN executed : executed[n].seen /\ executed[n].id \notin expired =>
    record[executed[n].key] # None /\ record[executed[n].key].id = executed[n].id

\* A response, stored or about to be, is that of a write for its key and body.
Reports(n, k, b) == n \in DOMAIN executed /\ executed[n].key = k /\ executed[n].body = b
ResponsesReport ==
  /\ \A k \in Keys : record[k] # None /\ record[k].status = "COMPLETED" =>
       Reports(record[k].response, k, record[k].body)
  /\ \A r \in Requests : request[r].pc = "complete" =>
       Reports(request[r].response, request[r].key, request[r].body)

\* What a client was told stays stored until it expires.
AckStored ==
  \A a \in acked : a.id \notin expired =>
    record[a.key] = [id |-> a.id, body |-> a.body, status |-> "COMPLETED", response |-> a.response]
KnownAcked ==
  \A r \in Requests : Running(r) => request[r].known \subseteq
    {a \in acked : a.key = request[r].key /\ a.body = request[r].body}

PrecheckFirst == \A r \in Requests : request[r].pc = "precheck" => request[r].id = 0 /\ Prechecks

KeyInv ==
  /\ TypeOK
  /\ IdsKnown
  /\ IdsDistinct
  /\ ReservationHeld
  /\ ReplacesStale
  /\ WritesFollowExecute
  /\ VerdictsNegative
  /\ SeenKeepsRow
  /\ ResponsesReport
  /\ AckStored
  /\ KnownAcked
  /\ PrecheckFirst
  /\ RepeatsExplained

----------------------------------------------------------------------------
(* Requests *)

LEMMA ServingType ==
  ASSUME TypeOK, NEW r \in Requests, Running(r)
  PROVE  request[r] \in Serving
BY DEF TypeOK, Running, Answer

LEMMA UnderOwnRuns ==
  ASSUME NEW r \in Requests, UnderOwn(r)
  PROVE  Running(r)
BY DEF UnderOwn, UnderReservation, Running

\* What a request becomes when it moves, and only then changes id or response.
Moved(q, pc, id, response, verdict) ==
  [pc |-> pc, key |-> q.key, body |-> q.body, id |-> id, response |-> response,
   verdict |-> verdict, known |-> q.known]

LEMMA GoToMoves ==
  ASSUME TypeOK, NEW r \in Requests, Running(r), NEW pc, GoTo(r, pc)
  PROVE  request' = [request EXCEPT ![r] =
           Moved(request[r], pc, request[r].id, request[r].response, request[r].verdict)]
<1> DEFINE q == request[r]
<1>1. q \in Serving
  BY ServingType
<1>2. [q EXCEPT !.pc = pc] = Moved(q, pc, q.id, q.response, q.verdict)
  BY <1>1 DEF Moved, Serving
<1>3. request' = [request EXCEPT ![r] = [q EXCEPT !.pc = pc]]
  BY DEF GoTo
<1> QED
  BY <1>2, <1>3

LEMMA MoveId ==
  ASSUME TypeOK, NEW r \in Requests, Running(r), NEW pc, NEW x,
         request' = [request EXCEPT ![r].pc = pc, ![r].id = x]
  PROVE  request' = [request EXCEPT ![r] = Moved(request[r], pc, x, request[r].response, request[r].verdict)]
<1> DEFINE q == request[r]
           q1 == [q EXCEPT !.pc = pc]
<1>1. q \in Serving
  BY ServingType
<1>2. q1 = [pc |-> pc, key |-> q.key, body |-> q.body, id |-> q.id, response |-> q.response,
            verdict |-> q.verdict, known |-> q.known]
  BY <1>1 DEF Serving
<1>3. request' = [request EXCEPT ![r] = [q1 EXCEPT !.id = x]]
  BY DEF TypeOK
<1> HIDE DEF q1
<1>4. [q1 EXCEPT !.id = x] = Moved(q, pc, x, q.response, q.verdict)
  BY <1>2 DEF Moved
<1> QED
  BY <1>3, <1>4

LEMMA MoveResponse ==
  ASSUME TypeOK, NEW r \in Requests, Running(r), NEW pc, NEW x,
         request' = [request EXCEPT ![r].pc = pc, ![r].response = x]
  PROVE  request' = [request EXCEPT ![r] = Moved(request[r], pc, request[r].id, x, request[r].verdict)]
<1> DEFINE q == request[r]
           q1 == [q EXCEPT !.pc = pc]
<1>1. q \in Serving
  BY ServingType
<1>2. q1 = [pc |-> pc, key |-> q.key, body |-> q.body, id |-> q.id, response |-> q.response,
            verdict |-> q.verdict, known |-> q.known]
  BY <1>1 DEF Serving
<1>3. request' = [request EXCEPT ![r] = [q1 EXCEPT !.response = x]]
  BY DEF TypeOK
<1> HIDE DEF q1
<1>4. [q1 EXCEPT !.response = x] = Moved(q, pc, q.id, x, q.verdict)
  BY <1>2 DEF Moved
<1> QED
  BY <1>3, <1>4

LEMMA MoveVerdict ==
  ASSUME TypeOK, NEW r \in Requests, Running(r), NEW x,
         request' = [request EXCEPT ![r].pc = "drop", ![r].verdict = x]
  PROVE  request' = [request EXCEPT ![r] = Moved(request[r], "drop", request[r].id, request[r].response, x)]
<1> DEFINE q == request[r]
           q1 == [q EXCEPT !.pc = "drop"]
<1>1. q \in Serving
  BY ServingType
<1>2. q1 = [pc |-> "drop", key |-> q.key, body |-> q.body, id |-> q.id, response |-> q.response,
            verdict |-> q.verdict, known |-> q.known]
  BY <1>1 DEF Serving
<1>3. request' = [request EXCEPT ![r] = [q1 EXCEPT !.verdict = x]]
  BY DEF TypeOK
<1> HIDE DEF q1
<1>4. [q1 EXCEPT !.verdict = x] = Moved(q, "drop", q.id, q.response, x)
  BY <1>2 DEF Moved
<1> QED
  BY <1>3, <1>4

LEMMA FinishEffect ==
  ASSUME TypeOK, NEW r \in Requests, NEW outcome \in Outcomes, NEW n \in Nat, Finish(r, outcome, n)
  PROVE  /\ request' \in [Requests -> Serving \cup Answer]
         /\ request'[r] = [pc |-> "answered", outcome |-> outcome, response |-> n]
         /\ request'[r].pc = "answered"
         /\ \A s \in Requests \ {r} : request'[s] = request[s]
BY DEF TypeOK, Finish, Answer

----------------------------------------------------------------------------
(* The steps that change no table *)

tables == <<record, lastId, expired, executed, ended, acked>>

\* A request that is answered, or that goes on without a reservation, or on to
\* its drop, keeps the invariant.
LEMMA QuietStep ==
  ASSUME KeyInv, UNCHANGED tables, NEW r \in Requests, NEW q \in Serving \cup Answer,
         request' = [request EXCEPT ![r] = q],
         q.pc \notin {"execute", "complete"},
         q.pc # "answered" =>
           /\ q.id <= lastId
           /\ q.known \subseteq {a \in acked : a.key = q.key /\ a.body = q.body},
         q.pc = "precheck" => q.id = 0 /\ Prechecks,
         q.pc = "replace" => q.id \in expired,
         q.pc = "drop" =>
           /\ request[r].pc = "execute"
           /\ q.key = request[r].key /\ q.body = request[r].body /\ q.id = request[r].id
           /\ q.verdict \in {"refused", "failed"}
  PROVE  KeyInv'
<1> DEFINE old == request[r]
<1>1. TypeOK /\ request'[r] = q /\ \A s \in Requests \ {r} : request'[s] = request[s]
  BY DEF KeyInv, TypeOK
<1>2. TypeOK'
  BY <1>1 DEF TypeOK, tables
<1>4. \A s \in Requests : UnderOwn(s)' =>
        UnderOwn(s) /\ request'[s].id = request[s].id /\ request'[s].key = request[s].key
          /\ request'[s].body = request[s].body
  BY <1>1 DEF UnderOwn, UnderReservation
<1>3. IdsKnown'
  BY <1>1, <1>4 DEF KeyInv, IdsKnown, Running, tables
<1>5. IdsDistinct'
  BY <1>4 DEF KeyInv, IdsDistinct, tables
<1>6. ReservationHeld'
  BY <1>4 DEF KeyInv, ReservationHeld, UnderOwn, Reserved, tables
<1>7. ReplacesStale' /\ VerdictsNegative' /\ PrecheckFirst'
  BY <1>1 DEF KeyInv, ReplacesStale, VerdictsNegative, PrecheckFirst, tables
<1>8. WritesFollowExecute'
  BY <1>1 DEF KeyInv, WritesFollowExecute, tables
<1>9. SeenKeepsRow' /\ AckStored' /\ RepeatsExplained'
  BY DEF KeyInv, SeenKeepsRow, AckStored, RepeatsExplained, tables
<1>10. ResponsesReport'
  BY <1>1 DEF KeyInv, ResponsesReport, Reports, tables
<1>11. KnownAcked'
  BY <1>1 DEF KeyInv, KnownAcked, Running, tables
<1> QED
  BY <1>2, <1>3, <1>5, <1>6, <1>7, <1>8, <1>9, <1>10, <1>11 DEF KeyInv

LEMMA FinishPreserves ==
  ASSUME KeyInv, UNCHANGED tables, NEW r \in Requests, NEW outcome \in Outcomes, NEW n \in Nat,
         Finish(r, outcome, n)
  PROVE  KeyInv'
<1> DEFINE q == [pc |-> "answered", outcome |-> outcome, response |-> n]
<1>1. q \in Answer /\ q.pc = "answered"
  BY DEF Answer
<1>2. request' = [request EXCEPT ![r] = q]
  BY DEF Finish
<1> HIDE DEF q
<1> QED
  BY <1>1, <1>2, QuietStep

\* Moves between the steps before a reservation.
LEMMA ForwardPreserves ==
  ASSUME KeyInv, UNCHANGED tables, NEW r \in Requests, Running(r),
         NEW pc \in {"reserve", "lookup", "reserveAgain"}, GoTo(r, pc)
  PROVE  KeyInv'
<1> DEFINE q == request[r]
           next == Moved(q, pc, q.id, q.response, q.verdict)
<1>1. TypeOK /\ q \in Serving
  BY ServingType DEF KeyInv
<1>2. q.id \in Ids \cup {0} /\ q.response \in Nat /\ q.verdict \in Outcomes
  BY <1>1 DEF Serving
<1>3. /\ next \in Serving /\ next.pc = pc /\ next.key = q.key /\ next.body = q.body
      /\ next.id = q.id /\ next.known = q.known
  BY <1>1, <1>2 DEF Moved, Serving
<1>4. request' = [request EXCEPT ![r] = next]
  BY <1>1, GoToMoves
<1>5. q.id <= lastId /\ q.known \subseteq {a \in acked : a.key = q.key /\ a.body = q.body}
  BY DEF KeyInv, IdsKnown, KnownAcked
<1> HIDE DEF next, q
<1> QED
  BY <1>3, <1>4, <1>5, QuietStep

LEMMA ArrivePreserves ==
  ASSUME KeyInv, NEW r \in Requests, NEW k \in Keys, NEW b \in Bodies, Arrive(r, k, b)
  PROVE  KeyInv'
<1> DEFINE known == {a \in acked : a.key = k /\ a.body = b}
           pc == IF Prechecks THEN "precheck" ELSE "reserve"
           q == [pc |-> pc, key |-> k, body |-> b, id |-> 0, response |-> 0,
                 verdict |-> "none", known |-> known]
<1>1. known \in SUBSET Ack /\ pc \in {"precheck", "reserve"} /\ (pc = "precheck" => Prechecks)
  BY DEF KeyInv, TypeOK
<1>2. request' = [request EXCEPT ![r] = q] /\ UNCHANGED tables
  BY DEF Arrive, tables
<1>3. 0 <= lastId
  BY IdempotencyAssumption DEF KeyInv, TypeOK
<1> HIDE DEF pc
<1>4. /\ q \in Serving /\ q.pc = pc /\ q.id = 0
      /\ q.known \subseteq {a \in acked : a.key = q.key /\ a.body = q.body}
  <2>1. q.known = known /\ q.key = k /\ q.body = b /\ q.pc = pc /\ q.id = 0
    OBVIOUS
  <2>2. q \in Serving
    <3> HIDE DEF known
    <3> QED
      BY <1>1 DEF Serving, Outcomes
  <2> QED
    BY <2>1, <2>2
<1> HIDE DEF q
<1> QED
  BY <1>1, <1>2, <1>3, <1>4, QuietStep

\* An expired row is what a request goes on to replace; any other answers it.
LEMMA LookupPreserves ==
  ASSUME KeyInv, NEW r \in Requests, Lookup(r)
  PROVE  KeyInv'
<1> DEFINE q == request[r]
           row == record[q.key]
<1>1. TypeOK /\ Running(r) /\ UNCHANGED tables
  BY DEF KeyInv, Lookup, Running, tables
<1>2. q \in Serving /\ (row # None => row \in Row)
  BY <1>1, ServingType DEF TypeOK, Serving
<1>3. CASE row = None /\ GoTo(r, "reserveAgain")
  BY <1>1, <1>3, ForwardPreserves
<1>4. CASE /\ row # None /\ Stale(row)
           /\ request' = [request EXCEPT ![r].pc = "replace", ![r].id = row.id]
  <2> DEFINE next == Moved(q, "replace", row.id, q.response, q.verdict)
  <2>1. row.id \in Ids /\ q.response \in Nat /\ q.verdict \in Outcomes
    BY <1>2, <1>4 DEF Row, Serving
  <2>2. /\ next \in Serving /\ next.pc = "replace" /\ next.id = row.id
        /\ next.key = q.key /\ next.body = q.body /\ next.known = q.known
    BY <1>2, <2>1 DEF Moved, Serving
  <2>3. request' = [request EXCEPT ![r] = next]
    BY <1>1, <1>4, MoveId
  <2>4. row.id \in expired /\ row.id <= lastId
    BY <1>2, <1>4 DEF Stale, KeyInv, IdsKnown, Serving
  <2>5. q.known \subseteq {a \in acked : a.key = q.key /\ a.body = q.body}
    BY <1>1 DEF KeyInv, KnownAcked
  <2> HIDE DEF next, q, row
  <2> QED
    BY <1>1, <2>2, <2>3, <2>4, <2>5, QuietStep
<1>5. CASE row # None /\ row.status = "COMPLETED" /\ Finish(r, "replayed", row.response)
  BY <1>1, <1>2, <1>5, FinishPreserves DEF Row, Outcomes
<1>6. CASE Finish(r, "keyReuse", 0) \/ Finish(r, "inProgress", 0)
  BY <1>1, <1>6, FinishPreserves DEF Outcomes
<1> QED
  BY <1>3, <1>4, <1>5, <1>6 DEF Lookup

\* Refused work wrote nothing under its reservation.
LEMMA RefusePreserves ==
  ASSUME KeyInv, NEW r \in Requests, Refuse(r)
  PROVE  KeyInv'
<1> DEFINE q == request[r]
<1>1. TypeOK /\ Running(r) /\ UNCHANGED tables /\ q.pc = "execute"
  BY DEF KeyInv, Refuse, Running, tables
<1>2. q \in Serving
  BY <1>1, ServingType
<1>3. PICK v \in {"refused", "failed"} :
        request' = [request EXCEPT ![r].pc = "drop", ![r].verdict = v]
  BY DEF Refuse
<1> DEFINE next == Moved(q, "drop", q.id, q.response, v)
<1>4. q.id \in Ids \cup {0} /\ q.response \in Nat /\ v \in Outcomes
  BY <1>2 DEF Serving, Outcomes
<1>5. /\ next \in Serving /\ next.pc = "drop" /\ next.id = q.id /\ next.verdict = v
      /\ next.key = q.key /\ next.body = q.body /\ next.known = q.known
  BY <1>2, <1>4 DEF Moved, Serving
<1>6. request' = [request EXCEPT ![r] = next]
  <2>1. TypeOK /\ Running(r)
    BY <1>1
  <2>2. request' = [request EXCEPT ![r].pc = "drop", ![r].verdict = v]
    BY <1>3
  <2>3. request' = [request EXCEPT ![r] = Moved(request[r], "drop", request[r].id, request[r].response, v)]
    BY <2>1, <2>2, MoveVerdict
  <2> QED
    BY <2>3
<1>7. q.id <= lastId /\ q.known \subseteq {a \in acked : a.key = q.key /\ a.body = q.body}
  BY <1>1 DEF KeyInv, IdsKnown, KnownAcked
<1> HIDE DEF next
<1> QED
  BY <1>1, <1>5, <1>6, <1>7, QuietStep

----------------------------------------------------------------------------
(* Reserving *)

LEMMA ReservedType ==
  ASSUME NEW id \in Ids, NEW body \in Bodies
  PROVE  /\ Reserved(id, body) \in Row /\ Reserved(id, body) # None
         /\ Reserved(id, body).id = id /\ Reserved(id, body).body = body
         /\ Reserved(id, body).status = "IN_PROGRESS"
BY IdempotencyAssumption DEF Reserved, Row, Statuses

\* What a request under a reservation of its own can rely on.
LEMMA OwnReservation ==
  ASSUME KeyInv, NEW r \in Requests, UnderOwn(r)
  PROVE  LET q == request[r] IN
         /\ q \in Serving /\ q.id \in Ids /\ q.id <= lastId /\ q.id \notin expired
         /\ record[q.key] = Reserved(q.id, q.body) /\ record[q.key] # None
         /\ record[q.key].id = q.id /\ record[q.key].body = q.body
         /\ record[q.key].status = "IN_PROGRESS"
<1> DEFINE q == request[r]
<1>1. TypeOK /\ q \in Serving /\ Running(r)
  BY ServingType, UnderOwnRuns DEF KeyInv
<1>2. q.id \in Ids /\ q.id <= lastId /\ q.body \in Bodies
  BY <1>1 DEF KeyInv, IdsKnown, Serving
<1>3. record[q.key] = Reserved(q.id, q.body) /\ q.id \notin expired
  BY DEF KeyInv, ReservationHeld, UnderOwn
<1> QED
  BY <1>1, <1>2, <1>3, ReservedType

\* A reservation is made where nothing is, or over what is stale: no other
\* request is under a reservation of the key, and nothing that was seen to be
\* written and has not expired is forgotten.
LEMMA InsertPreserves ==
  ASSUME KeyInv, NEW r \in Requests, Running(r), ~UnderOwn(r), Insert(r),
         record[request[r].key] = None \/ record[request[r].key].id \in expired
  PROVE  KeyInv'
<1> DEFINE q == request[r]
           n == lastId + 1
           new == Reserved(n, q.body)
           next == Moved(q, "execute", n, q.response, q.verdict)
<1>1. TypeOK /\ q \in Serving /\ lastId \in Nat /\ lastId < MaxRows
  BY ServingType, IdempotencyAssumption DEF KeyInv, TypeOK, Insert
<1>2. /\ lastId' = n /\ record' = [record EXCEPT ![q.key] = new]
      /\ request' = [request EXCEPT ![r].pc = "execute", ![r].id = n]
      /\ UNCHANGED <<expired, executed, ended, acked>>
  BY DEF Insert
<1>3. n \in Ids /\ n \notin expired /\ q.key \in Keys /\ q.body \in Bodies
      /\ q.response \in Nat /\ q.verdict \in Outcomes
  BY <1>1, IdempotencyAssumption DEF TypeOK, Ids, Serving
<1>4. new \in Row /\ new # None /\ new.id = n /\ new.body = q.body /\ new.status = "IN_PROGRESS"
  BY <1>3, ReservedType
<1>5. /\ record'[q.key] = new /\ \A k \in Keys \ {q.key} : record'[k] = record[k]
      /\ record' \in [Keys -> Row \cup {None}]
  BY <1>1, <1>2, <1>3, <1>4 DEF TypeOK
<1>6. /\ next \in Serving /\ next.pc = "execute" /\ next.id = n
      /\ next.key = q.key /\ next.body = q.body /\ next.known = q.known
  BY <1>1, <1>3 DEF Moved, Serving
<1>7. /\ request'[r] = next /\ \A s \in Requests \ {r} : request'[s] = request[s]
      /\ request' \in [Requests -> Serving \cup Answer]
  <2>1. request' = [request EXCEPT ![r] = next]
    BY <1>1, <1>2, MoveId
  <2> HIDE DEF next
  <2> QED
    BY <1>1, <1>6, <2>1 DEF TypeOK
<1>8. \A s \in Requests : UnderOwn(s) => request[s].key # q.key
  BY OwnReservation
<1>9. /\ \A k \in Keys : record[k] # None => record[k].id # n /\ record[k].id \in Nat
      /\ \A s \in Requests : Running(s) => request[s].id # n /\ request[s].id \in Nat
      /\ \A i \in DOMAIN executed : executed[i].id # n /\ executed[i].id \in Nat
                                    /\ executed[i].key \in Keys
  <2>1. \A k \in Keys : record[k] # None => record[k].id \in Nat /\ record[k].id <= lastId
    BY <1>1 DEF KeyInv, IdsKnown, TypeOK, Row, Ids
  <2>2. \A s \in Requests : Running(s) => request[s].id \in Nat /\ request[s].id <= lastId
    BY <1>1, ServingType DEF KeyInv, IdsKnown, Serving, Ids
  <2>3. \A i \in DOMAIN executed : executed[i] \in Write /\ executed[i].id <= lastId
    BY <1>1 DEF KeyInv, IdsKnown, TypeOK
  <2> QED
    BY <1>1, <2>1, <2>2, <2>3 DEF Write, Ids
<1> HIDE DEF new, next
<1>10. TypeOK'
  BY <1>1, <1>2, <1>3, <1>5, <1>7 DEF TypeOK, Ids
<1>11. \A s \in Requests \ {r} : (UnderOwn(s)' <=> UnderOwn(s)) /\ (Running(s)' <=> Running(s))
  BY <1>7 DEF UnderOwn, Running
<1>12. IdsKnown'
  BY <1>1, <1>2, <1>4, <1>5, <1>6, <1>7, <1>9, <1>11 DEF KeyInv, IdsKnown
<1>13. IdsDistinct'
  <2>1. \A k \in Keys \ {q.key} : record'[k] # None => record'[k].id # n
    BY <1>5, <1>9
  <2>2. \A s \in Requests \ {r} : UnderOwn(s)' => request'[s].id # n
    BY <1>7, <1>9, <1>11, UnderOwnRuns
  <2>3. \A k, l \in Keys : record'[k] # None /\ record'[l] # None /\ record'[k].id = record'[l].id => k = l
    BY <1>4, <1>5, <2>1 DEF KeyInv, IdsDistinct
  <2>4. \A s, t \in Requests : UnderOwn(s)' /\ UnderOwn(t)' /\ request'[s].id = request'[t].id => s = t
    BY <1>6, <1>7, <1>11, <2>2 DEF KeyInv, IdsDistinct
  <2> QED
    BY <2>3, <2>4 DEF IdsDistinct
<1>14. ReservationHeld'
  <2> SUFFICES ASSUME NEW s \in Requests, request'[s].pc \in UnderReservation
               PROVE  /\ record'[request'[s].key] = Reserved(request'[s].id, request'[s].body)
                      /\ request'[s].id \notin expired'
    BY DEF ReservationHeld
  <2>1. CASE s = r
    BY <1>2, <1>3, <1>5, <1>6, <1>7, <2>1 DEF new
  <2>2. CASE s # r
    <3>1. UnderOwn(s) /\ request'[s] = request[s]
      BY <1>7, <2>2 DEF UnderOwn
    <3>2. request[s].key \in Keys \ {q.key}
      BY <1>8, <3>1, OwnReservation DEF Serving
    <3> QED
      BY <1>2, <1>5, <3>1, <3>2, OwnReservation
  <2> QED
    BY <2>1, <2>2
<1>15. ReplacesStale' /\ VerdictsNegative' /\ PrecheckFirst'
  BY <1>2, <1>6, <1>7 DEF KeyInv, ReplacesStale, VerdictsNegative, PrecheckFirst
<1>16. WritesFollowExecute'
  BY <1>2, <1>6, <1>7, <1>9 DEF KeyInv, WritesFollowExecute
<1>17. SeenKeepsRow'
  BY <1>2, <1>5, <1>9 DEF KeyInv, SeenKeepsRow
<1>18. ResponsesReport'
  BY <1>2, <1>4, <1>5, <1>6, <1>7 DEF KeyInv, ResponsesReport, Reports
<1>19. AckStored'
  <2> SUFFICES ASSUME NEW a \in acked, a.id \notin expired
               PROVE  record'[a.key] = [id |-> a.id, body |-> a.body, status |-> "COMPLETED",
                                        response |-> a.response]
    BY <1>2 DEF AckStored
  <2> DEFINE stored == [id |-> a.id, body |-> a.body, status |-> "COMPLETED", response |-> a.response]
  <2>1. record[a.key] = stored /\ a \in Ack
    BY <1>1 DEF KeyInv, AckStored, TypeOK
  <2>2. a.key \in Keys /\ stored \in Row /\ stored.id = a.id
    BY <2>1 DEF Ack, Row, Statuses
  <2>3. stored # None
    BY <2>2, IdempotencyAssumption
  <2> HIDE DEF stored
  <2>4. a.key # q.key
    BY <2>1, <2>2, <2>3
  <2>5. record'[a.key] = stored
    BY <1>5, <2>1, <2>2, <2>4
  <2> QED
    BY <2>5 DEF stored
<1>20. KnownAcked'
  BY <1>2, <1>6, <1>7, <1>11 DEF KeyInv, KnownAcked
<1>21. RepeatsExplained'
  BY <1>2 DEF KeyInv, RepeatsExplained
<1> QED
  BY <1>10, <1>12, <1>13, <1>14, <1>15, <1>16, <1>17, <1>18, <1>19, <1>20, <1>21 DEF KeyInv

----------------------------------------------------------------------------
(* Executing *)

\* The first write of its reservation, for the key whose row it holds.
LEMMA ExecutePreserves ==
  ASSUME KeyInv, NEW r \in Requests, Execute(r) \/ ExecuteUnseen(r)
  PROVE  KeyInv'
<1> DEFINE q == request[r]
           n == Len(executed) + 1
<1>1. PICK seen \in BOOLEAN : Executes(r, seen) /\ (seen => Execute(r)) /\ (~seen => ExecuteUnseen(r))
  BY DEF Execute, ExecuteUnseen
<1> DEFINE write == [key |-> q.key, body |-> q.body, id |-> q.id, seen |-> seen]
<1>2. TypeOK /\ UnderOwn(r) /\ Running(r) /\ q.pc = "execute"
  BY <1>1 DEF KeyInv, Executes, UnderOwn, UnderReservation, Running
<1>3. /\ q \in Serving /\ q.id \in Ids /\ q.id <= lastId /\ q.id \notin expired
      /\ record[q.key] # None /\ record[q.key].id = q.id
      /\ q.key \in Keys /\ q.body \in Bodies /\ q.response \in Nat /\ q.verdict \in Outcomes
  BY <1>2, OwnReservation DEF Serving
<1>4. /\ write \in Write /\ write.key = q.key /\ write.body = q.body /\ write.id = q.id
      /\ write.seen = seen
  BY <1>3 DEF Write
<1>5. executed' = Append(executed, write) /\ UNCHANGED <<record, lastId, expired, ended, acked>>
  BY <1>1 DEF Executes, Execute, ExecuteUnseen
<1> HIDE DEF write
<1>6. /\ executed \in Seq(Write) /\ executed' \in Seq(Write) /\ Len(executed) \in Nat
      /\ DOMAIN executed = 1..Len(executed) /\ DOMAIN executed' = 1..n
      /\ executed'[n] = write /\ \A i \in DOMAIN executed : executed'[i] = executed[i]
  BY <1>2, <1>4, <1>5 DEF TypeOK
<1> DEFINE next == IF seen THEN Moved(q, "complete", q.id, n, q.verdict)
                           ELSE Moved(q, "drop", q.id, q.response, "failed")
<1>7. /\ next \in Serving /\ next.id = q.id /\ next.known = q.known
      /\ next.key = q.key /\ next.body = q.body
      /\ seen => next.pc = "complete" /\ next.response = n
      /\ ~seen => next.pc = "drop" /\ next.verdict = "failed"
  <2>1. CASE seen
    BY <1>3, <1>6, <2>1 DEF Moved, Serving
  <2>2. CASE ~seen
    BY <1>3, <2>2 DEF Moved, Serving, Outcomes
  <2> QED
    BY <2>1, <2>2
<1>8. request' = [request EXCEPT ![r] = next]
  <2>1. CASE seen
    <3>1. request' = [request EXCEPT ![r].pc = "complete", ![r].response = n]
      BY <1>1, <2>1 DEF Execute
    <3> QED
      BY <1>2, <2>1, <3>1, MoveResponse
  <2>2. CASE ~seen
    <3>1. request' = [request EXCEPT ![r].pc = "drop", ![r].verdict = "failed"]
      BY <1>1, <2>2 DEF ExecuteUnseen
    <3> QED
      BY <1>2, <2>2, <3>1, MoveVerdict
  <2> QED
    BY <2>1, <2>2
<1> HIDE DEF next
<1>9. /\ request'[r] = next /\ \A s \in Requests \ {r} : request'[s] = request[s]
      /\ request' \in [Requests -> Serving \cup Answer]
  BY <1>2, <1>7, <1>8 DEF TypeOK
<1>10. \A s \in Requests : (UnderOwn(s)' <=> UnderOwn(s)) /\ (Running(s)' <=> Running(s))
  BY <1>2, <1>7, <1>9 DEF UnderOwn, Running, UnderReservation
<1>11. \A s \in Requests : UnderOwn(s) => /\ request'[s].key = request[s].key
                                          /\ request'[s].body = request[s].body
                                          /\ request'[s].id = request[s].id
  BY <1>7, <1>9
<1>12. \A s \in Requests \ {r} : UnderOwn(s) => request[s].id # q.id
  BY <1>2 DEF KeyInv, IdsDistinct
<1>13. TypeOK'
  BY <1>2, <1>5, <1>6, <1>9 DEF TypeOK
<1>14. IdsKnown'
  BY <1>3, <1>4, <1>5, <1>6, <1>7, <1>9, <1>10, <1>11 DEF KeyInv, IdsKnown
<1>15. IdsDistinct'
  BY <1>5, <1>10, <1>11 DEF KeyInv, IdsDistinct
<1>16. ReservationHeld'
  BY <1>5, <1>10, <1>11 DEF KeyInv, ReservationHeld, UnderOwn, Reserved
<1>17. ReplacesStale' /\ VerdictsNegative' /\ PrecheckFirst'
  BY <1>5, <1>7, <1>9 DEF KeyInv, ReplacesStale, VerdictsNegative, PrecheckFirst
<1>18. WritesFollowExecute'
  <2> SUFFICES ASSUME NEW s \in Requests, NEW i \in 1..n
               PROVE  /\ request'[s].pc = "execute" => executed'[i].id # request'[s].id
                      /\ request'[s].pc = "drop" /\ executed'[i].id = request'[s].id =>
                           ~executed'[i].seen /\ request'[s].verdict = "failed"
    BY <1>6 DEF WritesFollowExecute
  <2>1. CASE i = n
    <3>1. CASE s = r
      BY <1>4, <1>6, <1>7, <1>9, <2>1, <3>1
    <3>2. CASE s # r
      BY <1>4, <1>6, <1>9, <1>12, <2>1, <3>2 DEF UnderOwn, UnderReservation
    <3> QED
      BY <3>1, <3>2
  <2>2. CASE i # n
    <3>1. i \in DOMAIN executed /\ executed'[i] = executed[i]
      BY <1>6, <2>2
    <3>2. executed[i].id # q.id
      BY <1>2, <3>1 DEF KeyInv, WritesFollowExecute
    <3> QED
      BY <1>7, <1>9, <3>1, <3>2 DEF KeyInv, WritesFollowExecute
  <2> QED
    BY <2>1, <2>2
<1>19. SeenKeepsRow'
  <2> SUFFICES ASSUME NEW i \in 1..n, executed'[i].seen, executed'[i].id \notin expired
               PROVE  record[executed'[i].key] # None
                      /\ record[executed'[i].key].id = executed'[i].id
    BY <1>5, <1>6 DEF SeenKeepsRow
  <2>1. CASE i = n
    BY <1>3, <1>4, <1>6, <2>1
  <2>2. CASE i # n
    BY <1>6, <2>2 DEF KeyInv, SeenKeepsRow
  <2> QED
    BY <2>1, <2>2
<1>20. ResponsesReport'
  <2>1. \A k \in Keys : record[k] # None /\ record[k].status = "COMPLETED" =>
          Reports(record[k].response, k, record[k].body)'
    BY <1>5, <1>6 DEF KeyInv, ResponsesReport, Reports
  <2>2. ASSUME NEW s \in Requests, request'[s].pc = "complete"
        PROVE  Reports(request[s].response, request[s].key, request[s].body)'
    <3>1. CASE s = r
      BY <1>4, <1>6, <1>7, <1>9, <2>2, <3>1 DEF Reports
    <3>2. CASE s # r
      BY <1>6, <1>9, <2>2, <3>2 DEF KeyInv, ResponsesReport, Reports
    <3> QED
      BY <3>1, <3>2
  <2> QED
    BY <1>5, <2>1, <2>2 DEF ResponsesReport
<1>21. AckStored' /\ KnownAcked'
  BY <1>2, <1>5, <1>7, <1>9, <1>10 DEF KeyInv, AckStored, KnownAcked
<1>22. RepeatsExplained'
  <2> SUFFICES ASSUME NEW i \in 1..n, NEW j \in 1..n, i < j, executed'[i].key = executed'[j].key
               PROVE  /\ executed'[i].id # executed'[j].id
                      /\ executed'[i].id \in expired \/ ~executed'[i].seen
    BY <1>5, <1>6 DEF RepeatsExplained
  <2>1. i \in DOMAIN executed /\ executed'[i] = executed[i]
    BY <1>6
  <2>2. CASE j = n
    <3>1. executed[i].id # q.id
      BY <1>2, <2>1 DEF KeyInv, WritesFollowExecute
    <3>2. executed[i].key = q.key
      BY <1>4, <1>6, <2>1, <2>2
    <3>3. executed[i].id \in expired \/ ~executed[i].seen
      BY <1>3, <2>1, <3>1, <3>2 DEF KeyInv, SeenKeepsRow
    <3> QED
      BY <1>4, <1>6, <2>1, <2>2, <3>1, <3>3
  <2>3. CASE j # n
    <3>1. j \in DOMAIN executed /\ executed'[j] = executed[j]
      BY <1>6, <2>3
    <3> QED
      BY <2>1, <3>1 DEF KeyInv, RepeatsExplained
  <2> QED
    BY <2>2, <2>3
<1> QED
  BY <1>13, <1>14, <1>15, <1>16, <1>17, <1>18, <1>19, <1>20, <1>21, <1>22 DEF KeyInv

----------------------------------------------------------------------------
(* Completing and dropping *)

\* A step that answers a request under a reservation and settles its row: the
\* row is completed with the response of a write, or dropped when no write that
\* was seen depends on it.
LEMMA SettlePreserves ==
  ASSUME KeyInv, NEW r \in Requests, UnderOwn(r), NEW row \in Row \cup {None},
         record' = [record EXCEPT ![request[r].key] = row],
         NEW outcome \in Outcomes, NEW answered \in Nat, Finish(r, outcome, answered),
         UNCHANGED <<lastId, expired, executed, ended>>,
         row # None =>
           /\ row.id = request[r].id
           /\ row.status = "COMPLETED" => Reports(row.response, request[r].key, row.body),
         row = None =>
           \A n \in DOMAIN executed : executed[n].id = request[r].id => ~executed[n].seen,
         NEW ack \in SUBSET Ack, acked' = acked \cup ack,
         \A a \in ack : a.key = request[r].key /\
           row = [id |-> a.id, body |-> a.body, status |-> "COMPLETED", response |-> a.response]
  PROVE  KeyInv'
<1> DEFINE q == request[r]
<1>1. TypeOK
  BY DEF KeyInv
<1>2. /\ q.key \in Keys /\ q.id \in Ids /\ q.id <= lastId
      /\ record[q.key] # None /\ record[q.key].id = q.id /\ record[q.key].status = "IN_PROGRESS"
  BY OwnReservation DEF Serving
<1>3. /\ record'[q.key] = row /\ \A k \in Keys \ {q.key} : record'[k] = record[k]
      /\ record' \in [Keys -> Row \cup {None}]
  BY <1>1, <1>2 DEF TypeOK
<1>4. /\ request' \in [Requests -> Serving \cup Answer] /\ request'[r].pc = "answered"
      /\ \A s \in Requests \ {r} : request'[s] = request[s]
  BY <1>1, FinishEffect
<1>5. TypeOK'
  BY <1>1, <1>3, <1>4 DEF TypeOK
<1>6. \A s \in Requests : UnderOwn(s)' => s # r /\ UnderOwn(s) /\ request'[s] = request[s]
  BY <1>4 DEF UnderOwn, UnderReservation
<1>7. \A s \in Requests : Running(s)' => s # r /\ Running(s) /\ request'[s] = request[s]
  BY <1>4 DEF Running
<1>8. \A s \in Requests \ {r} : UnderOwn(s) => request[s].key # q.key
  <2> SUFFICES ASSUME NEW s \in Requests \ {r}, UnderOwn(s), request[s].key = q.key PROVE FALSE
    OBVIOUS
  <2>1. request[s].id = q.id
    BY <1>2, OwnReservation
  <2> QED
    BY <2>1 DEF KeyInv, IdsDistinct
<1>9. IdsKnown'
  BY <1>2, <1>3, <1>6, <1>7 DEF KeyInv, IdsKnown
<1>10. IdsDistinct'
  <2>1. \A k, l \in Keys : record'[k] # None /\ record'[l] # None /\ record'[k].id = record'[l].id => k = l
    BY <1>2, <1>3 DEF KeyInv, IdsDistinct
  <2> QED
    BY <1>6, <2>1 DEF KeyInv, IdsDistinct
<1>11. ReservationHeld'
  <2> SUFFICES ASSUME NEW s \in Requests, UnderOwn(s)'
               PROVE  /\ record'[request'[s].key] = Reserved(request'[s].id, request'[s].body)
                      /\ request'[s].id \notin expired'
    BY DEF ReservationHeld, UnderOwn
  <2>1. s # r /\ UnderOwn(s) /\ request'[s] = request[s]
    BY <1>6
  <2>2. request[s].key \in Keys \ {q.key}
    BY <1>8, <2>1, OwnReservation DEF Serving
  <2> QED
    BY <1>3, <2>1, <2>2, OwnReservation
<1>12. ReplacesStale' /\ VerdictsNegative' /\ PrecheckFirst' /\ WritesFollowExecute'
  BY <1>4 DEF KeyInv, ReplacesStale, VerdictsNegative, PrecheckFirst, WritesFollowExecute
<1>13. SeenKeepsRow'
  <2> SUFFICES ASSUME NEW n \in DOMAIN executed, executed[n].seen, executed[n].id \notin expired
               PROVE  record'[executed[n].key] # None
                      /\ record'[executed[n].key].id = executed[n].id
    BY DEF SeenKeepsRow
  <2>1. record[executed[n].key] # None /\ record[executed[n].key].id = executed[n].id
    BY DEF KeyInv, SeenKeepsRow
  <2>2. executed[n].key \in Keys
    <3>1. executed[n] \in Write
      BY <1>1 DEF TypeOK
    <3> QED
      BY <3>1 DEF Write
  <2>3. CASE executed[n].key = q.key
    BY <1>2, <1>3, <2>1, <2>3
  <2>4. CASE executed[n].key # q.key
    BY <1>3, <2>1, <2>2, <2>4
  <2> QED
    BY <2>3, <2>4
<1>14. ResponsesReport'
  <2>1. ASSUME NEW k \in Keys, record'[k] # None, record'[k].status = "COMPLETED"
        PROVE  Reports(record[k].response, k, record[k].body)'
    BY <1>3, <2>1 DEF KeyInv, ResponsesReport, Reports
  <2>2. ASSUME NEW s \in Requests, request'[s].pc = "complete"
        PROVE  Reports(request[s].response, request[s].key, request[s].body)'
    BY <1>4, <2>2 DEF KeyInv, ResponsesReport, Reports
  <2> QED
    BY <2>1, <2>2 DEF ResponsesReport
<1>15. AckStored'
  <2> SUFFICES ASSUME NEW a \in acked', a.id \notin expired
               PROVE  record'[a.key] = [id |-> a.id, body |-> a.body, status |-> "COMPLETED",
                                        response |-> a.response]
    BY DEF AckStored
  <2>1. CASE a \in ack
    BY <1>3, <2>1
  <2>2. CASE a \in acked
    <3> DEFINE stored == [id |-> a.id, body |-> a.body, status |-> "COMPLETED",
                          response |-> a.response]
    <3>1. record[a.key] = stored /\ stored.status = "COMPLETED" /\ a.key \in Keys
      BY <1>1, <2>2 DEF KeyInv, AckStored, TypeOK, Ack
    <3> HIDE DEF stored
    <3>2. a.key # q.key
      BY <1>2, <3>1
    <3>3. record'[a.key] = stored
      BY <1>3, <3>1, <3>2
    <3> QED
      BY <3>3 DEF stored
  <2> QED
    BY <2>1, <2>2
<1>16. KnownAcked'
  BY <1>7 DEF KeyInv, KnownAcked
<1>17. RepeatsExplained'
  BY DEF KeyInv, RepeatsExplained
<1> QED
  BY <1>5, <1>9, <1>10, <1>11, <1>12, <1>13, <1>14, <1>15, <1>16, <1>17 DEF KeyInv

LEMMA CompletePreserves ==
  ASSUME KeyInv, NEW r \in Requests, Complete(r)
  PROVE  KeyInv'
<1> DEFINE q == request[r]
           row == Completed(record[q.key], q.response)
           ack == [key |-> q.key, body |-> q.body, id |-> q.id, response |-> q.response]
<1>1. UnderOwn(r) /\ q.pc = "complete"
  BY DEF Complete, UnderOwn, UnderReservation
<1>2. /\ q.key \in Keys /\ q.id \in Ids /\ q.body \in Bodies /\ q.response \in Nat
      /\ record[q.key] = Reserved(q.id, q.body)
  BY <1>1, OwnReservation DEF Serving
<1>3. row = [id |-> q.id, body |-> q.body, status |-> "COMPLETED", response |-> q.response]
  <2> DEFINE half == [record[q.key] EXCEPT !.status = "COMPLETED"]
  <2>1. half = [id |-> q.id, body |-> q.body, status |-> "COMPLETED", response |-> 0]
    BY <1>2 DEF Reserved
  <2>2. row = [half EXCEPT !.response = q.response]
    BY DEF Completed
  <2> HIDE DEF half, row
  <2> QED
    BY <2>1, <2>2
<1>4. /\ row \in Row /\ row.id = q.id /\ row.body = q.body /\ row.response = q.response
      /\ ack \in Ack /\ ack.key = q.key /\ ack.id = q.id /\ ack.body = q.body
      /\ ack.response = q.response
  <2> HIDE DEF row
  <2> QED
    BY <1>2, <1>3 DEF Row, Statuses, Ack
<1>5. row # None
  BY <1>4, IdempotencyAssumption
<1>6. Reports(q.response, q.key, q.body)
  BY <1>1 DEF KeyInv, ResponsesReport
<1>7. record' = [record EXCEPT ![q.key] = row] /\ UNCHANGED <<lastId, expired, executed, ended>>
  BY DEF Complete
<1> HIDE DEF row
<1>8. CASE Finish(r, "written", q.response) /\ acked' = acked \cup {ack}
  <2>1. {ack} \in SUBSET Ack
    BY <1>4
  <2>2. \A a \in {ack} : a.key = q.key /\
          row = [id |-> a.id, body |-> a.body, status |-> "COMPLETED", response |-> a.response]
    BY <1>3, <1>4
  <2>3. "written" \in Outcomes
    BY DEF Outcomes
  <2> HIDE DEF ack
  <2> QED
    BY <1>1, <1>2, <1>4, <1>5, <1>6, <1>7, <1>8, <2>1, <2>2, <2>3, SettlePreserves
<1>9. CASE Finish(r, "failed", 0) /\ UNCHANGED acked
  <2>1. "failed" \in Outcomes /\ 0 \in Nat /\ {} \in SUBSET Ack /\ acked' = acked \cup {}
    BY <1>9 DEF Outcomes
  <2> QED
    BY <1>1, <1>4, <1>5, <1>6, <1>7, <1>9, <2>1, SettlePreserves
<1> QED
  BY <1>8, <1>9 DEF Complete

LEMMA DropPreserves ==
  ASSUME KeyInv, NEW r \in Requests, Drop(r)
  PROVE  KeyInv'
<1> DEFINE q == request[r]
<1>1. TypeOK /\ UnderOwn(r) /\ q.pc = "drop"
  BY DEF KeyInv, Drop, UnderOwn, UnderReservation
<1>2. /\ q \in Serving /\ q.key \in Keys /\ q.verdict \in Outcomes
      /\ record[q.key] # None /\ record[q.key].id = q.id /\ record[q.key].status = "IN_PROGRESS"
  BY <1>1, OwnReservation DEF Serving
<1>3. \A n \in DOMAIN executed : executed[n].id = q.id => ~executed[n].seen
  BY <1>1 DEF KeyInv, WritesFollowExecute
<1>4. /\ record' = [record EXCEPT ![q.key] = None] \/ record' = [record EXCEPT ![q.key] = record[q.key]]
      /\ Finish(r, q.verdict, 0) /\ UNCHANGED <<lastId, expired, executed, ended>>
      /\ acked' = acked \cup {} /\ {} \in SUBSET Ack
  <2>1. Owns(q)
    BY <1>2 DEF Owns
  <2>2. record = [record EXCEPT ![q.key] = record[q.key]]
    BY <1>1 DEF TypeOK
  <2> QED
    BY <2>1, <2>2 DEF Drop
<1>5. record[q.key] \in Row
  BY <1>1, <1>2 DEF TypeOK
<1>6. CASE record' = [record EXCEPT ![q.key] = None]
  BY <1>1, <1>2, <1>3, <1>4, <1>6, SettlePreserves
<1>7. CASE record' = [record EXCEPT ![q.key] = record[q.key]]
  <2> DEFINE row == record[q.key]
  <2>1. row \in Row /\ row # None /\ row.id = q.id /\ row.status = "IN_PROGRESS"
    BY <1>2, <1>5
  <2>2. record' = [record EXCEPT ![q.key] = row]
    BY <1>7
  <2>3. row \in Row \cup {None} /\ row.status # "COMPLETED" /\ 0 \in Nat
    BY <2>1
  <2>4. Finish(r, q.verdict, 0) /\ q.verdict \in Outcomes
    BY <1>2, <1>4
  <2> HIDE DEF row
  <2> QED
    BY <1>1, <1>4, <2>1, <2>2, <2>3, <2>4, SettlePreserves
<1> QED
  BY <1>4, <1>6, <1>7

----------------------------------------------------------------------------
(* The invariant *)

LEMMA ExpirePreserves ==
  ASSUME KeyInv, NEW k \in Keys, Expire(k)
  PROVE  KeyInv'
<1> DEFINE id == record[k].id
<1>1. TypeOK /\ record[k] # None /\ record[k] \in Row
  BY DEF KeyInv, Expire, TypeOK
<1>2. expired' = expired \cup {id} /\ UNCHANGED <<record, lastId, executed, ended, acked, request>>
  BY DEF Expire
<1>3. id \in 1..lastId
  BY <1>1 DEF KeyInv, IdsKnown, Row, Ids
<1>4. TypeOK'
  BY <1>1, <1>2, <1>3 DEF TypeOK
<1>5. ReservationHeld'
  <2> SUFFICES ASSUME NEW r \in Requests, UnderOwn(r)
               PROVE  record[request[r].key] = Reserved(request[r].id, request[r].body)
                      /\ request[r].id \notin expired'
    BY <1>2 DEF ReservationHeld, UnderOwn
  <2>1. CASE request[r].key = k
    BY <1>2, <2>1, OwnReservation, UnderOwnRuns DEF Expire
  <2>2. CASE request[r].key # k
    <3>1. request[r].id # id
      BY <1>1, <2>2, OwnReservation DEF KeyInv, IdsDistinct, Serving
    <3> QED
      BY <1>2, <3>1, OwnReservation
  <2> QED
    BY <2>1, <2>2
<1>6. IdsKnown' /\ IdsDistinct' /\ ReplacesStale' /\ WritesFollowExecute' /\ VerdictsNegative'
  BY <1>2 DEF KeyInv, IdsKnown, IdsDistinct, ReplacesStale, WritesFollowExecute, VerdictsNegative,
              Running, UnderOwn
<1>7. SeenKeepsRow' /\ ResponsesReport' /\ AckStored' /\ KnownAcked' /\ PrecheckFirst'
        /\ RepeatsExplained'
  BY <1>2 DEF KeyInv, SeenKeepsRow, ResponsesReport, Reports, AckStored, KnownAcked, PrecheckFirst,
              RepeatsExplained, Running
<1> QED
  BY <1>4, <1>5, <1>6, <1>7 DEF KeyInv

LEMMA InitKeyInv == Init => KeyInv
<1> SUFFICES ASSUME Init PROVE KeyInv
  OBVIOUS
<1>1. TypeOK
  <2>1. [pc |-> "answered", outcome |-> "none", response |-> 0] \in Answer
    BY DEF Answer, Outcomes
  <2>2. 0 \in 0..MaxRows /\ <<>> \in Seq(Write)
    BY IdempotencyAssumption
  <2> QED
    BY <2>1, <2>2 DEF Init, TypeOK
<1>2. \A r \in Requests : request[r].pc = "answered"
  BY DEF Init
<1>3. DOMAIN executed = {} /\ acked = {} /\ \A k \in Keys : record[k] = None
  BY DEF Init
<1> QED
  BY <1>1, <1>2, <1>3
     DEF KeyInv, IdsKnown, IdsDistinct, ReservationHeld, ReplacesStale, WritesFollowExecute,
         VerdictsNegative, SeenKeepsRow, ResponsesReport, AckStored, KnownAcked, PrecheckFirst,
         RepeatsExplained, Running, UnderOwn, UnderReservation

LEMMA NextKeyInv == KeyInv /\ [Next]_vars => KeyInv'
<1> SUFFICES ASSUME KeyInv, [Next]_vars PROVE KeyInv'
  OBVIOUS
<1>1. TypeOK
  BY DEF KeyInv
<1>2. ASSUME NEW r \in Requests, NEW k \in Keys, NEW b \in Bodies, Arrive(r, k, b) PROVE KeyInv'
  BY <1>2, ArrivePreserves
<1>3. ASSUME NEW r \in Requests, Precheck(r) \/ Conflict(r) PROVE KeyInv'
  <2>1. Running(r) /\ UNCHANGED tables
    BY <1>3 DEF Precheck, Conflict, Running, tables
  <2>2. Finish(r, "refused", 0) \/ GoTo(r, "reserve") \/ GoTo(r, "lookup")
    BY <1>3 DEF Precheck, Conflict
  <2> QED
    BY <2>1, <2>2, FinishPreserves, ForwardPreserves DEF Outcomes
<1>4. ASSUME NEW r \in Requests, Reserve(r) \/ ReserveAgain(r) \/ Replace(r) PROVE KeyInv'
  <2>1. Running(r) /\ ~UnderOwn(r)
    BY <1>4 DEF Reserve, ReserveAgain, Replace, Running, UnderOwn, UnderReservation
  <2>2. CASE Finish(r, "failed", 0) /\ UNCHANGED tables
    BY <2>2, FinishPreserves DEF Outcomes
  <2>3. CASE record[request[r].key] = None /\ Insert(r)
    BY <2>1, <2>3, InsertPreserves
  <2>4. CASE Replace(r) /\ Owns(request[r]) /\ Insert(r)
    <3>1. record[request[r].key].id \in expired
      BY <2>4 DEF Replace, Owns, KeyInv, ReplacesStale
    <3> QED
      BY <2>1, <2>4, <3>1, InsertPreserves
  <2> QED
    BY <1>4, <2>2, <2>3, <2>4 DEF Reserve, ReserveAgain, Replace, tables
<1>5. ASSUME NEW r \in Requests, Lookup(r) \/ Refuse(r) PROVE KeyInv'
  BY <1>5, LookupPreserves, RefusePreserves
<1>6. ASSUME NEW r \in Requests, Execute(r) \/ ExecuteUnseen(r) PROVE KeyInv'
  BY <1>6, ExecutePreserves
<1>7. ASSUME NEW r \in Requests, Drop(r) \/ Complete(r) PROVE KeyInv'
  BY <1>7, DropPreserves, CompletePreserves
<1>8. ASSUME NEW r \in Requests, Crash(r) PROVE KeyInv'
  BY <1>8, FinishPreserves DEF Crash, tables, Outcomes
<1>9. ASSUME NEW k \in Keys, Expire(k) PROVE KeyInv'
  BY <1>9, ExpirePreserves
<1>10. CASE EndJob \/ UNCHANGED vars
  <2>1. UNCHANGED <<record, lastId, expired, executed, acked, request>> /\ ended' \in BOOLEAN
    BY <1>1, <1>10 DEF EndJob, vars, TypeOK
  <2>2. TypeOK'
    BY <1>1, <2>1 DEF TypeOK
  <2> QED
    BY <2>1, <2>2
       DEF KeyInv, IdsKnown, IdsDistinct, ReservationHeld, ReplacesStale, WritesFollowExecute,
           VerdictsNegative, SeenKeepsRow, ResponsesReport, Reports, AckStored, KnownAcked,
           PrecheckFirst, RepeatsExplained, Running, UnderOwn
<1> QED
  BY <1>2, <1>3, <1>4, <1>5, <1>6, <1>7, <1>8, <1>9, <1>10 DEF Next

\* The invariant of the key's protocol.
THEOREM SpecKeyInv == Spec => []KeyInv
BY InitKeyInv, NextKeyInv, PTL DEF Spec

\* Every variable keeps its type.
THEOREM SpecTypeOK == Spec => []TypeOK
<1>1. KeyInv => TypeOK
  BY DEF KeyInv
<1> QED
  BY <1>1, SpecKeyInv, PTL

\* A request executes, completes and drops under a row of its own, however
\* requests with the same key interleave and crash (services/transaction.js).
THEOREM SpecReservationHeld == Spec => []ReservationHeld
<1>1. KeyInv => ReservationHeld
  BY DEF KeyInv
<1> QED
  BY <1>1, SpecKeyInv, PTL

\* A key writes a second time only past its expiry or past a COMMIT whose answer
\* was lost, and never twice under one reservation (services/transaction.js).
THEOREM SpecRepeatsExplained == Spec => []RepeatsExplained
<1>1. KeyInv => RepeatsExplained
  BY DEF KeyInv
<1> QED
  BY <1>1, SpecKeyInv, PTL

----------------------------------------------------------------------------
(* Answers *)

\* A step of one request leaves the others alone.
Acts(s) ==
  \/ \E k \in Keys, b \in Bodies : Arrive(s, k, b)
  \/ Precheck(s) \/ Reserve(s) \/ Conflict(s) \/ Lookup(s) \/ ReserveAgain(s)
  \/ Replace(s) \/ Execute(s) \/ ExecuteUnseen(s) \/ Refuse(s) \/ Drop(s)
  \/ Complete(s) \/ Crash(s)

LEMMA ActsAlone ==
  ASSUME TypeOK, NEW s \in Requests, Acts(s), NEW r \in Requests \ {s}
  PROVE  request'[r] = request[r]
<1>1. DOMAIN request = Requests
  BY DEF TypeOK
<1>2. \E q : request' = [request EXCEPT ![s] = q]
  <2>1. CASE \E k \in Keys, b \in Bodies : Arrive(s, k, b)
    BY <2>1 DEF Arrive
  <2>2. CASE Precheck(s) \/ Conflict(s) \/ Crash(s)
    BY <2>2 DEF Precheck, Conflict, Crash, Finish, GoTo
  <2>3. CASE Reserve(s) \/ ReserveAgain(s) \/ Replace(s)
    <3>1. ASSUME Insert(s) PROVE \E q : request' = [request EXCEPT ![s] = q]
      BY <1>1, <3>1 DEF Insert
    <3> QED
      BY <2>3, <3>1 DEF Reserve, ReserveAgain, Replace, Finish
  <2>4. CASE Lookup(s)
    <3>1. \/ \E row : request' = [request EXCEPT ![s].pc = "replace", ![s].id = row.id]
          \/ GoTo(s, "reserveAgain")
          \/ \E o, n : Finish(s, o, n)
      BY <2>4 DEF Lookup
    <3> QED
      BY <1>1, <3>1 DEF Finish, GoTo
  <2>5. CASE Execute(s) \/ ExecuteUnseen(s) \/ Refuse(s)
    BY <1>1, <2>5 DEF Execute, ExecuteUnseen, Refuse
  <2>6. CASE Drop(s) \/ Complete(s)
    BY <2>6 DEF Drop, Complete, Finish
  <2> QED
    BY <2>1, <2>2, <2>3, <2>4, <2>5, <2>6 DEF Acts
<1> QED
  BY <1>1, <1>2

\* The ways in which a request is answered.
LEMMA AnsweringSteps ==
  ASSUME KeyInv, Next, NEW r \in Requests, Answers(r)
  PROVE  \/ Precheck(r) /\ ended /\ Finish(r, "refused", 0)
         \/ Lookup(r) \/ Drop(r) \/ Complete(r)
         \/ Finish(r, "failed", 0)
<1>1. TypeOK /\ Running(r) /\ request'[r].pc = "answered" /\ request[r].pc # "answered"
  BY DEF KeyInv, Answers, Running
<1>2. Acts(r)
  <2>1. (\E s \in Requests : Acts(s)) \/ UNCHANGED request
    BY DEF Next, Acts, Expire, EndJob
  <2> QED
    BY <1>1, <2>1, ActsAlone
<1>3. request[r] \in Serving
  BY <1>1, ServingType
<1>4. ASSUME NEW pc, GoTo(r, pc) PROVE request'[r].pc = pc
  BY <1>1, <1>3, <1>4 DEF TypeOK, GoTo, Serving
<1>5. ASSUME Insert(r) PROVE FALSE
  <2>1. request' = [request EXCEPT ![r] = Moved(request[r], "execute", lastId + 1,
                                                request[r].response, request[r].verdict)]
    BY <1>1, <1>5, MoveId DEF Insert
  <2> QED
    BY <1>1, <2>1 DEF TypeOK, Moved
<1>6. ASSUME Execute(r) PROVE FALSE
  <2>1. request' = [request EXCEPT ![r] = Moved(request[r], "complete", request[r].id,
                                                Len(executed) + 1, request[r].verdict)]
    BY <1>1, <1>6, MoveResponse DEF Execute
  <2> QED
    BY <1>1, <2>1 DEF TypeOK, Moved
<1>7. ASSUME ExecuteUnseen(r) \/ Refuse(r) PROVE FALSE
  <2>1. PICK v : request' = [request EXCEPT ![r].pc = "drop", ![r].verdict = v]
    BY <1>7 DEF ExecuteUnseen, Refuse
  <2>2. request' = [request EXCEPT ![r] = Moved(request[r], "drop", request[r].id,
                                                request[r].response, v)]
    BY <1>1, <2>1, MoveVerdict
  <2> QED
    BY <1>1, <2>2 DEF TypeOK, Moved
<1>8. ~\E k \in Keys, b \in Bodies : Arrive(r, k, b)
  BY <1>1 DEF Arrive
<1>9. Precheck(r) => ended /\ Finish(r, "refused", 0)
  BY <1>1, <1>4 DEF Precheck
<1>10. ~Conflict(r)
  BY <1>1, <1>4 DEF Conflict
<1>11. Reserve(r) \/ ReserveAgain(r) \/ Replace(r) \/ Crash(r) => Finish(r, "failed", 0)
  BY <1>5 DEF Reserve, ReserveAgain, Replace, Crash
<1> QED
  BY <1>2, <1>6, <1>7, <1>8, <1>9, <1>10, <1>11 DEF Acts

\* A lookup answers with the row it finds, or not at all.
LEMMA LookupAnswers ==
  ASSUME KeyInv, NEW r \in Requests, Lookup(r), Answers(r)
  PROVE  LET q == request[r]
             row == record[q.key] IN
         /\ row # None /\ row.id \notin expired /\ q.key \in Keys
         /\ \/ /\ row.status = "COMPLETED" /\ row.body = q.body
               /\ Finish(r, "replayed", row.response)
            \/ row.status = "COMPLETED" /\ row.body # q.body /\ Finish(r, "keyReuse", 0)
            \/ row.status = "IN_PROGRESS" /\ Finish(r, "inProgress", 0)
<1> DEFINE q == request[r]
           row == record[q.key]
<1>1. TypeOK /\ Running(r) /\ request'[r].pc = "answered" /\ q \in Serving
  BY ServingType DEF KeyInv, Answers
<1>2. ~GoTo(r, "reserveAgain")
  BY <1>1 DEF TypeOK, GoTo, Serving
<1>3. request' # [request EXCEPT ![r].pc = "replace", ![r].id = row.id]
  <2> SUFFICES ASSUME request' = [request EXCEPT ![r].pc = "replace", ![r].id = row.id] PROVE FALSE
    OBVIOUS
  <2>1. request' = [request EXCEPT ![r] = Moved(q, "replace", row.id, q.response, q.verdict)]
    BY <1>1, MoveId
  <2> QED
    BY <1>1, <2>1 DEF TypeOK, Moved
<1>4. q.key \in Keys
  BY <1>1 DEF Serving
<1> QED
  BY <1>2, <1>3, <1>4 DEF Lookup, Stale, SameRequest

\* An answered request reports what it was answered with.
LEMMA Answered ==
  ASSUME TypeOK, NEW r \in Requests, NEW outcome, NEW n, Finish(r, outcome, n)
  PROVE  /\ request'[r] = [pc |-> "answered", outcome |-> outcome, response |-> n]
         /\ request'[r].outcome = outcome /\ request'[r].response = n
BY DEF TypeOK, Finish

LEMMA TrueAnswer ==
  ASSUME KeyInv, Next, NEW r \in Requests, Answers(r)
  PROVE  /\ request'[r].outcome \in {"written", "replayed"} =>
              Reports(request'[r].response, request[r].key, request[r].body)
         /\ request'[r].outcome = "refused" =>
              \A n \in DOMAIN executed : executed[n].id # request[r].id
<1> DEFINE q == request[r]
<1>1. TypeOK /\ Running(r)
  BY DEF KeyInv, Answers
<1>2. CASE Finish(r, "failed", 0)
  <2>1. request'[r].outcome = "failed"
    BY <1>1, <1>2, Answered
  <2> QED
    BY <2>1
<1>3. CASE Precheck(r) /\ ended /\ Finish(r, "refused", 0)
  <2>1. request'[r].outcome = "refused" /\ q.id = 0
    BY <1>1, <1>3, Answered DEF KeyInv, PrecheckFirst, Precheck
  <2>2. ASSUME NEW n \in DOMAIN executed PROVE executed[n].id # 0
    <3>1. executed[n] \in Write
      BY <1>1 DEF TypeOK
    <3> QED
      BY <3>1 DEF Write, Ids
  <2> QED
    BY <2>1, <2>2
<1>4. CASE Lookup(r)
  <2> DEFINE row == record[q.key]
  <2>1. CASE row.status = "COMPLETED" /\ row.body = q.body /\ Finish(r, "replayed", row.response)
    <3>1. Reports(row.response, q.key, row.body)
      BY <1>4, <2>1, LookupAnswers DEF KeyInv, ResponsesReport
    <3>2. request'[r].outcome = "replayed" /\ request'[r].response = row.response
      <4>1. Finish(r, "replayed", row.response)
        BY <2>1
      <4> HIDE DEF row
      <4> QED
        BY <1>1, <4>1, Answered
    <3> QED
      BY <2>1, <3>1, <3>2
  <2>2. CASE Finish(r, "keyReuse", 0) \/ Finish(r, "inProgress", 0)
    <3>1. request'[r].outcome \in {"keyReuse", "inProgress"}
      BY <1>1, <2>2, Answered
    <3> QED
      BY <3>1
  <2> QED
    BY <1>4, <2>1, <2>2, LookupAnswers
<1>5. CASE Drop(r)
  <2>1. request'[r].outcome = q.verdict /\ q.pc = "drop"
    BY <1>1, <1>5, Answered DEF Drop
  <2>2. q.verdict \in {"refused", "failed"}
    BY <2>1 DEF KeyInv, VerdictsNegative
  <2>3. q.verdict = "refused" => \A n \in DOMAIN executed : executed[n].id # q.id
    BY <2>1 DEF KeyInv, WritesFollowExecute
  <2> QED
    BY <2>1, <2>2, <2>3
<1>6. CASE Complete(r)
  <2>1. Reports(q.response, q.key, q.body)
    BY <1>6 DEF KeyInv, ResponsesReport, Complete
  <2>2. CASE Finish(r, "written", q.response)
    <3>1. request'[r].outcome = "written" /\ request'[r].response = q.response
      BY <1>1, <2>2, Answered
    <3> QED
      BY <2>1, <3>1
  <2>3. CASE Finish(r, "failed", 0)
    <3>1. request'[r].outcome = "failed"
      BY <1>1, <2>3, Answered
    <3> QED
      BY <3>1
  <2> QED
    BY <1>6, <2>2, <2>3 DEF Complete
<1> QED
  BY <1>2, <1>3, <1>4, <1>5, <1>6, AnsweringSteps

\* A success, fresh or replayed, reports a write made for this very key and
\* body, and a refused request wrote nothing under its own reservation.
THEOREM SpecAnswersAreTrue == Spec => AnswersAreTrue
<1>1. KeyInv /\ [Next]_vars =>
        [\A r \in Requests : Answers(r) =>
           /\ request'[r].outcome \in {"written", "replayed"} =>
                /\ request'[r].response \in DOMAIN executed
                /\ executed[request'[r].response].key = request[r].key
                /\ executed[request'[r].response].body = request[r].body
           /\ request'[r].outcome = "refused" =>
                \A n \in DOMAIN executed : executed[n].id # request[r].id]_vars
  BY TrueAnswer DEF Reports
<1> QED
  BY <1>1, SpecKeyInv, PTL DEF Spec, AnswersAreTrue

LEMMA AckStands ==
  ASSUME KeyInv, Next, NEW r \in Requests, Answers(r),
         NEW a \in request[r].known, a.id \notin expired
  PROVE  \/ request'[r] = [pc |-> "answered", outcome |-> "replayed", response |-> a.response]
         \/ request'[r].outcome = "failed"
         \/ request'[r].outcome = "refused" /\ Prechecks /\ ended
<1> DEFINE q == request[r]
           stored == [id |-> a.id, body |-> a.body, status |-> "COMPLETED", response |-> a.response]
<1>1. TypeOK /\ Running(r)
  BY DEF KeyInv, Answers
<1>2. a \in acked /\ a.key = q.key /\ a.body = q.body
  BY <1>1 DEF KeyInv, KnownAcked
<1>3. record[q.key] = stored
  BY <1>2 DEF KeyInv, AckStored
<1>4. stored.status = "COMPLETED" /\ stored.body = q.body /\ stored.response = a.response
  BY <1>2
<1> HIDE DEF stored
<1>5. CASE Finish(r, "failed", 0)
  BY <1>1, <1>5, Answered
<1>6. CASE Precheck(r) /\ ended /\ Finish(r, "refused", 0)
  BY <1>1, <1>6, Answered DEF KeyInv, PrecheckFirst, Precheck
<1>7. CASE Lookup(r)
  <2>1. Finish(r, "replayed", a.response)
    BY <1>3, <1>4, <1>7, LookupAnswers
  <2> QED
    BY <1>1, <2>1, Answered
<1>8. CASE Drop(r) \/ Complete(r)
  <2>1. UnderOwn(r)
    BY <1>8 DEF Drop, Complete, UnderOwn, UnderReservation
  <2>2. record[q.key].status = "IN_PROGRESS"
    BY <2>1, OwnReservation
  <2> QED
    BY <1>3, <1>4, <2>2
<1> QED
  BY <1>5, <1>6, <1>7, <1>8, AnsweringSteps

\* A success that a client has seen stands: until the key expires the same
\* request gets that response again, an infrastructure error, or a refusal by
\* the check that an operation makes of an ended job before the key (patchJob).
THEOREM SpecAckedStands == Spec => AckedStands
<1>1. KeyInv /\ [Next]_vars =>
        [\A r \in Requests : Answers(r) =>
           \A a \in request[r].known : a.id \notin expired =>
             \/ request'[r] = [pc |-> "answered", outcome |-> "replayed", response |-> a.response]
             \/ request'[r].outcome = "failed"
             \/ request'[r].outcome = "refused" /\ Prechecks /\ ended]_vars
  BY AckStands
<1> QED
  BY <1>1, SpecKeyInv, PTL DEF Spec, AckedStands

=============================================================================
