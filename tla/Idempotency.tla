---------------------------- MODULE Idempotency -----------------------------
(***************************************************************************)
(* Idempotency keys of one operation of one organization: runIdempotent in *)
(* services/transaction.js over lib/idempotency.js.                        *)
(*                                                                         *)
(* A request runs three transactions: reserve the key, execute the work,   *)
(* complete the key (or drop it when the work failed).  Requests with the  *)
(* same key interleave between them; a process may die after any of them.  *)
(* Each statement that can meet another request's row is one step.         *)
(***************************************************************************)
EXTENDS Integers, Sequences, FiniteSets

CONSTANTS
  Keys,         \* Idempotency-Key header values
  Bodies,       \* request fingerprints
  Requests,     \* slots for the requests served at the same time
  None,         \* no row
  MaxRows,      \* bound: rows ever inserted into IdempotencyKey
  Prechecks     \* the operation judges the job before runIdempotent (patchJob)

VARIABLES
  record,    \* the IdempotencyKey table: per key, its row or None
  lastId,    \* the rows inserted so far; an id is never used again
  expired,   \* the ids whose expiresAt has passed
  executed,  \* the business writes that committed, in order
  ended,     \* another operation moved the job to a terminal status
  acked,     \* successful answers that reached a client
  request    \* what each request has done so far

vars == <<record, lastId, expired, executed, ended, acked, request>>

----------------------------------------------------------------------------
Statuses == {"IN_PROGRESS", "COMPLETED"}
Ids == 1..MaxRows

\* A response is named by the number of the write it reports.
Row == [id : Ids, body : Bodies, status : Statuses, response : Nat]

ASSUME IdempotencyAssumption ==
  MaxRows \in Nat /\ None \notin Row /\ Prechecks \in BOOLEAN

\* "seen": whether the request learnt that its transaction had committed.
Write == [key : Keys, body : Bodies, id : Ids, seen : BOOLEAN]
Ack == [key : Keys, body : Bodies, id : Ids, response : Nat]

Outcomes == {"none", "written", "replayed", "refused", "keyReuse", "inProgress", "failed"}
Answer == [pc : {"answered"}, outcome : Outcomes, response : Nat]

\* "id" is the row a request reserved, or found expired; "verdict" is what it
\* will answer once it has dropped its row; "known" are the acks of the same
\* key and body that precede the request.
Serving == [pc : {"precheck", "reserve", "lookup", "reserveAgain", "replace",
                  "execute", "complete", "drop"},
            key : Keys, body : Bodies, id : Ids \cup {0}, response : Nat,
            verdict : Outcomes, known : SUBSET Ack]

TypeOK ==
  /\ record \in [Keys -> Row \cup {None}]
  /\ lastId \in 0..MaxRows
  /\ expired \subseteq 1..lastId
  /\ executed \in Seq(Write)
  /\ ended \in BOOLEAN
  /\ acked \subseteq Ack
  /\ request \in [Requests -> Serving \cup Answer]

Init ==
  /\ record = [k \in Keys |-> None]
  /\ lastId = 0
  /\ expired = {}
  /\ executed = <<>>
  /\ ended = FALSE
  /\ acked = {}
  /\ request = [r \in Requests |-> [pc |-> "answered", outcome |-> "none", response |-> 0]]

----------------------------------------------------------------------------
\* Fault: whatever row is there is taken over.
FaultyStale(row) == TRUE
\* Fault: the fingerprint is not compared.
FaultySameRequest(row, body) == TRUE

Stale(row) == row.id \in expired
SameRequest(row, body) == row.body = body

\* Fault: a reservation keeps the fingerprint only when it is completed.
FaultyReserved(id, body) == [id |-> id, status |-> "IN_PROGRESS", response |-> 0]

Reserved(id, body) == [id |-> id, body |-> body, status |-> "IN_PROGRESS", response |-> 0]

\* Fault: the response is stored, the status is not.
FaultyCompleted(row, n) == [row EXCEPT !.response = n]

Completed(row, n) == [row EXCEPT !.status = "COMPLETED", !.response = n]

Running(r) == request[r].pc # "answered"

GoTo(r, pc) == request' = [request EXCEPT ![r].pc = pc]
Finish(r, outcome, n) ==
  request' = [request EXCEPT ![r] = [pc |-> "answered", outcome |-> outcome, response |-> n]]

\* The row a request works under is still the key's row.
Owns(q) == record[q.key] # None /\ record[q.key].id = q.id

Arrive(r, k, b) ==
  /\ ~Running(r)
  /\ request' = [request EXCEPT ![r] =
       [pc |-> IF Prechecks THEN "precheck" ELSE "reserve", key |-> k, body |-> b,
        id |-> 0, response |-> 0, verdict |-> "none",
        known |-> {a \in acked : a.key = k /\ a.body = b}]]
  /\ UNCHANGED <<record, lastId, expired, executed, ended, acked>>

\* patchJob reads the job and refuses a terminal one before it reserves.
Precheck(r) ==
  /\ request[r].pc = "precheck"
  /\ IF ended THEN Finish(r, "refused", 0) ELSE GoTo(r, "reserve")
  /\ UNCHANGED <<record, lastId, expired, executed, ended, acked>>

Insert(r) ==
  LET q == request[r] IN
  /\ lastId < MaxRows
  /\ lastId' = lastId + 1
  /\ record' = [record EXCEPT ![q.key] = Reserved(lastId + 1, q.body)]
  /\ request' = [request EXCEPT ![r].pc = "execute", ![r].id = lastId + 1]
  /\ UNCHANGED <<expired, executed, ended, acked>>

Reserve(r) == request[r].pc = "reserve" /\ record[request[r].key] = None /\ Insert(r)

\* The unique index refuses the insert; the savepoint keeps the transaction.
Conflict(r) ==
  /\ request[r].pc = "reserve"
  /\ record[request[r].key] # None
  /\ GoTo(r, "lookup")
  /\ UNCHANGED <<record, lastId, expired, executed, ended, acked>>

\* The row may have been dropped or replaced since the conflict.
Lookup(r) ==
  LET q == request[r]
      row == record[q.key] IN
  /\ q.pc = "lookup"
  /\ \/ row = None /\ GoTo(r, "reserveAgain")
     \/ /\ row # None /\ Stale(row)
        /\ request' = [request EXCEPT ![r].pc = "replace", ![r].id = row.id]
     \/ /\ row # None /\ ~Stale(row) /\ row.status = "COMPLETED"
        /\ IF SameRequest(row, q.body) THEN Finish(r, "replayed", row.response)
                                       ELSE Finish(r, "keyReuse", 0)
     \/ /\ row # None /\ ~Stale(row) /\ row.status = "IN_PROGRESS"
        /\ Finish(r, "inProgress", 0)
  /\ UNCHANGED <<record, lastId, expired, executed, ended, acked>>

\* The second attempt has no savepoint: a conflict here is an error 500.
ReserveAgain(r) ==
  /\ request[r].pc = "reserveAgain"
  /\ \/ record[request[r].key] = None /\ Insert(r)
     \/ /\ record[request[r].key] # None
        /\ Finish(r, "failed", 0)
        /\ UNCHANGED <<record, lastId, expired, executed, ended, acked>>

\* Delete the expired row by its id and insert; the row that another request
\* has replaced meanwhile is not found any more, an error 500.
Replace(r) ==
  /\ request[r].pc = "replace"
  /\ \/ Owns(request[r]) /\ Insert(r)
     \/ /\ ~Owns(request[r])
        /\ Finish(r, "failed", 0)
        /\ UNCHANGED <<record, lastId, expired, executed, ended, acked>>

\* The business transaction commits.  An operation on an ended job does not:
\* its version claim finds the version moved.
Executes(r, seen) ==
  /\ request[r].pc = "execute"
  /\ ~ended
  /\ executed' = Append(executed, [key |-> request[r].key, body |-> request[r].body,
                                   id |-> request[r].id, seen |-> seen])

Execute(r) ==
  /\ Executes(r, TRUE)
  /\ request' = [request EXCEPT ![r].pc = "complete", ![r].response = Len(executed) + 1]
  /\ UNCHANGED <<record, lastId, expired, ended, acked>>

\* The transaction commits, but the connection is lost before the answer.
ExecuteUnseen(r) ==
  /\ Executes(r, FALSE)
  /\ request' = [request EXCEPT ![r].pc = "drop", ![r].verdict = "failed"]
  /\ UNCHANGED <<record, lastId, expired, ended, acked>>

\* A business rule or the database refuses the work, which rolls back.
Refuse(r) ==
  /\ request[r].pc = "execute"
  /\ \E v \in {"refused", "failed"} :
       request' = [request EXCEPT ![r].pc = "drop", ![r].verdict = v]
  /\ UNCHANGED <<record, lastId, expired, executed, ended, acked>>

\* The error of the drop itself is swallowed.
Drop(r) ==
  LET q == request[r] IN
  /\ q.pc = "drop"
  /\ \/ record' = [record EXCEPT ![q.key] = IF Owns(q) THEN None ELSE @]
     \/ UNCHANGED record
  /\ Finish(r, q.verdict, 0)
  /\ UNCHANGED <<lastId, expired, executed, ended, acked>>

Complete(r) ==
  LET q == request[r] IN
  /\ q.pc = "complete"
  /\ Owns(q)
  /\ record' = [record EXCEPT ![q.key] = Completed(@, q.response)]
  /\ \/ /\ Finish(r, "written", q.response)
        /\ acked' = acked \cup
             {[key |-> q.key, body |-> q.body, id |-> q.id, response |-> q.response]}
     \/ Finish(r, "failed", 0) /\ UNCHANGED acked
  /\ UNCHANGED <<lastId, expired, executed, ended>>

\* The process dies, or a statement outside the business transaction fails:
\* the client gets no answer or an error 500 and the row stays as it is.
Crash(r) ==
  /\ Running(r)
  /\ Finish(r, "failed", 0)
  /\ UNCHANGED <<record, lastId, expired, executed, ended, acked>>

\* A day has passed.  No request is alive that long: each of its three
\* transactions ends within the client library's default of five seconds.
Expire(k) ==
  /\ record[k] # None
  /\ ~Stale(record[k])
  /\ \A r \in Requests : Running(r) /\ request[r].key = k => request[r].id # record[k].id
  /\ expired' = expired \cup {record[k].id}
  /\ UNCHANGED <<record, lastId, executed, ended, acked, request>>

\* Another operation completes, cancels or fails the job.
EndJob ==
  /\ ~ended
  /\ ended' = TRUE
  /\ UNCHANGED <<record, lastId, expired, executed, acked, request>>

Next ==
  \/ \E r \in Requests :
       \/ \E k \in Keys, b \in Bodies : Arrive(r, k, b)
       \/ Precheck(r) \/ Reserve(r) \/ Conflict(r) \/ Lookup(r) \/ ReserveAgain(r)
       \/ Replace(r) \/ Execute(r) \/ ExecuteUnseen(r) \/ Refuse(r) \/ Drop(r)
       \/ Complete(r) \/ Crash(r)
  \/ \E k \in Keys : Expire(k)
  \/ EndJob

Spec == Init /\ [][Next]_vars

----------------------------------------------------------------------------
(* Properties *)

\* "A lost response or a retry never executes the business write twice": two
\* writes under one key belong to different reservations, and the first of
\* these had expired.
AtMostOnce ==
  \A m, n \in DOMAIN executed :
    m < n /\ executed[m].key = executed[n].key => executed[m].id \in expired

\* What the keys do give: a key writes again only when the first reservation
\* had expired or its COMMIT went unseen, and never under the same reservation.
RepeatsExplained ==
  \A m, n \in DOMAIN executed :
    m < n /\ executed[m].key = executed[n].key =>
      /\ executed[m].id # executed[n].id
      /\ executed[m].id \in expired \/ ~executed[m].seen

UnderReservation == {"execute", "complete", "drop"}

\* A request executes, completes and drops under a reservation of its own: the
\* key's row is the one it inserted, still in progress and not expired.  Hence
\* two requests never execute under one key at the same time, and no request
\* completes or drops the row of another one.
ReservationHeld ==
  \A r \in Requests : request[r].pc \in UnderReservation =>
    /\ record[request[r].key] = Reserved(request[r].id, request[r].body)
    /\ request[r].id \notin expired

Answers(r) == Running(r) /\ request'[r].pc = "answered"

\* Once a client has seen the success of a key and body, every later request
\* with them is answered with the identical stored response (or an error of
\* the infrastructure) until the key expires, unless the operation judges the
\* job before the key and the job has ended: it is never executed again and
\* never taken for another request.
AckedStands ==
  [][\A r \in Requests : Answers(r) =>
       \A a \in request[r].known : a.id \notin expired =>
         \/ request'[r] = [pc |-> "answered", outcome |-> "replayed", response |-> a.response]
         \/ request'[r].outcome = "failed"
         \/ request'[r].outcome = "refused" /\ Prechecks /\ ended]_vars

\* An answer is true: a success, stored or fresh, reports a write that was
\* made for this very key and body, and a refusal means that the request's
\* own reservation wrote nothing.
AnswersAreTrue ==
  [][\A r \in Requests : Answers(r) =>
       /\ request'[r].outcome \in {"written", "replayed"} =>
            /\ request'[r].response \in DOMAIN executed
            /\ executed[request'[r].response].key = request[r].key
            /\ executed[request'[r].response].body = request[r].body
       /\ request'[r].outcome = "refused" =>
            \A n \in DOMAIN executed : executed[n].id # request[r].id]_vars
=============================================================================
