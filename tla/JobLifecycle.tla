---------------------------- MODULE JobLifecycle ----------------------------
(***************************************************************************)
(* The service layer of one organization: job-service.js,                  *)
(* assignment-service.js and the pure rules under lib/jobs/.               *)
(*                                                                         *)
(* A request is one HTTP call being served.  It runs its transaction       *)
(* statement by statement at READ COMMITTED, so other requests commit      *)
(* between any two of its statements.  The conditional UPDATE that claims  *)
(* the job and everything after it up to COMMIT is ONE step: from the      *)
(* claim on the transaction holds the job's row lock, no other transaction *)
(* writes this job or its assignments, and other transactions read the     *)
(* state before the claim until the commit.                                *)
(*                                                                         *)
(* A row lock is the property of the transaction that took it, so locks    *)
(* are not variables: who holds one is read off the requests' "pc".        *)
(***************************************************************************)
EXTENDS Integers, Sequences, FiniteSets

CONSTANTS
  Jobs,        \* the rows the Job table may come to hold
  Agents,      \* users with a membership in the organization
  Requests,    \* slots for the requests served at the same time
  None,        \* SQL NULL
  DefaultCap,  \* Organization.defaultConcurrentJobCap
  MemberRows,  \* what an admin may make of a membership row
  MaxVersion   \* bound: no request is sent for a job at this version

Roles == {"AGENT", "OTHER"}
MemberRow == [role : Roles, isAvailable : BOOLEAN, concurrentJobCap : Nat \cup {None}]

ASSUME NoneAssumption == None \notin Jobs \cup Agents \cup Nat
ASSUME MemberAssumption == MemberRows \subseteq MemberRow /\ DefaultCap \in Nat
ASSUME BoundAssumption == MaxVersion \in Nat

VARIABLES
  job,         \* the Job table, the columns the lifecycle depends on
  assignment,  \* the Assignment table: per job, its rows in order of creation
  jobEvent,    \* the JobEvent table: per job, the timeline
  membership,  \* the Membership table joined with the role's name
  counter,     \* Counter.value of "job-reference"
  request      \* what each request has done and read so far

vars == <<job, assignment, jobEvent, membership, counter, request>>

----------------------------------------------------------------------------
(* Statuses and the pure rules *)

NonTerminal == {"PENDING", "ASSIGNED", "ACCEPTED", "IN_PROGRESS"}
JobStatuses == NonTerminal \cup {"COMPLETED", "CANCELLED", "FAILED"}
ActiveStates == {"OFFERED", "ACCEPTED"}
AssignmentStates == ActiveStates \cup {"DECLINED", "REVOKED", "COMPLETED"}

BaseTransitions ==
  [PENDING     |-> {"ASSIGNED", "CANCELLED"},
   ASSIGNED    |-> {"ACCEPTED", "PENDING", "ASSIGNED", "CANCELLED"},
   ACCEPTED    |-> {"IN_PROGRESS", "CANCELLED"},
   IN_PROGRESS |-> {"COMPLETED", "CANCELLED", "FAILED"},
   COMPLETED   |-> {},
   CANCELLED   |-> {},
   FAILED      |-> {}]

CanTransition(from, to) == from \in JobStatuses /\ to \in BaseTransitions[from]

\* A job id that no row has yet has status "NONE".
NoJob == [status |-> "NONE", version |-> 0, assignee |-> None,
          completed |-> FALSE, reference |-> 0]

JobRow == [status : JobStatuses \cup {"NONE"}, version : Nat,
           assignee : Agents \cup {None}, completed : BOOLEAN, reference : Nat]

AssignmentRow == [agent : Agents, state : AssignmentStates]
EventRow == [from : JobStatuses \cup {"NONE"}, to : JobStatuses]

EffectiveCap(m) ==
  IF m.concurrentJobCap = None THEN DefaultCap ELSE m.concurrentJobCap

\* The active assignment rows of an agent, as <<job, row number>> pairs.
ActiveRows(a) ==
  UNION {{<<j, i>> : i \in {k \in DOMAIN assignment[j] :
            assignment[j][k].agent = a /\ assignment[j][k].state \in ActiveStates}} :
         j \in Jobs}

ActiveAssignmentCount(a) == Cardinality(ActiveRows(a))

Eligible(m, activeJobCount) ==
  /\ m.role = "AGENT"
  /\ m.isAvailable
  /\ activeJobCount < EffectiveCap(m)

----------------------------------------------------------------------------
(* Requests *)

Offering  == {"assign", "reassign"}
Answering == {"accept", "decline"}
Moving    == {"start", "complete", "cancel", "fail"}
Operations == Offering \cup Answering \cup Moving \cup {"patch", "create"}

\* The status a transition leads to, and what it makes of active assignments.
ToStatus == [start |-> "IN_PROGRESS", complete |-> "COMPLETED",
             cancel |-> "CANCELLED", fail |-> "FAILED"]
\* Fault: the job's status is written to its assignments.
FaultyCloseTo == [complete |-> "COMPLETED", cancel |-> "CANCELLED", fail |-> "REVOKED"]
CloseTo  == [complete |-> "COMPLETED", cancel |-> "REVOKED", fail |-> "REVOKED"]

Idle == [pc |-> "idle"]

\* "agent" is the target of an assign or reassign and the caller of an
\* accept, decline, start, complete or fail; "read" is the job row the request
\* read; "found" the offer's row number, or the counter's value.
Request == [pc : {"lockMembership", "lockRole", "count", "readJob", "readOffer",
                  "readRival", "claim", "lockCounter", "insert"},
            op : Operations, job : Jobs, agent : Agents \cup {None},
            version : Nat, read : JobRow, found : Nat]

FirstStep(op) == IF op \in Offering THEN "lockMembership" ELSE "readJob"

TypeOK ==
  /\ job \in [Jobs -> JobRow]
  /\ assignment \in [Jobs -> Seq(AssignmentRow)]
  /\ jobEvent \in [Jobs -> Seq(EventRow)]
  /\ membership \in [Agents -> MemberRow]
  /\ counter \in Nat
  /\ request \in [Requests -> Request \cup {Idle}]

Init ==
  /\ job = [j \in Jobs |-> NoJob]
  /\ assignment = [j \in Jobs |-> <<>>]
  /\ jobEvent = [j \in Jobs |-> <<>>]
  /\ membership \in [Agents -> MemberRows]
  /\ counter = 0
  /\ request = [r \in Requests |-> Idle]

\* The request after a read: of its job, or of a row number or counter value.
WithJob(q) == [q EXCEPT !.read = job[q.job],
                        !.pc = IF q.op \in Answering THEN "readOffer" ELSE "claim"]
WithFound(q, n, pc) == [q EXCEPT !.found = n, !.pc = pc]

GoTo(r, pc) == request' = [request EXCEPT ![r].pc = pc]
Answered(r) == request' = [request EXCEPT ![r] = Idle]
tables == <<job, assignment, jobEvent, membership, counter>>

\* A client sends the version it saw; a client that is behind is a request
\* sent at that version and served late.
Submit(r, op, j, a) ==
  /\ request[r].pc = "idle"
  /\ job[j].status # "NONE"
  /\ job[j].version < MaxVersion
  /\ request' = [request EXCEPT ![r] =
       [pc |-> FirstStep(op), op |-> op, job |-> j, agent |-> a,
        version |-> job[j].version, read |-> NoJob, found |-> 0]]
  /\ UNCHANGED tables

\* The id of the new row is drawn when the request arrives: no other request
\* is creating the same row.
SubmitCreate(r, j) ==
  /\ request[r].pc = "idle"
  /\ job[j].status = "NONE"
  /\ \A q \in Requests : request[q].pc # "idle" => request[q].job # j
  /\ request' = [request EXCEPT ![r] =
       [pc |-> "lockCounter", op |-> "create", job |-> j, agent |-> None,
        version |-> 0, read |-> NoJob, found |-> 0]]
  /\ UNCHANGED tables

----------------------------------------------------------------------------
(* Row locks: who holds the rows that SELECT ... FOR UPDATE locked *)

HoldsMembership(q, a) ==
  /\ request[q].pc # "idle"
  /\ request[q].op \in Offering
  /\ request[q].agent = a
  /\ request[q].pc \in {"lockRole", "count", "readJob", "claim"}

\* lockMembership has no OF clause: the joined Role row is locked as well.
HoldsRole(q, role) ==
  /\ request[q].pc # "idle"
  /\ request[q].op \in Offering
  /\ membership[request[q].agent].role = role
  /\ request[q].pc \in {"count", "readJob", "claim"}

HoldsCounter(q) == request[q].pc = "insert"

\* Fault: the membership is read without FOR UPDATE.
FaultyMembershipFree(a) == TRUE

MembershipFree(a) == \A q \in Requests : ~HoldsMembership(q, a)
RoleFree(role) == \A q \in Requests : ~HoldsRole(q, role)

\* Fault: the counter is read without FOR UPDATE.
FaultyCounterFree == TRUE
CounterFree == \A q \in Requests : ~HoldsCounter(q)

LockMembership(r) ==
  /\ request[r].pc = "lockMembership"
  /\ MembershipFree(request[r].agent)
  /\ GoTo(r, "lockRole")
  /\ UNCHANGED tables

LockRole(r) ==
  /\ request[r].pc = "lockRole"
  /\ RoleFree(membership[request[r].agent].role)
  /\ GoTo(r, "count")
  /\ UNCHANGED tables

\* The count and the eligibility decision on the locked membership row.
CheckEligible(r) ==
  LET a == request[r].agent IN
  /\ request[r].pc = "count"
  /\ Eligible(membership[a], ActiveAssignmentCount(a))
  /\ GoTo(r, "readJob")
  /\ UNCHANGED tables

NotEligible(r) ==
  LET a == request[r].agent IN
  /\ request[r].pc = "count"
  /\ ~Eligible(membership[a], ActiveAssignmentCount(a))
  /\ Answered(r)
  /\ UNCHANGED tables

----------------------------------------------------------------------------
(* Reading the job, and the early returns decided on that read *)

ReadAllows(q, row) ==
  /\ q.op = "assign"   => row.status = "PENDING"
  /\ q.op = "reassign" => row.status # "PENDING"
  /\ q.op = "patch"    => row.status \in NonTerminal
  /\ q.op \in Moving   => CanTransition(row.status, ToStatus[q.op])
  /\ q.op \in Moving \ {"cancel"} => row.assignee = q.agent

ReadJob(r) ==
  LET q == request[r] IN
  /\ q.pc = "readJob"
  /\ ReadAllows(q, job[q.job])
  /\ request' = [request EXCEPT ![r] = WithJob(q)]
  /\ UNCHANGED tables

\* assignJob answers a job that is no longer PENDING like a claim that it lost
\* (409 version_conflict) ...
ReadConflict(r) ==
  LET q == request[r] IN
  /\ q.pc = "readJob" /\ q.op = "assign"
  /\ ~ReadAllows(q, job[q.job])
  /\ Answered(r)
  /\ UNCHANGED tables

\* ... and the others refuse what they find (422, or 403 for a job of another).
ReadRejected(r) ==
  LET q == request[r] IN
  /\ q.pc = "readJob" /\ q.op # "assign"
  /\ ~ReadAllows(q, job[q.job])
  /\ Answered(r)
  /\ UNCHANGED tables

\* Fault: the caller's oldest row is looked up, which may be a declined one.
FaultyIsOwnOffer(q, i) ==
  LET rows == assignment[q.job] IN
  /\ i \in DOMAIN rows
  /\ rows[i] = [agent |-> q.agent, state |-> "OFFERED"]
  /\ \A k \in DOMAIN rows : rows[k].agent = q.agent => k >= i

\* i is the caller's latest OFFERED row of the job.
IsOwnOffer(q, i) ==
  LET rows == assignment[q.job]
      own(k) == rows[k] = [agent |-> q.agent, state |-> "OFFERED"]
  IN /\ i \in DOMAIN rows
     /\ own(i)
     /\ \A k \in DOMAIN rows : own(k) => k <= i

HasOwnOffer(q) == \E i \in DOMAIN assignment[q.job] : IsOwnOffer(q, i)

ReadOffer(r) ==
  LET q == request[r] IN
  /\ q.pc = "readOffer"
  /\ q.read.status = "ASSIGNED"
  /\ \E i \in DOMAIN assignment[q.job] :
       /\ IsOwnOffer(q, i)
       /\ request' = [request EXCEPT ![r] = WithFound(q, i, "claim")]
  /\ UNCHANGED tables

\* The offer was made after the job was read: 422.
OfferRejected(r) ==
  LET q == request[r] IN
  /\ q.pc = "readOffer"
  /\ q.read.status # "ASSIGNED"
  /\ HasOwnOffer(q)
  /\ Answered(r)
  /\ UNCHANGED tables

\* Without an offer of its own the request looks for one of anybody ...
NoOwnOffer(r) ==
  LET q == request[r] IN
  /\ q.pc = "readOffer"
  /\ ~HasOwnOffer(q)
  /\ GoTo(r, "readRival")
  /\ UNCHANGED tables

AnyOffer(j) == \E i \in DOMAIN assignment[j] : assignment[j][i].state = "OFFERED"

\* ... and answers that it lost against it (409 version_conflict), or that there
\* is nothing to answer (422).
RivalConflict(r) ==
  /\ request[r].pc = "readRival"
  /\ AnyOffer(request[r].job)
  /\ Answered(r)
  /\ UNCHANGED tables

NoOffer(r) ==
  /\ request[r].pc = "readRival"
  /\ ~AnyOffer(request[r].job)
  /\ Answered(r)
  /\ UNCHANGED tables

----------------------------------------------------------------------------
(* Claim, dependent writes and commit *)

\* The status the conditional UPDATE asks for; a patch asks for none.
ClaimsStatus(q, status) ==
  /\ q.op = "assign" => status = "PENDING"
  /\ q.op \in {"reassign"} \cup Answering => status = "ASSIGNED"
  /\ q.op \in Moving => status = q.read.status

\* Fault: the claim asks for the status only.
FaultyClaimSucceeds(q) ==
  /\ ClaimsStatus(q, job[q.job].status)
  /\ q.op \in Answering => assignment[q.job][q.found].state = "OFFERED"
  /\ q.op = "assign" =>
       \A i \in DOMAIN assignment[q.job] : assignment[q.job][i].state \notin ActiveStates

\* The claim finds its row and no later write of the transaction fails: the
\* offer is still OFFERED, and the unique index on active rows lets the new
\* offer in (a reassign has revoked the active rows first).
ClaimSucceeds(q) ==
  /\ job[q.job].version = q.version
  /\ ClaimsStatus(q, job[q.job].status)
  /\ q.op \in Answering => assignment[q.job][q.found].state = "OFFERED"
  /\ q.op = "assign" =>
       \A i \in DOMAIN assignment[q.job] : assignment[q.job][i].state \notin ActiveStates

\* Fault: a lost claim is retried with the version it lost with.
FaultyClaimRejected(r) ==
  /\ request[r].pc = "claim"
  /\ ~ClaimSucceeds(request[r])
  /\ GoTo(r, "readJob")
  /\ UNCHANGED tables

\* claimConflict: 409 version_conflict.
ClaimRejected(r) ==
  /\ request[r].pc = "claim"
  /\ ~ClaimSucceeds(request[r])
  /\ Answered(r)
  /\ UNCHANGED tables

\* Fault: the version is not incremented.
FaultyUnversionedClaimed(q, status, assignee) ==
  [job[q.job] EXCEPT !.status = status, !.assignee = assignee,
                     !.completed = @ \/ q.op = "complete"]

\* Fault: completedAt is not set.
FaultyClaimed(q, status, assignee) ==
  [job[q.job] EXCEPT !.status = status, !.version = q.read.version + 1,
                     !.assignee = assignee]

\* The claimed row: the new version is computed from the row that was READ.
Claimed(q, status, assignee) ==
  [job[q.job] EXCEPT !.status = status, !.version = q.read.version + 1,
                     !.assignee = assignee, !.completed = @ \/ q.op = "complete"]

\* Fault: only OFFERED rows count as active when they are closed.
FaultyClose(rows, to) ==
  [i \in DOMAIN rows |->
     IF rows[i].state = "OFFERED" THEN [rows[i] EXCEPT !.state = to] ELSE rows[i]]

Close(rows, to) ==
  [i \in DOMAIN rows |->
     IF rows[i].state \in ActiveStates THEN [rows[i] EXCEPT !.state = to] ELSE rows[i]]

Answer(rows, i, state) == [rows EXCEPT ![i].state = state]

Record(q, from, to) ==
  jobEvent' = [jobEvent EXCEPT ![q.job] = Append(@, [from |-> from, to |-> to])]

Claiming(r, ops) ==
  /\ request[r].pc = "claim"
  /\ request[r].op \in ops
  /\ ClaimSucceeds(request[r])
  /\ Answered(r)
  /\ UNCHANGED <<membership, counter>>

AssignJob(r) ==
  LET q == request[r] IN
  /\ Claiming(r, {"assign"})
  /\ job' = [job EXCEPT ![q.job] = Claimed(q, "ASSIGNED", q.agent)]
  /\ assignment' = [assignment EXCEPT ![q.job] =
                      Append(@, [agent |-> q.agent, state |-> "OFFERED"])]
  /\ Record(q, "PENDING", "ASSIGNED")

ReassignJob(r) ==
  LET q == request[r] IN
  /\ Claiming(r, {"reassign"})
  /\ job' = [job EXCEPT ![q.job] = Claimed(q, "ASSIGNED", q.agent)]
  /\ assignment' = [assignment EXCEPT ![q.job] =
                      Append(Close(@, "REVOKED"), [agent |-> q.agent, state |-> "OFFERED"])]
  /\ Record(q, "ASSIGNED", "ASSIGNED")

AcceptJob(r) ==
  LET q == request[r] IN
  /\ Claiming(r, {"accept"})
  /\ job' = [job EXCEPT ![q.job] = Claimed(q, "ACCEPTED", job[q.job].assignee)]
  /\ assignment' = [assignment EXCEPT ![q.job] = Answer(@, q.found, "ACCEPTED")]
  /\ Record(q, "ASSIGNED", "ACCEPTED")

DeclineJob(r) ==
  LET q == request[r] IN
  /\ Claiming(r, {"decline"})
  /\ job' = [job EXCEPT ![q.job] = Claimed(q, "PENDING", None)]
  /\ assignment' = [assignment EXCEPT ![q.job] = Answer(@, q.found, "DECLINED")]
  /\ Record(q, "ASSIGNED", "PENDING")

\* startJob, completeJob, cancelJob and failJob through transition().
Transition(r) ==
  LET q == request[r] IN
  /\ Claiming(r, Moving)
  /\ job' = [job EXCEPT ![q.job] = Claimed(q, ToStatus[q.op],
                 IF q.op = "cancel" THEN None ELSE job[q.job].assignee)]
  /\ IF q.op \in DOMAIN CloseTo
       THEN assignment' = [assignment EXCEPT ![q.job] = Close(@, CloseTo[q.op])]
       ELSE UNCHANGED assignment
  /\ Record(q, q.read.status, ToStatus[q.op])

\* The edited columns are not modelled; the timeline gets the status READ.
PatchJob(r) ==
  LET q == request[r] IN
  /\ Claiming(r, {"patch"})
  /\ job' = [job EXCEPT ![q.job] = Claimed(q, job[q.job].status, job[q.job].assignee)]
  /\ Record(q, q.read.status, q.read.status)
  /\ UNCHANGED assignment

----------------------------------------------------------------------------
(* createJob: the counter row is locked until the transaction ends *)

NextCounterValue(r) ==
  /\ request[r].pc = "lockCounter"
  /\ CounterFree
  /\ request' = [request EXCEPT ![r] = WithFound(request[r], counter + 1, "insert")]
  /\ UNCHANGED tables

CreateJob(r) ==
  LET q == request[r] IN
  /\ q.pc = "insert"
  /\ counter' = q.found
  /\ job' = [job EXCEPT ![q.job] =
               [status |-> "PENDING", version |-> 1, assignee |-> None,
                completed |-> FALSE, reference |-> q.found]]
  /\ Record(q, "NONE", "PENDING")
  /\ Answered(r)
  /\ UNCHANGED <<assignment, membership>>

----------------------------------------------------------------------------
(* The environment *)

\* The process dies, the connection is lost or the transaction times out
\* before its commit: the database rolls back and its locks are gone.
Abort(r) ==
  /\ request[r].pc # "idle"
  /\ Answered(r)
  /\ UNCHANGED tables

\* PATCH /organizations/:orgId/members/:membershipId.  The UPDATE waits for
\* the row lock; a change of role waits for the new Role row too (foreign key).
UpdateMember(a, m) ==
  /\ MembershipFree(a)
  /\ m.role # membership[a].role => RoleFree(m.role)
  /\ m # membership[a]
  /\ membership' = [membership EXCEPT ![a] = m]
  /\ UNCHANGED <<job, assignment, jobEvent, counter, request>>

Arrive ==
  \E r \in Requests, j \in Jobs :
    \/ SubmitCreate(r, j)
    \/ \E op \in Operations \ {"cancel", "patch", "create"}, a \in Agents : Submit(r, op, j, a)
    \/ \E op \in {"cancel", "patch"} : Submit(r, op, j, None)

Commit(r) ==
  \/ AssignJob(r) \/ ReassignJob(r) \/ AcceptJob(r) \/ DeclineJob(r)
  \/ Transition(r) \/ PatchJob(r) \/ CreateJob(r)

Serve(r) ==
  \/ LockMembership(r) \/ LockRole(r) \/ CheckEligible(r) \/ NotEligible(r)
  \/ ReadJob(r) \/ ReadConflict(r) \/ ReadRejected(r)
  \/ ReadOffer(r) \/ OfferRejected(r) \/ NoOwnOffer(r) \/ RivalConflict(r) \/ NoOffer(r)
  \/ NextCounterValue(r) \/ ClaimRejected(r) \/ Commit(r)

Next ==
  \/ Arrive
  \/ \E r \in Requests : Serve(r) \/ Abort(r)
  \/ \E a \in Agents, m \in MemberRows : UpdateMember(a, m)

Spec == Init /\ [][Next]_vars

\* Node and PostgreSQL run every transaction on; a lock that is freed again
\* and again is granted in the end (PostgreSQL queues the waiters of a row).
FairSpec == Spec /\ \A r \in Requests : SF_vars(Serve(r))

----------------------------------------------------------------------------
(* Properties *)

Held == {"ASSIGNED", "ACCEPTED", "IN_PROGRESS"}

RowsMatch(rows, row) ==
  /\ \A i \in DOMAIN rows :
       rows[i].state \in ActiveStates <=> i = Len(rows) /\ row.status \in Held
  /\ row.status \in Held =>
       /\ rows # <<>>
       /\ rows[Len(rows)].agent = row.assignee
       /\ rows[Len(rows)].state = IF row.status = "ASSIGNED" THEN "OFFERED" ELSE "ACCEPTED"

\* The Job row and the Assignment table never disagree, although separate
\* statements of nine operations write them: a job that is held
\* has exactly one active row, the newest, of its current assignee, OFFERED
\* while the job is ASSIGNED and ACCEPTED afterwards; any other job has no
\* active row (the index assignment_one_active_per_job never has to refuse).
AssignmentMatchesJob == \A j \in Jobs : RowsMatch(assignment[j], job[j])

\* One entry of a timeline: a transition of the table, or an edit.
Explained(event) ==
  \/ CanTransition(event.from, event.to)
  \/ event.from \in NonTerminal /\ event.to = event.from

LineExplains(line, row) ==
  /\ Len(line) = row.version
  /\ line = <<>> <=> row.status = "NONE"
  /\ line # <<>> => /\ line[1] = [from |-> "NONE", to |-> "PENDING"]
                    /\ line[Len(line)].to = row.status
  /\ \A i \in 2..Len(line) : line[i].from = line[i - 1].to /\ Explained(line[i])

\* The timeline explains the job: one event per version, each starting where
\* the one before it ended, along the transition table (or an edit that stays
\* on a non-terminal status), the last one ending in the job's status.  The
\* events are written from what the request READ, not from what it updated.
TimelineExplainsJob == \A j \in Jobs : LineExplains(jobEvent[j], job[j])

RowChecks(row) ==
  /\ row.assignee = None <=> row.status \in {"NONE", "PENDING", "CANCELLED"}
  /\ row.completed <=> row.status = "COMPLETED"

\* The CHECK constraints Job_status_assignee_consistent and
\* Job_completed_at_consistent hold of every row the services write, so no
\* request ends in a database error.
RowChecksHold == \A j \in Jobs : RowChecks(job[j])

Running(r) == request[r].pc # "idle"

\* A creation is alone with its job id.
CreatesAlone(r) ==
  Running(r) /\ request[r].op = "create" =>
    /\ job[request[r].job].status = "NONE"
    /\ request[r].pc \in {"lockCounter", "insert"}
    /\ \A p \in Requests : p # r /\ Running(p) => request[p].job # request[r].job

\* No request knows a version that its job has not reached.
KnowsThePast(r) ==
  Running(r) /\ request[r].op # "create" =>
    /\ job[request[r].job].status # "NONE"
    /\ request[r].version <= job[request[r].job].version
    /\ request[r].pc \notin {"lockCounter", "insert"}
    /\ request[r].op \in Offering \cup Answering => request[r].agent \in Agents
    /\ request[r].pc \in {"readOffer", "readRival"} => request[r].op \in Answering

\* A row that was read with the current version is the current row.
ReadIsCurrent(r) ==
  request[r].pc \in {"readOffer", "readRival", "claim"} =>
    /\ request[r].version <= request[r].read.version
    /\ request[r].read.version <= job[request[r].job].version
    /\ request[r].read.version = job[request[r].job].version =>
         request[r].read = job[request[r].job]
    /\ ReadAllows(request[r], request[r].read)

\* The offer that was found is a row of the caller, still open while the job
\* has the version that was read.
FoundIsOwn(r) ==
  request[r].pc = "claim" /\ request[r].op \in Answering =>
    /\ request[r].read.status = "ASSIGNED"
    /\ request[r].found \in DOMAIN assignment[request[r].job]
    /\ assignment[request[r].job][request[r].found].agent = request[r].agent
    /\ request[r].read.version = job[request[r].job].version =>
         assignment[request[r].job][request[r].found].state = "OFFERED"

\* A caller who found no offer of its own has none while the job has the version
\* that was read.
NoneIsOwn(r) ==
  request[r].pc = "readRival" /\ request[r].read.version = job[request[r].job].version =>
    ~(job[request[r].job].status = "ASSIGNED" /\ job[request[r].job].assignee = request[r].agent)

\* What a request remembers stays true exactly until the job's version moves:
\* a job row that it read with the current version IS the current row, so the
\* version claim alone protects every decision the request took on it.
ReadsStayCurrent ==
  \A r \in Requests : CreatesAlone(r) /\ KnowsThePast(r) /\ ReadIsCurrent(r) /\ FoundIsOwn(r)
                     /\ NoneIsOwn(r)

\* The inductive invariant.
IInv ==
  /\ TypeOK
  /\ ReadsStayCurrent
  /\ AssignmentMatchesJob
  /\ TimelineExplainsJob
  /\ RowChecksHold

\* References are gapless and never reused, whichever creations roll back: the
\* jobs that exist carry the numbers 1 .. counter, one each.
ReferencesGapless ==
  LET created == {j \in Jobs : job[j].status # "NONE"} IN
  /\ {job[j].reference : j \in created} = 1..counter
  /\ Cardinality(created) = counter

\* Whoever gets a new active assignment is, when it commits, an available
\* AGENT below the effective cap, whatever an admin or other dispatchers did
\* since the eligibility check.
OfferOnlyEligible ==
  [][\A a \in Agents : (ActiveRows(a)' \ ActiveRows(a)) # {} =>
       Eligible(membership[a], ActiveAssignmentCount(a))]_vars

\* The three places that answer 409 version_conflict.
Conflict(r) == ReadConflict(r) \/ RivalConflict(r) \/ ClaimRejected(r)

\* What the operation asks of the job it is sent for.
Answerable(q, row) ==
  /\ q.op = "assign" => row.status = "PENDING"
  /\ q.op \in {"reassign"} \cup Answering => row.status = "ASSIGNED"
  /\ q.op \in Answering => row.assignee = q.agent

\* A 409 version_conflict, from whichever of the three places, is never sent to
\* a client that could have had its way: the job has moved past the version it
\* sent, so re-reading it shows something new, or the job at that version never
\* allowed the operation (an assign of a job that is not PENDING, a reassign of
\* one that is not ASSIGNED, an answer to the offer of another agent, all of
\* which get the same 409).  The job, the caller's offer, the rival's offer and
\* the claim are separate statements between which others commit.
ConflictMeansMoved ==
  [][\A r \in Requests : Conflict(r) =>
       LET q == request[r] IN
       job[q.job].version > q.version \/ ~Answerable(q, job[q.job])]_vars

\* Every request is answered: no two of them wait for each other's rows.
EveryRequestAnswered ==
  \A r \in Requests : request[r].pc # "idle" ~> request[r].pc = "idle"
=============================================================================
