--------------------------- MODULE JobBoardProofs ---------------------------
(***************************************************************************)
(* The services implement the atomic board, for any number of jobs, agents *)
(* and concurrent requests; dispatch is decided under a lock that keeps it *)
(* true until the commit, and references are gapless.                      *)
(***************************************************************************)
EXTENDS JobLifecycleProofs, JobLifecycleRefinement, FiniteSetTheorems

----------------------------------------------------------------------------
(* The inductive invariant, beyond that of JobLifecycleProofs *)

Created == {j \in Jobs : job[j].status # "NONE"}
HeldBy(a) == {j \in Jobs : job[j].assignee = a /\ job[j].status \in Held}

\* The request has locked the membership row of the agent it offers a job to.
Locked(r) ==
  request[r].pc \in {"lockRole", "count", "readJob", "claim"} /\ request[r].op \in Offering
Checked(r) == Locked(r) /\ request[r].pc \in {"readJob", "claim"}

LocksExclusive ==
  \A p, q \in Requests :
    Locked(p) /\ Locked(q) /\ request[p].agent = request[q].agent => p = q

\* An agent found eligible stays eligible while the membership row is locked.
CanHold(a) ==
  /\ membership[a].role = "AGENT" /\ membership[a].isAvailable
  /\ Cardinality(HeldBy(a)) < EffectiveCap(membership[a])
CheckedCanHold == \A r \in Requests : Checked(r) => CanHold(request[r].agent)

\* One request at a time is between the counter and its insert.
CounterHeld ==
  /\ \A r \in Requests : request[r].pc = "insert" => request[r].found = counter + 1
  /\ \A p, q \in Requests : request[p].pc = "insert" /\ request[q].pc = "insert" => p = q

BlankRows == \A j \in Jobs : job[j].status = "NONE" => job[j] = NoJob
References == {job[j].reference : j \in Created}
Numbered ==
  IsFiniteSet(Created) /\ Cardinality(Created) = counter /\ References = 1..counter

BoardInv ==
  /\ IInv
  /\ LocksExclusive
  /\ CheckedCanHold
  /\ CounterHeld
  /\ BlankRows
  /\ Numbered

----------------------------------------------------------------------------
(* Counting rows counts jobs *)

LEMMA HeldFinite ==
  ASSUME IsFiniteSet(Created), NEW a
  PROVE  /\ IsFiniteSet(HeldBy(a))
         /\ Cardinality(HeldBy(a)) \in Nat
<1>1. HeldBy(a) \in SUBSET Created
  BY DEF HeldBy, Created, Held
<1> QED
  BY <1>1, FS_Subset, FS_CardinalityType

\* An active row is the newest row of a job that its agent holds.
LEMMA ActiveRow ==
  ASSUME IInv, NEW a, NEW j \in Jobs, NEW i \in DOMAIN assignment[j]
  PROVE  assignment[j][i].agent = a /\ assignment[j][i].state \in ActiveStates
           <=> j \in HeldBy(a) /\ i = Len(assignment[j])
BY DEF IInv, AssignmentMatchesJob, RowsMatch, HeldBy

LEMMA ActiveRowsHeld ==
  ASSUME IInv, NEW a
  PROVE  ActiveRows(a) = {<<j, Len(assignment[j])>> : j \in HeldBy(a)}
<1>1. ActiveRows(a) =
        UNION {{<<j, i>> : i \in {k \in DOMAIN assignment[j] :
                  j \in HeldBy(a) /\ k = Len(assignment[j])}} : j \in Jobs}
  <2>1. \A j \in Jobs :
          {k \in DOMAIN assignment[j] :
             assignment[j][k].agent = a /\ assignment[j][k].state \in ActiveStates}
            = {k \in DOMAIN assignment[j] : j \in HeldBy(a) /\ k = Len(assignment[j])}
    BY ActiveRow
  <2> QED
    BY <2>1 DEF ActiveRows
<1>2. \A j \in HeldBy(a) : j \in Jobs /\ Len(assignment[j]) \in DOMAIN assignment[j]
  <2> SUFFICES ASSUME NEW j \in HeldBy(a)
               PROVE  j \in Jobs /\ Len(assignment[j]) \in DOMAIN assignment[j]
    OBVIOUS
  <2>1. j \in Jobs /\ assignment[j] \in Seq(AssignmentRow) /\ assignment[j] # <<>>
    BY DEF HeldBy, IInv, TypeOK, AssignmentMatchesJob, RowsMatch
  <2> QED
    BY <2>1
<1> QED
  BY <1>1, <1>2

\* The count of an agent's active assignments is the number of jobs it holds.
LEMMA CountIsLoad ==
  ASSUME IInv, IsFiniteSet(Created), NEW a
  PROVE  ActiveAssignmentCount(a) = Cardinality(HeldBy(a))
<1> DEFINE f == [j \in HeldBy(a) |-> <<j, Len(assignment[j])>>]
<1>1. f \in Bijection(HeldBy(a), ActiveRows(a))
  <2>1. f \in [HeldBy(a) -> ActiveRows(a)]
    BY ActiveRowsHeld
  <2>2. \A j, k \in HeldBy(a) : f[j] = f[k] => j = k
    OBVIOUS
  <2>3. \A x \in ActiveRows(a) : \E j \in HeldBy(a) : f[j] = x
    BY ActiveRowsHeld
  <2> HIDE DEF f
  <2> QED
    BY <2>1, <2>2, <2>3 DEF Bijection, Injection, Surjection, IsInjective
<1>2. ExistsBijection(HeldBy(a), ActiveRows(a))
  BY <1>1 DEF ExistsBijection
<1> QED
  BY <1>2, HeldFinite, FS_Bijection DEF ActiveAssignmentCount

\* What the eligibility check decides is what the board asks for.
LEMMA EligibleIsCanHold ==
  ASSUME IInv, IsFiniteSet(Created), NEW a
  PROVE  Eligible(membership[a], ActiveAssignmentCount(a)) <=> CanHold(a)
BY CountIsLoad DEF Eligible, CanHold

\* Both modules count with the same operator.
LEMMA SameCardinality == \A S : Board!Cardinality(S) = Cardinality(S)
BY DEF Board!Cardinality, Cardinality

LEMMA CanHoldIsCanTake == \A a : CanHold(a) <=> Board!CanTake(a)
<1>1. ASSUME NEW a PROVE Board!Load(a) = Cardinality(HeldBy(a))
  <2>1. {j \in Jobs : /\ job[j].assignee = a
                     /\ job[j].status \in {"ASSIGNED", "ACCEPTED", "IN_PROGRESS"}} = HeldBy(a)
    BY DEF HeldBy, Held
  <2> QED
    BY <2>1, SameCardinality DEF Board!Load
<1> QED
  BY <1>1 DEF CanHold, Board!CanTake, EffectiveCap

----------------------------------------------------------------------------
(* The claiming commits are changes of the board *)

LEMMA ChangedRow ==
  ASSUME NEW row \in JobRow, NEW status, NEW version, NEW assignee, NEW completed
  PROVE  [row EXCEPT !.status = status, !.version = version, !.assignee = assignee,
                     !.completed = completed]
           = [row EXCEPT !.status = status, !.assignee = assignee, !.version = version,
                         !.completed = completed]
BY DEF JobRow

LEMMA ClaimChanges ==
  ASSUME IInv, NEW r \in Requests, NEW ops, Claiming(r, ops),
         NEW status, NEW assignee,
         job' = [job EXCEPT ![request[r].job] = Claimed(request[r], status, assignee)],
         NEW from, job[request[r].job].status \in from, from \subseteq NonTerminal,
         status = "COMPLETED" <=> request[r].op = "complete"
  PROVE  Board!Change(request[r].job, from, status, assignee)
<1> DEFINE q == request[r]
           row == job[q.job]
           done == status = "COMPLETED"
<1>1. /\ q.job \in Jobs /\ row \in JobRow /\ q.read = row
  BY ClaimIsCurrent DEF Claiming, Request
<1>2. ~row.completed
  BY <1>1 DEF IInv, RowChecksHold, RowChecks, NonTerminal
<1>3. (row.completed \/ q.op = "complete") = done
  BY <1>2
<1>4. Claimed(q, status, assignee) =
        [row EXCEPT !.status = status, !.version = row.version + 1, !.assignee = assignee,
                    !.completed = done]
  <2>1. Claimed(q, status, assignee) =
        [row EXCEPT !.status = status, !.version = row.version + 1, !.assignee = assignee,
                    !.completed = (row.completed \/ q.op = "complete")]
    BY <1>1 DEF Claimed, JobRow
  <2> QED
    BY <1>3, <2>1
<1> HIDE DEF done
<1>5. Claimed(q, status, assignee) =
        [row EXCEPT !.status = status, !.assignee = assignee, !.version = row.version + 1,
                    !.completed = done]
  BY <1>1, <1>4, ChangedRow
<1>6. job' = [job EXCEPT ![q.job].status = status, ![q.job].assignee = assignee,
                         ![q.job].version = @ + 1, ![q.job].completed = done]
  BY <1>1, <1>5 DEF IInv, TypeOK, JobRow
<1> QED
  BY <1>6 DEF Board!Change, Claiming, done

LEMMA AnswerChanges ==
  ASSUME IInv, NEW r \in Requests
  PROVE  LET k == request[r].job
             a == request[r].agent IN
         /\ AssignJob(r)   => Board!Change(k, {"PENDING"}, "ASSIGNED", a)
         /\ ReassignJob(r) => Board!Change(k, {"ASSIGNED"}, "ASSIGNED", a)
         /\ AcceptJob(r)   => Board!Change(k, {"ASSIGNED"}, "ACCEPTED", job[k].assignee)
         /\ DeclineJob(r)  => Board!Change(k, {"ASSIGNED"}, "PENDING", None)
<1> DEFINE k == request[r].job
           a == request[r].agent
           from == job[k].status
<1>1. {"PENDING"} \subseteq NonTerminal /\ {"ASSIGNED"} \subseteq NonTerminal
  BY DEF NonTerminal
<1>2. ASSUME AssignJob(r) PROVE Board!Change(k, {"PENDING"}, "ASSIGNED", a)
  <2>1. Claiming(r, {"assign"}) /\ request[r].op = "assign"
    BY <1>2 DEF AssignJob, Claiming
  <2>2. from \in {"PENDING"}
    BY <2>1 DEF Claiming, ClaimSucceeds, ClaimsStatus
  <2> QED
    BY <1>1, <1>2, <2>1, <2>2, ClaimChanges DEF AssignJob
<1>3. ASSUME ReassignJob(r) PROVE Board!Change(k, {"ASSIGNED"}, "ASSIGNED", a)
  <2>1. Claiming(r, {"reassign"}) /\ request[r].op = "reassign"
    BY <1>3 DEF ReassignJob, Claiming
  <2>2. from \in {"ASSIGNED"}
    BY <2>1 DEF Claiming, ClaimSucceeds, ClaimsStatus
  <2> QED
    BY <1>1, <1>3, <2>1, <2>2, ClaimChanges DEF ReassignJob
<1>4. ASSUME AcceptJob(r) PROVE Board!Change(k, {"ASSIGNED"}, "ACCEPTED", job[k].assignee)
  <2>1. Claiming(r, {"accept"}) /\ request[r].op = "accept"
    BY <1>4 DEF AcceptJob, Claiming
  <2>2. from \in {"ASSIGNED"}
    BY <2>1 DEF Claiming, ClaimSucceeds, ClaimsStatus, Answering
  <2> QED
    BY <1>1, <1>4, <2>1, <2>2, ClaimChanges DEF AcceptJob
<1>5. ASSUME DeclineJob(r) PROVE Board!Change(k, {"ASSIGNED"}, "PENDING", None)
  <2>1. Claiming(r, {"decline"}) /\ request[r].op = "decline"
    BY <1>5 DEF DeclineJob, Claiming
  <2>2. from \in {"ASSIGNED"}
    BY <2>1 DEF Claiming, ClaimSucceeds, ClaimsStatus, Answering
  <2> QED
    BY <1>1, <1>5, <2>1, <2>2, ClaimChanges DEF DeclineJob
<1> QED
  BY <1>2, <1>3, <1>4, <1>5

\* A transition follows the table; an edit stays on a non-terminal status.
LEMMA TransitionChanges ==
  ASSUME IInv, NEW r \in Requests, Transition(r)
  PROVE  LET k == request[r].job
             same == job[k].assignee IN
         \/ Board!Change(k, {"ACCEPTED"}, "IN_PROGRESS", same)
         \/ Board!Change(k, {"IN_PROGRESS"}, "COMPLETED", same)
         \/ Board!Change(k, {"IN_PROGRESS"}, "FAILED", same)
         \/ Board!Change(k, NonTerminal, "CANCELLED", None)
<1> DEFINE q == request[r]
           k == q.job
           to == ToStatus[q.op]
           same == job[k].assignee
<1>1. Claiming(r, Moving) /\ q.pc = "claim" /\ q.op \in Moving /\ ClaimSucceeds(q)
  BY DEF Transition, Claiming
<1>2. /\ q.read = job[k] /\ job[k].status \in JobStatuses
      /\ CanTransition(job[k].status, to)
  BY <1>1, ClaimIsCurrent DEF ReadAllows
<1>3. \/ q.op = "start"    /\ to = "IN_PROGRESS" /\ job[k].status \in {"ACCEPTED"}
      \/ q.op = "complete" /\ to = "COMPLETED"   /\ job[k].status \in {"IN_PROGRESS"}
      \/ q.op = "fail"     /\ to = "FAILED"      /\ job[k].status \in {"IN_PROGRESS"}
      \/ q.op = "cancel"   /\ to = "CANCELLED"   /\ job[k].status \in NonTerminal
  BY <1>1, <1>2 DEF Moving, ToStatus, CanTransition, BaseTransitions, JobStatuses, NonTerminal
<1>4. job' = [job EXCEPT ![k] = Claimed(q, to, IF q.op = "cancel" THEN None ELSE same)]
  BY DEF Transition
<1>5. {"ACCEPTED"} \subseteq NonTerminal /\ {"IN_PROGRESS"} \subseteq NonTerminal
  BY DEF NonTerminal
<1>6. CASE q.op = "start"
  <2>1. job' = [job EXCEPT ![k] = Claimed(q, "IN_PROGRESS", same)]
    BY <1>3, <1>4, <1>6
  <2>2. Board!Change(k, {"ACCEPTED"}, "IN_PROGRESS", same)
    BY <1>1, <1>3, <1>5, <1>6, <2>1, ClaimChanges
  <2> QED
    BY <2>2
<1>7. CASE q.op = "complete"
  <2>1. job' = [job EXCEPT ![k] = Claimed(q, "COMPLETED", same)]
    BY <1>3, <1>4, <1>7
  <2>2. Board!Change(k, {"IN_PROGRESS"}, "COMPLETED", same)
    BY <1>1, <1>3, <1>5, <1>7, <2>1, ClaimChanges
  <2> QED
    BY <2>2
<1>8. CASE q.op = "fail"
  <2>1. job' = [job EXCEPT ![k] = Claimed(q, "FAILED", same)]
    BY <1>3, <1>4, <1>8
  <2>2. Board!Change(k, {"IN_PROGRESS"}, "FAILED", same)
    BY <1>1, <1>3, <1>5, <1>8, <2>1, ClaimChanges
  <2> QED
    BY <2>2
<1>9. CASE q.op = "cancel"
  <2>1. job' = [job EXCEPT ![k] = Claimed(q, "CANCELLED", None)]
    BY <1>3, <1>4, <1>9
  <2>2. Board!Change(k, NonTerminal, "CANCELLED", None)
    BY <1>1, <1>3, <1>9, <2>1, ClaimChanges
  <2> QED
    BY <2>2
<1> QED
  BY <1>3, <1>6, <1>7, <1>8, <1>9

LEMMA PatchChanges ==
  ASSUME IInv, NEW r \in Requests, PatchJob(r)
  PROVE  LET k == request[r].job IN
         Board!Change(k, NonTerminal, job[k].status, job[k].assignee)
<1> DEFINE q == request[r]
           k == q.job
<1>1. Claiming(r, {"patch"}) /\ q.op = "patch" /\ q.pc = "claim" /\ ClaimSucceeds(q)
  BY DEF PatchJob, Claiming
<1>2. job[k].status \in NonTerminal
  BY <1>1, ClaimIsCurrent DEF ReadAllows
<1>3. job[k].status # "COMPLETED"
  BY <1>2 DEF NonTerminal
<1>4. job' = [job EXCEPT ![k] = Claimed(q, job[k].status, job[k].assignee)]
  BY DEF PatchJob
<1> QED
  BY <1>1, <1>2, <1>3, <1>4, ClaimChanges

----------------------------------------------------------------------------
(* The invariant is inductive *)

BoardParts == LocksExclusive /\ CheckedCanHold /\ CounterHeld /\ BlankRows /\ Numbered

LEMMA ChangeEffect ==
  ASSUME IInv, NEW k \in Jobs, NEW from, NEW status, NEW assignee,
         Board!Change(k, from, status, assignee)
  PROVE  /\ job[k].status \in from
         /\ job'[k].status = status /\ job'[k].assignee = assignee
         /\ job'[k].reference = job[k].reference
         /\ \A j \in Jobs \ {k} : job'[j] = job[j]
<1> DEFINE row == job[k]
           done == status = "COMPLETED"
           new == [row EXCEPT !.status = status, !.assignee = assignee,
                              !.version = row.version + 1, !.completed = done]
<1>1. row \in JobRow /\ job \in [Jobs -> JobRow]
  BY DEF IInv, TypeOK
<1> HIDE DEF done
<1>2. job' = [job EXCEPT ![k] = new]
  <2>1. job' = [job EXCEPT ![k].status = status, ![k].assignee = assignee,
                           ![k].version = @ + 1, ![k].completed = done]
    BY DEF Board!Change, done
  <2> QED
    BY <1>1, <2>1 DEF JobRow
<1>3. new.status = status /\ new.assignee = assignee /\ new.reference = row.reference
  BY <1>1 DEF JobRow
<1> HIDE DEF new
<1> QED
  BY <1>1, <1>2, <1>3 DEF Board!Change

\* A change of a held job gives no agent a job that it did not hold, except
\* the one that the committing request has locked.
LEMMA ClaimBoard ==
  ASSUME BoardInv, NEW r \in Requests, NEW ops, Claiming(r, ops),
         NEW from \in SUBSET NonTerminal, NEW status \in JobStatuses, NEW assignee,
         Board!Change(request[r].job, from, status, assignee),
         \/ request[r].op \in Offering /\ assignee = request[r].agent
         \/ status \notin Held
         \/ job[request[r].job].status \in Held /\ assignee = job[request[r].job].assignee
  PROVE  BoardParts'
<1> DEFINE k == request[r].job
<1>1. IInv /\ request[r].pc = "claim" /\ UNCHANGED <<membership, counter>>
  BY DEF BoardInv, Claiming
<1>2. k \in Jobs /\ job[k].status \in from
      /\ job'[k].status = status /\ job'[k].assignee = assignee
      /\ job'[k].reference = job[k].reference
      /\ \A j \in Jobs \ {k} : job'[j] = job[j]
  <2>1. k \in Jobs
    BY <1>1, ClaimIsCurrent DEF Claiming, Request
  <2> QED
    BY <1>1, <2>1, ChangeEffect
<1>3. request'[r].pc = "idle" /\ \A s \in Requests \ {r} : request'[s] = request[s]
  BY <1>1 DEF Claiming, Answered, Idle, IInv, TypeOK
<1>4. \A s \in Requests : Locked(s)' => s # r /\ Locked(s) /\ request'[s] = request[s]
  BY <1>3 DEF Locked
<1>5. LocksExclusive'
  BY <1>4 DEF BoardInv, LocksExclusive
<1>6. \A b : b # request[r].agent \/ request[r].op \notin Offering => HeldBy(b)' \in SUBSET HeldBy(b)
  BY <1>2 DEF HeldBy
<1>7. CheckedCanHold'
  <2> SUFFICES ASSUME NEW s \in Requests, Checked(s)' PROVE CanHold(request[s].agent)'
    BY DEF CheckedCanHold
  <2> PICK b : b = request[s].agent
    OBVIOUS
  <2>1. s # r /\ Checked(s) /\ request'[s] = request[s] /\ request[s].agent = b /\ CanHold(b)
    BY <1>4 DEF Checked, BoardInv, CheckedCanHold
  <2>2. request[r].op \in Offering => b # request[r].agent
    BY <1>1, <2>1 DEF BoardInv, LocksExclusive, Checked, Locked
  <2>3. HeldBy(b)' \in SUBSET HeldBy(b)
    BY <1>6, <2>2
  <2>4. /\ Cardinality(HeldBy(b)') <= Cardinality(HeldBy(b))
        /\ Cardinality(HeldBy(b)') \in Nat /\ Cardinality(HeldBy(b)) \in Nat
    BY <2>3, HeldFinite, FS_Subset, FS_CardinalityType DEF BoardInv, Numbered
  <2>5. membership' = membership
    BY <1>1
  <2>6. EffectiveCap(membership[b]) \in Nat
    <3>1. b \in Agents
      BY <1>1, <2>1 DEF IInv, ReadsStayCurrent, KnowsThePast, Running, Checked, Locked, Offering
    <3>2. membership[b] \in MemberRow
      BY <1>1, <3>1 DEF IInv, TypeOK
    <3> QED
      BY <3>2, MemberAssumption DEF EffectiveCap, MemberRow
  <2>7. CanHold(b)'
    BY <2>1, <2>4, <2>5, <2>6 DEF CanHold, EffectiveCap
  <2> QED
    BY <2>1, <2>7 DEF CanHold, HeldBy
<1>8. CounterHeld'
  BY <1>1, <1>3 DEF BoardInv, CounterHeld
<1>9. BlankRows'
  BY <1>2 DEF BoardInv, BlankRows, JobStatuses, NonTerminal
<1>10. Created' = Created
  BY <1>2 DEF Created, JobStatuses, NonTerminal
<1>11. References' = References
  BY <1>2, <1>10 DEF References, Created
<1>12. Numbered'
  BY <1>1, <1>10, <1>11 DEF BoardInv, Numbered
<1> QED
  BY <1>5, <1>7, <1>8, <1>9, <1>12 DEF BoardParts

\* A step that changes no table may only lock what is free and only pass the
\* check when it holds.
LEMMA QuietBoard ==
  ASSUME BoardInv, UNCHANGED tables, NEW r \in Requests, NEW q,
         request' = [request EXCEPT ![r] = q],
         q.pc \in {"lockRole", "count", "readJob", "claim"} /\ q.op \in Offering =>
           MembershipFree(q.agent) \/ (Locked(r) /\ q.agent = request[r].agent),
         q.pc \in {"readJob", "claim"} /\ q.op \in Offering => CanHold(q.agent),
         q.pc = "insert" => CounterFree /\ q.found = counter + 1
  PROVE  BoardParts'
<1>1. /\ request'[r] = q /\ \A s \in Requests \ {r} : request'[s] = request[s]
      /\ UNCHANGED <<job, membership, counter>>
  BY DEF BoardInv, IInv, TypeOK, tables
<1>2. \A s \in Requests : Locked(s) => HoldsMembership(s, request[s].agent)
  BY DEF Locked, HoldsMembership
<1>3. ASSUME NEW s \in Requests \ {r}, Locked(s), Locked(r)' PROVE q.agent # request[s].agent
  <2>1. q.pc \in {"lockRole", "count", "readJob", "claim"} /\ q.op \in Offering
    BY <1>1, <1>3 DEF Locked
  <2> QED
    BY <1>2, <1>3, <2>1 DEF BoardInv, LocksExclusive, MembershipFree
<1>4. LocksExclusive'
  BY <1>1, <1>3 DEF BoardInv, LocksExclusive, Locked
<1>5. CheckedCanHold'
  <2> SUFFICES ASSUME NEW s \in Requests, Checked(s)' PROVE CanHold(request[s].agent)'
    BY DEF CheckedCanHold
  <2> PICK b : b = request'[s].agent
    OBVIOUS
  <2>1. CanHold(b)
    BY <1>1 DEF BoardInv, CheckedCanHold, Checked, Locked
  <2> QED
    BY <1>1, <2>1 DEF CanHold, HeldBy, EffectiveCap
<1>6. CounterHeld'
  BY <1>1 DEF BoardInv, CounterHeld, CounterFree, HoldsCounter
<1>7. BlankRows' /\ Numbered'
  BY <1>1 DEF BoardInv, BlankRows, Numbered, Created, References
<1> QED
  BY <1>4, <1>5, <1>6, <1>7 DEF BoardParts

LEMMA AnsweredBoard ==
  ASSUME BoardInv, UNCHANGED tables, NEW r \in Requests, Answered(r)
  PROVE  BoardParts'
BY QuietBoard DEF Answered, Idle

LEMMA GoToFields ==
  ASSUME TypeOK, NEW r \in Requests, Running(r), NEW pc, NEW q,
         q = [request[r] EXCEPT !.pc = pc]
  PROVE  q.pc = pc /\ q.op = request[r].op /\ q.agent = request[r].agent
BY RequestType DEF Running, Request

LEMMA LockBoard ==
  ASSUME BoardInv, NEW r \in Requests, LockMembership(r) \/ LockRole(r) \/ CheckEligible(r)
  PROVE  BoardParts'
<1>1. TypeOK /\ Running(r) /\ UNCHANGED tables
  BY DEF BoardInv, IInv, LockMembership, LockRole, CheckEligible, Running
<1>2. CASE LockMembership(r)
  <2> DEFINE q == [request[r] EXCEPT !.pc = "lockRole"]
  <2>1. request' = [request EXCEPT ![r] = q] /\ MembershipFree(request[r].agent)
    BY <1>2 DEF LockMembership, GoTo
  <2>2. q.pc = "lockRole" /\ q.op = request[r].op /\ q.agent = request[r].agent
    BY <1>1, GoToFields
  <2> HIDE DEF q
  <2> QED
    BY <1>1, <2>1, <2>2, QuietBoard
<1>3. CASE LockRole(r)
  <2> DEFINE q == [request[r] EXCEPT !.pc = "count"]
  <2>1. request' = [request EXCEPT ![r] = q] /\ request[r].pc = "lockRole"
    BY <1>3 DEF LockRole, GoTo
  <2>2. q.pc = "count" /\ q.op = request[r].op /\ q.agent = request[r].agent
    BY <1>1, GoToFields
  <2> HIDE DEF q
  <2> QED
    BY <1>1, <2>1, <2>2, QuietBoard DEF Locked
<1>4. CASE CheckEligible(r)
  <2> DEFINE q == [request[r] EXCEPT !.pc = "readJob"]
  <2>1. request' = [request EXCEPT ![r] = q] /\ request[r].pc = "count"
    BY <1>4 DEF CheckEligible, GoTo
  <2>2. q.pc = "readJob" /\ q.op = request[r].op /\ q.agent = request[r].agent
    BY <1>1, GoToFields
  <2>3. CanHold(request[r].agent)
    BY <1>4, EligibleIsCanHold DEF CheckEligible, BoardInv, Numbered
  <2> HIDE DEF q
  <2> QED
    BY <1>1, <2>1, <2>2, <2>3, QuietBoard DEF Locked
<1> QED
  BY <1>2, <1>3, <1>4

LEMMA ReadBoard ==
  ASSUME BoardInv, NEW r \in Requests,
         ReadJob(r) \/ ReadOffer(r) \/ NoOwnOffer(r) \/ NextCounterValue(r)
  PROVE  BoardParts'
<1> DEFINE old == request[r]
<1>1. TypeOK /\ Running(r) /\ UNCHANGED tables /\ counter + 1 \in Nat
  BY DEF BoardInv, IInv, TypeOK, ReadJob, ReadOffer, NoOwnOffer, NextCounterValue, Running
<1>2. old \in Request /\ KnowsThePast(r) /\ CreatesAlone(r)
  BY <1>1, RequestType DEF BoardInv, IInv, ReadsStayCurrent, Running
<1>3. CASE ReadJob(r)
  <2> DEFINE q == WithJob(old)
  <2>1. old.job \in Jobs /\ job[old.job] \in JobRow
    BY <1>1, <1>2 DEF TypeOK, Request
  <2>2. q.op = old.op /\ q.agent = old.agent /\ q.pc # "insert"
    BY <1>2, <2>1, WithJobFields DEF WithJob, Request
  <2>3. request' = [request EXCEPT ![r] = q] /\ old.pc = "readJob"
    BY <1>3 DEF ReadJob
  <2>4. old.op \in Offering => CanHold(old.agent) /\ Locked(r)
    BY <2>3 DEF BoardInv, CheckedCanHold, Checked, Locked
  <2> HIDE DEF q
  <2> QED
    BY <1>1, <2>2, <2>3, <2>4, QuietBoard
<1>4. CASE ReadOffer(r)
  <2>1. PICK i \in DOMAIN assignment[old.job] :
          request' = [request EXCEPT ![r] = WithFound(old, i, "claim")]
    BY <1>4 DEF ReadOffer
  <2> DEFINE q == WithFound(old, i, "claim")
  <2>2. old.op \in Answering
    BY <1>1, <1>2, <1>4 DEF ReadOffer, KnowsThePast, CreatesAlone
  <2>3. q.op = old.op /\ q.pc = "claim"
    BY <1>2 DEF WithFound, Request
  <2>4. q.op \notin Offering
    BY <2>2, <2>3 DEF Offering, Answering
  <2> HIDE DEF q
  <2> QED
    BY <1>1, <2>1, <2>3, <2>4, QuietBoard DEF q
<1>5. CASE NextCounterValue(r)
  <2> DEFINE q == WithFound(old, counter + 1, "insert")
  <2>1. q.found = counter + 1 /\ q.pc = "insert"
    BY <1>1, <1>2 DEF WithFound, Request
  <2>2. request' = [request EXCEPT ![r] = q] /\ CounterFree
    BY <1>5 DEF NextCounterValue
  <2> HIDE DEF q
  <2> QED
    BY <1>1, <2>1, <2>2, QuietBoard
<1>6. CASE NoOwnOffer(r)
  <2> DEFINE q == [old EXCEPT !.pc = "readRival"]
  <2>1. old.op \in Answering
    BY <1>1, <1>2, <1>6 DEF NoOwnOffer, KnowsThePast, CreatesAlone
  <2>2. q.pc = "readRival" /\ q.op = old.op
    BY <1>1, GoToFields
  <2>3. q.op \notin Offering
    BY <2>1, <2>2 DEF Offering, Answering
  <2>4. request' = [request EXCEPT ![r] = q]
    BY <1>6 DEF NoOwnOffer, GoTo
  <2> HIDE DEF q
  <2> QED
    BY <1>1, <2>2, <2>3, <2>4, QuietBoard
<1> QED
  BY <1>3, <1>4, <1>5, <1>6

LEMMA ArriveBoard ==
  ASSUME BoardInv, Arrive
  PROVE  BoardParts'
<1>1. ASSUME NEW r \in Requests, NEW j \in Jobs, SubmitCreate(r, j) PROVE BoardParts'
  <2> DEFINE q == [pc |-> "lockCounter", op |-> "create", job |-> j, agent |-> None,
                   version |-> 0, read |-> NoJob, found |-> 0]
  <2>1. q.pc = "lockCounter"
    OBVIOUS
  <2>2. request' = [request EXCEPT ![r] = q] /\ UNCHANGED tables
    BY <1>1 DEF SubmitCreate
  <2> HIDE DEF q
  <2> QED
    BY <2>1, <2>2, QuietBoard
<1>2. ASSUME NEW r \in Requests, NEW j \in Jobs, NEW op, NEW a, Submit(r, op, j, a)
      PROVE  BoardParts'
  <2> DEFINE q == [pc |-> FirstStep(op), op |-> op, job |-> j, agent |-> a,
                   version |-> job[j].version, read |-> NoJob, found |-> 0]
  <2>1. q.op = op /\ q.pc \in {"lockMembership", "readJob"}
        /\ (q.pc = "readJob" => op \notin Offering)
    BY DEF FirstStep
  <2>2. request' = [request EXCEPT ![r] = q] /\ UNCHANGED tables
    BY <1>2 DEF Submit
  <2> HIDE DEF q
  <2> QED
    BY <2>1, <2>2, QuietBoard
<1> QED
  BY <1>1, <1>2 DEF Arrive

LEMMA CommitBoard ==
  ASSUME BoardInv, NEW r \in Requests, Commit(r), ~CreateJob(r)
  PROVE  BoardParts'
<1> DEFINE k == request[r].job
           a == request[r].agent
           same == job[k].assignee
<1>1. IInv
  BY DEF BoardInv
<1>2. /\ {"PENDING"} \in SUBSET NonTerminal /\ {"ASSIGNED"} \in SUBSET NonTerminal
      /\ {"ACCEPTED"} \in SUBSET NonTerminal /\ {"IN_PROGRESS"} \in SUBSET NonTerminal
      /\ NonTerminal \in SUBSET NonTerminal
  BY DEF NonTerminal
<1>3. {"PENDING", "ASSIGNED", "ACCEPTED", "IN_PROGRESS", "COMPLETED", "CANCELLED", "FAILED"}
        \subseteq JobStatuses
  BY DEF JobStatuses, NonTerminal
<1>4. k \in Jobs
  BY <1>1, ClaimIsCurrent
     DEF Commit, AssignJob, ReassignJob, AcceptJob, DeclineJob, Transition, PatchJob, Claiming,
         Request
<1>5. CASE AssignJob(r)
  <2>1. Claiming(r, {"assign"}) /\ request[r].op \in Offering
    BY <1>5 DEF AssignJob, Claiming, Offering
  <2> QED
    BY <1>1, <1>2, <1>3, <1>5, <2>1, AnswerChanges, ClaimBoard
<1>6. CASE ReassignJob(r)
  <2>1. Claiming(r, {"reassign"}) /\ request[r].op \in Offering
    BY <1>6 DEF ReassignJob, Claiming, Offering
  <2> QED
    BY <1>1, <1>2, <1>3, <1>6, <2>1, AnswerChanges, ClaimBoard
<1>7. CASE AcceptJob(r)
  <2>1. Claiming(r, {"accept"}) /\ Board!Change(k, {"ASSIGNED"}, "ACCEPTED", same)
    BY <1>1, <1>7, AnswerChanges DEF AcceptJob
  <2>2. job[k].status \in Held
    BY <2>1 DEF Board!Change, Held
  <2> QED
    BY <1>2, <1>3, <2>1, <2>2, ClaimBoard
<1>8. CASE DeclineJob(r)
  <2>1. Claiming(r, {"decline"}) /\ Board!Change(k, {"ASSIGNED"}, "PENDING", None)
    BY <1>1, <1>8, AnswerChanges DEF DeclineJob
  <2>2. "PENDING" \notin Held
    BY DEF Held
  <2> QED
    BY <1>2, <1>3, <2>1, <2>2, ClaimBoard
<1>9. CASE Transition(r)
  <2>1. Claiming(r, Moving)
    BY <1>9 DEF Transition
  <2>2. CASE Board!Change(k, {"ACCEPTED"}, "IN_PROGRESS", same)
    <3>1. job[k].status \in Held
      BY <2>2 DEF Board!Change, Held
    <3> QED
      BY <1>2, <1>3, <2>1, <2>2, <3>1, ClaimBoard
  <2>3. "COMPLETED" \notin Held /\ "FAILED" \notin Held /\ "CANCELLED" \notin Held
    BY DEF Held
  <2>4. CASE Board!Change(k, {"IN_PROGRESS"}, "COMPLETED", same)
    BY <1>2, <1>3, <2>1, <2>3, <2>4, ClaimBoard
  <2>5. CASE Board!Change(k, {"IN_PROGRESS"}, "FAILED", same)
    BY <1>2, <1>3, <2>1, <2>3, <2>5, ClaimBoard
  <2>6. CASE Board!Change(k, NonTerminal, "CANCELLED", None)
    BY <1>2, <1>3, <2>1, <2>3, <2>6, ClaimBoard
  <2> QED
    BY <1>1, <1>9, <2>2, <2>4, <2>5, <2>6, TransitionChanges
<1>10. CASE PatchJob(r)
  <2>1. Claiming(r, {"patch"}) /\ Board!Change(k, NonTerminal, job[k].status, same)
    BY <1>1, <1>10, PatchChanges DEF PatchJob
  <2>2. job[k].status \in JobStatuses
    BY <2>1 DEF Board!Change, JobStatuses
  <2> QED
    BY <1>2, <2>1, <2>2, ClaimBoard
<1> QED
  BY <1>5, <1>6, <1>7, <1>8, <1>9, <1>10 DEF Commit

LEMMA CreateBoard ==
  ASSUME BoardInv, NEW r \in Requests, CreateJob(r)
  PROVE  BoardParts'
<1> DEFINE k == request[r].job
           new == [status |-> "PENDING", version |-> 1, assignee |-> None,
                   completed |-> FALSE, reference |-> request[r].found]
<1>1. TypeOK /\ Running(r) /\ request[r].pc = "insert" /\ membership' = membership
  BY DEF BoardInv, IInv, CreateJob, Running
<1>2. k \in Jobs /\ request[r] \in Request
  BY <1>1, RequestType DEF Running, Request
<1>3. job[k].status = "NONE"
  BY <1>1 DEF BoardInv, IInv, ReadsStayCurrent, CreatesAlone, KnowsThePast
<1>4. request[r].found = counter + 1 /\ counter' = counter + 1 /\ counter \in Nat
  BY <1>1 DEF BoardInv, CounterHeld, CreateJob, TypeOK
<1>5. /\ job'[k] = new /\ new.status = "PENDING" /\ new.reference = counter + 1
      /\ \A j \in Jobs \ {k} : job'[j] = job[j]
  BY <1>1, <1>2, <1>4 DEF CreateJob, TypeOK
<1> HIDE DEF new
<1>6. request'[r].pc = "idle" /\ \A s \in Requests \ {r} : request'[s] = request[s]
  BY <1>1 DEF CreateJob, Answered, Idle, TypeOK
<1>7. LocksExclusive'
  BY <1>6 DEF BoardInv, LocksExclusive, Locked
<1>8. CheckedCanHold'
  <2> SUFFICES ASSUME NEW s \in Requests, Checked(s)' PROVE CanHold(request[s].agent)'
    BY DEF CheckedCanHold
  <2> PICK b : b = request'[s].agent
    OBVIOUS
  <2>1. CanHold(b)
    BY <1>6 DEF BoardInv, CheckedCanHold, Checked, Locked
  <2>2. HeldBy(b)' = HeldBy(b)
    BY <1>3, <1>5 DEF HeldBy, Held
  <2> QED
    BY <1>1, <2>1, <2>2 DEF CanHold, EffectiveCap
<1>9. CounterHeld'
  BY <1>1, <1>6 DEF BoardInv, CounterHeld
<1>10. BlankRows'
  BY <1>5 DEF BoardInv, BlankRows
<1>11. Created' = Created \cup {k} /\ k \notin Created
  BY <1>2, <1>3, <1>5 DEF Created
<1>12. IsFiniteSet(Created') /\ Cardinality(Created') = counter'
  BY <1>4, <1>11, FS_AddElement DEF BoardInv, Numbered
<1>13. References' = References \cup {counter + 1}
  <2>1. \A j \in Created : job'[j].reference = job[j].reference
    BY <1>5, <1>11 DEF Created
  <2> QED
    BY <1>5, <1>11, <2>1 DEF References
<1>14. References' = 1..counter'
  BY <1>4, <1>13 DEF BoardInv, Numbered
<1> QED
  BY <1>7, <1>8, <1>9, <1>10, <1>12, <1>14 DEF BoardParts, Numbered

\* An admin's change waits for the lock of the membership row.
LEMMA MemberBoard ==
  ASSUME BoardInv, NEW a \in Agents, NEW m \in MemberRows, UpdateMember(a, m)
  PROVE  BoardParts'
<1>1. UNCHANGED <<job, counter, request>> /\ MembershipFree(a)
      /\ \A b : b # a => membership'[b] = membership[b]
  BY DEF UpdateMember, BoardInv, IInv, TypeOK
<1>2. ASSUME NEW s \in Requests, Checked(s) PROVE CanHold(request[s].agent)'
  <2> PICK b : b = request[s].agent
    OBVIOUS
  <2>1. b # a /\ CanHold(b)
    BY <1>1, <1>2 DEF MembershipFree, HoldsMembership, Checked, Locked, BoardInv, CheckedCanHold
  <2> QED
    BY <1>1, <2>1 DEF CanHold, HeldBy, EffectiveCap
<1>3. CheckedCanHold'
  BY <1>1, <1>2 DEF CheckedCanHold, Checked, Locked
<1> QED
  BY <1>1, <1>3 DEF BoardParts, BoardInv, LocksExclusive, Locked, CounterHeld, BlankRows,
                    Numbered, Created, References

LEMMA InitBoardInv == Init => BoardInv
<1> SUFFICES ASSUME Init PROVE BoardInv
  OBVIOUS
<1>1. IInv
  BY InitIInv
<1>2. Created = {} /\ References = {} /\ counter = 0
  BY DEF Init, NoJob, Created, References
<1>3. Numbered
  BY <1>2, FS_EmptySet DEF Numbered
<1>4. \A r \in Requests : request[r].pc = "idle"
  BY DEF Init, Idle
<1> QED
  BY <1>1, <1>3, <1>4 DEF BoardInv, LocksExclusive, CheckedCanHold, Checked, Locked, CounterHeld,
                          BlankRows, Init

LEMMA NextBoardInv == BoardInv /\ [Next]_vars => BoardInv'
<1> SUFFICES ASSUME BoardInv, [Next]_vars PROVE BoardInv'
  OBVIOUS
<1>1. IInv'
  BY NextPreserves DEF BoardInv
<1>2. ASSUME Arrive PROVE BoardParts'
  BY <1>2, ArriveBoard
<1>3. ASSUME NEW r \in Requests, Serve(r) \/ Abort(r) PROVE BoardParts'
  <2>1. CASE LockMembership(r) \/ LockRole(r) \/ CheckEligible(r)
    BY <2>1, LockBoard
  <2>2. CASE ReadJob(r) \/ ReadOffer(r) \/ NoOwnOffer(r) \/ NextCounterValue(r)
    BY <2>2, ReadBoard
  <2>3. CASE \/ NotEligible(r) \/ ReadConflict(r) \/ ReadRejected(r) \/ OfferRejected(r)
             \/ RivalConflict(r) \/ NoOffer(r) \/ ClaimRejected(r) \/ Abort(r)
    BY <2>3, AnsweredBoard DEF NotEligible, ReadConflict, ReadRejected, OfferRejected,
       RivalConflict, NoOffer, ClaimRejected, Abort
  <2>4. CASE Commit(r)
    BY <2>4, CommitBoard, CreateBoard
  <2> QED
    BY <1>3, <2>1, <2>2, <2>3, <2>4 DEF Serve
<1>4. ASSUME NEW a \in Agents, NEW m \in MemberRows, UpdateMember(a, m) PROVE BoardParts'
  BY <1>4, MemberBoard
<1>5. ASSUME UNCHANGED vars PROVE BoardParts'
  BY <1>5 DEF vars, BoardParts, BoardInv, LocksExclusive, CheckedCanHold, CanHold, Checked, Locked,
              HeldBy, CounterHeld, BlankRows, Numbered, Created, References, EffectiveCap
<1>6. BoardParts'
  BY <1>2, <1>3, <1>4, <1>5 DEF Next
<1> QED
  BY <1>1, <1>6 DEF BoardParts, BoardInv

\* The invariant behind dispatch and references: locks exclude each other, an
\* agent found eligible stays so, and creations take turns at the counter.
THEOREM SpecBoardInv == Spec => []BoardInv
BY InitBoardInv, NextBoardInv, PTL DEF Spec

\* The jobs that exist carry the numbers 1 .. counter, one each, whichever
\* creations roll back (createJob and nextCounterValue).
THEOREM SpecReferencesGapless == Spec => []ReferencesGapless
<1>1. BoardInv => ReferencesGapless
  BY DEF BoardInv, Numbered, References, Created, ReferencesGapless
<1> QED
  BY <1>1, SpecBoardInv, PTL

----------------------------------------------------------------------------
(* Offers *)

\* Only a step that commits changes which rows are active.
LEMMA QuietRows ==
  ASSUME UNCHANGED assignment, NEW a
  PROVE  ActiveRows(a)' = ActiveRows(a)
BY DEF ActiveRows

LEMMA OfferedToEligible ==
  ASSUME BoardInv, Next, NEW a, ActiveRows(a)' \ ActiveRows(a) # {}
  PROVE  Eligible(membership[a], ActiveAssignmentCount(a))
<1>1. IInv /\ IsFiniteSet(Created)
  BY DEF BoardInv, Numbered
<1>2. IInv'
  BY <1>1, NextPreserves
<1>3. assignment' # assignment
  BY QuietRows
<1>4. PICK r \in Requests : Commit(r) /\ ~CreateJob(r)
  BY <1>3 DEF Next, Arrive, SubmitCreate, Submit, Serve, Abort, UpdateMember, LockMembership,
     LockRole, CheckEligible, NotEligible, ReadJob, ReadConflict, ReadRejected, ReadOffer,
     OfferRejected, NoOwnOffer, RivalConflict, NoOffer, NextCounterValue, ClaimRejected, CreateJob, tables
<1> DEFINE k == request[r].job
           b == request[r].agent
           old == assignment[k]
           offer == [agent |-> b, state |-> "OFFERED"]
<1>5. /\ k \in Jobs /\ request[r].pc = "claim" /\ old \in Seq(AssignmentRow)
      /\ ClaimSucceeds(request[r])
      /\ \A j \in Jobs \ {k} : assignment'[j] = assignment[j]
  BY <1>1, <1>4, ClaimIsCurrent
     DEF Commit, AssignJob, ReassignJob, AcceptJob, DeclineJob, Transition, PatchJob, Claiming,
         Request, IInv, TypeOK
<1>6. PICK i \in DOMAIN assignment'[k] :
        /\ assignment'[k][i].agent = a /\ assignment'[k][i].state \in ActiveStates
        /\ ~(i \in DOMAIN old /\ old[i].agent = a /\ old[i].state \in ActiveStates)
  BY <1>5 DEF ActiveRows
<1>7. \A to \in AssignmentStates \ ActiveStates :
        /\ Close(old, to) \in Seq(AssignmentRow) /\ Len(Close(old, to)) = Len(old)
        /\ \A n \in DOMAIN Close(old, to) : Close(old, to)[n].state \notin ActiveStates
  BY <1>5, CloseType, CloseInactive
<1>8. CASE AssignJob(r) \/ ReassignJob(r)
  <2>1. request[r].op \in Offering
    BY <1>8 DEF AssignJob, ReassignJob, Claiming, Offering
  <2>2. CanHold(b) /\ b \in Agents
    BY <1>1, <1>5, <2>1 DEF BoardInv, CheckedCanHold, Checked, Locked, IInv, ReadsStayCurrent,
       KnowsThePast, Running, Offering
  <2>3. offer \in AssignmentRow /\ offer.agent = b
    BY <2>2 DEF AssignmentRow, AssignmentStates, ActiveStates
  <2> HIDE DEF offer
  <2>4. ASSUME assignment'[k] = Append(old, offer) PROVE a = b
    BY <1>5, <1>6, <2>3, <2>4
  <2>5. ASSUME assignment'[k] = Append(Close(old, "REVOKED"), offer) PROVE a = b
    <3> DEFINE closed == Close(old, "REVOKED")
    <3>1. /\ closed \in Seq(AssignmentRow)
          /\ \A n \in DOMAIN closed : closed[n].state \notin ActiveStates
      BY <1>7 DEF AssignmentStates, ActiveStates
    <3> HIDE DEF closed
    <3>2. a = b
      BY <1>6, <2>3, <2>5, <3>1 DEF closed
    <3> QED
      BY <3>2
  <2>6. a = b
    BY <1>1, <1>5, <1>8, <2>4, <2>5 DEF AssignJob, ReassignJob, IInv, TypeOK, offer
  <2> QED
    BY <1>1, <2>2, <2>6, EligibleIsCanHold
<1>9. CASE AcceptJob(r) \/ DeclineJob(r)
  <2>1. request[r].op \in Answering
    BY <1>9 DEF AcceptJob, DeclineJob, Claiming, Answering
  <2>2. old[request[r].found].state \in ActiveStates /\ request[r].found \in DOMAIN old
    BY <1>1, <1>5, <2>1 DEF ClaimSucceeds, ActiveStates, IInv, ReadsStayCurrent, FoundIsOwn
  <2>3. \E state : assignment'[k] = [old EXCEPT ![request[r].found].state = state]
    <3>1. ASSUME NEW state, assignment' = [assignment EXCEPT ![k] = Answer(@, request[r].found, state)]
          PROVE  assignment'[k] = [old EXCEPT ![request[r].found].state = state]
      BY <1>1, <1>5, <3>1 DEF Answer, IInv, TypeOK
    <3> QED
      BY <1>9, <3>1 DEF AcceptJob, DeclineJob
  <2>4. \A n \in DOMAIN old : old[n] \in AssignmentRow
    BY <1>5
  <2> QED
    BY <1>6, <2>2, <2>3, <2>4 DEF AssignmentRow
<1>10. CASE Transition(r)
  <2>1. PICK to \in AssignmentStates \ ActiveStates : assignment'[k] = Close(old, to)
    <3>1. \A op \in DOMAIN CloseTo : CloseTo[op] \in AssignmentStates \ ActiveStates
      BY DEF CloseTo, AssignmentStates, ActiveStates
    <3> QED
      BY <1>1, <1>3, <1>5, <1>10, <3>1 DEF Transition, IInv, TypeOK
  <2> QED
    BY <1>6, <1>7, <2>1
<1>11. ~PatchJob(r)
  BY <1>3 DEF PatchJob
<1> QED
  BY <1>4, <1>8, <1>9, <1>10, <1>11 DEF Commit

\* Whoever gets a new active assignment is eligible when it commits: the count
\* and the membership row, checked earlier, cannot change while the request
\* holds the row's lock (assignment-service.js, lockMembership).
THEOREM SpecOfferOnlyEligible == Spec => OfferOnlyEligible
<1>1. BoardInv /\ [Next]_vars =>
        [\A a \in Agents : (ActiveRows(a)' \ ActiveRows(a)) # {} =>
           Eligible(membership[a], ActiveAssignmentCount(a))]_vars
  BY OfferedToEligible
<1> QED
  BY <1>1, SpecBoardInv, PTL DEF Spec, OfferOnlyEligible

----------------------------------------------------------------------------
(* Refinement *)

LEMMA InitImplements == Init => Board!Init
BY DEF Init, Board!Init, NoJob, Board!NoJob

\* A job that does not exist yet is a blank row of the board.
LEMMA CreateImplements ==
  ASSUME BoardInv, NEW r \in Requests, CreateJob(r)
  PROVE  Board!Create(request[r].job)
<1> DEFINE k == request[r].job
<1>1. TypeOK /\ Running(r) /\ request[r].pc = "insert" /\ membership' = membership
  BY DEF BoardInv, IInv, CreateJob, Running
<1>2. k \in Jobs
  BY <1>1, RequestType DEF Running, Request
<1>3. job[k] = NoJob
  BY <1>1, <1>2 DEF BoardInv, BlankRows, IInv, ReadsStayCurrent, CreatesAlone, KnowsThePast
<1>4. Board!NoJob = NoJob
  BY DEF Board!NoJob, NoJob
<1>5. {j \in Jobs : job[j] # Board!NoJob} = Created
  <2>1. NoJob.status = "NONE"
    BY DEF NoJob
  <2> QED
    BY <1>4, <2>1 DEF BoardInv, BlankRows, Created
<1>6. request[r].found = 1 + Board!Cardinality({j \in Jobs : job[j] # Board!NoJob})
  <2>1. request[r].found = 1 + Cardinality(Created)
    BY <1>1 DEF BoardInv, CounterHeld, Numbered, TypeOK
  <2>2. Board!Cardinality({j \in Jobs : job[j] # Board!NoJob}) = Cardinality(Created)
    BY <1>5, SameCardinality
  <2> QED
    BY <2>1, <2>2
<1> QED
  BY <1>1, <1>3, <1>4, <1>6 DEF Board!Create, CreateJob

LEMMA CommitImplements ==
  ASSUME BoardInv, NEW r \in Requests, Commit(r)
  PROVE  Board!Next
<1> DEFINE k == request[r].job
           a == request[r].agent
<1>1. IInv
  BY DEF BoardInv
<1>2. CASE CreateJob(r)
  <2>1. k \in Jobs
    BY <1>1, <1>2, RequestType DEF CreateJob, IInv, Request
  <2> QED
    BY <1>2, <2>1, CreateImplements DEF Board!Next
<1>3. CASE ~CreateJob(r)
  <2>1. k \in Jobs /\ request[r].pc = "claim"
    BY <1>1, <1>3, ClaimIsCurrent
       DEF Commit, AssignJob, ReassignJob, AcceptJob, DeclineJob, Transition, PatchJob, Claiming,
           Request
  <2>2. CASE AssignJob(r) \/ ReassignJob(r)
    <3>1. request[r].op \in Offering
      BY <2>2 DEF AssignJob, ReassignJob, Claiming, Offering
    <3>2. CanHold(a) /\ a \in Agents
      BY <1>1, <2>1, <3>1 DEF BoardInv, CheckedCanHold, Checked, Locked, IInv, ReadsStayCurrent,
         KnowsThePast, Running, Offering
    <3>3. Board!Offer(k, a) \/ Board!Reoffer(k, a)
      BY <1>1, <2>2, <3>2, AnswerChanges, CanHoldIsCanTake DEF Board!Offer, Board!Reoffer
    <3> QED
      BY <2>1, <3>2, <3>3 DEF Board!Next
  <2>3. CASE AcceptJob(r) \/ DeclineJob(r)
    BY <1>1, <2>1, <2>3, AnswerChanges DEF Board!Accept, Board!Decline, Board!Next
  <2>4. CASE Transition(r)
    <3>1. Board!Start(k) \/ Board!Complete(k) \/ Board!Fail(k) \/ Board!Cancel(k)
      BY <1>1, <2>4, TransitionChanges
         DEF Board!Start, Board!Complete, Board!Fail, Board!Cancel, NonTerminal
    <3> QED
      BY <2>1, <3>1 DEF Board!Next
  <2>5. CASE PatchJob(r)
    <3>1. Board!Edit(k)
      BY <1>1, <2>5, PatchChanges DEF Board!Edit, NonTerminal
    <3> QED
      BY <2>1, <3>1 DEF Board!Next
  <2> QED
    BY <1>3, <2>2, <2>3, <2>4, <2>5 DEF Commit
<1> QED
  BY <1>2, <1>3

LEMMA NextImplements == BoardInv /\ [Next]_vars => [Board!Next]_(Board!vars)
<1> SUFFICES ASSUME BoardInv, [Next]_vars PROVE Board!Next \/ UNCHANGED Board!vars
  BY DEF Board!vars
<1>1. ASSUME NEW r \in Requests, Commit(r) PROVE Board!Next
  BY <1>1, CommitImplements
<1>2. ASSUME NEW a \in Agents, NEW m \in MemberRows, UpdateMember(a, m) PROVE Board!Next
  BY <1>2 DEF UpdateMember, Board!UpdateMember, Board!Next
<1>3. ASSUME NEW r \in Requests, Serve(r) \/ Abort(r), ~Commit(r) PROVE UNCHANGED Board!vars
  BY <1>3 DEF Serve, Abort, LockMembership, LockRole, CheckEligible, NotEligible, ReadJob,
     ReadConflict, ReadRejected, ReadOffer, OfferRejected, NoOwnOffer, RivalConflict, NoOffer,
     NextCounterValue, ClaimRejected, tables, Board!vars
<1>4. ASSUME Arrive \/ UNCHANGED vars PROVE UNCHANGED Board!vars
  BY <1>4 DEF Arrive, SubmitCreate, Submit, tables, vars, Board!vars
<1> QED
  BY <1>1, <1>2, <1>3, <1>4 DEF Next

\* The services implement the atomic board (AtomicDispatch): every commit is
\* one operation on the state of that instant, although it was decided on
\* rows, a count and an offer read by earlier statements.
THEOREM SpecImplementsAtomicDispatch == Spec => ImplementsAtomicDispatch
BY InitImplements, NextImplements, SpecBoardInv, PTL
   DEF Spec, ImplementsAtomicDispatch, Board!Spec

=============================================================================
