------------------------- MODULE JobLifecycleProofs -------------------------
(***************************************************************************)
(* Proofs about JobLifecycle for any number of jobs, agents and requests.  *)
(***************************************************************************)
EXTENDS JobLifecycle, TLAPS

----------------------------------------------------------------------------
(* Type correctness *)

\* A running request is a Request, an idle one is Idle.
LEMMA RequestType ==
  ASSUME NEW r \in Requests, TypeOK, request[r].pc # "idle"
  PROVE  request[r] \in Request
BY DEF TypeOK, Idle

LEMMA CloseType ==
  ASSUME NEW rows \in Seq(AssignmentRow), NEW to \in AssignmentStates
  PROVE  /\ Close(rows, to) \in Seq(AssignmentRow)
         /\ Len(Close(rows, to)) = Len(rows)
         /\ DOMAIN Close(rows, to) = DOMAIN rows
<1> DEFINE closed == Close(rows, to)
<1>1. DOMAIN rows = 1..Len(rows) /\ Len(rows) \in Nat
  OBVIOUS
<1>2. ASSUME NEW i \in 1..Len(rows) PROVE closed[i] \in AssignmentRow
  <2>1. rows[i] \in AssignmentRow
    OBVIOUS
  <2> QED
    BY <2>1, <1>1 DEF Close, AssignmentRow
<1>3. closed \in [1..Len(rows) -> AssignmentRow]
  BY <1>1, <1>2 DEF Close
<1>4. closed \in Seq(AssignmentRow) /\ Len(closed) = Len(rows)
  BY <1>1, <1>3
<1> QED
  BY <1>4, <1>3, <1>1

\* What a claim makes of the job row is a job row.
LEMMA ClaimedType ==
  ASSUME TypeOK, NEW q \in Request, NEW status \in JobStatuses,
         NEW assignee \in Agents \cup {None}
  PROVE  Claimed(q, status, assignee) \in JobRow
<1> DEFINE row == job[q.job]
           done == row.completed \/ q.op = "complete"
<1>1. row \in JobRow /\ q.read.version + 1 \in Nat
  BY DEF TypeOK, Request, JobRow
<1>2. done \in BOOLEAN
  OBVIOUS
<1>3. Claimed(q, status, assignee) =
        [row EXCEPT !.status = status, !.version = q.read.version + 1,
                    !.assignee = assignee, !.completed = done]
  BY DEF Claimed
<1> HIDE DEF row, done
<1> QED
  BY <1>1, <1>2, <1>3 DEF JobRow

LEMMA InitType == Init => TypeOK
BY NoneAssumption, MemberAssumption DEF Init, TypeOK, NoJob, JobRow, Idle

\* The moves of a request that change no table.
LEMMA QuietType ==
  ASSUME TypeOK, UNCHANGED tables, NEW r \in Requests,
         NEW q \in Request \cup {Idle}, request' = [request EXCEPT ![r] = q]
  PROVE  TypeOK'
BY DEF TypeOK, tables

\* A claim that commits keeps every table typed.
LEMMA ClaimType ==
  ASSUME TypeOK, NEW r \in Requests, NEW ops, Claiming(r, ops),
         NEW status \in JobStatuses, NEW assignee \in Agents \cup {None},
         NEW from \in JobStatuses \cup {"NONE"}, NEW to \in JobStatuses,
         job' = [job EXCEPT ![request[r].job] = Claimed(request[r], status, assignee)],
         assignment' \in [Jobs -> Seq(AssignmentRow)],
         Record(request[r], from, to)
  PROVE  TypeOK'
<1>1. request[r] \in Request
  BY RequestType DEF Claiming
<1>2. Claimed(request[r], status, assignee) \in JobRow
  BY <1>1, ClaimedType
<1>3. job' \in [Jobs -> JobRow]
  BY <1>1, <1>2 DEF TypeOK, Request
<1>4. jobEvent' \in [Jobs -> Seq(EventRow)]
  <2>1. [from |-> from, to |-> to] \in EventRow
    BY DEF EventRow
  <2>2. jobEvent[request[r].job] \in Seq(EventRow)
    BY <1>1 DEF TypeOK, Request
  <2>3. Append(jobEvent[request[r].job], [from |-> from, to |-> to]) \in Seq(EventRow)
    BY <2>1, <2>2
  <2> QED
    BY <2>3, <1>1 DEF TypeOK, Request, Record
<1>5. request' \in [Requests -> Request \cup {Idle}]
  BY DEF TypeOK, Claiming, Answered
<1> QED
  BY <1>3, <1>4, <1>5 DEF TypeOK, Claiming

----------------------------------------------------------------------------
(* Assignment rows and timelines, as sequences *)

\* A first offer goes below rows none of which is active.
LEMMA OfferMatches ==
  ASSUME NEW rows \in Seq(AssignmentRow), NEW a \in Agents, NEW row \in JobRow,
         \A i \in DOMAIN rows : rows[i].state \notin ActiveStates,
         row.status = "ASSIGNED", row.assignee = a
  PROVE  LET new == Append(rows, [agent |-> a, state |-> "OFFERED"])
         IN new \in Seq(AssignmentRow) /\ RowsMatch(new, row)
<1> DEFINE offer == [agent |-> a, state |-> "OFFERED"]
           new == Append(rows, offer)
<1>1. offer \in AssignmentRow /\ offer.state = "OFFERED" /\ offer.agent = a
  BY DEF AssignmentRow, AssignmentStates, ActiveStates
<1> HIDE DEF offer
<1>2. /\ new \in Seq(AssignmentRow)
      /\ Len(new) = Len(rows) + 1
      /\ new[Len(new)] = offer
      /\ \A i \in 1..Len(rows) : new[i] = rows[i]
      /\ DOMAIN new = 1..Len(rows) + 1
      /\ DOMAIN rows = 1..Len(rows)
      /\ Len(rows) \in Nat
  BY <1>1
<1> HIDE DEF new
<1>3. new # <<>>
  BY <1>2
<1>4. \A i \in DOMAIN new : new[i].state \in ActiveStates <=> i = Len(new)
  BY <1>1, <1>2 DEF ActiveStates
<1>5. RowsMatch(new, row)
  BY <1>1, <1>2, <1>3, <1>4 DEF RowsMatch, Held
<1> QED
  BY <1>2, <1>5 DEF new, offer

\* Closing leaves no row active and every row to its agent.
LEMMA CloseInactive ==
  ASSUME NEW rows \in Seq(AssignmentRow), NEW to \in AssignmentStates \ ActiveStates
  PROVE  \A i \in DOMAIN rows : /\ Close(rows, to)[i].state \notin ActiveStates
                                /\ Close(rows, to)[i].agent = rows[i].agent
<1> SUFFICES ASSUME NEW i \in DOMAIN rows
             PROVE  /\ Close(rows, to)[i].state \notin ActiveStates
                    /\ Close(rows, to)[i].agent = rows[i].agent
  OBVIOUS
<1>1. rows[i] \in AssignmentRow
  OBVIOUS
<1>2. Close(rows, to)[i] = IF rows[i].state \in ActiveStates
                             THEN [rows[i] EXCEPT !.state = to] ELSE rows[i]
  BY DEF Close
<1> QED
  BY <1>1, <1>2 DEF AssignmentRow

\* A job that nobody holds matches rows none of which is active.
LEMMA UnheldMatches ==
  ASSUME NEW rows, NEW row,
         \A i \in DOMAIN rows : rows[i].state \notin ActiveStates,
         row.status \notin Held
  PROVE  RowsMatch(rows, row)
BY DEF RowsMatch

\* In matching rows the only row that can be OFFERED or ACCEPTED is the last;
\* answering it gives the job's new holder, or none.
LEMMA AnswerMatches ==
  ASSUME NEW rows \in Seq(AssignmentRow), NEW row \in JobRow, NEW new \in JobRow,
         RowsMatch(rows, row), row.status = "ASSIGNED",
         NEW i \in DOMAIN rows, rows[i].state = "OFFERED",
         NEW state \in AssignmentStates,
         \/ state = "ACCEPTED" /\ new.status = "ACCEPTED" /\ new.assignee = row.assignee
         \/ state = "DECLINED" /\ new.status = "PENDING",
         NEW answered, answered = Answer(rows, i, state)
  PROVE  /\ answered \in Seq(AssignmentRow)
         /\ DOMAIN answered = DOMAIN rows
         /\ \A k \in DOMAIN rows : answered[k].agent = rows[k].agent
         /\ RowsMatch(answered, new)
<1>1. i = Len(rows)
  BY DEF RowsMatch, ActiveStates
<1>2. DOMAIN rows = 1..Len(rows) /\ Len(rows) \in Nat
  OBVIOUS
<1>3. \A k \in DOMAIN rows : rows[k] \in AssignmentRow
  OBVIOUS
<1>4. /\ answered[i].agent = rows[i].agent
      /\ answered[i].state = state
      /\ answered[i] \in AssignmentRow
      /\ answered \in [DOMAIN rows -> AssignmentRow]
      /\ \A k \in DOMAIN rows : k # i => answered[k] = rows[k]
  <2>1. answered = [rows EXCEPT ![i] = [rows[i] EXCEPT !.state = state]]
    BY DEF Answer
  <2>2. [rows[i] EXCEPT !.state = state] = [agent |-> rows[i].agent, state |-> state]
    BY <1>3 DEF AssignmentRow
  <2>3. answered = [rows EXCEPT ![i] = [agent |-> rows[i].agent, state |-> state]]
    BY <2>1, <2>2
  <2>4. rows \in [DOMAIN rows -> AssignmentRow]
    BY <1>3, <1>2
  <2> QED
    BY <2>3, <2>4, <1>3 DEF AssignmentRow
<1>5. answered \in Seq(AssignmentRow) /\ Len(answered) = Len(rows)
  <2>1. answered \in [1..Len(rows) -> AssignmentRow]
    BY <1>2, <1>3, <1>4
  <2> QED
    BY <2>1, <1>2
<1>6. \A k \in DOMAIN rows : answered[k].state \in ActiveStates
                               <=> k = Len(rows) /\ state = "ACCEPTED"
  BY <1>1, <1>4 DEF RowsMatch, ActiveStates
<1>7. RowsMatch(answered, new)
  BY <1>1, <1>2, <1>4, <1>5, <1>6 DEF RowsMatch, Held
<1> QED
  BY <1>3, <1>4, <1>5, <1>7

\* A status change or an edit, with its event, keeps the timeline explained.
LEMMA LineGrows ==
  ASSUME NEW line \in Seq(EventRow), NEW row \in JobRow, NEW new \in JobRow,
         LineExplains(line, row), row.status # "NONE", new.status # "NONE",
         new.version = row.version + 1,
         Explained([from |-> row.status, to |-> new.status])
  PROVE  LineExplains(Append(line, [from |-> row.status, to |-> new.status]), new)
<1> DEFINE event == [from |-> row.status, to |-> new.status]
           longer == Append(line, event)
<1>1. event \in EventRow /\ event.from = row.status /\ event.to = new.status
  BY DEF EventRow, JobRow
<1>2. Explained(event)
  OBVIOUS
<1> HIDE DEF event
<1>3. /\ Len(longer) = Len(line) + 1
      /\ longer[Len(line) + 1] = event
      /\ \A i \in 1..Len(line) : longer[i] = line[i]
      /\ Len(line) \in Nat
  BY <1>1
<1> HIDE DEF longer
<1>8. longer # <<>>
  BY <1>3
<1>4. line # <<>> /\ Len(line) >= 1 /\ line[Len(line)].to = row.status
  BY DEF LineExplains
<1>5. Len(longer) = new.version
  BY <1>3 DEF LineExplains, JobRow
<1>6. longer[1] = [from |-> "NONE", to |-> "PENDING"] /\ longer[Len(longer)].to = new.status
  <2>1. line[1] = [from |-> "NONE", to |-> "PENDING"]
    BY <1>4 DEF LineExplains
  <2>2. 1 \in 1..Len(line)
    BY <1>3, <1>4
  <2> QED
    BY <2>1, <2>2, <1>1, <1>3
<1>7. ASSUME NEW i \in 2..Len(longer)
      PROVE  longer[i].from = longer[i - 1].to /\ Explained(longer[i])
  <2>1. CASE i = Len(line) + 1
    BY <2>1, <1>1, <1>2, <1>3, <1>4
  <2>2. CASE i # Len(line) + 1
    <3>1. i \in 2..Len(line) /\ i - 1 \in 1..Len(line) /\ i \in 1..Len(line)
      BY <2>2, <1>3
    <3>2. longer[i] = line[i] /\ longer[i - 1] = line[i - 1]
      BY <3>1, <1>3
    <3> QED
      BY <3>1, <3>2 DEF LineExplains
  <2> QED
    BY <2>1, <2>2
<1> QED
  BY <1>8, <1>5, <1>6, <1>7 DEF LineExplains, longer, event

----------------------------------------------------------------------------
(* What a claim knows *)

\* A claim that finds its row finds the row the request read.
LEMMA ClaimIsCurrent ==
  ASSUME IInv, NEW r \in Requests, request[r].pc = "claim", ClaimSucceeds(request[r])
  PROVE  LET q == request[r]
             row == job[q.job]
         IN /\ q \in Request
            /\ q.op # "create"
            /\ row \in JobRow
            /\ row.status \in JobStatuses
            /\ q.read = row
            /\ ReadAllows(q, row)
            /\ ClaimsStatus(q, row.status)
<1> DEFINE q == request[r]
           row == job[q.job]
<1>1. q \in Request
  BY RequestType DEF IInv
<1>2. CreatesAlone(r) /\ KnowsThePast(r) /\ ReadIsCurrent(r)
  BY DEF IInv, ReadsStayCurrent
<1>3. row \in JobRow /\ q.read \in JobRow /\ q.version \in Nat
  BY <1>1 DEF IInv, TypeOK, Request
<1>4. q.op # "create" /\ row.status # "NONE"
  BY <1>2 DEF CreatesAlone, KnowsThePast, Running
<1>5. row.version = q.version /\ ClaimsStatus(q, row.status)
  BY DEF ClaimSucceeds
<1>6. q.version <= q.read.version /\ q.read.version <= row.version
  BY <1>2 DEF ReadIsCurrent
<1>7. q.read.version = row.version
  BY <1>3, <1>5, <1>6 DEF JobRow
<1>8. q.read = row /\ ReadAllows(q, q.read)
  BY <1>2, <1>7 DEF ReadIsCurrent
<1> QED
  BY <1>1, <1>3, <1>4, <1>5, <1>8 DEF JobRow

\* What a commit does, as far as the other requests can tell: the job is at its
\* next version, the request is over, and assignment rows are kept.
NewVersion(r, new) ==
  /\ request[r] \in Request
  /\ job' = [job EXCEPT ![request[r].job] = new]
  /\ new.status # "NONE" /\ new.version = job[request[r].job].version + 1
  /\ request' = [request EXCEPT ![r] = Idle]
  /\ assignment' \in [Jobs -> Seq(AssignmentRow)]
  /\ \A j \in Jobs : \A i \in DOMAIN assignment[j] :
       i \in DOMAIN assignment'[j] /\ assignment'[j][i].agent = assignment[j][i].agent
  /\ \A j \in Jobs : j # request[r].job => assignment'[j] = assignment[j]

\* A commit leaves every other request consistent: whatever they read of this
\* job is now behind its version.
LEMMA OthersStayCurrent ==
  ASSUME IInv, NEW r \in Requests, NEW new \in JobRow, NewVersion(r, new)
  PROVE  ReadsStayCurrent'
<1> USE DEF NewVersion
<1> DEFINE k == request[r].job
<1>1. k \in Jobs /\ Running(r)
  BY DEF Request, Running
<1>2. /\ request'[r] = Idle
      /\ \A p \in Requests : p # r => request'[p] = request[p]
  BY DEF IInv, TypeOK
<1>3. CreatesAlone(r)' /\ KnowsThePast(r)' /\ ReadIsCurrent(r)' /\ FoundIsOwn(r)' /\ NoneIsOwn(r)'
  BY <1>2 DEF CreatesAlone, KnowsThePast, ReadIsCurrent, FoundIsOwn, NoneIsOwn, Running, Idle
<1>4. ASSUME NEW p \in Requests, p # r, ~Running(p)
      PROVE  CreatesAlone(p)' /\ KnowsThePast(p)' /\ ReadIsCurrent(p)' /\ FoundIsOwn(p)' /\ NoneIsOwn(p)'
  BY <1>2, <1>4 DEF CreatesAlone, KnowsThePast, ReadIsCurrent, FoundIsOwn, NoneIsOwn, Running
<1>5. ASSUME NEW p \in Requests, p # r, Running(p)
      PROVE  CreatesAlone(p)' /\ KnowsThePast(p)' /\ ReadIsCurrent(p)' /\ FoundIsOwn(p)' /\ NoneIsOwn(p)'
  <2> DEFINE q == request[p]
  <2>1. q \in Request /\ request'[p] = q /\ q.job \in Jobs
    BY <1>2, <1>5, RequestType DEF IInv, Request, Running
  <2>2. CreatesAlone(p) /\ KnowsThePast(p) /\ ReadIsCurrent(p) /\ FoundIsOwn(p) /\ NoneIsOwn(p) /\ CreatesAlone(r)
    BY DEF IInv, ReadsStayCurrent
  <2>3. /\ job[q.job] \in JobRow /\ job'[q.job] \in JobRow
        /\ q.job # k => job'[q.job] = job[q.job]
        /\ q.job = k => job'[q.job] = new
    BY <1>1, <2>1 DEF IInv, TypeOK
  <2>4. /\ q.version \in Nat /\ q.read.version \in Nat
        /\ job[q.job].version \in Nat /\ job'[q.job].version \in Nat
    BY <2>1, <2>3 DEF Request, JobRow
  <2>5. q.op = "create" => q.job # k
    BY <1>1, <1>5, <2>1, <2>2 DEF CreatesAlone
  <2>6. /\ job[q.job].version <= job'[q.job].version
        /\ job[q.job].version = job'[q.job].version => job[q.job] = job'[q.job]
    BY <2>3, <2>4
  <2>7. CreatesAlone(p)'
    BY <1>2, <1>5, <2>1, <2>2, <2>3, <2>5 DEF CreatesAlone, Running, Idle
  <2>8. KnowsThePast(p)'
    BY <1>5, <2>1, <2>2, <2>3, <2>4, <2>6 DEF KnowsThePast, Running
  <2>9. ReadIsCurrent(p)'
    BY <2>1, <2>2, <2>4, <2>6 DEF ReadIsCurrent, ReadAllows
  <2>10. FoundIsOwn(p)'
    <3>1. CASE q.job # k
      BY <3>1, <2>1, <2>2, <2>3 DEF FoundIsOwn
    <3>2. CASE q.job = k
      <4>1. q.pc = "claim" => q.read.version # job'[q.job].version
        BY <3>2, <2>1, <2>2, <2>3, <2>4 DEF ReadIsCurrent
      <4> QED
        BY <4>1, <2>1, <2>2 DEF FoundIsOwn
    <3> QED
      BY <3>1, <3>2
  <2>11. NoneIsOwn(p)'
    <3>1. CASE q.job # k
      BY <3>1, <2>1, <2>2, <2>3 DEF NoneIsOwn
    <3>2. CASE q.job = k
      <4>1. q.pc = "readRival" => q.read.version # job'[q.job].version
        BY <3>2, <2>1, <2>2, <2>3, <2>4 DEF ReadIsCurrent
      <4> QED
        BY <4>1, <2>1, <2>2 DEF NoneIsOwn
    <3> QED
      BY <3>1, <3>2
  <2> QED
    BY <2>7, <2>8, <2>9, <2>10, <2>11
<1> QED
  BY <1>3, <1>4, <1>5 DEF ReadsStayCurrent

----------------------------------------------------------------------------
(* Commits *)

\* The frame of the six claiming commits.  The columns the claim writes must
\* be consistent, the rewritten assignment rows must match them, and the
\* event must be explained.
LEMMA CommitPreserves ==
  ASSUME IInv, NEW r \in Requests, NEW ops, Claiming(r, ops),
         NEW status \in JobStatuses, NEW assignee \in Agents \cup {None},
         NEW rows \in Seq(AssignmentRow),
         job' = [job EXCEPT ![request[r].job] = Claimed(request[r], status, assignee)],
         assignment' = [assignment EXCEPT ![request[r].job] = rows],
         Record(request[r], job[request[r].job].status, status),
         Explained([from |-> job[request[r].job].status, to |-> status]),
         RowChecks(Claimed(request[r], status, assignee)),
         RowsMatch(rows, Claimed(request[r], status, assignee)),
         \A i \in DOMAIN assignment[request[r].job] :
           i \in DOMAIN rows /\ rows[i].agent = assignment[request[r].job][i].agent
  PROVE  IInv'
<1> DEFINE q == request[r]
           row == job[q.job]
           new == Claimed(q, status, assignee)
<1>1. /\ q \in Request /\ q.job \in Jobs /\ row \in JobRow
      /\ q.read = row /\ row.status \in JobStatuses
  BY ClaimIsCurrent DEF Claiming, Request
<1>2. new \in JobRow
  BY <1>1, ClaimedType DEF IInv
<1>3. new.status = status /\ new.version = row.version + 1
  BY <1>1 DEF Claimed, JobRow
<1> HIDE DEF new
<1>4. /\ job' = [job EXCEPT ![q.job] = new]
      /\ \A j \in Jobs : job'[j] = IF j = q.job THEN new ELSE job[j]
      /\ \A j \in Jobs : assignment'[j] = IF j = q.job THEN rows ELSE assignment[j]
  BY <1>1 DEF new, IInv, TypeOK
<1>5. assignment' \in [Jobs -> Seq(AssignmentRow)]
  BY <1>1 DEF IInv, TypeOK
<1>6. TypeOK'
  BY <1>1, <1>5, ClaimType DEF IInv
<1>7. ReadsStayCurrent'
  <2>1. status # "NONE"
    BY DEF JobStatuses, NonTerminal
  <2>2. request' = [request EXCEPT ![r] = Idle]
    BY DEF Claiming, Answered
  <2>3. \A j \in Jobs : \A i \in DOMAIN assignment[j] :
          i \in DOMAIN assignment'[j] /\ assignment'[j][i].agent = assignment[j][i].agent
    BY <1>4
  <2>4. \A j \in Jobs : j # q.job => assignment'[j] = assignment[j]
    BY <1>4
  <2>5. NewVersion(r, new)
    BY <1>1, <1>3, <1>4, <1>5, <2>1, <2>2, <2>3, <2>4 DEF NewVersion
  <2> QED
    BY <1>2, <2>5, OthersStayCurrent
<1>8. AssignmentMatchesJob'
  BY <1>4 DEF IInv, AssignmentMatchesJob, new
<1>9. TimelineExplainsJob'
  <2> DEFINE event == [from |-> row.status, to |-> status]
  <2>1. \A j \in Jobs : jobEvent'[j] = IF j = q.job THEN Append(jobEvent[j], event)
                                                    ELSE jobEvent[j]
    BY <1>1 DEF Record, IInv, TypeOK
  <2>2. jobEvent[q.job] \in Seq(EventRow) /\ LineExplains(jobEvent[q.job], row)
    BY <1>1 DEF IInv, TypeOK, TimelineExplainsJob
  <2>3. row.status # "NONE" /\ status # "NONE"
    BY <1>1 DEF JobStatuses, NonTerminal
  <2>4. LineExplains(Append(jobEvent[q.job], event), new)
    BY <1>1, <1>2, <1>3, <2>2, <2>3, LineGrows
  <2> QED
    BY <1>4, <2>1, <2>4 DEF IInv, TimelineExplainsJob
<1>10. RowChecksHold'
  BY <1>4 DEF IInv, RowChecksHold, new
<1> QED
  BY <1>6, <1>7, <1>8, <1>9, <1>10 DEF IInv

\* The columns that a claim leaves or sets.
LEMMA ClaimedColumns ==
  ASSUME NEW q, job[q.job] \in JobRow, NEW status, NEW assignee
  PROVE  /\ Claimed(q, status, assignee).status = status
         /\ Claimed(q, status, assignee).assignee = assignee
         /\ Claimed(q, status, assignee).completed
              <=> (job[q.job].completed \/ q.op = "complete")
BY DEF Claimed, JobRow

LEMMA AssignPreserves ==
  ASSUME IInv, NEW r \in Requests, AssignJob(r)
  PROVE  IInv'
<1> DEFINE q == request[r]
           row == job[q.job]
           new == Claimed(q, "ASSIGNED", q.agent)
           rows == Append(assignment[q.job], [agent |-> q.agent, state |-> "OFFERED"])
<1>1. Claiming(r, {"assign"})
  BY DEF AssignJob
<1>2. q.pc = "claim" /\ q.op = "assign" /\ ClaimSucceeds(q)
  BY <1>1 DEF Claiming
<1>3. /\ q \in Request /\ q.job \in Jobs /\ row \in JobRow /\ row.status = "PENDING"
  BY <1>2, ClaimIsCurrent DEF ClaimsStatus, Request
<1>4. q.agent \in Agents
  BY <1>2 DEF IInv, ReadsStayCurrent, KnowsThePast, Running, Offering
<1>5. new \in JobRow /\ new.status = "ASSIGNED" /\ new.assignee = q.agent
  BY <1>3, <1>4, ClaimedType, ClaimedColumns DEF IInv, JobStatuses, NonTerminal
<1>6. RowChecks(new)
  <2>1. ~row.completed /\ q.op # "complete"
    BY <1>2, <1>3 DEF IInv, RowChecksHold, RowChecks
  <2>2. q.agent # None
    BY <1>4, NoneAssumption
  <2> QED
    BY <1>3, <1>5, <2>1, <2>2, ClaimedColumns DEF RowChecks
<1>7. assignment[q.job] \in Seq(AssignmentRow)
  BY <1>3 DEF IInv, TypeOK
<1>8. \A i \in DOMAIN assignment[q.job] : assignment[q.job][i].state \notin ActiveStates
  BY <1>2 DEF ClaimSucceeds
<1>9. rows \in Seq(AssignmentRow) /\ RowsMatch(rows, new)
  BY <1>4, <1>5, <1>7, <1>8, OfferMatches
<1>10. \A i \in DOMAIN assignment[q.job] :
         i \in DOMAIN rows /\ rows[i].agent = assignment[q.job][i].agent
  <2>1. [agent |-> q.agent, state |-> "OFFERED"] \in AssignmentRow
    BY <1>4 DEF AssignmentRow, AssignmentStates, ActiveStates
  <2> QED
    BY <1>7, <2>1
<1>11. Explained([from |-> row.status, to |-> "ASSIGNED"])
  BY <1>3 DEF Explained, CanTransition, BaseTransitions, JobStatuses, NonTerminal
<1>12. /\ job' = [job EXCEPT ![q.job] = new]
       /\ assignment' = [assignment EXCEPT ![q.job] = rows]
       /\ Record(q, row.status, "ASSIGNED")
  BY <1>3 DEF AssignJob
<1>13. "ASSIGNED" \in JobStatuses /\ q.agent \in Agents \cup {None}
  BY <1>4 DEF JobStatuses, NonTerminal
<1> HIDE DEF rows
<1> QED
  BY <1>1, <1>6, <1>9, <1>10, <1>11, <1>12, <1>13, CommitPreserves

LEMMA ReassignPreserves ==
  ASSUME IInv, NEW r \in Requests, ReassignJob(r)
  PROVE  IInv'
<1> DEFINE q == request[r]
           row == job[q.job]
           new == Claimed(q, "ASSIGNED", q.agent)
           old == assignment[q.job]
           closed == Close(old, "REVOKED")
           offer == [agent |-> q.agent, state |-> "OFFERED"]
           rows == Append(closed, offer)
<1>1. Claiming(r, {"reassign"})
  BY DEF ReassignJob
<1>2. q.pc = "claim" /\ q.op = "reassign" /\ ClaimSucceeds(q)
  BY <1>1 DEF Claiming
<1>3. /\ q \in Request /\ q.job \in Jobs /\ row \in JobRow /\ row.status = "ASSIGNED"
  BY <1>2, ClaimIsCurrent DEF ClaimsStatus, Request
<1>4. q.agent \in Agents
  BY <1>2 DEF IInv, ReadsStayCurrent, KnowsThePast, Running, Offering
<1>5. new \in JobRow /\ new.status = "ASSIGNED" /\ new.assignee = q.agent
  BY <1>3, <1>4, ClaimedType, ClaimedColumns DEF IInv, JobStatuses, NonTerminal
<1>6. RowChecks(new)
  <2>1. ~row.completed /\ q.op # "complete"
    BY <1>2, <1>3 DEF IInv, RowChecksHold, RowChecks
  <2>2. q.agent # None
    BY <1>4, NoneAssumption
  <2> QED
    BY <1>3, <1>5, <2>1, <2>2, ClaimedColumns DEF RowChecks
<1>7. old \in Seq(AssignmentRow)
  BY <1>3 DEF IInv, TypeOK
<1>8. "REVOKED" \in AssignmentStates \ ActiveStates
  BY DEF AssignmentStates, ActiveStates
<1>9. /\ closed \in Seq(AssignmentRow) /\ Len(closed) = Len(old)
      /\ DOMAIN closed = DOMAIN old
      /\ \A i \in DOMAIN old : /\ closed[i].state \notin ActiveStates
                               /\ closed[i].agent = old[i].agent
  BY <1>7, <1>8, CloseType, CloseInactive
<1> HIDE DEF closed
<1>10. rows \in Seq(AssignmentRow) /\ RowsMatch(rows, new)
  BY <1>4, <1>5, <1>9, OfferMatches
<1>11. \A i \in DOMAIN old : i \in DOMAIN rows /\ rows[i].agent = old[i].agent
  <2>1. offer \in AssignmentRow
    BY <1>4 DEF AssignmentRow, AssignmentStates, ActiveStates
  <2> HIDE DEF offer
  <2>2. \A i \in DOMAIN closed : i \in DOMAIN rows /\ rows[i] = closed[i]
    BY <1>9, <2>1
  <2> QED
    BY <1>9, <2>2
<1>12. Explained([from |-> row.status, to |-> "ASSIGNED"])
  BY <1>3 DEF Explained, CanTransition, BaseTransitions, JobStatuses, NonTerminal
<1>13. /\ job' = [job EXCEPT ![q.job] = new]
       /\ assignment' = [assignment EXCEPT ![q.job] = rows]
       /\ Record(q, row.status, "ASSIGNED")
  BY <1>3 DEF ReassignJob, closed
<1>14. "ASSIGNED" \in JobStatuses /\ q.agent \in Agents \cup {None}
  BY <1>4 DEF JobStatuses, NonTerminal
<1> HIDE DEF rows
<1> QED
  BY <1>1, <1>6, <1>10, <1>11, <1>12, <1>13, <1>14, CommitPreserves

\* Accepting and declining differ in the answer only.
LEMMA AnswerPreserves ==
  ASSUME IInv, NEW r \in Requests, Claiming(r, Answering),
         NEW status, NEW assignee, NEW state,
         \/ /\ status = "ACCEPTED" /\ state = "ACCEPTED"
            /\ assignee = job[request[r].job].assignee
         \/ status = "PENDING" /\ state = "DECLINED" /\ assignee = None,
         job' = [job EXCEPT ![request[r].job] = Claimed(request[r], status, assignee)],
         assignment' = [assignment EXCEPT
           ![request[r].job] = Answer(assignment[request[r].job], request[r].found, state)],
         Record(request[r], "ASSIGNED", status)
  PROVE  IInv'
<1> DEFINE q == request[r]
           row == job[q.job]
           new == Claimed(q, status, assignee)
           old == assignment[q.job]
           rows == Answer(old, q.found, state)
<1>1. q.pc = "claim" /\ q.op \in Answering /\ ClaimSucceeds(q)
  BY DEF Claiming
<1>2. /\ q \in Request /\ q.job \in Jobs /\ row \in JobRow /\ row.status = "ASSIGNED"
  BY <1>1, ClaimIsCurrent DEF ClaimsStatus, Request
<1>3. /\ status \in JobStatuses /\ state \in AssignmentStates
      /\ assignee \in Agents \cup {None}
  BY <1>2 DEF JobStatuses, NonTerminal, AssignmentStates, ActiveStates, JobRow
<1>4. new \in JobRow /\ new.status = status /\ new.assignee = assignee
  BY <1>2, <1>3, ClaimedType, ClaimedColumns DEF IInv
<1>5. RowChecks(row) /\ RowsMatch(old, row) /\ old \in Seq(AssignmentRow)
  BY <1>2 DEF IInv, TypeOK, RowChecksHold, AssignmentMatchesJob
<1>6. RowChecks(new)
  <2>1. ~row.completed /\ q.op # "complete" /\ row.assignee # None
    BY <1>1, <1>2, <1>5 DEF RowChecks, Answering
  <2> QED
    BY <1>2, <1>4, <2>1, ClaimedColumns DEF RowChecks
<1>7. q.found \in DOMAIN old
  BY <1>1 DEF IInv, ReadsStayCurrent, FoundIsOwn
<1>8. old[q.found].state = "OFFERED"
  BY <1>1 DEF ClaimSucceeds
<1>9. /\ rows \in Seq(AssignmentRow) /\ RowsMatch(rows, new)
      /\ \A i \in DOMAIN old : i \in DOMAIN rows /\ rows[i].agent = old[i].agent
  <2>1. \/ state = "ACCEPTED" /\ new.status = "ACCEPTED" /\ new.assignee = row.assignee
        \/ state = "DECLINED" /\ new.status = "PENDING"
    BY <1>4
  <2> QED
    BY <2>1, <1>2, <1>3, <1>4, <1>5, <1>7, <1>8, AnswerMatches
<1>10. Explained([from |-> row.status, to |-> status])
  BY <1>2 DEF Explained, CanTransition, BaseTransitions, JobStatuses, NonTerminal
<1>11. /\ assignment' = [assignment EXCEPT ![q.job] = rows]
       /\ Record(q, row.status, status)
  BY <1>2
<1> HIDE DEF rows
<1> QED
  BY <1>3, <1>6, <1>9, <1>10, <1>11, CommitPreserves

LEMMA AcceptPreserves ==
  ASSUME IInv, NEW r \in Requests, AcceptJob(r)
  PROVE  IInv'
<1>1. Claiming(r, Answering)
  BY DEF AcceptJob, Claiming, Answering
<1> QED
  BY <1>1, AnswerPreserves DEF AcceptJob

LEMMA DeclinePreserves ==
  ASSUME IInv, NEW r \in Requests, DeclineJob(r)
  PROVE  IInv'
<1>1. Claiming(r, Answering)
  BY DEF DeclineJob, Claiming, Answering
<1> QED
  BY <1>1, AnswerPreserves DEF DeclineJob

LEMMA TransitionPreserves ==
  ASSUME IInv, NEW r \in Requests, Transition(r)
  PROVE  IInv'
<1> DEFINE q == request[r]
           row == job[q.job]
           to == ToStatus[q.op]
           assignee == IF q.op = "cancel" THEN None ELSE row.assignee
           new == Claimed(q, to, assignee)
           old == assignment[q.job]
           rows == IF q.op \in DOMAIN CloseTo THEN Close(old, CloseTo[q.op]) ELSE old
<1>1. Claiming(r, Moving)
  BY DEF Transition
<1>2. q.pc = "claim" /\ q.op \in Moving /\ ClaimSucceeds(q)
  BY <1>1 DEF Claiming
<1>3. /\ q \in Request /\ q.job \in Jobs /\ row \in JobRow /\ row.status \in JobStatuses
      /\ q.read = row /\ CanTransition(row.status, to)
  BY <1>2, ClaimIsCurrent DEF ReadAllows, Request
<1>4. /\ old \in Seq(AssignmentRow) /\ RowsMatch(old, row) /\ RowChecks(row)
  BY <1>3 DEF IInv, TypeOK, AssignmentMatchesJob, RowChecksHold
<1>5. \/ q.op = "start"    /\ to = "IN_PROGRESS" /\ row.status = "ACCEPTED"
      \/ q.op = "complete" /\ to = "COMPLETED"   /\ row.status = "IN_PROGRESS"
      \/ q.op = "fail"     /\ to = "FAILED"      /\ row.status = "IN_PROGRESS"
      \/ q.op = "cancel"   /\ to = "CANCELLED"   /\ row.status \in NonTerminal
  BY <1>2, <1>3 DEF Moving, ToStatus, CanTransition, BaseTransitions, JobStatuses, NonTerminal
<1>6. to \in JobStatuses /\ assignee \in Agents \cup {None}
  BY <1>3, <1>5 DEF JobStatuses, NonTerminal, JobRow
<1> HIDE DEF to
<1>7. new \in JobRow /\ new.status = to /\ new.assignee = assignee
      /\ (new.completed <=> (row.completed \/ q.op = "complete"))
  BY <1>3, <1>6, ClaimedType, ClaimedColumns DEF IInv
<1>8. RowChecks(new)
  BY <1>3, <1>4, <1>5, <1>7, NoneAssumption DEF RowChecks, NonTerminal
<1> HIDE DEF new
<1>9. /\ rows \in Seq(AssignmentRow)
      /\ \A i \in DOMAIN old : i \in DOMAIN rows /\ rows[i].agent = old[i].agent
      /\ RowsMatch(rows, new)
  <2>1. CASE q.op = "start"
    <3>1. rows = old
      BY <2>1 DEF CloseTo
    <3>2. RowsMatch(old, new)
      BY <1>4, <1>5, <1>7, <2>1 DEF RowsMatch, Held
    <3> QED
      BY <1>4, <3>1, <3>2
  <2>2. CASE q.op # "start"
    <3> DEFINE c == CloseTo[q.op]
    <3>1. q.op \in DOMAIN CloseTo /\ c \in AssignmentStates \ ActiveStates
      BY <1>5, <2>2 DEF CloseTo, AssignmentStates, ActiveStates
    <3> HIDE DEF c
    <3>2. rows = Close(old, c)
      BY <3>1 DEF c
    <3>3. /\ rows \in Seq(AssignmentRow) /\ DOMAIN rows = DOMAIN old
          /\ \A i \in DOMAIN old : /\ rows[i].state \notin ActiveStates
                                   /\ rows[i].agent = old[i].agent
      BY <1>4, <3>1, <3>2, CloseType, CloseInactive
    <3>4. new.status \notin Held
      BY <1>5, <1>7, <2>2 DEF Held
    <3>5. RowsMatch(rows, new)
      BY <3>3, <3>4, UnheldMatches
    <3> QED
      BY <3>3, <3>5
  <2> QED
    BY <2>1, <2>2
<1>10. Explained([from |-> row.status, to |-> to])
  BY <1>3 DEF Explained
<1>11. /\ job' = [job EXCEPT ![q.job] = new]
       /\ assignment' = [assignment EXCEPT ![q.job] = rows]
       /\ Record(q, row.status, to)
  <2>1. assignment = [assignment EXCEPT ![q.job] = old]
    BY <1>3 DEF IInv, TypeOK
  <2>2. assignment' = [assignment EXCEPT ![q.job] = rows]
    BY <2>1 DEF Transition
  <2> QED
    BY <1>3, <2>2 DEF Transition, new, to
<1> HIDE DEF rows
<1> QED
  BY <1>1, <1>6, <1>8, <1>9, <1>10, <1>11, CommitPreserves DEF new

LEMMA PatchPreserves ==
  ASSUME IInv, NEW r \in Requests, PatchJob(r)
  PROVE  IInv'
<1> DEFINE q == request[r]
           row == job[q.job]
           new == Claimed(q, row.status, row.assignee)
           old == assignment[q.job]
<1>1. Claiming(r, {"patch"})
  BY DEF PatchJob
<1>2. q.pc = "claim" /\ q.op = "patch" /\ ClaimSucceeds(q)
  BY <1>1 DEF Claiming
<1>3. /\ q \in Request /\ q.job \in Jobs /\ row \in JobRow /\ row.status \in NonTerminal
      /\ q.read = row
  BY <1>2, ClaimIsCurrent DEF ReadAllows, Request
<1>4. /\ old \in Seq(AssignmentRow) /\ RowsMatch(old, row) /\ RowChecks(row)
  BY <1>3 DEF IInv, TypeOK, AssignmentMatchesJob, RowChecksHold
<1>5. row.status \in JobStatuses /\ row.assignee \in Agents \cup {None}
  BY <1>3 DEF JobStatuses, JobRow
<1>6. new.status = row.status /\ new.assignee = row.assignee /\ (new.completed <=> row.completed)
  BY <1>2, <1>3, ClaimedColumns
<1>7. RowChecks(new) /\ RowsMatch(old, new)
  BY <1>4, <1>6 DEF RowChecks, RowsMatch
<1>8. Explained([from |-> row.status, to |-> row.status])
  BY <1>3 DEF Explained
<1>9. /\ job' = [job EXCEPT ![q.job] = new]
      /\ assignment' = [assignment EXCEPT ![q.job] = old]
      /\ Record(q, row.status, row.status)
  BY <1>3 DEF PatchJob, IInv, TypeOK
<1> QED
  BY <1>1, <1>4, <1>5, <1>7, <1>8, <1>9, CommitPreserves

LEMMA CreatePreserves ==
  ASSUME IInv, NEW r \in Requests, CreateJob(r)
  PROVE  IInv'
<1> DEFINE q == request[r]
           row == job[q.job]
           new == [status |-> "PENDING", version |-> 1, assignee |-> None,
                   completed |-> FALSE, reference |-> q.found]
           event == [from |-> "NONE", to |-> "PENDING"]
<1>1. q.pc = "insert" /\ Running(r)
  BY DEF CreateJob, Running
<1>2. q \in Request /\ q.job \in Jobs /\ q.found \in Nat /\ row \in JobRow
  BY <1>1, RequestType DEF Running, Request, IInv, TypeOK
<1>3. q.op = "create" /\ row.status = "NONE"
  BY <1>1 DEF IInv, ReadsStayCurrent, KnowsThePast, CreatesAlone
<1>4. new \in JobRow /\ new.status = "PENDING" /\ new.version = 1
      /\ new.assignee = None /\ ~new.completed
  BY <1>2 DEF JobRow, JobStatuses, NonTerminal
<1> HIDE DEF new
<1>5. LineExplains(jobEvent[q.job], row) /\ jobEvent[q.job] = <<>> /\ row.version = 0
  BY <1>2, <1>3 DEF IInv, TimelineExplainsJob, LineExplains
<1>6. /\ job' = [job EXCEPT ![q.job] = new]
      /\ \A j \in Jobs : job'[j] = IF j = q.job THEN new ELSE job[j]
      /\ \A j \in Jobs : jobEvent'[j] = IF j = q.job THEN <<event>> ELSE jobEvent[j]
      /\ assignment' = assignment
      /\ request' = [request EXCEPT ![r] = Idle]
  BY <1>2, <1>5 DEF CreateJob, Record, Answered, IInv, TypeOK, new
<1>7. TypeOK'
  <2>1. event \in EventRow
    BY DEF EventRow, JobStatuses, NonTerminal
  <2>2. jobEvent' \in [Jobs -> Seq(EventRow)]
    BY <1>2, <1>5, <2>1 DEF CreateJob, Record, IInv, TypeOK
  <2>3. job' \in [Jobs -> JobRow] /\ request' \in [Requests -> Request \cup {Idle}]
    BY <1>2, <1>4, <1>6 DEF IInv, TypeOK
  <2> QED
    BY <1>2, <2>2, <2>3 DEF CreateJob, IInv, TypeOK
<1>8. ReadsStayCurrent'
  <2>1. new.version = row.version + 1 /\ new.status # "NONE"
    BY <1>4, <1>5
  <2>2. assignment' \in [Jobs -> Seq(AssignmentRow)]
    BY <1>6 DEF IInv, TypeOK
  <2>3. NewVersion(r, new)
    BY <1>2, <1>6, <2>1, <2>2 DEF NewVersion
  <2> QED
    BY <1>4, <2>3, OthersStayCurrent
<1>9. AssignmentMatchesJob'
  <2>1. RowsMatch(assignment[q.job], row)
    BY <1>2 DEF IInv, AssignmentMatchesJob
  <2>2. RowsMatch(assignment[q.job], new)
    BY <1>3, <1>4, <2>1 DEF RowsMatch, Held
  <2> QED
    BY <1>6, <2>2 DEF IInv, AssignmentMatchesJob
<1>10. TimelineExplainsJob'
  <2>1. LineExplains(<<event>>, new)
    BY <1>4 DEF LineExplains
  <2> QED
    BY <1>6, <2>1 DEF IInv, TimelineExplainsJob
<1>11. RowChecksHold'
  <2>1. RowChecks(new)
    BY <1>4 DEF RowChecks
  <2> QED
    BY <1>6, <2>1 DEF IInv, RowChecksHold
<1> QED
  BY <1>7, <1>8, <1>9, <1>10, <1>11 DEF IInv

----------------------------------------------------------------------------
(* Steps that change no table *)

\* A request moves on, is answered or arrives; only what IT remembers has to
\* be looked at, and that it does not take the job of a creation.
LEMMA QuietPreserves ==
  ASSUME IInv, UNCHANGED tables, NEW r \in Requests, NEW q \in Request \cup {Idle},
         request' = [request EXCEPT ![r] = q],
         (CreatesAlone(r) /\ KnowsThePast(r) /\ ReadIsCurrent(r) /\ FoundIsOwn(r) /\ NoneIsOwn(r))',
         \A p \in Requests : p # r /\ Running(p) /\ request[p].op = "create" =>
           (q.pc # "idle" => q.job # request[p].job)
  PROVE  IInv'
<1>1. TypeOK'
  BY QuietType DEF IInv
<1>2. /\ request'[r] = q
      /\ \A p \in Requests : p # r => request'[p] = request[p]
  BY DEF IInv, TypeOK
<1>3. job' = job /\ assignment' = assignment /\ jobEvent' = jobEvent
  BY DEF tables
<1>4. ASSUME NEW p \in Requests, p # r
      PROVE  (CreatesAlone(p) /\ KnowsThePast(p) /\ ReadIsCurrent(p) /\ FoundIsOwn(p) /\ NoneIsOwn(p))'
  <2>1. CreatesAlone(p) /\ KnowsThePast(p) /\ ReadIsCurrent(p) /\ FoundIsOwn(p) /\ NoneIsOwn(p)
    BY DEF IInv, ReadsStayCurrent
  <2>2. CreatesAlone(p)'
    BY <1>2, <1>3, <1>4, <2>1 DEF CreatesAlone, Running
  <2>3. KnowsThePast(p)' /\ ReadIsCurrent(p)' /\ FoundIsOwn(p)' /\ NoneIsOwn(p)'
    BY <1>2, <1>3, <1>4, <2>1 DEF KnowsThePast, ReadIsCurrent, ReadAllows, FoundIsOwn, NoneIsOwn, Running
  <2> QED
    BY <2>2, <2>3
<1>5. ReadsStayCurrent'
  BY <1>4 DEF ReadsStayCurrent
<1>6. (AssignmentMatchesJob /\ TimelineExplainsJob /\ RowChecksHold)'
  BY <1>3 DEF IInv, AssignmentMatchesJob, TimelineExplainsJob, RowChecksHold
<1> QED
  BY <1>1, <1>5, <1>6 DEF IInv

LEMMA AnsweredPreserves ==
  ASSUME IInv, UNCHANGED tables, NEW r \in Requests, Answered(r)
  PROVE  IInv'
<1>1. request'[r] = Idle
  BY DEF Answered, IInv, TypeOK
<1>2. (CreatesAlone(r) /\ KnowsThePast(r) /\ ReadIsCurrent(r) /\ FoundIsOwn(r) /\ NoneIsOwn(r))'
  BY <1>1 DEF CreatesAlone, KnowsThePast, ReadIsCurrent, FoundIsOwn, NoneIsOwn, Running, Idle
<1> QED
  BY <1>1, <1>2, QuietPreserves DEF Answered, Idle

\* A running request whose next step decides on nothing it read yet.
LEMMA GoToPreserves ==
  ASSUME IInv, UNCHANGED tables, NEW r \in Requests,
         request[r].pc \in {"lockMembership", "lockRole", "count"},
         NEW pc \in {"lockRole", "count", "readJob"}, GoTo(r, pc)
  PROVE  IInv'
<1> DEFINE q == [request[r] EXCEPT !.pc = pc]
<1>1. request[r] \in Request /\ Running(r)
  BY RequestType DEF Running, IInv
<1>2. /\ q \in Request /\ q.pc = pc /\ q.job = request[r].job /\ q.op = request[r].op
      /\ q.version = request[r].version /\ q.agent = request[r].agent
  BY <1>1 DEF Request
<1>3. request' = [request EXCEPT ![r] = q]
  BY DEF GoTo
<1> HIDE DEF q
<1>4. request'[r] = q
  BY <1>3 DEF IInv, TypeOK
<1>5. CreatesAlone(r) /\ KnowsThePast(r)
  BY DEF IInv, ReadsStayCurrent
<1>6. request[r].op # "create"
  BY <1>1, <1>5 DEF CreatesAlone
<1>7. job' = job
  BY DEF tables
<1>8. (CreatesAlone(r) /\ ReadIsCurrent(r) /\ FoundIsOwn(r) /\ NoneIsOwn(r))'
  BY <1>2, <1>4, <1>6 DEF CreatesAlone, ReadIsCurrent, FoundIsOwn, NoneIsOwn
<1>9. KnowsThePast(r)'
  BY <1>1, <1>2, <1>4, <1>5, <1>6, <1>7 DEF KnowsThePast, Running
<1>10. \A p \in Requests : p # r /\ Running(p) /\ request[p].op = "create" => q.job # request[p].job
  BY <1>1, <1>2 DEF IInv, ReadsStayCurrent, CreatesAlone
<1> QED
  BY <1>2, <1>3, <1>8, <1>9, <1>10, QuietPreserves

LEMMA SubmitPreserves ==
  ASSUME IInv, NEW r \in Requests, NEW j \in Jobs, NEW op \in Operations \ {"create"},
         NEW a \in Agents \cup {None}, op \in Offering \cup Answering => a \in Agents,
         Submit(r, op, j, a)
  PROVE  IInv'
<1> DEFINE q == [pc |-> FirstStep(op), op |-> op, job |-> j, agent |-> a,
                 version |-> job[j].version, read |-> NoJob, found |-> 0]
<1>1. FirstStep(op) \in {"lockMembership", "readJob"}
  BY DEF FirstStep
<1>2. job[j] \in JobRow /\ NoJob \in JobRow
  BY DEF IInv, TypeOK, NoJob, JobRow
<1>3. q \in Request /\ q.pc = FirstStep(op) /\ q.op = op /\ q.job = j /\ q.agent = a
      /\ q.version = job[j].version
  BY <1>1, <1>2 DEF Request, JobRow
<1>4. request' = [request EXCEPT ![r] = q] /\ UNCHANGED tables /\ job[j].status # "NONE"
  BY DEF Submit
<1> HIDE DEF q
<1>5. request'[r] = q /\ job' = job
  BY <1>4 DEF IInv, TypeOK, tables
<1>6. (CreatesAlone(r) /\ ReadIsCurrent(r) /\ FoundIsOwn(r) /\ NoneIsOwn(r))'
  BY <1>1, <1>3, <1>5 DEF CreatesAlone, ReadIsCurrent, FoundIsOwn, NoneIsOwn
<1>7. KnowsThePast(r)'
  BY <1>1, <1>2, <1>3, <1>4, <1>5 DEF KnowsThePast, JobRow
<1>8. \A p \in Requests : p # r /\ Running(p) /\ request[p].op = "create" => q.job # request[p].job
  BY <1>3, <1>4 DEF IInv, ReadsStayCurrent, CreatesAlone
<1> QED
  BY <1>3, <1>4, <1>6, <1>7, <1>8, QuietPreserves

LEMMA SubmitCreatePreserves ==
  ASSUME IInv, NEW r \in Requests, NEW j \in Jobs, SubmitCreate(r, j)
  PROVE  IInv'
<1> DEFINE q == [pc |-> "lockCounter", op |-> "create", job |-> j, agent |-> None,
                 version |-> 0, read |-> NoJob, found |-> 0]
<1>1. q \in Request /\ q.pc = "lockCounter" /\ q.op = "create" /\ q.job = j
  BY DEF Request, Operations, NoJob, JobRow
<1>2. /\ request' = [request EXCEPT ![r] = q] /\ UNCHANGED tables
      /\ job[j].status = "NONE"
      /\ \A p \in Requests : Running(p) => request[p].job # j
  BY DEF SubmitCreate, Running
<1> HIDE DEF q
<1>3. /\ request'[r] = q /\ job' = job
      /\ \A p \in Requests : p # r => request'[p] = request[p]
  BY <1>2 DEF IInv, TypeOK, tables
<1>4. CreatesAlone(r)'
  BY <1>1, <1>2, <1>3 DEF CreatesAlone, Running
<1>5. (KnowsThePast(r) /\ ReadIsCurrent(r) /\ FoundIsOwn(r) /\ NoneIsOwn(r))'
  BY <1>1, <1>3 DEF KnowsThePast, ReadIsCurrent, FoundIsOwn, NoneIsOwn
<1> QED
  BY <1>1, <1>2, <1>4, <1>5, QuietPreserves

\* What reading adds to a request, and what it keeps.
LEMMA WithJobFields ==
  ASSUME NEW q \in Request, job[q.job] \in JobRow
  PROVE  /\ WithJob(q) \in Request
         /\ WithJob(q).pc = IF q.op \in Answering THEN "readOffer" ELSE "claim"
         /\ WithJob(q).op = q.op /\ WithJob(q).job = q.job /\ WithJob(q).agent = q.agent
         /\ WithJob(q).version = q.version /\ WithJob(q).read = job[q.job]
BY DEF WithJob, Request

LEMMA WithFoundFields ==
  ASSUME NEW q \in Request, NEW n \in Nat, NEW pc \in {"claim", "insert"}
  PROVE  /\ WithFound(q, n, pc) \in Request
         /\ WithFound(q, n, pc).pc = pc /\ WithFound(q, n, pc).found = n
         /\ WithFound(q, n, pc).op = q.op /\ WithFound(q, n, pc).job = q.job
         /\ WithFound(q, n, pc).agent = q.agent
         /\ WithFound(q, n, pc).version = q.version /\ WithFound(q, n, pc).read = q.read
BY DEF WithFound, Request

LEMMA ReadJobPreserves ==
  ASSUME IInv, NEW r \in Requests, ReadJob(r)
  PROVE  IInv'
<1> DEFINE old == request[r]
           q == WithJob(old)
<1>1. old \in Request /\ old.pc = "readJob" /\ Running(r)
  BY RequestType DEF ReadJob, IInv, Running
<1>2. job[old.job] \in JobRow /\ old.job \in Jobs
  BY <1>1 DEF Request, IInv, TypeOK
<1>3. /\ q \in Request /\ q.pc \in {"readOffer", "claim"} /\ q.op = old.op
      /\ q.job = old.job /\ q.agent = old.agent /\ q.version = old.version
      /\ q.read = job[old.job] /\ (q.pc = "readOffer" <=> q.op \in Answering)
  BY <1>1, <1>2, WithJobFields
<1>4. /\ request' = [request EXCEPT ![r] = q]
      /\ ReadAllows(old, job[old.job]) /\ UNCHANGED tables
  BY DEF ReadJob
<1> HIDE DEF q
<1>5. request'[r] = q /\ job' = job
  BY <1>4 DEF IInv, TypeOK, tables
<1>6. CreatesAlone(r) /\ KnowsThePast(r) /\ old.op # "create"
  BY <1>1 DEF IInv, ReadsStayCurrent, CreatesAlone
<1>7. CreatesAlone(r)' /\ FoundIsOwn(r)' /\ NoneIsOwn(r)'
  BY <1>3, <1>5, <1>6 DEF CreatesAlone, FoundIsOwn, NoneIsOwn
<1>8. KnowsThePast(r)'
  BY <1>1, <1>2, <1>3, <1>5, <1>6 DEF KnowsThePast
<1>9. ReadIsCurrent(r)'
  <2>1. ReadAllows(request[r], request[r].read)'
    BY <1>3, <1>4, <1>5 DEF ReadAllows
  <2>2. old.version <= job[old.job].version /\ job[old.job].version \in Nat
    BY <1>1, <1>2, <1>6 DEF KnowsThePast, JobRow
  <2> QED
    BY <1>2, <1>3, <1>5, <2>1, <2>2 DEF ReadIsCurrent
<1>10. \A p \in Requests : p # r /\ Running(p) /\ request[p].op = "create" => q.job # request[p].job
  BY <1>1, <1>3 DEF IInv, ReadsStayCurrent, CreatesAlone
<1> QED
  BY <1>3, <1>4, <1>7, <1>8, <1>9, <1>10, QuietPreserves

LEMMA ReadOfferPreserves ==
  ASSUME IInv, NEW r \in Requests, ReadOffer(r)
  PROVE  IInv'
<1> DEFINE old == request[r]
           rows == assignment[old.job]
<1>1. old \in Request /\ old.pc = "readOffer" /\ Running(r) /\ old.read.status = "ASSIGNED"
  BY RequestType DEF ReadOffer, IInv, Running
<1>2. PICK i \in DOMAIN rows :
        IsOwnOffer(old, i) /\ request' = [request EXCEPT ![r] = WithFound(old, i, "claim")]
  BY DEF ReadOffer
<1> DEFINE q == WithFound(old, i, "claim")
<1>3. old.job \in Jobs /\ job[old.job] \in JobRow /\ i \in Nat
  BY <1>1, <1>2 DEF Request, IInv, TypeOK
<1>4. /\ q \in Request /\ q.pc = "claim" /\ q.op = old.op /\ q.found = i
      /\ q.job = old.job /\ q.agent = old.agent /\ q.version = old.version
      /\ q.read = old.read
  BY <1>1, <1>3, WithFoundFields
<1>5. request' = [request EXCEPT ![r] = q] /\ UNCHANGED tables
  BY <1>2 DEF ReadOffer
<1>6. rows[i].agent = old.agent /\ rows[i].state = "OFFERED"
  BY <1>2 DEF IsOwnOffer
<1> HIDE DEF q
<1>7. request'[r] = q /\ job' = job /\ assignment' = assignment
  BY <1>5 DEF IInv, TypeOK, tables
<1>8. CreatesAlone(r) /\ KnowsThePast(r) /\ ReadIsCurrent(r) /\ old.op # "create"
  BY <1>1 DEF IInv, ReadsStayCurrent, CreatesAlone
<1>9. CreatesAlone(r)' /\ KnowsThePast(r)'
  BY <1>1, <1>4, <1>7, <1>8 DEF CreatesAlone, KnowsThePast
<1>10. ReadIsCurrent(r)'
  BY <1>1, <1>4, <1>7, <1>8 DEF ReadIsCurrent, ReadAllows
<1>11. FoundIsOwn(r)' /\ NoneIsOwn(r)'
  BY <1>1, <1>2, <1>4, <1>6, <1>7 DEF FoundIsOwn, NoneIsOwn
<1>12. \A p \in Requests : p # r /\ Running(p) /\ request[p].op = "create" => q.job # request[p].job
  BY <1>1, <1>4 DEF IInv, ReadsStayCurrent, CreatesAlone
<1> QED
  BY <1>4, <1>5, <1>9, <1>10, <1>11, <1>12, QuietPreserves

\* While the job is offered to the caller, its newest row is the caller's offer:
\* a caller without one is not who the job is offered to.
LEMMA NoOwnOfferPreserves ==
  ASSUME IInv, NEW r \in Requests, NoOwnOffer(r)
  PROVE  IInv'
<1> DEFINE old == request[r]
           q == [old EXCEPT !.pc = "readRival"]
           rows == assignment[old.job]
<1>1. old \in Request /\ old.pc = "readOffer" /\ Running(r) /\ ~HasOwnOffer(old)
  BY RequestType DEF NoOwnOffer, IInv, Running
<1>2. /\ q \in Request /\ q.pc = "readRival" /\ q.op = old.op
      /\ q.job = old.job /\ q.agent = old.agent /\ q.version = old.version
      /\ q.read = old.read
  BY <1>1 DEF Request
<1>3. request' = [request EXCEPT ![r] = q] /\ UNCHANGED tables
  BY DEF NoOwnOffer, GoTo
<1> HIDE DEF q
<1>4. request'[r] = q /\ job' = job
  BY <1>3 DEF IInv, TypeOK, tables
<1>5. CreatesAlone(r) /\ KnowsThePast(r) /\ ReadIsCurrent(r) /\ old.op # "create"
  BY <1>1 DEF IInv, ReadsStayCurrent, CreatesAlone
<1>6. CreatesAlone(r)' /\ KnowsThePast(r)' /\ FoundIsOwn(r)'
  BY <1>1, <1>2, <1>4, <1>5 DEF CreatesAlone, KnowsThePast, FoundIsOwn
<1>7. ReadIsCurrent(r)'
  BY <1>1, <1>2, <1>4, <1>5 DEF ReadIsCurrent, ReadAllows
<1>8. old.job \in Jobs /\ rows \in Seq(AssignmentRow) /\ RowsMatch(rows, job[old.job])
  BY <1>1 DEF Request, IInv, TypeOK, AssignmentMatchesJob
<1>9. ~(job[old.job].status = "ASSIGNED" /\ job[old.job].assignee = old.agent)
  <2>1. SUFFICES ASSUME job[old.job].status = "ASSIGNED", job[old.job].assignee = old.agent
                 PROVE  FALSE
    OBVIOUS
  <2>2. /\ rows # <<>>
        /\ rows[Len(rows)].agent = old.agent
        /\ rows[Len(rows)].state = "OFFERED"
    BY <2>1, <1>8 DEF RowsMatch, Held
  <2>3. /\ Len(rows) \in DOMAIN rows
        /\ rows[Len(rows)] \in AssignmentRow
        /\ \A k \in DOMAIN rows : k <= Len(rows)
    BY <1>8, <2>2
  <2>4. rows[Len(rows)] = [agent |-> old.agent, state |-> "OFFERED"]
    BY <2>2, <2>3 DEF AssignmentRow
  <2>5. IsOwnOffer(old, Len(rows))
    BY <2>3, <2>4 DEF IsOwnOffer
  <2> QED
    BY <1>1, <2>3, <2>5 DEF HasOwnOffer
<1>10. NoneIsOwn(r)'
  BY <1>2, <1>4, <1>9 DEF NoneIsOwn
<1>11. \A p \in Requests : p # r /\ Running(p) /\ request[p].op = "create" => q.job # request[p].job
  BY <1>1, <1>2 DEF IInv, ReadsStayCurrent, CreatesAlone
<1> QED
  BY <1>2, <1>3, <1>6, <1>7, <1>10, <1>11, QuietPreserves

LEMMA NextCounterPreserves ==
  ASSUME IInv, NEW r \in Requests, NextCounterValue(r)
  PROVE  IInv'
<1> DEFINE old == request[r]
           q == WithFound(old, counter + 1, "insert")
<1>1. old \in Request /\ old.pc = "lockCounter" /\ Running(r)
  BY RequestType DEF NextCounterValue, IInv, Running
<1>2. counter + 1 \in Nat
  BY DEF IInv, TypeOK
<1>3. q \in Request /\ q.pc = "insert" /\ q.op = old.op /\ q.job = old.job
  BY <1>1, <1>2, WithFoundFields
<1>4. request' = [request EXCEPT ![r] = q] /\ UNCHANGED tables
  BY DEF NextCounterValue
<1> HIDE DEF q
<1>5. /\ request'[r] = q /\ job' = job
      /\ \A p \in Requests : p # r => request'[p] = request[p]
  BY <1>4 DEF IInv, TypeOK, tables
<1>6. CreatesAlone(r) /\ KnowsThePast(r) /\ old.op = "create"
  BY <1>1 DEF IInv, ReadsStayCurrent, KnowsThePast
<1>7. CreatesAlone(r)'
  BY <1>1, <1>3, <1>5, <1>6 DEF CreatesAlone, Running
<1>8. (KnowsThePast(r) /\ ReadIsCurrent(r) /\ FoundIsOwn(r) /\ NoneIsOwn(r))'
  BY <1>3, <1>5, <1>6 DEF KnowsThePast, ReadIsCurrent, FoundIsOwn, NoneIsOwn
<1>9. \A p \in Requests : p # r /\ Running(p) /\ request[p].op = "create" => q.job # request[p].job
  BY <1>1, <1>3 DEF IInv, ReadsStayCurrent, CreatesAlone
<1> QED
  BY <1>3, <1>4, <1>7, <1>8, <1>9, QuietPreserves

----------------------------------------------------------------------------
(* The theorems *)

LEMMA MemberPreserves ==
  ASSUME IInv, NEW a \in Agents, NEW m \in MemberRows, UpdateMember(a, m)
  PROVE  IInv'
<1>1. TypeOK'
  BY MemberAssumption DEF IInv, TypeOK, UpdateMember
<1>2. UNCHANGED <<job, assignment, jobEvent, request>>
  BY DEF UpdateMember
<1>3. ReadsStayCurrent'
  BY <1>2 DEF IInv, ReadsStayCurrent, CreatesAlone, KnowsThePast, ReadIsCurrent,
              ReadAllows, FoundIsOwn, NoneIsOwn, Running
<1>4. (AssignmentMatchesJob /\ TimelineExplainsJob /\ RowChecksHold)'
  BY <1>2 DEF IInv, AssignmentMatchesJob, TimelineExplainsJob, RowChecksHold
<1> QED
  BY <1>1, <1>3, <1>4 DEF IInv

LEMMA InitIInv == Init => IInv
<1> SUFFICES ASSUME Init PROVE IInv
  OBVIOUS
<1>1. \A r \in Requests : request[r].pc = "idle"
  BY DEF Init, Idle
<1>2. ReadsStayCurrent
  BY <1>1 DEF ReadsStayCurrent, CreatesAlone, KnowsThePast, ReadIsCurrent, FoundIsOwn, NoneIsOwn, Running
<1>3. \A j \in Jobs : job[j] = NoJob /\ assignment[j] = <<>> /\ jobEvent[j] = <<>>
  BY DEF Init
<1>4. AssignmentMatchesJob
  BY <1>3 DEF AssignmentMatchesJob, RowsMatch, NoJob, Held
<1>5. TimelineExplainsJob
  BY <1>3 DEF TimelineExplainsJob, LineExplains, NoJob
<1>6. RowChecksHold
  BY <1>3 DEF RowChecksHold, RowChecks, NoJob
<1> QED
  BY <1>2, <1>4, <1>5, <1>6, InitType DEF IInv

LEMMA ArrivePreserves == IInv /\ Arrive => IInv'
<1> SUFFICES ASSUME IInv, Arrive PROVE IInv'
  OBVIOUS
<1>1. PICK r \in Requests, j \in Jobs :
        \/ SubmitCreate(r, j)
        \/ \E op \in Operations \ {"cancel", "patch", "create"}, a \in Agents : Submit(r, op, j, a)
        \/ \E op \in {"cancel", "patch"} : Submit(r, op, j, None)
  BY DEF Arrive
<1>2. CASE SubmitCreate(r, j)
  BY <1>2, SubmitCreatePreserves
<1>3. ASSUME NEW op \in Operations \ {"cancel", "patch", "create"}, NEW a \in Agents,
             Submit(r, op, j, a)
      PROVE  IInv'
  BY <1>3, SubmitPreserves
<1>4. ASSUME NEW op \in {"cancel", "patch"}, Submit(r, op, j, None)
      PROVE  IInv'
  <2>1. op \in Operations \ {"create"} /\ op \notin Offering \cup Answering
    BY DEF Operations, Offering, Answering, Moving
  <2> QED
    BY <1>4, <2>1, SubmitPreserves
<1> QED
  BY <1>1, <1>2, <1>3, <1>4

LEMMA ServePreserves ==
  ASSUME IInv, NEW r \in Requests, Serve(r) \/ Abort(r)
  PROVE  IInv'
<1>1. CASE LockMembership(r)
  BY <1>1, GoToPreserves DEF LockMembership
<1>2. CASE LockRole(r)
  BY <1>2, GoToPreserves DEF LockRole
<1>3. CASE CheckEligible(r)
  BY <1>3, GoToPreserves DEF CheckEligible
<1>4. CASE \/ NotEligible(r) \/ ReadConflict(r) \/ ReadRejected(r) \/ OfferRejected(r)
           \/ RivalConflict(r) \/ NoOffer(r) \/ ClaimRejected(r) \/ Abort(r)
  BY <1>4, AnsweredPreserves DEF NotEligible, ReadConflict, ReadRejected, OfferRejected,
     RivalConflict, NoOffer, ClaimRejected, Abort
<1>5. CASE ReadJob(r)
  BY <1>5, ReadJobPreserves
<1>6. CASE ReadOffer(r)
  BY <1>6, ReadOfferPreserves
<1>7. CASE NextCounterValue(r)
  BY <1>7, NextCounterPreserves
<1>8. CASE NoOwnOffer(r)
  BY <1>8, NoOwnOfferPreserves
<1>9. CASE Commit(r)
  BY <1>9, AssignPreserves, ReassignPreserves, AcceptPreserves, DeclinePreserves,
     TransitionPreserves, PatchPreserves, CreatePreserves DEF Commit
<1> QED
  BY <1>1, <1>2, <1>3, <1>4, <1>5, <1>6, <1>7, <1>8, <1>9 DEF Serve

LEMMA NextPreserves == IInv /\ [Next]_vars => IInv'
<1> SUFFICES ASSUME IInv, [Next]_vars PROVE IInv'
  OBVIOUS
<1>1. CASE Arrive
  BY <1>1, ArrivePreserves
<1>2. ASSUME NEW r \in Requests, Serve(r) \/ Abort(r) PROVE IInv'
  BY <1>2, ServePreserves
<1>3. ASSUME NEW a \in Agents, NEW m \in MemberRows, UpdateMember(a, m) PROVE IInv'
  BY <1>3, MemberPreserves
<1>4. CASE UNCHANGED vars
  BY <1>4 DEF vars, IInv, TypeOK, ReadsStayCurrent, CreatesAlone, KnowsThePast, ReadIsCurrent,
              ReadAllows, FoundIsOwn, NoneIsOwn, Running, AssignmentMatchesJob, TimelineExplainsJob,
              RowChecksHold
<1> QED
  BY <1>1, <1>2, <1>3, <1>4 DEF Next

\* The inductive invariant holds in every reachable state.
THEOREM SpecIInv == Spec => []IInv
BY InitIInv, NextPreserves, PTL DEF Spec

\* Type correctness: every row and every request is always of its type.
THEOREM SpecTypeOK == Spec => []TypeOK
<1>1. IInv => TypeOK
  BY DEF IInv
<1> QED
  BY <1>1, SpecIInv, PTL

\* The Job and Assignment tables always agree on who holds a job, for any
\* number of jobs, agents and concurrent requests: the partial unique index
\* and the ownership checks never meet a state the services disagree about.
THEOREM SpecAssignmentMatchesJob == Spec => []AssignmentMatchesJob
<1>1. IInv => AssignmentMatchesJob
  BY DEF IInv
<1> QED
  BY <1>1, SpecIInv, PTL

\* Every version of every job is explained by exactly one timeline event, and
\* the timeline follows the transition table.
THEOREM SpecTimelineExplainsJob == Spec => []TimelineExplainsJob
<1>1. IInv => TimelineExplainsJob
  BY DEF IInv
<1> QED
  BY <1>1, SpecIInv, PTL

\* The row-level CHECK constraints hold of every row the services write.
THEOREM SpecRowChecksHold == Spec => []RowChecksHold
<1>1. IInv => RowChecksHold
  BY DEF IInv
<1> QED
  BY <1>1, SpecIInv, PTL

\* What a request remembers of its job is current until the version moves.
THEOREM SpecReadsStayCurrent == Spec => []ReadsStayCurrent
<1>1. IInv => ReadsStayCurrent
  BY DEF IInv
<1> QED
  BY <1>1, SpecIInv, PTL

\* A claim that finds the version it asks for fails only on a job that the
\* operation was never for.
LEMMA RejectedMoved ==
  ASSUME IInv, NEW r \in Requests, ClaimRejected(r)
  PROVE  \/ job[request[r].job].version > request[r].version
         \/ ~Answerable(request[r], job[request[r].job])
<1> DEFINE q == request[r]
           row == job[q.job]
           rows == assignment[q.job]
<1>1. q.pc = "claim" /\ Running(r) /\ ~ClaimSucceeds(q)
  BY DEF ClaimRejected, Running
<1>2. q \in Request /\ q.job \in Jobs /\ row \in JobRow /\ q.read \in JobRow
  BY <1>1, RequestType DEF Running, IInv, TypeOK, Request
<1>3. row.version \in Nat /\ q.version \in Nat /\ q.read.version \in Nat
  BY <1>2 DEF Request, JobRow
<1>4. CreatesAlone(r) /\ KnowsThePast(r) /\ ReadIsCurrent(r) /\ FoundIsOwn(r)
  BY DEF IInv, ReadsStayCurrent
<1>5. q.op # "create" /\ q.version <= row.version
  BY <1>1, <1>4 DEF CreatesAlone, KnowsThePast
<1>6. SUFFICES ASSUME row.version = q.version, Answerable(q, row)
               PROVE  ClaimSucceeds(q)
  BY <1>1, <1>3, <1>5
<1>7. q.read = row /\ ReadAllows(q, row)
  BY <1>1, <1>3, <1>4, <1>6 DEF ReadIsCurrent
<1>8. q.op \in Answering => row.status = "ASSIGNED" /\ rows[q.found].state = "OFFERED"
  BY <1>1, <1>4, <1>7 DEF FoundIsOwn
<1>9. ClaimsStatus(q, row.status)
  BY <1>6, <1>7, <1>8 DEF ClaimsStatus, ReadAllows, Answerable
<1>10. q.op = "assign" => \A i \in DOMAIN rows : rows[i].state \notin ActiveStates
  <2>1. q.op = "assign" => row.status \notin Held
    BY <1>7 DEF ReadAllows, Held
  <2> QED
    BY <1>2, <2>1 DEF IInv, AssignmentMatchesJob, RowsMatch
<1> QED
  BY <1>6, <1>8, <1>9, <1>10 DEF ClaimSucceeds

\* A caller whose offer lookup found nothing was not offered the job, unless
\* the job has moved since it was read.
LEMMA RivalMoved ==
  ASSUME IInv, NEW r \in Requests, RivalConflict(r)
  PROVE  \/ job[request[r].job].version > request[r].version
         \/ ~Answerable(request[r], job[request[r].job])
<1> DEFINE q == request[r]
           row == job[q.job]
<1>1. q.pc = "readRival" /\ Running(r)
  BY DEF RivalConflict, Running
<1>2. q \in Request /\ row \in JobRow /\ q.read \in JobRow
  BY <1>1, RequestType DEF Running, IInv, TypeOK, Request
<1>3. row.version \in Nat /\ q.version \in Nat /\ q.read.version \in Nat
  BY <1>2 DEF Request, JobRow
<1>4. CreatesAlone(r) /\ KnowsThePast(r) /\ ReadIsCurrent(r) /\ NoneIsOwn(r)
  BY DEF IInv, ReadsStayCurrent
<1>5. q.op \in Answering /\ q.version <= row.version
  BY <1>1, <1>4 DEF CreatesAlone, KnowsThePast
<1>6. q.version <= q.read.version /\ q.read.version <= row.version
  BY <1>1, <1>4 DEF ReadIsCurrent
<1> QED
  BY <1>1, <1>3, <1>4, <1>5, <1>6 DEF NoneIsOwn, Answerable

\* Whoever gets a 409 version_conflict, from the fast path, the rival's offer or
\* the claim, sent a version that is behind or asked for what the job never
\* allowed at it.
THEOREM SpecConflictMeansMoved == Spec => ConflictMeansMoved
<1>1. IInv => \A r \in Requests : Conflict(r) =>
        LET q == request[r] IN
        job[q.job].version > q.version \/ ~Answerable(q, job[q.job])
  <2> SUFFICES ASSUME IInv, NEW r \in Requests, Conflict(r)
               PROVE  \/ job[request[r].job].version > request[r].version
                      \/ ~Answerable(request[r], job[request[r].job])
    OBVIOUS
  <2>1. CASE ReadConflict(r)
    BY <2>1 DEF ReadConflict, ReadAllows, Answerable, Moving
  <2>2. CASE RivalConflict(r)
    BY <2>2, RivalMoved
  <2>3. CASE ClaimRejected(r)
    BY <2>3, RejectedMoved
  <2> QED
    BY <2>1, <2>2, <2>3 DEF Conflict
<1> QED
  BY <1>1, SpecIInv, PTL DEF ConflictMeansMoved
=============================================================================
