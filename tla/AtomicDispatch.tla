--------------------------- MODULE AtomicDispatch ---------------------------
(***************************************************************************)
(* What the job services promise: a board of jobs on which every operation *)
(* takes effect at one instant, on the state of that instant.  There are   *)
(* no requests, no locks and no Assignment table; a job is offered to, or  *)
(* worked on by, its assignee.                                             *)
(***************************************************************************)
EXTENDS Integers, FiniteSets

CONSTANTS Jobs, Agents, None, DefaultCap, MemberRows

VARIABLES job, membership

vars == <<job, membership>>

NoJob == [status |-> "NONE", version |-> 0, assignee |-> None,
          completed |-> FALSE, reference |-> 0]

Init ==
  /\ job = [j \in Jobs |-> NoJob]
  /\ membership \in [Agents -> MemberRows]

\* The jobs an agent has been offered or works on.
Load(a) ==
  Cardinality({j \in Jobs : /\ job[j].assignee = a
                            /\ job[j].status \in {"ASSIGNED", "ACCEPTED", "IN_PROGRESS"}})

CanTake(a) ==
  /\ membership[a].role = "AGENT"
  /\ membership[a].isAvailable
  /\ Load(a) < IF membership[a].concurrentJobCap = None
                 THEN DefaultCap ELSE membership[a].concurrentJobCap

\* Every change of a job is one version.
Change(j, from, status, assignee) ==
  /\ job[j].status \in from
  /\ job' = [job EXCEPT ![j].status = status, ![j].assignee = assignee,
                        ![j].version = @ + 1, ![j].completed = (status = "COMPLETED")]
  /\ UNCHANGED membership

Create(j) ==
  /\ job[j] = NoJob
  /\ job' = [job EXCEPT ![j] =
       [status |-> "PENDING", version |-> 1, assignee |-> None, completed |-> FALSE,
        reference |-> 1 + Cardinality({k \in Jobs : job[k] # NoJob})]]
  /\ UNCHANGED membership

Offer(j, a)   == CanTake(a) /\ Change(j, {"PENDING"}, "ASSIGNED", a)
Reoffer(j, a) == CanTake(a) /\ Change(j, {"ASSIGNED"}, "ASSIGNED", a)
Accept(j)     == Change(j, {"ASSIGNED"}, "ACCEPTED", job[j].assignee)
Decline(j)    == Change(j, {"ASSIGNED"}, "PENDING", None)
Start(j)      == Change(j, {"ACCEPTED"}, "IN_PROGRESS", job[j].assignee)
Complete(j)   == Change(j, {"IN_PROGRESS"}, "COMPLETED", job[j].assignee)
Fail(j)       == Change(j, {"IN_PROGRESS"}, "FAILED", job[j].assignee)
Cancel(j)     == Change(j, {"PENDING", "ASSIGNED", "ACCEPTED", "IN_PROGRESS"}, "CANCELLED", None)
Edit(j) ==
  Change(j, {"PENDING", "ASSIGNED", "ACCEPTED", "IN_PROGRESS"}, job[j].status, job[j].assignee)

UpdateMember(a, m) == membership' = [membership EXCEPT ![a] = m] /\ UNCHANGED job

Next ==
  \/ \E j \in Jobs :
       \/ Create(j) \/ Accept(j) \/ Decline(j) \/ Start(j) \/ Complete(j)
       \/ Fail(j) \/ Cancel(j) \/ Edit(j)
       \/ \E a \in Agents : Offer(j, a) \/ Reoffer(j, a)
  \/ \E a \in Agents, m \in MemberRows : UpdateMember(a, m)

Spec == Init /\ [][Next]_vars
=============================================================================
