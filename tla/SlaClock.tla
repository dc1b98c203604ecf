------------------------------ MODULE SlaClock ------------------------------
(***************************************************************************)
(* The SLA clock of one job: the hook that arms or disarms its two delayed *)
(* evaluations after a commit (routes/jobs.js, integration-adapters.js and *)
(* lib/queue/index.js), and the worker that evaluates them                 *)
(* (worker/handlers/sla-check.js).                                         *)
(*                                                                         *)
(* The evaluations are BullMQ jobs in Redis under a fixed id per job and   *)
(* threshold.  Hooks of different requests and handlers of different       *)
(* worker processes interleave at every call to Redis and PostgreSQL.      *)
(***************************************************************************)
EXTENDS Integers, FiniteSets

CONSTANTS
  Hooks,        \* requests that are past their commit at the same time
  Workers,      \* worker processes; each evaluates one timer at a time
  None,         \* no such entry in the queue
  Kinds,        \* what commits: "move" (a transition), "patch", "replay"
  MaxAttempts,  \* queueDefaults.attempts
  MaxRounds,    \* bound: assignments of the job
  MaxEditions,  \* bound: editions of the organization's SLA policy
  MaxExtras     \* bound: edits, replays, failures of hooks, and workers that outlive a stall

VARIABLES
  status,       \* Job.status, as far as the clock tells statuses apart
  slaState,     \* Job.slaState
  escalation,   \* the thresholds with an Escalation row
  policy,       \* edition of the policy, 0 when there is none
  timer,        \* per threshold, the queue's entry under its id
  hook,         \* the part of each request that follows its commit
  worker,       \* the evaluation in each worker process
  round,        \* assignments so far
  promised,     \* history: the edition the hook of the latest transition read, if it
                \* assigned and the promise is intact, otherwise 0
  announced,    \* the side effects of the breach ran to their end: its publish, a
                \* failure of which is swallowed, and its notification's enqueue
  intact,       \* history: the latest transition assigned the job while no hook was
                \* disarming its clock, and since then no hook died, none of their
                \* calls failed, and no replay disarmed the clock
  overtaken,    \* history: when the promise was read, another hook was arming the
                \* clock with an older edition
  extras        \* what MaxExtras bounds, so far

vars == <<status, slaState, escalation, policy, timer, hook, worker, round,
          promised, announced, intact, overtaken, extras>>

----------------------------------------------------------------------------
Thresholds == {"WARNING", "BREACH"}
SlaStates == {"OK", "WARNING", "BREACHED"}

\* WORKING stands for ACCEPTED and IN_PROGRESS, TERMINAL for the three others.
Statuses == {"PENDING", "ASSIGNED", "WORKING", "TERMINAL"}
Moves == {<<"PENDING", "ASSIGNED">>, <<"PENDING", "TERMINAL">>,
          <<"ASSIGNED", "PENDING">>, <<"ASSIGNED", "WORKING">>, <<"ASSIGNED", "TERMINAL">>,
          <<"WORKING", "WORKING">>, <<"WORKING", "TERMINAL">>}

\* "pending" is BullMQ's delayed or waiting, "active" locked by a worker.
\* "edition" is that of the thresholds it waits for, 0 once its delay has elapsed.
Timer == [state : {"pending", "active", "completed", "failed"},
          owner : Workers \cup {None},
          attempts : 0..MaxAttempts - 1, edition : 0..MaxEditions]

ASSUME ClockAssumption ==
  /\ MaxAttempts \in Nat \ {0} /\ MaxRounds \in Nat /\ MaxEditions \in Nat \ {0}
  /\ MaxExtras \in Nat
  /\ Kinds \subseteq {"move", "patch", "replay"}
  /\ None \notin Workers \cup Timer

Steps == {"remove", "look", "clear", "add", "done"}

\* "step" is how far the hook is with each threshold, "assigns" the assignment
\* whose promise it is to make, 0 when it makes none or has made it.
Hook == [arms : BOOLEAN, pc : {"policy", "work"}, edition : 0..MaxEditions,
         assigns : 0..MaxRounds, step : [Thresholds -> Steps]]
HookIdle == [arms |-> FALSE, pc |-> "work", edition |-> 0, assigns |-> 0,
             step |-> [t \in Thresholds |-> "done"]]

Evaluation == [pc : {"read", "write", "announce"}, threshold : Thresholds,
               slaState : SlaStates]
WorkerIdle == [pc |-> "idle"]
Announcing == [pc |-> "announce", threshold |-> "BREACH", slaState |-> "BREACHED"]

TypeOK ==
  /\ status \in Statuses
  /\ slaState \in SlaStates
  /\ escalation \subseteq Thresholds
  /\ policy \in 0..MaxEditions
  /\ timer \in [Thresholds -> Timer \cup {None}]
  /\ hook \in [Hooks -> Hook]
  /\ worker \in [Workers -> Evaluation \cup {WorkerIdle}]
  /\ round \in 0..MaxRounds
  /\ promised \in 0..MaxEditions
  /\ announced \in BOOLEAN /\ intact \in BOOLEAN /\ overtaken \in BOOLEAN
  /\ extras \in 0..MaxExtras

Init ==
  /\ status = "PENDING" /\ slaState = "OK"
  /\ escalation = {}
  /\ policy \in 0..1
  /\ timer = [t \in Thresholds |-> None]
  /\ hook = [h \in Hooks |-> HookIdle]
  /\ worker = [w \in Workers |-> WorkerIdle]
  /\ round = 0 /\ promised = 0
  /\ announced = FALSE /\ intact = FALSE /\ overtaken = FALSE
  /\ extras = 0

database == <<slaState, escalation, announced>>
Quiet(h) == hook[h] = HookIdle
Present(t) == timer[t] # None
Disarms(g) == ~Quiet(g) /\ ~hook[g].arms

Keep == UNCHANGED <<promised, intact, overtaken>>
Extra == extras < MaxExtras /\ extras' = extras + 1
Break == promised' = 0 /\ intact' = FALSE /\ overtaken' = FALSE

----------------------------------------------------------------------------
(* Commits and the hooks they start *)

\* A job that answers ASSIGNED arms the clock, any other one disarms it.
StartHook(h, shown, assigns) ==
  hook' = [hook EXCEPT ![h] =
    [arms |-> shown = "ASSIGNED", pc |-> IF shown = "ASSIGNED" THEN "policy" ELSE "work",
     edition |-> 0, assigns |-> assigns, step |-> [t \in Thresholds |-> "remove"]]]

CommitMove(h, to) ==
  /\ "move" \in Kinds
  /\ Quiet(h)
  /\ <<status, to>> \in Moves
  /\ to = "ASSIGNED" => round < MaxRounds
  /\ status' = to
  /\ round' = IF to = "ASSIGNED" THEN round + 1 ELSE round
  /\ promised' = 0
  /\ intact' = (to = "ASSIGNED" /\ \A g \in Hooks : ~Disarms(g))
  /\ overtaken' = FALSE
  /\ UNCHANGED extras
  /\ StartHook(h, to, IF to = "ASSIGNED" THEN round + 1 ELSE 0)
  /\ UNCHANGED <<database, policy, timer, worker>>

\* An edit of a job runs the same hook with the status the job has.
CommitPatch(h) ==
  /\ "patch" \in Kinds /\ Extra
  /\ Quiet(h)
  /\ status # "TERMINAL"
  /\ StartHook(h, status, 0)
  /\ Keep
  /\ UNCHANGED <<database, policy, timer, worker, round, status>>

\* A replay runs the hook with the job as the stored response shows it: ASSIGNED
\* once it has been assigned, or else a status that disarms the clock.
Replay(h, shownAssigned) ==
  /\ "replay" \in Kinds /\ Extra
  /\ Quiet(h)
  /\ shownAssigned => round > 0
  /\ StartHook(h, IF shownAssigned THEN "ASSIGNED" ELSE "PENDING", 0)
  /\ IF shownAssigned THEN Keep ELSE Break
  /\ UNCHANGED <<database, policy, timer, worker, round, status>>

EditPolicy ==
  /\ policy < MaxEditions
  /\ policy' = policy + 1
  /\ Keep
  /\ UNCHANGED <<database, status, timer, hook, worker, round, extras>>

unhooked == <<database, status, policy, worker, round>>

ArmsWithOlder(g, edition) ==
  ~Quiet(g) /\ hook[g].arms /\ hook[g].pc = "work" /\ hook[g].edition < edition

\* The hook of an assignment makes the promise; without a policy it is done.
ReadPolicy(h) ==
  /\ hook[h].pc = "policy"
  /\ hook' = [hook EXCEPT ![h] =
       IF policy = 0 THEN HookIdle ELSE [@ EXCEPT !.pc = "work", !.edition = policy, !.assigns = 0]]
  /\ IF intact /\ hook[h].assigns = round
       THEN promised' = policy /\ overtaken' = \E g \in Hooks : ArmsWithOlder(g, policy)
       ELSE UNCHANGED <<promised, overtaken>>
  /\ UNCHANGED <<unhooked, timer, intact, extras>>

\* Fault: the first threshold that is done ends the hook.
FaultyAdvance(h, t, to) ==
  hook' = [hook EXCEPT ![h] = IF to = "done" THEN HookIdle ELSE [@ EXCEPT !.step[t] = to]]

\* The hook is idle again when both thresholds are done.
Advance(h, t, to) ==
  hook' = [hook EXCEPT ![h] =
    IF to = "done" /\ \A u \in Thresholds \ {t} : @.step[u] = "done"
      THEN HookIdle ELSE [@ EXCEPT !.step[t] = to]]

\* Removing an entry that a worker has locked fails, and is ignored.
WithoutEntry(t) ==
  timer' = IF Present(t) /\ timer[t].state # "active" THEN [timer EXCEPT ![t] = None] ELSE timer

AfterRemove(h) == IF hook[h].arms THEN "look" ELSE "done"

\* Fault: the clock is armed over whatever is pending.
FaultyRemove(h, t) ==
  /\ hook[h].pc = "work" /\ hook[h].step[t] = "remove"
  /\ t = "BREACH" => hook[h].step["WARNING"] # "remove"
  /\ IF hook[h].arms THEN UNCHANGED timer ELSE WithoutEntry(t)
  /\ Advance(h, t, AfterRemove(h))
  /\ Keep
  /\ UNCHANGED <<unhooked, extras>>

\* The two thresholds one after the other ...
Remove(h, t) ==
  /\ hook[h].pc = "work" /\ hook[h].step[t] = "remove"
  /\ t = "BREACH" => hook[h].step["WARNING"] # "remove"
  /\ WithoutEntry(t)
  /\ Advance(h, t, AfterRemove(h))
  /\ Keep
  /\ UNCHANGED <<unhooked, extras>>

\* ... and then both at once.  A pending or active evaluation is kept.
Look(h, t) ==
  /\ hook[h].pc = "work" /\ hook[h].step[t] = "look"
  /\ \A u \in Thresholds : hook[h].step[u] # "remove"
  /\ Advance(h, t, IF ~Present(t) THEN "add"
                   ELSE IF timer[t].state \in {"pending", "active"} THEN "done" ELSE "clear")
  /\ Keep
  /\ UNCHANGED <<unhooked, timer, extras>>

Clear(h, t) ==
  /\ hook[h].step[t] = "clear"
  /\ WithoutEntry(t)
  /\ Advance(h, t, "add")
  /\ Keep
  /\ UNCHANGED <<unhooked, extras>>

\* Adding under an id that exists returns the stored entry.
Add(h, t) ==
  /\ hook[h].step[t] = "add"
  /\ timer' = IF Present(t) THEN timer ELSE [timer EXCEPT ![t] =
       [state |-> "pending", owner |-> None, attempts |-> 0, edition |-> hook[h].edition]]
  /\ Advance(h, t, "done")
  /\ Keep
  /\ UNCHANGED <<unhooked, extras>>

\* Redis does not answer: removals and looks are passed over (a state that is
\* not known counts as settled), an add that throws ends its threshold.
RedisFails(h, t) ==
  /\ hook[h].pc = "work" /\ hook[h].step[t] # "done"
  /\ t = "BREACH" => hook[h].step["WARNING"] # "remove"
  /\ hook[h].step[t] = "look" => \A u \in Thresholds : hook[h].step[u] # "remove"
  /\ \/ hook[h].step[t] = "remove" /\ Advance(h, t, AfterRemove(h))
     \/ hook[h].step[t] = "look" /\ \E to \in {"clear", "add"} : Advance(h, t, to)
     \/ hook[h].step[t] = "clear" /\ Advance(h, t, "add")
     \/ hook[h].step[t] = "add" /\ Advance(h, t, "done")
  /\ Break /\ Extra
  /\ UNCHANGED <<unhooked, timer>>

\* The API process dies, or the policy cannot be read: the rest of the hook is
\* lost, and nothing else arms a clock.
HookDies(h) ==
  /\ ~Quiet(h)
  /\ hook' = [hook EXCEPT ![h] = HookIdle]
  /\ Break /\ Extra
  /\ UNCHANGED <<unhooked, timer>>

----------------------------------------------------------------------------
(* The worker *)

stood == <<status, policy, hook, round, promised, intact, overtaken>>
unworked == <<stood, extras>>
Evaluating(w) == worker[w] # WorkerIdle
Owns(w) == LET t == worker[w].threshold IN
  Present(t) /\ timer[t].state = "active" /\ timer[t].owner = w

\* The evaluation ends; a worker that lost its lock changes no entry.
Settle(w, entry) ==
  /\ worker' = [worker EXCEPT ![w] = WorkerIdle]
  /\ timer' = IF Owns(w) THEN [timer EXCEPT ![worker[w].threshold] = entry] ELSE timer

Entry(w) == timer[worker[w].threshold]
Released(w) == [Entry(w) EXCEPT !.state = "pending", !.owner = None]

\* Fault: an evaluation is retried for ever.
FaultyRetried(w) == [Released(w) EXCEPT !.attempts = @ + 1]

\* Of a settled entry only its state matters: nothing reads the rest.
Settled(state) ==
  [state |-> state, owner |-> None, attempts |-> 0, edition |-> 0]
Acknowledged == Settled("completed")
Failed == Settled("failed")

Retried(w) ==
  IF Entry(w).attempts + 1 < MaxAttempts
    THEN [Released(w) EXCEPT !.attempts = @ + 1] ELSE Failed

\* The delay has elapsed: which delay it was is in the entry, not in the model.
Fire(w, t) ==
  /\ ~Evaluating(w)
  /\ Present(t) /\ timer[t].state = "pending"
  /\ timer' = [timer EXCEPT ![t].state = "active", ![t].owner = w, ![t].edition = 0]
  /\ worker' = [worker EXCEPT ![w] = [pc |-> "read", threshold |-> t, slaState |-> "OK"]]
  /\ UNCHANGED <<unworked, database>>

\* The handler acts on the row it reads here; a terminal job is a no-op.
ReadJob(w) ==
  /\ worker[w].pc = "read"
  /\ IF status = "TERMINAL" THEN Settle(w, Acknowledged)
     ELSE /\ worker' = [worker EXCEPT ![w].pc = "write", ![w].slaState = slaState]
          /\ UNCHANGED timer
  /\ UNCHANGED <<unworked, database>>

\* Fault: a warning does not look at the state the job has.
FaultyNextSlaState(threshold, was) == IF threshold = "BREACH" THEN "BREACHED" ELSE "WARNING"

NextSlaState(threshold, was) ==
  IF threshold = "BREACH" \/ was = "BREACHED" THEN "BREACHED" ELSE "WARNING"

\* Fault: the escalation is written, the job's state is not.
FaultyEscalate(w) ==
  /\ worker[w].pc = "write"
  /\ worker[w].threshold \notin escalation
  /\ escalation' = escalation \cup {worker[w].threshold}
  /\ IF worker[w].threshold = "BREACH"
       THEN worker' = [worker EXCEPT ![w] = Announcing] /\ UNCHANGED timer
       ELSE Settle(w, Acknowledged)
  /\ UNCHANGED <<unworked, slaState, announced>>

\* One transaction: the job's SLA state and the escalation.
Escalate(w) ==
  /\ worker[w].pc = "write"
  /\ worker[w].threshold \notin escalation
  /\ slaState' = NextSlaState(worker[w].threshold, worker[w].slaState)
  /\ escalation' = escalation \cup {worker[w].threshold}
  /\ IF worker[w].threshold = "BREACH"
       THEN worker' = [worker EXCEPT ![w] = Announcing] /\ UNCHANGED timer
       ELSE Settle(w, Acknowledged)
  /\ UNCHANGED <<unworked, announced>>

\* Fault: the second delivery of a breach is acknowledged at once.
FaultyAlreadyEscalated(w) ==
  /\ worker[w].pc = "write"
  /\ worker[w].threshold \in escalation
  /\ Settle(w, Acknowledged)
  /\ UNCHANGED <<unworked, database>>

\* The unique row is there: the transaction rolls back, and a breach that may
\* not have been announced is announced again.
AlreadyEscalated(w) ==
  /\ worker[w].pc = "write"
  /\ worker[w].threshold \in escalation
  /\ IF worker[w].threshold = "BREACH"
       THEN worker' = [worker EXCEPT ![w] = Announcing] /\ UNCHANGED timer
       ELSE Settle(w, Acknowledged)
  /\ UNCHANGED <<unworked, database>>

Announce(w) ==
  /\ worker[w].pc = "announce"
  /\ announced' = TRUE
  /\ Settle(w, Acknowledged)
  /\ UNCHANGED <<unworked, slaState, escalation>>

HandlerFails(w) ==
  /\ Evaluating(w)
  /\ Settle(w, Retried(w))
  /\ UNCHANGED <<unworked, database>>

\* The queue takes a stalled entry back, or gives it up; the worker that
\* stalled goes on, or is dead.
Stall(w) ==
  /\ Evaluating(w)
  /\ Owns(w)
  /\ \E entry \in {Released(w), Failed} :
       timer' = [timer EXCEPT ![worker[w].threshold] = entry]
  /\ \/ worker' = [worker EXCEPT ![w] = WorkerIdle] /\ UNCHANGED extras
     \/ Extra /\ UNCHANGED worker
  /\ UNCHANGED <<stood, database>>

----------------------------------------------------------------------------
\* The calls a hook still has to make, and a worker's part, when they succeed.
HookStep(h) ==
  \/ ReadPolicy(h)
  \/ \E t \in Thresholds : Remove(h, t) \/ Look(h, t) \/ Clear(h, t) \/ Add(h, t)

WorkerStep(w) ==
  \/ \E t \in Thresholds : Fire(w, t)
  \/ ReadJob(w) \/ Escalate(w) \/ AlreadyEscalated(w) \/ Announce(w)

HookNext(h) ==
  \/ \E to \in Statuses : CommitMove(h, to)
  \/ CommitPatch(h)
  \/ \E shownAssigned \in BOOLEAN : Replay(h, shownAssigned)
  \/ HookStep(h) \/ HookDies(h)
  \/ \E t \in Thresholds : RedisFails(h, t)

Next ==
  \/ EditPolicy
  \/ \E h \in Hooks : HookNext(h)
  \/ \E w \in Workers : WorkerStep(w) \/ HandlerFails(w) \/ Stall(w)

Spec == Init /\ [][Next]_vars

----------------------------------------------------------------------------
(* Properties *)

Waits(t) == Present(t) /\ timer[t].edition # 0

\* The assignment's promise is armed, however many hooks of assignments, edits
\* and replays arm the clock at the same time, removing, keeping and adding each
\* other's entries: when all of them have run without a failure, an ASSIGNED job
\* whose assignment found a policy has an evaluation of each threshold, waiting
\* or made.  Not if a hook was still disarming when the assignment committed:
\* the code does not order hooks by their commits.
ArmedWhenQuiet ==
  (\A h \in Hooks : Quiet(h)) /\ promised # 0 =>
    \A t \in Thresholds : Present(t)

\* A-6: the evaluations that wait for an ASSIGNED job carry the thresholds its
\* assignment promised, whatever became of the policy since.  (An evaluation
\* that had already started when the job was assigned is kept as it is.)
PromiseKept ==
  (\A h \in Hooks : Quiet(h)) /\ promised # 0 =>
    \A t \in Thresholds : Waits(t) => timer[t].edition = promised

\* What arming does give: no evaluation waits with thresholds older than the
\* promise, although hooks keep the entry they find.  (Not if the hook of an
\* earlier assignment or edit, with what it has read before, is still arming
\* when the promise is read: whichever of the two adds first is kept.)
PromiseNotOlder ==
  (\A h \in Hooks : Quiet(h)) /\ promised # 0 /\ ~overtaken =>
    \A t \in Thresholds : Waits(t) => timer[t].edition >= promised

\* The job's SLA state and its escalations tell the same story: neither is
\* written without the other, however often an evaluation is delivered.
EscalationMatchesState ==
  /\ escalation = {} <=> slaState = "OK"
  /\ slaState = "WARNING" => "WARNING" \in escalation
  /\ slaState = "BREACHED" => "BREACH" \in escalation

\* A breach is not forgotten: an evaluation of it is acknowledged only after
\* its side effects were attempted to their end, except on a job that is
\* terminal by then.
BreachAnnounced ==
  "BREACH" \in escalation /\ ~announced /\ Present("BREACH")
    /\ timer["BREACH"].state = "completed" => status = "TERMINAL"

\* "WARNING never downgrades an already-BREACHED job".
WarningNeverDowngrades == [][slaState = "BREACHED" => slaState' = "BREACHED"]_vars
=============================================================================
