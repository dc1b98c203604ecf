-------------------------- MODULE JobEventDelivery --------------------------
(***************************************************************************)
(* The job-events queue: a committed job version is announced by the       *)
(* request's hook after the commit (lib/integration-adapters.js,           *)
(* lib/queue/index.js), consumed at least once (worker.js, worker/handlers)*)
(* and re-enqueued by the reconciliation sweep when the queue does not     *)
(* show it (worker/reconcile.js).                                          *)
(*                                                                         *)
(* PostgreSQL holds the versions and Redis the queue; no transaction spans *)
(* both, and Redis may be down or lose everything.                         *)
(***************************************************************************)
EXTENDS Integers, Sequences, FiniteSets, FiniteSetsExt, Functions

CONSTANTS
  NJobs,        \* the jobs, in the order of their ids
  NSlots,       \* bound: entries the queue holds at the same time
  None,         \* no entry
  LastVersion,  \* bound: the versions of each job
  MaxAttempts,  \* queueDefaults.attempts
  Keep,         \* queueDefaults.removeOnComplete
  ScanCap,      \* QUEUE_SCAN_CAP: entries of each state that the sweep reads
  Limit,        \* page size of the sweep
  MaxFaults     \* bound: calls to Redis or PostgreSQL that fail, and wipes

Jobs == 1..NJobs
MaxVersion == Max(Range(LastVersion))
Versions == 1..MaxVersion
Slots == 1..NSlots
Entry == [job : Jobs, version : Versions, attempts : 0..MaxAttempts - 1,
          state : {"waiting", "active", "completed"}]

ASSUME DeliveryAssumption ==
  /\ NJobs \in Nat \ {0} /\ NSlots \in Nat /\ MaxFaults \in Nat
  /\ LastVersion \in [Jobs -> Nat \ {0}]
  /\ MaxAttempts \in Nat \ {0} /\ Keep \in Nat
  /\ ScanCap \in Nat /\ Limit \in Nat \ {0}
  /\ None \notin Entry

VARIABLES
  version,     \* Job.version, 0 for a job that does not exist yet
  seam,        \* commits whose request has not enqueued them yet
  queue,       \* the retained entries of the queue that have not failed
  failed,      \* the versions of the entries that have used up their attempts
  done,        \* the slots of the completed entries, oldest first
  sweep,       \* the reconciliation sweep of the worker
  consumed,    \* per job, the latest version a consumer has acknowledged
  faults

vars == <<version, seam, queue, failed, done, sweep, consumed, faults>>

----------------------------------------------------------------------------
\* "seen" are the versions the scan found (and the sweep added), "next" the
\* first job of the page to come, "missing" what is left of the page; "owed" are
\* the versions that were current at the scan, that it did not find and that
\* the sweep has not made up for since.
Sweep == [pc : {"page", "requeue"}, seen : [Jobs -> 0..MaxVersion], next : 1..NJobs + 1,
          missing : SUBSET (Jobs \X Versions), last : BOOLEAN, owed : [Jobs -> 0..MaxVersion]]
SweepIdle == [pc |-> "idle"]

TypeOK ==
  /\ version \in [Jobs -> 0..MaxVersion]
  /\ seam \subseteq Jobs \X Versions
  /\ queue \in [Slots -> Entry \cup {None}]
  /\ failed \subseteq Jobs \X Versions
  /\ done \in Seq(Slots)
  /\ sweep \in Sweep \cup {SweepIdle}
  /\ consumed \in [Jobs -> 0..MaxVersion]
  /\ faults \in 0..MaxFaults

Init ==
  /\ version = [j \in Jobs |-> 0]
  /\ seam = {}
  /\ queue = [s \in Slots |-> None]
  /\ failed = {}
  /\ done = <<>>
  /\ sweep = SweepIdle
  /\ consumed = [j \in Jobs |-> 0]
  /\ faults = 0

Fault == faults < MaxFaults /\ faults' = faults + 1

Holds(s) == queue[s] # None

\* Slots only tell entries apart: an entry takes the first free one, which
\* exists without the bound.
FreeSlot(s) == ~Holds(s) /\ \A t \in 1..s - 1 : Holds(t)

\* Fault: the payload does not carry the version.
FaultyAdded(j, v) ==
  \E s \in Slots :
    /\ FreeSlot(s)
    /\ queue' = [queue EXCEPT ![s] =
         [job |-> j, version |-> 0, attempts |-> 0, state |-> "waiting"]]

Added(j, v) ==
  \E s \in Slots :
    /\ FreeSlot(s)
    /\ queue' = [queue EXCEPT ![s] =
         [job |-> j, version |-> v, attempts |-> 0, state |-> "waiting"]]

----------------------------------------------------------------------------
(* Requests *)

\* Any operation of the services that commits a new version of a job.
Commit(j) ==
  /\ version[j] < LastVersion[j]
  /\ version' = [version EXCEPT ![j] = @ + 1]
  /\ seam' = seam \cup {<<j, version[j] + 1>>}
  /\ UNCHANGED <<queue, failed, done, sweep, consumed, faults>>

EnqueueJobEvent(j, v) ==
  /\ <<j, v>> \in seam
  /\ seam' = seam \ {<<j, v>>}
  /\ Added(j, v)
  /\ UNCHANGED <<version, failed, done, sweep, consumed, faults>>

\* Redis does not answer, which is logged, or the API process dies here.
EnqueueFails(j, v) ==
  /\ Fault
  /\ <<j, v>> \in seam
  /\ seam' = seam \ {<<j, v>>}
  /\ UNCHANGED <<version, queue, failed, done, sweep, consumed>>

----------------------------------------------------------------------------
(* The consumer *)

Take(s) ==
  /\ Holds(s) /\ queue[s].state = "waiting"
  /\ queue' = [queue EXCEPT ![s].state = "active"]
  /\ UNCHANGED <<version, seam, failed, done, sweep, consumed, faults>>

\* The handler re-reads the job and acknowledges; the queue keeps the newest
\* completed entries only.
Consume(s) ==
  LET all == Append(done, s)
      trim == Len(all) > Keep
      entry == [queue[s] EXCEPT !.state = "completed", !.attempts = 0] IN
  /\ Holds(s) /\ queue[s].state = "active"
  /\ queue' = [t \in Slots |-> IF trim /\ t = Head(all) THEN None
                               ELSE IF t = s THEN entry ELSE queue[t]]
  /\ done' = IF trim THEN Tail(all) ELSE all
  /\ consumed' = [consumed EXCEPT ![queue[s].job] =
                    IF queue[s].version > @ THEN queue[s].version ELSE @]
  /\ UNCHANGED <<version, seam, failed, sweep, faults>>

\* The database does not answer: the entry waits for its next attempt, or is
\* kept in the failed set.  (The copy that is then made for the dead-letter
\* queue changes nothing here.)
HandlerFails(s) ==
  LET entry == queue[s] IN
  /\ Fault
  /\ Holds(s) /\ entry.state = "active"
  /\ IF entry.attempts + 1 < MaxAttempts
       THEN /\ queue' = [queue EXCEPT ![s].state = "waiting", ![s].attempts = @ + 1]
            /\ UNCHANGED failed
       ELSE /\ queue' = [queue EXCEPT ![s] = None]
            /\ failed' = failed \cup {<<entry.job, entry.version>>}
  /\ UNCHANGED <<version, seam, done, sweep, consumed>>

\* The worker dies; the queue hands the stalled entry out again, and the
\* worker that is started next begins with a sweep.
WorkerDies ==
  /\ Fault
  /\ queue' = [s \in Slots |-> IF Holds(s) /\ queue[s].state = "active"
                                 THEN [queue[s] EXCEPT !.state = "waiting"] ELSE queue[s]]
  /\ sweep' = SweepIdle
  /\ UNCHANGED <<version, seam, failed, done, consumed>>

\* Redis comes back empty.
Wipe ==
  /\ Fault
  /\ queue' = [s \in Slots |-> None]
  /\ failed' = {}
  /\ done' = <<>>
  /\ UNCHANGED <<version, seam, sweep, consumed>>

----------------------------------------------------------------------------
(* The sweep: one at a time, every minute *)

\* getJobs returns at most ScanCap entries of a state: which ones, when there
\* are more, is left open.
Shown(entries) ==
  {some \in SUBSET entries :
     Cardinality(some) = IF Cardinality(entries) < ScanCap
                           THEN Cardinality(entries) ELSE ScanCap}

SlotsIn(state) == {s \in Slots : Holds(s) /\ queue[s].state = state}

\* The newest version of a job among the entries shown.
QueuedVersion(slots, kept, j) ==
  Max({0} \cup {queue[s].version : s \in {t \in slots : queue[t].job = j}}
          \cup {v \in Versions : <<j, v>> \in kept})

Scan ==
  /\ sweep = SweepIdle
  /\ \E waiting \in Shown(SlotsIn("waiting")), active \in Shown(SlotsIn("active")),
        completed \in Shown(SlotsIn("completed")), kept \in Shown(failed) :
       LET seen == [j \in Jobs |->
             QueuedVersion(waiting \cup active \cup completed, kept, j)] IN
       sweep' = [pc |-> "page", seen |-> seen, next |-> 1, missing |-> {}, last |-> FALSE,
                 owed |-> [j \in Jobs |-> IF version[j] > seen[j] THEN version[j] ELSE 0]]
  /\ UNCHANGED <<version, seam, queue, failed, done, consumed, faults>>

\* The jobs that exist from "next" on, in id order, at most Limit of them.
PageFrom(next) ==
  LET rest == {j \in next..NJobs : version[j] > 0}
  IN  {j \in rest : Cardinality({k \in rest : k < j}) < Limit}

\* Fault: the sweep ends after a page that was full.
FaultyIsLast(page) == Cardinality(page) <= Limit
IsLast(page) == Cardinality(page) < Limit

\* Fault: a version is missing only when the queue shows no version of the job.
FaultyIsMissing(seen, v) == seen = 0
IsMissing(seen, v) == seen < v

\* The versions of a page are read together, and enqueued one by one.
ReadPage ==
  LET page == PageFrom(sweep.next)
      missing == {j \in page : IsMissing(sweep.seen[j], version[j])} IN
  /\ sweep.pc = "page"
  /\ IF page = {} THEN sweep' = SweepIdle
     ELSE sweep' = [sweep EXCEPT
            !.pc = "requeue", !.next = Max(page) + 1, !.last = IsLast(page),
            !.missing = {<<j, version[j]>> : j \in missing}]
  /\ UNCHANGED <<version, seam, queue, failed, done, consumed, faults>>

Requeue ==
  /\ sweep.pc = "requeue"
  /\ \E j \in Jobs, v \in Versions :
       /\ <<j, v>> \in sweep.missing /\ \A m \in sweep.missing : j <= m[1]
       /\ Added(j, v)
       /\ sweep' = [sweep EXCEPT !.seen[j] = v, !.missing = @ \ {<<j, v>>},
                                  !.owed[j] = IF v >= @ THEN 0 ELSE @]
  /\ UNCHANGED <<version, seam, failed, done, consumed, faults>>

PageDone ==
  /\ sweep.pc = "requeue" /\ sweep.missing = {}
  /\ sweep' = IF sweep.last THEN SweepIdle ELSE [sweep EXCEPT !.pc = "page"]
  /\ UNCHANGED <<version, seam, queue, failed, done, consumed, faults>>

\* A call of the sweep throws: the sweep ends, the next one starts over.
SweepFails ==
  /\ Fault
  /\ sweep # SweepIdle
  /\ sweep' = SweepIdle
  /\ UNCHANGED <<version, seam, queue, failed, done, consumed>>

----------------------------------------------------------------------------
Consumer == \E s \in Slots : Take(s) \/ Consume(s)
Sweeping == Scan \/ ReadPage \/ Requeue \/ PageDone

Next ==
  \/ \E j \in Jobs : Commit(j)
  \/ \E j \in Jobs, v \in Versions : EnqueueJobEvent(j, v) \/ EnqueueFails(j, v)
  \/ Consumer
  \/ \E s \in Slots : HandlerFails(s)
  \/ WorkerDies \/ Wipe
  \/ Sweeping \/ SweepFails

Spec == Init /\ [][Next]_vars

\* A worker is running (min-instances=1): it consumes what it can and sweeps
\* every minute.  Requests need not get to their enqueue.
FairSpec == Spec /\ WF_vars(Consumer) /\ WF_vars(Sweeping)

----------------------------------------------------------------------------
(* Properties *)

\* A sweep that reaches its end leaves no gap: every version that was current
\* when it scanned is one that the queue showed, or that it has enqueued, on
\* whatever page the job was and whatever was committed meanwhile.
SweepComplete ==
  [][sweep # SweepIdle /\ sweep' = SweepIdle /\ faults' = faults =>
       sweep.owed = [j \in Jobs |-> 0]]_vars

Settled(j, v) ==
  \/ consumed[j] >= v
  \/ \E u \in Versions : u >= v /\ <<j, u>> \in failed

\* Every committed version is consumed in the end, or a later one of the job
\* is, or its entry is kept for inspection: whether or not the request that
\* committed it, a worker or Redis failed in between.
CommitReachesConsumer ==
  \A j \in Jobs : \A v \in 1..LastVersion[j] : version[j] >= v ~> Settled(j, v)
=============================================================================
