# DispatchGrid in TLA+

DispatchGrid dispatches field jobs: dispatchers create jobs and offer them to
agents, agents accept or decline, work and complete, and a clock escalates what
is late. This directory holds TLA+ specifications of the server's own logic, the
TLC models that check them on small instances, and TLAPS proofs, for every value
of the constants, of their safety properties and refinements. Paths below are
relative to `server/src/` unless they start with `docs/`, `client/` or
`server/`.

## 1. Inventory

The system is one Express API (any number of processes), one or more BullMQ
worker processes, PostgreSQL (the truth), Redis (queues, hot positions,
fan-out) and a browser client.

| Component | State | Operations | Hard behaviour | Correct when |
|---|---|---|---|---|
| Job services (`services/job-service.js`, `services/transaction.js`, `lib/jobs/state-machine.js`) | rows of Job, Assignment, JobEvent | create, patch, start, complete, cancel, fail | requests interleave between the statements of a READ COMMITTED transaction; decisions are taken on rows read before the version claim | tables agree after every commit; the timeline explains the row; a 409 is never sent for an unmoved job that allows the operation |
| Assignment services (`services/assignment-service.js`, `lib/jobs/eligibility.js`) | the same, and Membership, Role | assign, reassign, accept, decline | count-then-offer; row locks; admins edit members in between | only an eligible agent below the cap gets an offer; nobody waits for ever |
| Reference counter (`lib/sequence.js`) | Counter | next value | rollback after taking a number | references are gapless |
| Members (`routes/organizations.js`) | Membership | patch a member | races with assignments | see assignment services |
| Idempotency keys (`lib/idempotency.js`, `services/transaction.js`) | IdempotencyKey | reserve, execute, complete, drop, expire | three transactions per request, crashes between them, lost answers | one write per reservation; an acknowledged success is replayed |
| SLA clock (`routes/jobs.js`, `lib/integration-adapters.js`, `lib/queue/index.js`, `worker/handlers/sla-check.js`) | two entries of the sla queue per job, Job.slaState, Escalation, SlaPolicy | arm, disarm, evaluate, announce | hooks run after commits in no fixed order; check-then-act on Redis; redelivery; several workers | what the latest assignment promised is armed, as far as hooks that overlap allow; states, escalations and announcements agree |
| Job-event delivery (`lib/queue/index.js`, `worker.js`, `worker/reconcile.js`) | the job-events queue, the sweep | enqueue, consume, retry, dead-letter, sweep | PostgreSQL and Redis are not updated together | every committed version reaches a consumer |
| Latest positions (`routes/pings.js`, `lib/tracking/`) | LocationPing, hot keys, the dot on the map | post, read, expire, prune, publish | read-then-write on Redis; cache and database disagree; late pings are published | a dot never moves backwards and has a durable row |
| Board cache (`routes/jobs.js`) | a Map per API process | look up, fill, invalidate, expire | a fill races with an invalidation; other processes are not told | what a stale list hides is known and ends |
| Realtime push (`lib/realtime/socket-server.js`, `client/src/hooks/use-realtime.js`) | rooms, Redis channels, the browser's query cache, its reconciliation guard | publish, bridge, patch, poll, reconcile | publishes are not ordered by commits; events sent while disconnected are gone; processes crash | the browser ends at the committed state, or the way it got lost is one the code accepts |
| Sessions (`auth/refresh-tokens.js`, `routes/auth.js`, `client/src/lib/socket-client.js`) | RefreshToken rows, the cookie, each tab's access token and socket | login, refresh, logout, expire, connect | tabs share one cookie; rotation is two statements; answers are lost | a session that nobody ended goes on; one that ended stays ended |
| Suggestions (`services/suggestion-service.js`) | none | rank eligible agents | none (one read) | order is by score |
| Passwords and registration, tenant scoping, HTTP plumbing, UI | users, audit rows | hash, scope, parse, serialize, render | outside this development | |

### How they interact

A route calls a service, the service runs its transactions through
`runIdempotent`, and when its promise resolves the route runs the hook
`afterJobCommit`: invalidate the board cache, enqueue a job event, arm or
disarm the SLA clock, publish to the sockets. Everything after the commit is
best effort; the worker's sweep repairs what it knows about. The SLA worker
writes `Job.slaState` without touching `Job.version`. Positions share nothing
with jobs but the optional link. The browser learns of a write in three ways:
an event on its socket, the answer of a list read (perhaps from a process's
cache), and the refetch that follows a reconnect. A socket handshake needs an
access token, which the refresh cookie renews.

## 2. Modules

Each component is a module with its state as VARIABLES and one action per
statement (or call) at which another actor can come in between.

| Module | Models | Composition |
|---|---|---|
| `JobLifecycle` | job and assignment services, counter, member updates | |
| `AtomicDispatch` | what they promise: every operation takes effect at one instant | |
| `JobLifecycleRefinement` | `Board == INSTANCE AtomicDispatch WITH ...`, `ImplementsAtomicDispatch` | JobLifecycle implements AtomicDispatch |
| `JobLifecycleProofs` | proofs: tables, timeline, what requests remember | extends JobLifecycle |
| `JobBoardProofs` | proofs: locks, eligibility, counting, the refinement | extends JobLifecycleProofs and JobLifecycleRefinement |
| `Idempotency` | `runIdempotent` and the key table | |
| `SlaClock` | the hook after a commit, the sla queue, the worker | |
| `JobEventDelivery` | the job-events queue, its consumer, the sweep | |
| `EscalationLadder` | what the evaluations of a job promise its readers | |
| `SlaClockRefinement` | `Ladder == INSTANCE EscalationLadder WITH ...`, `ImplementsEscalationLadder` | SlaClock implements EscalationLadder |
| `PositionCache` | positions of one agent and the dot on the map | server and browser |
| `LiveBoard` | list read with its cache, hook, push, worker's bridge, browser | composes the board cache, the push and the client |
| `Sessions` | refresh tokens, the shared cookie, the tabs' sockets | composes the auth routes and the client |
| `IdempotencyProofs`, `SlaClockProofs`, `JobEventDeliveryProofs`, `PositionCacheProofs`, `LiveBoardProofs`, `SessionsProofs` | proofs about the module of that name (section 5) | each extends it; `SlaClockProofs` extends `SlaClockRefinement` |
| `MC*` | instances: member rows, symmetry sets | |

### JobLifecycle

`job`, `assignment`, `jobEvent`, `membership`, `counter` are the tables of one
organization reduced to the columns the lifecycle depends on; `request[r]` is
one HTTP request being served: its input, where it is (`pc`), the row it read
and the offer (or number) it found. The steps of an assignment are
`LockMembership`, `LockRole`, `CheckEligible`, `ReadJob`, `AssignJob`; of an
accept `ReadJob`, `ReadOffer`, `AcceptJob`; of a creation `NextCounterValue`,
`CreateJob`. Every early return is an action of its own. Three of them answer
409 `version_conflict`: `ReadConflict` (an assign of a job that is no longer
PENDING), `RivalConflict` (an answer to an offer while another agent has one; the
rival is looked up by a statement of its own, after `NoOwnOffer`) and
`ClaimRejected`. The others refuse with 403 or 422: `NotEligible`,
`ReadRejected`, `OfferRejected`, `NoOffer`. An answer carries no data in the
model; which of these actions gave it is what `ConflictMeansMoved` looks at.

Two reductions are part of the model:

- *Claim to commit is one step.* The conditional UPDATE locks the Job row until
  the transaction ends; every writer of this job's row or assignments claims
  the row first; readers see the state before it until the commit. Under READ
  COMMITTED an UPDATE that waited re-evaluates its WHERE on the new row, which
  is what the claim's guard on the current row says.
- *Locks are not variables.* Who holds a membership, role or counter row is
  read off the `pc`s (`HoldsMembership`, `HoldsRole`, `HoldsCounter`), because
  the lock is released when its transaction ends and at no other time.
  `lockMembership` locks the joined Role row as well (its FOR UPDATE names no
  table), so offers to two agents of one role are served one after the other.

New versions and timeline entries are computed from the row that was READ, as
in the code. `Abort` is a crash, a lost connection or a transaction timeout.

### Idempotency

One operation of one organization. `record` is the key table, with ids that are
never used again; `executed` the business writes in order of commit (a response
is the number of the write it reports); `acked` the successes that reached a
client. The constant `Prechecks` chooses `patchJob`, which judges the job before
the key. `ExecuteUnseen` is a COMMIT that succeeds although its caller sees an
error (the connection is lost before the answer). The second `attempt()` of
`reserveKey` has no savepoint: a conflict there is an error 500, as in the code.
A key does not expire while its request is alive: it lives a day, and a request
has three transactions of at most five seconds.

### SlaClock

One job. `timer[t]` is the sla queue's entry under the deterministic id of
threshold t, `hook[h]` the part of a request after its commit with its progress
per threshold (the removals one after the other, the schedulings both at once),
`worker[w]` the evaluation in a worker process. Delays are not modelled: an
entry fires whenever it is pending, and `edition` names the policy it was
computed from (0 once it has started, when no delay is left to compare). `Stall`
is BullMQ's stalled-entry detection: the entry is handed out again (or given up)
while its first worker may still go on. Hooks of any number of requests
interleave at every call. Four history variables serve the properties:
`promised`, the edition that the hook of the latest assignment read; `intact`,
that this assignment committed while no hook was disarming, and that since then
no hook died, no call failed and no replay disarmed the clock; `overtaken`, that
a hook with an older edition was arming when the promise was read; and `extras`,
which counts what `MaxExtras` bounds.
`Kinds` are the writes that run the hook. `announced` says that the side effects
of the breach ran to their end: `publishEscalationEvent` swallows a failed
publish (`lib/integration-adapters.js:60-72`), so it does not say that the
publish arrived. One job's entries are few, so the queue's limit on completed
entries is not part of this module. `EscalationLadder` is the outside view: each
threshold is recorded once with the state it leads to, the state never steps
back, a breach is announced after it is on record. The mapping is the identity
on `slaState`, `escalation` and `announced`. It holds with one evaluation of the
job at a time; with two workers `BreachDowngrade` is the counterexample.

### JobEventDelivery

`seam` are the commits whose request has not reached its enqueue, `queue` the
retained entries that wait, are active or completed, `failed` the failed set,
`done` the completed entries in order (the queue keeps `Keep` of them), `sweep`
the sweep with its scan, cursor and page. A page is the set of the first `Limit`
job ids past the cursor that are up for the sweep (the query orders by id), and
`missing` the set of the page's versions that the queue did not show, which are
enqueued in that order. `NSlots` bounds the entries: an
enqueue waits for a free slot, which exists without the bound. The sweep is one
at a time because `worker.js` guards it with `sweepRunning`. Its scan is shown
at most `ScanCap` entries of each state; which ones is left open, so a queued
version may be hidden, and is then enqueued again.

### PositionCache

One agent; a position is its `recordedAt`, any value of the bound, in any order.
`PassRetention` moves the retention boundary at any time; the properties speak
of positions that are not past it, because a ping that is sent beyond its
retention is accepted, may become hot, and loses its row to the next prune.
`dot` is the position on a dispatcher's map: `None` while the `['positions']`
entry is not loaded, 0 when it is loaded without the agent. An answer of the
read replaces it; a published movement overwrites or adds it if the map is
loaded. Every ping publishes, whether or not the hot store took it
(`routes/pings.js:86-95`), and Redis may fail at either call.

### LiveBoard

One organization, one browser, any number of API processes. The states of a job
are numbered in order of commit (an operation's or the worker's breach), so the
newest state is the greatest number and a board is a function from jobs to
numbers. `breach[j][n]` is the worker's n-th announcement of the breach of job
j: `Redeliver` is the evaluation that meets its own escalation row, because it
failed behind its publish or because a worker that stalled goes on, and
publishes again (`worker/handlers/sla-check.js:97-107`). `hook` are requests
past their commit with the row they will publish (for a replay an old one),
`cache[i]` the `boardCache` of process i, `relay[i]` what Redis has not yet
brought to it, on two connections: the adapter's and the bridge's, which are not
ordered with each other. `socket` is the browser's connection, `screen` its
`['jobs']` entry, `read` the list request it waits for with the process that
serves it and how far it is, `needsReconcile` and `reconciling` the hook's flags
(`reconcileInFlight`). `lost` is a history variable: jobs whose newest state the
push has lost or taken back, with the places where that happens written into the
actions: a publish that fails or dies with its process, an event before the
first connection or before the list is there, an event or answer that replaces a
newer state, an answer from a cache that is behind, a reconnect that joins a
read which began earlier, a reconciliation that fails. A new event or answer
with the current state takes the job out again. Faults (crashes, failed
publishes and reads, lost connections) are not bounded; `MaxRepeats`,
`MaxPublishers`, `MaxDeliveries` and `MaxOnTheWay` bound the replays and
redeliveries, the publishes that are due at a time, the announcements of a
breach and the events on one connection.

Reductions: TanStack Query's fetch of one key is one `read`; a refetch cancels a
read of a loaded list and joins the first one; the answer of a cancelled read may
fill the cache of its process at the reconnect or never. A page that mounts again
while connected is left out (it would only add reads). Crash and restart of a
process are one step. WARNING changes are not pushed, by decision
(`lib/realtime/socket-server.js:27-30`), so they are not states here. The client
polls as `use-realtime.js` documents it for its consumers.

### Sessions

One user, one browser. `row` are the RefreshToken rows in order of creation (a
family is named by its first token), `cookie` the cookie the tabs share,
`call[t]` the request tab t waits for and how far the server is with it.
`FindToken`, `RevokeReused`, `CreateSuccessor` and `MarkReplaced` are the
statements of `rotateRefreshToken`, with no transaction around them, as in the
code; `CallFails` is the death of the process or the loss of the answer at any
of them. `socket[t]` is `"off"` after a refused handshake, because the library
does not try again by itself then. `spoilt` is a history variable: families that
were signed out, found reused, or whose rotation finished without its answer
arriving. `refreshes` counts a tab's refreshes since it was last connected or
logged out, because a logout ends the cycle too (it resets the flag). The
screens that call login and logout are not in the client yet (B18 of the plan),
so a tab may do either at any time. A tab has one request under way at a time;
the seven days of a token, the user lookup after a rotation, and
`revokeAllForUser` (which nothing calls) are left out.

## 3. Runs

Passing runs and their bounds:

| Run | Instance | Shows |
|---|---|---|
| `LifecycleRace` | 1 job, 2 agents, 2 requests, versions to 5 | `AssignmentMatchesJob`, `TimelineExplainsJob`, `RowChecksHold`, `ReadsStayCurrent`, `ConflictMeansMoved`, `ImplementsAtomicDispatch` |
| `LifecycleBoard` | 2 jobs, 2 agents, 2 requests, roles and caps change, versions to 2, fair | `ReferencesGapless`, `OfferOnlyEligible`, `EveryRequestAnswered` |
| `Idempotency` | 1 key, 2 bodies, 3 requests, 2 rows, pre-check | `RepeatsExplained`, `ReservationHeld`, `AckedStands`, `AnswersAreTrue` |
| `SlaClock` | 2 hooks, 1 worker, 2 assignments, 2 policy editions, 2 attempts, 1 extra (`MaxExtras`: an edit, a replay, a hook failure, or a worker that outlives a stall) | `ArmedWhenQuiet`, `PromiseNotOlder`, `EscalationMatchesState`, `BreachAnnounced`, `ImplementsEscalationLadder` |
| `Delivery` | 2 jobs on pages of 1, a scan of 1 entry per state, 3 versions, 2 attempts, 2 faults, fair | `SweepComplete`, `CommitReachesConsumer` |
| `PositionReads` | 2 pings, 1 reader, 3 positions | `HotHasSibling`, `FallbackNotOlder`, `BackwardsOnlyIfOvertaken` |
| `LiveBoard` | 1 job with 2 states, 2 processes, 2 announcements of a breach, 1 repeat (a replay or a redelivery), 2 publishers, 1 event per connection | `StaleOnlyIfLost`, `NoEscalationTwice` |
| `Sessions` | 2 tabs, 3 tokens | `CookieUsable`, `EndedStaysEnded`, `OneRefreshPerCycle` |

Each of them checks its module's `TypeOK` as well (`LifecycleRace` for the
lifecycle).

Why the bounds are enough to be interesting. Two requests meet at every pair of
statements, and a third actor (the admin, the expiry, the sweep) acts between
any two; each of the 409 answers needs two requests and nothing more.
Version 5 lets a job go through offer, decline, offer, accept and start, and the
steps after it are reached by the requests sent at version 4. Versions to 2 let
both jobs be created and offered, which is where caps, roles and the counter's
lock are contended. Three requests on one key are the owner, the one that finds
its row, and the one that slips in when the row is gone; two rows are an old
reservation and the one that replaces it. Two assignments and two editions are
what an old promise and a new one need, and two hooks are those of the two
transitions, or of a transition and an edit or a replay, which meet at every pair
of their calls. Two slots hold an entry under way and
one completed, of a queue that keeps one; two faults exhaust an entry's attempts,
and the second version of the job on the second page is what the queue's older
entry must not hide; a scan of one entry hides one of two that wait. Three
positions are the one shown, a newer and an older one. In `LiveBoard` two
processes are the one the browser is on and the one that writes, two publishers
are two publishes in either order (of two commits, or the two announcements of
one breach), and states 1 and 2 of a job are what a late event
or an old answer takes back; one event per connection at a time is enough for
the adapter's and the bridge's to overtake each other. In `Sessions` two tabs
meet at every pair of statements of the rotation, and three tokens are one token
and the two successors that both may give it.

Runs that end in a violation show where the code departs from what the
repository says of it:

| Run | Violated | In short |
|---|---|---|
| `UnseenCommit` | `AtMostOnce` | a commit whose answer is lost drops the key; a retried create makes a second job |
| `BreachDowngrade` | `WarningNeverDowngrades` | with two workers, a warning overtaken by a breach writes the state it computed before |
| `PatchedPromise` | `PromiseKept` | an edit of an assigned job re-arms the clock with the policy of that moment |
| `PositionBackwards` | `MapNeverBackwards` | a late ping is kept out of the hot store and published all the same; the map follows it back |

Beside three of these stands a weaker property that the code does keep and a
passing run checks: `RepeatsExplained` for `AtMostOnce`; for `PromiseKept`,
`PromiseNotOlder`, which allows newer thresholds, and older ones where a hook
that had read them was still arming at the promise; and
`ImplementsEscalationLadder` (one evaluation at a time) for
`WarningNeverDowngrades`. Other observations, of what properties allow for or
exempt:

- A retry of an edit whose success is stored is refused (422) when the job has
  become terminal since: `patchJob` judges the job before the key
  (`job-service.js:204`; the repository's README.md:203 says "same key/body
  replays the identical stored response"). `AckedStands` names this exception.
- The hot store steps back when two pings overlap between GET and SET
  (`lib/tracking/position-cache.js:77-97`, against the comment at 68-69).
  `BackwardsOnlyIfOvertaken` says that nothing else makes it step back.
- A replay publishes the row its key stored, after later versions were published
  (`routes/jobs.js:277`), and the browser takes it for the newest.
- "The single reconnect reconciliation refetches everything missed"
  (`use-realtime.js:20-21`) holds only up to the cached list of the process that
  answers, up to a reconciliation already under way, and not for the first
  connection. `StaleOnlyIfLost` names these cases and exempts the jobs they
  concern (`lost`): what the property does catch is that a disconnect is
  remembered and that no further way of losing an update exists. The hazards of
  the exempted cases are listed without a property.
- A rotation is two statements outside a transaction; `Dispatch_plan.md:1830`
  asks for one transaction. Their order keeps `CookieUsable`; two tabs that
  rotate one token at the same time both get a successor. A refresh whose answer
  is lost costs the session at the next refresh. A refused refresh clears the
  cookie whatever it is by then, also that of a login made meanwhile in another
  tab; `CookieUsable` says nothing of a browser without a cookie.
- `registerUser` and the creation of an organization retry a taken slug inside
  the transaction whose statement failed, without a savepoint (compare
  `lib/idempotency.js:21-37`): PostgreSQL refuses what follows, so the retry
  cannot succeed.
- Hooks of two requests are not ordered by their commits
  (`routes/jobs.js:101-106`). A hook that is still disarming when the next
  assignment commits (that of a decline, say) may remove the evaluations that
  the assignment's hook has added; and a hook that arms with an edition it read
  earlier may add between the newer hook's removal and its add, and what was
  added first is kept. `ArmedWhenQuiet` and `PromiseNotOlder` exempt exactly
  these two (`intact`, `overtaken`): without the exemption of either, TLC finds
  it with the two hooks of the run. Every other overlap of hooks is covered.
- The 409 of `assignJob`'s fast path and of a rival's offer is also sent for a
  job that has not moved since the client saw it (an assign of a job seen as
  ASSIGNED). `ConflictMeansMoved` says that the operation is then one that the
  job does not allow. The `currentVersion` of the rival's 409 is that of the row
  read before the two lookups of an offer, so it can be the very version the
  client sent, although the job has moved; the comment at
  `assignment-service.js:172-178` speaks of "current state".
- A breach may be announced twice, by design (`sla-check.js:99-104`).
  `NoEscalationTwice` therefore speaks of each announcement, not of the breach.
- A job that ends between the handler's read and its transaction is escalated:
  the write does not repeat the check of the read (`sla-check.js:86`).
- An evaluation that Redis loses is not armed again: the sweep reads the
  job-events queue only. `ArmedWhenQuiet` exempts failed calls for that reason.
- A version whose completed entry was trimmed is enqueued and consumed again.
- The module's clients send versions that they saw. `patchJob` claims the
  client's version but writes the version of its outer read plus one
  (`job-service.js:202-246`), so a client that knows a version the outer read did
  not see would get a success that leaves the version as it was.

`CHECK_DEADLOCK FALSE` is set for the SLA models only: a terminal job without a
pending evaluation and with the policy's last edition has no step left.

## 4. Fairness

- `LifecycleBoard`: strong fairness of each request's next step. Node and
  PostgreSQL run a transaction on; a row lock that is released again and again
  is granted in the end, because PostgreSQL queues the waiters of a row (weak
  fairness would let one request lose every race for it). Arrivals, aborts and
  admins are not fair.
- `LiveBoard`, `Sessions`, `Idempotency`, `SlaClock`, `PositionReads` are safety
  only and assume no fairness.
- `Delivery`: weak fairness of the consumer and of the sweep. One worker is
  always running (`docs/decisions.md`, `min-instances=1`), and it sweeps at its
  start and every minute. The enqueue of a request is NOT fair: a request may
  stop before it for ever, which is the case the sweep exists for. Faults are
  bounded, so the run shows that everything is delivered once they stop.

## 5. Proofs

Every safety invariant and every action property that a passing run checks is
also a theorem of TLAPS, for any values of the constants that satisfy the
module's named assumption (`None` is a value of its own, a bound is a number):
any numbers of jobs, agents, requests, hooks, workers, processes, tabs and
bounds. So are the two refinements. TLC checked each inductive invariant on an
instance before it was proved.

| Module | Inductive invariant | Theorems (each `Spec => ...`) |
|---|---|---|
| `JobLifecycleProofs` | `IInv` | `SpecTypeOK`, `SpecAssignmentMatchesJob`, `SpecTimelineExplainsJob`, `SpecRowChecksHold`, `SpecReadsStayCurrent`, `SpecConflictMeansMoved` |
| `JobBoardProofs` | `BoardInv` | `SpecReferencesGapless`, `SpecOfferOnlyEligible`, `SpecImplementsAtomicDispatch` |
| `IdempotencyProofs` | `KeyInv` | `SpecTypeOK`, `SpecReservationHeld`, `SpecRepeatsExplained`, `SpecAnswersAreTrue`, `SpecAckedStands` |
| `SlaClockProofs` | `WorkerInv` | `SpecTypeOK`, `SpecEscalationMatchesState`, `SpecBreachAnnounced` |
| | `LadderInv` | `SpecImplementsEscalationLadder`, `SpecWarningNeverDowngrades`, both of `Spec /\ []WorkersApart` |
| | `ArmingInv` | `SpecArmedWhenQuiet`, `SpecPromiseNotOlder` |
| `JobEventDeliveryProofs` | `DeliveryInv` | `SpecTypeOK`, `SpecSweepComplete` |
| `PositionCacheProofs` | `PositionInv` | `SpecTypeOK`, `SpecHotHasSibling`, `SpecFallbackNotOlder`, `SpecBackwardsOnlyIfOvertaken` |
| `LiveBoardProofs` | `LiveInv` | `SpecTypeOK`, `SpecNoEscalationTwice`, `SpecStaleOnlyIfLost` |
| `SessionsProofs` | `SessionInv` | `SpecTypeOK`, `SpecCookieUsable`, `SpecOneRefreshPerCycle`, `SpecEndedStaysEnded` |

Each of these modules is laid out in the same way: the parts of the inductive
invariant with what each says; lemmas about the data (queues, reads, records);
what an action makes of the variables (`...Becomes`, `...Effect`); one lemma per
group of actions; the initial state and the step; the theorems.

Two theorems are about behaviours in which evaluations of the job do not overlap
(`WorkersApart`). The code does not guarantee that, and the properties are false
without it, which is what the run `BreachDowngrade` shows. The theorems say that
nothing ELSE is needed: any number of requests and worker processes, in any
order, with retries, stalls, edits, replays and failing calls. All other
theorems are about every behaviour of their specification.

### The arguments

**Lifecycle.** None of the table invariants is inductive alone: an accept marks
the row it found earlier, a transition writes the version it read plus one, so
both need that what a request remembers is still true when its claim succeeds.
That is `ReadsStayCurrent`: a row that was read carries at most the current
version, and if it carries the current version it IS the current row, and the
offer found under it is still OFFERED. Every commit raises the version of its
job (lemma `OthersStayCurrent`: it therefore makes other requests' premises
false rather than their conclusions wrong), and a claim that succeeds compares
versions, so the row it acts on is the row it decided on (`ClaimIsCurrent`).
From there each commit is a small calculation on its job alone: `OfferMatches`,
`AnswerMatches`, `CloseInactive` for the assignment rows, `LineGrows` for the
timeline. The version claim is exactly as strong as this: the invariant needs
that a client's version is at most the job's (`KnowsThePast`), and `patchJob`
relies on it. `ReadsStayCurrent` also remembers what was NOT found: a caller
without an offer of its own has none while the job keeps the version that was
read (`NoneIsOwn`). With that each of the three 409 answers is true at the
moment it is given, although it is decided on earlier statements
(`ConflictMeansMoved`).

**Board.** The code counts active assignment rows; the invariant counts held
jobs, and `CountIsLoad` says that these agree, by `AssignmentMatchesJob`. An
agent found eligible stays so because whoever would take a place, or edit the
member, needs the membership row that the request has locked (`LocksExclusive`,
`CheckedCanHold`); the claim adds one to a count that is still below the cap.
References are gapless because one creation at a time is between the counter and
its insert (`CounterHeld`). With these, every commit of a service is one
operation of `AtomicDispatch` and every other step is a stutter
(`NextImplements`).

**Keys.** Ids are handed out once, so a row, a reservation and a write that
share an id belong together (`IdsDistinct`, `IdsKnown`). What is written under a
reservation, and what its request has seen of it, decides what may be dropped
(`WritesFollowExecute`, `SeenKeepsRow`); stored and coming responses report a
write of their key and body (`ResponsesReport`); what was acknowledged is stored
until it expires (`AckStored`), which gives `AckedStands`.

**Clock.** An evaluation that saw or announces a breach has its row
(`EvaluationsKnow`), and a completed breach entry was announced or had nothing
to do. For the ladder, what an evaluation read is what it overwrites
(`ReadIsCurrent`). For arming, hooks may interleave at every call. As long as
the promise is intact none of them disarms (`IntactArms`); a threshold without
an entry is then still the business of some hook that arms, which will add it or
find it (`PresentOrCarried`), and a waiting entry that is older than the promise
is still to be removed by a hook that has not got there, while every hook that
adds carries an edition no older (`EditionsGrow`).

**Delivery.** `DeliveryInv` says where a version that the sweep owes can be:
its job is ahead of the cursor, or in what is left of the page, once. A page
holds the least ids, so its greatest is where the next one begins; that a finite
set of integers has a greatest and a least element is proved from the
well-foundedness of the strict subset relation on finite sets (`MaxOfFinite`,
`LeastOf`).

**Positions.** The newest position that ever was hot, and the one a read began
from, still have a row no older, because the row is inserted before the hot
store is written and only retention removes it (`NewestRetained`,
`FloorRetained`, `InsertedRetained`).

**Live board.** Nothing on its way, in a cache or in an answer is ahead of the
tables (`NotAhead`). `Followed` then says of a browser that is connected, or was
never: a job that is not `lost` is shown as it is, or its state is carried - by
a hook, by the worker, on the browser's connection, or by a queue of the process
it is connected to (of every process, before it ever connects) - or the
reconciliation is under way; and the answer to a read is current, or carried, or
overtaken. Each step that would break this puts the job into `lost`, and a
reconnect starts it anew. `OneEscalation` says that an announcement of a breach
is in the browser's connection or in the queue towards it, never in both, and
that one which is still due is in neither; a redelivery makes a new
announcement, and none is made before the breach is committed (`Announced`).

**Sessions.** A successor is not in use until its answer arrives
(`NewTokensFresh`), and a cookie whose token was replaced waits for that answer
(`CookieFollowed`); `EndedStaysEnded` follows because only a rotation that found
its token live creates one.

### What the proofs changed

`ClockAssumption` requires at least one edition of the policy (the initial state
may have one) and `SessionsAssumption` that `None` is neither a row nor a call;
TLC's model values had hidden both. The page and the missing entries of the
sweep are sets with an order instead of sequences filtered by a recursive
operator, about which nothing can be proved.

### Only model-checked

Liveness under fairness (`EveryRequestAnswered`, `CommitReachesConsumer`), which
needs ENABLED, and with `EveryRequestAnswered` that nobody waits for ever on a
row lock. Of the four properties that the code violates,
`WarningNeverDowngrades` is proved under its restriction; the others have the
weaker counterparts of section 3, which are proved.


## 6. Not modelled

- Suggestion scores are floating-point arithmetic of one read.
- Passwords, tenant scoping (`db/tenant-extension.js` is a pure rewriting of
  query arguments), permissions, rate limits, audit rows, serialization and the
  user interface: a request of a model has passed them, and a model is one
  organization. Permissions are those of the role when the request arrived.
- The edited columns of a job, coordinates, reasons, reference formatting.
- The copies in the dead-letter queue, malformed queue payloads and the pre-B12
  payloads.
- The filters of a list (one query stands for all), the detail entry of the
  browser, several hook instances, the labels `from`/`to` of an update, which
  are read back after the commit and may be a later commit's.
- That a disconnected browser catches up by polling: no fairness is assumed of
  a browser.

## 7. Plan

Done: all components that keep state, with two refinements; every safety
property of the passing runs is proved.

Next, in this order:

1. What separates the violated properties from the proved ones, as theorems:
   `AtMostOnce` of behaviours without an unseen commit or an expiry,
   `PromiseKept` of those without edits of jobs or of the policy,
   `MapNeverBackwards` of those whose pings arrive in order.
2. The safety half of liveness: the locks that requests wait for are ordered, so
   they never wait for each other in a circle.
3. The SLA clock composed with `JobLifecycle`'s statuses and several jobs;
   idempotency composed with `JobLifecycle`: the version claim as the second
   line of defence when a key was dropped.
