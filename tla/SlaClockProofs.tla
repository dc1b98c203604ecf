--------------------------- MODULE SlaClockProofs ---------------------------
(***************************************************************************)
(* Proofs about the SLA clock.  The worker's part (types, escalations and  *)
(* their announcement) and what arming promises hold for any number of     *)
(* hooks and workers that interleave; the escalation ladder is proved for  *)
(* one evaluation at a time, as the code needs it.                         *)
(***************************************************************************)
EXTENDS SlaClockRefinement, TLAPS

----------------------------------------------------------------------------
(* The inductive invariants *)

\* An evaluation that saw a breach, or announces one, has its row.
EvaluationsKnow ==
  \A w \in Workers :
    /\ worker[w].pc = "write" /\ worker[w].slaState = "BREACHED" => "BREACH" \in escalation
    /\ worker[w].pc = "announce" => "BREACH" \in escalation

\* A breach evaluation that is done was announced, or had nothing to do.
CompletedTold ==
  Present("BREACH") /\ timer["BREACH"].state = "completed" => announced \/ status = "TERMINAL"

\* A breach is announced only when it is on record.
AnnouncedOnRecord == announced => "BREACH" \in escalation

WorkerInv ==
  /\ TypeOK
  /\ EscalationMatchesState
  /\ EvaluationsKnow
  /\ CompletedTold
  /\ AnnouncedOnRecord

\* The evaluations of the job run one after the other.
WorkersApart == \A v, w \in Workers : Evaluating(v) /\ Evaluating(w) => v = w

\* What an evaluation read is then what it overwrites.
ReadIsCurrent == \A w \in Workers : worker[w].pc = "write" => worker[w].slaState = slaState

LadderInv == WorkerInv /\ ReadIsCurrent

\* A promise is intact, that of an ASSIGNED job, and no hook disarms the clock.
IntactArms ==
  /\ promised # 0 => intact
  /\ intact => status = "ASSIGNED" /\ \A h \in Hooks : ~Disarms(h)

\* Where a hook that arms the clock stands with a threshold: it will have to
\* see to the entry, or even to remove the one that is there.
Arms(h) == hook[h].arms /\ hook[h].pc = "work"
Carries(h, t) == Arms(h) /\ hook[h].step[t] # "done"
Removes(h, t) == Arms(h) /\ hook[h].step[t] = "remove"

\* A threshold without an entry is some hook's business still.
PresentOrCarried ==
  promised # 0 => \A t \in Thresholds : Present(t) \/ \E h \in Hooks : Carries(h, t)

\* The promise is no newer than the policy, no hook carries an older edition, and
\* an older one that waits is still to be removed.
EditionsGrow ==
  /\ promised <= policy
  /\ promised # 0 /\ ~overtaken =>
       /\ \A h \in Hooks : Arms(h) => hook[h].edition >= promised
       /\ \A t \in Thresholds :
            Waits(t) => timer[t].edition >= promised \/ \E h \in Hooks : Removes(h, t)

\* An entry that a worker holds has started, and stays so when it is released.
ActiveStarted ==
  \A t \in Thresholds : Present(t) /\ timer[t].state = "active" => timer[t].edition = 0

\* A hook that reads the policy arms, and has removed nothing yet.
PolicyFirst ==
  \A h \in Hooks : hook[h].pc = "policy" =>
    hook[h].arms /\ \A t \in Thresholds : hook[h].step[t] = "remove"

ArmingInv ==
  /\ TypeOK
  /\ IntactArms
  /\ PresentOrCarried
  /\ EditionsGrow
  /\ ActiveStarted
  /\ PolicyFirst

----------------------------------------------------------------------------
(* Entries of the queue *)

LEMMA EvaluationType ==
  ASSUME TypeOK, NEW w \in Workers, worker[w].pc # "idle"
  PROVE  worker[w] \in Evaluation
BY DEF TypeOK, WorkerIdle

\* What Evaluating says is what its program counter says.
LEMMA IdleByPc ==
  ASSUME TypeOK, NEW w \in Workers
  PROVE  Evaluating(w) <=> worker[w].pc # "idle"
BY DEF TypeOK, Evaluating, WorkerIdle, Evaluation

LEMMA SettledType ==
  /\ Acknowledged \in Timer /\ Acknowledged.state = "completed" /\ Acknowledged.edition = 0
  /\ Failed \in Timer /\ Failed.state = "failed" /\ Failed.edition = 0
BY ClockAssumption DEF Acknowledged, Failed, Settled, Timer

\* Releasing an entry changes who holds it, and nothing that was promised.
LEMMA ReleasedType ==
  ASSUME NEW w \in Workers, Entry(w) \in Timer
  PROVE  /\ Released(w) \in Timer
         /\ Released(w).state = "pending"
         /\ Released(w).edition = Entry(w).edition
BY DEF Released, Timer

\* A retried entry is released, or has no attempt left.
LEMMA RetriedType ==
  ASSUME NEW w \in Workers, Entry(w) \in Timer
  PROVE  /\ Retried(w) \in Timer
         /\ Retried(w).state \in {"pending", "failed"}
         /\ Retried(w).edition = Entry(w).edition \/ Retried(w).edition = 0
<1>1. CASE Entry(w).attempts + 1 < MaxAttempts
  <2> DEFINE r == Released(w)
  <2>1. r \in Timer /\ r.state = "pending" /\ r.edition = Entry(w).edition
    BY ReleasedType
  <2>2. r.attempts = Entry(w).attempts
    BY DEF Released, Timer
  <2>3. Retried(w) = [r EXCEPT !.attempts = @ + 1]
    BY <1>1 DEF Retried
  <2> HIDE DEF r
  <2> QED
    BY <2>1, <2>2, <2>3, <1>1, ClockAssumption DEF Timer
<1>2. CASE ~(Entry(w).attempts + 1 < MaxAttempts)
  BY <1>2, SettledType DEF Retried
<1> QED
  BY <1>1, <1>2

\* What settling does to the worker and to the queue.
LEMMA SettleEffect ==
  ASSUME TypeOK, NEW w \in Workers, Evaluating(w), NEW entry \in Timer, Settle(w, entry)
  PROVE  /\ worker' \in [Workers -> Evaluation \cup {WorkerIdle}]
         /\ worker'[w] = WorkerIdle
         /\ \A v \in Workers \ {w} : worker'[v] = worker[v]
         /\ timer' \in [Thresholds -> Timer \cup {None}]
         /\ \A t \in Thresholds :
              \/ timer'[t] = timer[t]
              \/ Owns(w) /\ t = worker[w].threshold /\ timer'[t] = entry
<1>1. worker[w] \in Evaluation
  BY EvaluationType, IdleByPc
<1>2. worker[w].threshold \in Thresholds
  BY <1>1 DEF Evaluation
<1> QED
  BY <1>2 DEF Settle, TypeOK

LEMMA OwnedEntry ==
  ASSUME TypeOK, NEW w \in Workers, Evaluating(w), Owns(w)
  PROVE  /\ worker[w].threshold \in Thresholds
         /\ Entry(w) \in Timer
         /\ Entry(w).state = "active"
<1>1. worker[w] \in Evaluation
  BY EvaluationType, IdleByPc
<1> QED
  BY <1>1 DEF Owns, Entry, TypeOK, Present, Evaluation

LEMMA FireEffect ==
  ASSUME TypeOK, NEW w \in Workers, NEW t \in Thresholds, Fire(w, t)
  PROVE  /\ worker' \in [Workers -> Evaluation \cup {WorkerIdle}]
         /\ worker'[w].pc = "read"
         /\ \A v \in Workers \ {w} : worker'[v] = worker[v]
         /\ timer' \in [Thresholds -> Timer \cup {None}]
         /\ Present(t) /\ timer'[t] \in Timer
         /\ timer'[t].state = "active" /\ timer'[t].edition = 0
         /\ \A u \in Thresholds \ {t} : timer'[u] = timer[u]
<1> DEFINE e == timer[t]
           held == [[e EXCEPT !.state = "active"] EXCEPT !.owner = w]
           fired == [held EXCEPT !.edition = 0]
<1>1. e \in Timer
  BY DEF TypeOK, Fire, Present
<1>2. held \in Timer /\ held.state = "active"
  BY <1>1 DEF Timer
<1>3. timer' = [timer EXCEPT ![t] = fired]
  BY DEF Fire, TypeOK
<1> HIDE DEF held
<1>4. fired \in Timer /\ fired.state = "active" /\ fired.edition = 0
  BY <1>2, ClockAssumption DEF Timer
<1>5. [pc |-> "read", threshold |-> t, slaState |-> "OK"] \in Evaluation
  BY DEF Evaluation, SlaStates
<1>6. timer' \in [Thresholds -> Timer \cup {None}] /\ timer'[t] = fired
  BY <1>4, <1>3 DEF TypeOK
<1>7. \A u \in Thresholds \ {t} : timer'[u] = timer[u]
  BY <1>3 DEF TypeOK
<1> HIDE DEF fired, e
<1> QED
  BY <1>4, <1>5, <1>6, <1>7 DEF TypeOK, Fire

LEMMA StallEffect ==
  ASSUME TypeOK, NEW w \in Workers, Stall(w)
  PROVE  /\ worker' \in [Workers -> Evaluation \cup {WorkerIdle}]
         /\ \A v \in Workers : worker'[v] = worker[v] \/ worker'[v] = WorkerIdle
         /\ timer' \in [Thresholds -> Timer \cup {None}]
         /\ \A t \in Thresholds :
              \/ timer'[t] = timer[t]
              \/ /\ t = worker[w].threshold
                 /\ timer'[t] = Failed \/ timer'[t] = Released(w)
<1>1. /\ worker[w].threshold \in Thresholds
      /\ Entry(w) \in Timer
  BY OwnedEntry DEF Stall
<1>2. PICK entry \in {Released(w), Failed} :
        timer' = [timer EXCEPT ![worker[w].threshold] = entry]
  BY DEF Stall
<1>3. entry \in Timer
  BY <1>1, <1>2, ReleasedType, SettledType
<1>4. worker' = worker \/ worker' = [worker EXCEPT ![w] = WorkerIdle]
  BY DEF Stall
<1> QED
  BY <1>1, <1>2, <1>3, <1>4 DEF TypeOK

\* What any step of a worker does to the queue: no entry comes or goes, none
\* starts to wait, and one that becomes active has started.
LEMMA WorkerKeepsEntries ==
  ASSUME TypeOK, ActiveStarted, NEW w \in Workers,
         WorkerStep(w) \/ HandlerFails(w) \/ Stall(w)
  PROVE  /\ timer' \in [Thresholds -> Timer \cup {None}]
         /\ \A t \in Thresholds : /\ Present(t)' <=> Present(t)
                                  /\ Waits(t)' => timer'[t] = timer[t]
         /\ ActiveStarted'
<1> DEFINE Kept == /\ timer' \in [Thresholds -> Timer \cup {None}]
                   /\ \A t \in Thresholds :
                        \/ timer'[t] = timer[t]
                        \/ /\ Present(t) /\ timer'[t] \in Timer
                           /\ timer'[t].edition = 0
<1>1. ASSUME NEW entry \in Timer, Evaluating(w), Settle(w, entry),
             Owns(w) => entry.edition = 0
      PROVE  Kept
  BY <1>1, SettleEffect DEF Owns
<1>2. ASSUME NEW t \in Thresholds, Fire(w, t) PROVE Kept
  BY <1>2, FireEffect
<1>0. timer' = timer => Kept
  BY DEF TypeOK
<1> HIDE DEF Kept
<1>3. Owns(w) /\ Evaluating(w) => Entry(w) \in Timer /\ Entry(w).edition = 0
  BY OwnedEntry DEF ActiveStarted, Owns, Entry
<1>4. ASSUME ReadJob(w) PROVE Kept
  <2>1. Evaluating(w)
    BY <1>4, IdleByPc DEF ReadJob
  <2> QED
    BY <1>0, <1>1, <1>4, <2>1, SettledType DEF ReadJob
<1>5. ASSUME Escalate(w) \/ AlreadyEscalated(w) \/ Announce(w) PROVE Kept
  <2>1. Evaluating(w)
    BY <1>5, IdleByPc DEF Escalate, AlreadyEscalated, Announce
  <2> QED
    BY <1>0, <1>5, <1>1, <2>1, SettledType DEF Escalate, AlreadyEscalated, Announce
<1>6. ASSUME HandlerFails(w) PROVE Kept
  <2>1. CASE Owns(w)
    BY <2>1, <1>1, <1>3, <1>6, RetriedType DEF HandlerFails
  <2>2. CASE ~Owns(w)
    BY <2>2, <1>0, <1>6 DEF HandlerFails, Settle
  <2> QED
    BY <2>1, <2>2
<1>7. ASSUME Stall(w) PROVE Kept
  <2>1. Owns(w) /\ Evaluating(w)
    BY <1>7 DEF Stall
  <2>2. Released(w) \in Timer /\ Released(w).edition = 0
    BY <2>1, <1>3, ReleasedType
  <2> QED
    BY <2>1, <2>2, <1>7, StallEffect, SettledType DEF Owns, Kept
<1>8. Kept
  BY <1>2, <1>4, <1>5, <1>6, <1>7 DEF WorkerStep
<1>9. None \notin Timer
  BY ClockAssumption
<1> QED
  BY <1>8, <1>9 DEF Present, Waits, ActiveStarted, Kept

----------------------------------------------------------------------------
(* Hooks *)

\* Where a hook stands when it is through with "to" for a threshold.
After(hk, t, to) ==
  IF to = "done" /\ \A u \in Thresholds \ {t} : hk.step[u] = "done"
    THEN HookIdle ELSE [hk EXCEPT !.step[t] = to]

LEMMA AfterType ==
  ASSUME NEW hk \in Hook, NEW t \in Thresholds, NEW to \in Steps
  PROVE  /\ After(hk, t, to) \in Hook
         /\ hk.pc = "work" => After(hk, t, to).pc = "work"
         /\ After(hk, t, to).step[t] = to
         /\ \A u \in Thresholds \ {t} : After(hk, t, to).step[u] = hk.step[u]
         /\ \/ After(hk, t, to) = HookIdle
            \/ /\ After(hk, t, to).arms = hk.arms
               /\ After(hk, t, to).edition = hk.edition
<1>1. HookIdle \in Hook
  BY ClockAssumption DEF HookIdle, Hook, Steps
<1>2. HookIdle.pc = "work" /\ \A u \in Thresholds : HookIdle.step[u] = "done"
  BY DEF HookIdle
<1>3. CASE to = "done" /\ \A u \in Thresholds \ {t} : hk.step[u] = "done"
  BY <1>1, <1>2, <1>3 DEF After
<1>4. CASE ~(to = "done" /\ \A u \in Thresholds \ {t} : hk.step[u] = "done")
  <2> DEFINE step == [hk.step EXCEPT ![t] = to]
  <2>1. After(hk, t, to) = [hk EXCEPT !.step = step]
    BY <1>4 DEF After, Hook
  <2>2. /\ step \in [Thresholds -> Steps] /\ step[t] = to
        /\ \A u \in Thresholds \ {t} : step[u] = hk.step[u]
    BY DEF Hook
  <2> HIDE DEF step
  <2> QED
    BY <2>1, <2>2 DEF Hook
<1> QED
  BY <1>3, <1>4

\* What advancing changes: one threshold of one hook.
LEMMA AdvanceEffect ==
  ASSUME TypeOK, NEW h \in Hooks, NEW t \in Thresholds, NEW to \in Steps,
         Advance(h, t, to)
  PROVE  /\ hook' \in [Hooks -> Hook]
         /\ \A g \in Hooks \ {h} : hook'[g] = hook[g]
         /\ hook[h].pc = "work" => hook'[h].pc = "work"
         /\ hook'[h].step[t] = to
         /\ \A u \in Thresholds \ {t} : hook'[h].step[u] = hook[h].step[u]
         /\ \/ hook'[h] = HookIdle
            \/ hook'[h].arms = hook[h].arms /\ hook'[h].edition = hook[h].edition
<1>1. hook[h] \in Hook
  BY DEF TypeOK
<1>2. hook' = [hook EXCEPT ![h] = After(hook[h], t, to)]
  BY DEF Advance, After
<1>3. After(hook[h], t, to) \in Hook
  BY <1>1, AfterType
<1>4. /\ hook' \in [Hooks -> Hook]
      /\ hook'[h] = After(hook[h], t, to)
      /\ \A g \in Hooks \ {h} : hook'[g] = hook[g]
  BY <1>2, <1>3 DEF TypeOK
<1> QED
  BY <1>1, <1>4, AfterType

LEMMA StartHookEffect ==
  ASSUME TypeOK, NEW h \in Hooks, NEW shown \in Statuses, NEW assigns \in 0..MaxRounds,
         StartHook(h, shown, assigns)
  PROVE  /\ hook' \in [Hooks -> Hook]
         /\ \A g \in Hooks \ {h} : hook'[g] = hook[g]
         /\ hook'[h].arms <=> shown = "ASSIGNED"
         /\ hook'[h].pc = "policy" <=> shown = "ASSIGNED"
         /\ \A t \in Thresholds : hook'[h].step[t] = "remove"
<1> DEFINE arms == shown = "ASSIGNED"
           pc == IF shown = "ASSIGNED" THEN "policy" ELSE "work"
           step == [t \in Thresholds |-> "remove"]
           new == [arms |-> arms, pc |-> pc, edition |-> 0, assigns |-> assigns,
                   step |-> step]
<1>0. /\ arms \in BOOLEAN /\ arms = (shown = "ASSIGNED")
      /\ pc \in {"policy", "work"} /\ (pc = "policy" <=> shown = "ASSIGNED")
      /\ step \in [Thresholds -> Steps] /\ \A t \in Thresholds : step[t] = "remove"
  BY DEF Steps
<1>1. /\ new \in Hook
      /\ new.arms <=> shown = "ASSIGNED"
      /\ new.pc = "policy" <=> shown = "ASSIGNED"
      /\ \A t \in Thresholds : new.step[t] = "remove"
  <2> HIDE DEF arms, pc, step
  <2>1. new \in Hook
    BY <1>0, ClockAssumption DEF Hook
  <2>2. new.arms = arms /\ new.pc = pc /\ new.step = step
    OBVIOUS
  <2> QED
    BY <1>0, <2>1, <2>2
<1>2. hook' = [hook EXCEPT ![h] = new]
  BY DEF StartHook
<1> HIDE DEF new
<1> QED
  BY <1>1, <1>2 DEF TypeOK

\* A hook that has read the policy carries its edition, or has ended.
LEMMA ReadPolicyEffect ==
  ASSUME TypeOK, NEW h \in Hooks, ReadPolicy(h)
  PROVE  /\ hook' \in [Hooks -> Hook]
         /\ \A g \in Hooks \ {h} : hook'[g] = hook[g]
         /\ policy = 0 => hook'[h] = HookIdle
         /\ policy # 0 => /\ hook'[h].pc = "work" /\ hook'[h].edition = policy
                          /\ hook'[h].arms = hook[h].arms
                          /\ hook'[h].step = hook[h].step
<1>1. hook[h] \in Hook /\ policy \in 0..MaxEditions
  BY DEF TypeOK
<1>2. HookIdle \in Hook
  BY ClockAssumption DEF HookIdle, Hook, Steps
<1> DEFINE e1 == [hook[h] EXCEPT !.pc = "work"]
           e2 == [e1 EXCEPT !.edition = policy]
           e3 == [e2 EXCEPT !.assigns = 0]
<1>3. e1 \in Hook /\ e1.pc = "work" /\ e1.arms = hook[h].arms /\ e1.step = hook[h].step
  BY <1>1 DEF Hook
<1> HIDE DEF e1
<1>4. /\ e2 \in Hook /\ e2.pc = "work" /\ e2.edition = policy
      /\ e2.arms = e1.arms /\ e2.step = e1.step
  BY <1>1, <1>3 DEF Hook
<1>5. hook' = [hook EXCEPT ![h] = IF policy = 0 THEN HookIdle ELSE e3]
  BY DEF ReadPolicy, e1
<1> HIDE DEF e2
<1>6. /\ e3 \in Hook /\ e3.pc = "work" /\ e3.edition = policy
      /\ e3.arms = e1.arms /\ e3.step = e1.step
  BY <1>4, ClockAssumption DEF Hook
<1> HIDE DEF e3
<1> QED
  BY <1>2, <1>3, <1>5, <1>6 DEF TypeOK

\* The calls a hook makes for one threshold.
ThresholdStep(h, t) ==
  Remove(h, t) \/ Look(h, t) \/ Clear(h, t) \/ Add(h, t) \/ RedisFails(h, t)

\* Each moves its threshold on.
LEMMA ThresholdStepHook ==
  ASSUME TypeOK, NEW h \in Hooks, NEW t \in Thresholds, ThresholdStep(h, t)
  PROVE  \E to \in Steps : Advance(h, t, to)
<1>1. AfterRemove(h) \in Steps
  BY DEF AfterRemove, Steps
<1>2. CASE Remove(h, t)
  BY <1>1, <1>2 DEF Remove
<1>3. CASE Look(h, t)
  <2> DEFINE to == IF ~Present(t) THEN "add"
                   ELSE IF timer[t].state \in {"pending", "active"} THEN "done" ELSE "clear"
  <2>1. to \in Steps
    BY DEF Steps
  <2>2. Advance(h, t, to)
    BY <1>3 DEF Look
  <2> QED
    BY <2>1, <2>2
<1>4. CASE Clear(h, t)
  BY <1>4 DEF Clear, Steps
<1>5. CASE Add(h, t)
  BY <1>5 DEF Add, Steps
<1>6. CASE RedisFails(h, t)
  BY <1>1, <1>6 DEF RedisFails, Steps
<1> QED
  BY <1>2, <1>3, <1>4, <1>5, <1>6 DEF ThresholdStep

\* Each leaves an entry as it is, takes out one that no worker holds, or adds
\* one with the edition that its hook read.
LEMMA ThresholdStepTimer ==
  ASSUME TypeOK, NEW h \in Hooks, NEW t \in Thresholds, ThresholdStep(h, t)
  PROVE  /\ timer' \in [Thresholds -> Timer \cup {None}]
         /\ \A u \in Thresholds :
              \/ timer'[u] = timer[u]
              \/ timer'[u] = None /\ u = t /\ (Remove(h, t) \/ Clear(h, t))
              \/ /\ u = t /\ Add(h, t)
                 /\ timer'[u] \in Timer /\ timer'[u].state = "pending"
                 /\ timer'[u].edition = hook[h].edition
<1>1. hook[h] \in Hook
  BY DEF TypeOK
<1>2. CASE Remove(h, t) \/ Clear(h, t)
  BY <1>2 DEF Remove, Clear, WithoutEntry, TypeOK
<1>3. CASE Look(h, t) \/ RedisFails(h, t)
  BY <1>3 DEF Look, RedisFails, TypeOK
<1>4. CASE Add(h, t)
  <2> DEFINE new == [state |-> "pending", owner |-> None, attempts |-> 0,
                     edition |-> hook[h].edition]
  <2>1. new \in Timer /\ new.state = "pending" /\ new.edition = hook[h].edition
    BY <1>1, ClockAssumption DEF Hook, Timer
  <2>2. timer' = IF Present(t) THEN timer ELSE [timer EXCEPT ![t] = new]
    BY <1>4 DEF Add
  <2> HIDE DEF new
  <2> QED
    BY <1>4, <2>1, <2>2 DEF TypeOK
<1> QED
  BY <1>2, <1>3, <1>4 DEF ThresholdStep

LEMMA ThresholdStepRest ==
  ASSUME NEW h \in Hooks, NEW t \in Thresholds, ThresholdStep(h, t)
  PROVE  /\ UNCHANGED unhooked
         /\ \/ RedisFails(h, t) /\ Break /\ Extra
            \/ ~RedisFails(h, t) /\ UNCHANGED <<promised, intact, overtaken, extras>>
<1>1. CASE RedisFails(h, t)
  BY <1>1 DEF RedisFails
<1>2. CASE ~RedisFails(h, t)
  BY <1>2 DEF ThresholdStep, Remove, Look, Clear, Add, Keep
<1> QED
  BY <1>1, <1>2

LEMMA ExtraType == TypeOK /\ Extra => extras' \in 0..MaxExtras
BY ClockAssumption DEF TypeOK, Extra

LEMMA HookType ==
  ASSUME TypeOK, NEW h \in Hooks, HookNext(h)
  PROVE  TypeOK'
<1>0. /\ 0 \in 0..MaxRounds /\ 0 \in 0..MaxEditions
      /\ Break => promised' \in 0..MaxEditions /\ intact' \in BOOLEAN /\ overtaken' \in BOOLEAN
      /\ Keep => promised' \in 0..MaxEditions /\ intact' \in BOOLEAN /\ overtaken' \in BOOLEAN
  <2>1. 0 \in 0..MaxRounds /\ 0 \in 0..MaxEditions
    BY ClockAssumption
  <2>2. promised \in 0..MaxEditions /\ intact \in BOOLEAN /\ overtaken \in BOOLEAN
    BY DEF TypeOK
  <2>3. Break => promised' \in 0..MaxEditions /\ intact' \in BOOLEAN /\ overtaken' \in BOOLEAN
    BY <2>1 DEF Break
  <2>4. Keep => promised' \in 0..MaxEditions /\ intact' \in BOOLEAN /\ overtaken' \in BOOLEAN
    BY <2>2 DEF Keep
  <2> QED
    BY <2>1, <2>3, <2>4
<1>1. ASSUME NEW to \in Statuses, CommitMove(h, to) PROVE TypeOK'
  <2>1. round' \in 0..MaxRounds
    BY <1>1, ClockAssumption DEF CommitMove, TypeOK
  <2> DEFINE assigns == IF to = "ASSIGNED" THEN round + 1 ELSE 0
  <2>2. assigns \in 0..MaxRounds
    BY <1>0, <1>1, <2>1 DEF CommitMove
  <2>3. StartHook(h, to, assigns)
    BY <1>1 DEF CommitMove
  <2> HIDE DEF assigns
  <2>4. hook' \in [Hooks -> Hook]
    BY <2>2, <2>3, StartHookEffect
  <2> QED
    BY <1>0, <1>1, <2>1, <2>4 DEF CommitMove, database, TypeOK
<1>2. CASE CommitPatch(h)
  <2>1. hook' \in [Hooks -> Hook]
    BY <1>0, <1>2, StartHookEffect DEF CommitPatch, TypeOK
  <2>2. Keep /\ extras' \in 0..MaxExtras
    BY <1>2, ExtraType DEF CommitPatch
  <2> QED
    BY <1>0, <1>2, <2>1, <2>2 DEF CommitPatch, database, TypeOK
<1>3. ASSUME NEW shownAssigned \in BOOLEAN, Replay(h, shownAssigned) PROVE TypeOK'
  <2>1. hook' \in [Hooks -> Hook]
    BY <1>0, <1>3, StartHookEffect DEF Replay, TypeOK, Statuses
  <2>2. (Keep \/ Break) /\ extras' \in 0..MaxExtras
    BY <1>3, ExtraType DEF Replay
  <2> QED
    BY <1>0, <1>3, <2>1, <2>2 DEF Replay, database, TypeOK
<1>4. CASE ReadPolicy(h)
  <2>1. hook' \in [Hooks -> Hook]
    BY <1>4, ReadPolicyEffect
  <2>2. promised' \in 0..MaxEditions /\ overtaken' \in BOOLEAN
    BY <1>4 DEF ReadPolicy, TypeOK
  <2> QED
    BY <1>4, <2>1, <2>2 DEF ReadPolicy, unhooked, database, TypeOK
<1>5. ASSUME NEW t \in Thresholds, ThresholdStep(h, t) PROVE TypeOK'
  <2>1. hook' \in [Hooks -> Hook]
    BY <1>5, ThresholdStepHook, AdvanceEffect
  <2>2. (Keep /\ extras' = extras) \/ (Break /\ extras' \in 0..MaxExtras)
    BY <1>5, ThresholdStepRest, ExtraType DEF Keep
  <2> QED
    BY <1>0, <1>5, <2>1, <2>2, ThresholdStepTimer, ThresholdStepRest DEF unhooked, database, TypeOK
<1>6. CASE HookDies(h)
  <2>1. HookIdle \in Hook
    BY ClockAssumption DEF HookIdle, Hook, Steps
  <2>2. Break /\ extras' \in 0..MaxExtras
    BY <1>6, ExtraType DEF HookDies
  <2> QED
    BY <1>0, <1>6, <2>1, <2>2 DEF HookDies, unhooked, database, TypeOK
<1> QED
  BY <1>1, <1>2, <1>3, <1>4, <1>5, <1>6 DEF HookNext, HookStep, ThresholdStep

----------------------------------------------------------------------------
(* The worker's invariant *)

LEMMA InitWorkerInv == Init => WorkerInv /\ ReadIsCurrent
<1> SUFFICES ASSUME Init PROVE WorkerInv /\ ReadIsCurrent
  OBVIOUS
<1>1. HookIdle \in Hook
  BY ClockAssumption DEF HookIdle, Hook, Steps
<1>2. TypeOK
  <2>1. policy \in 0..MaxEditions
    BY ClockAssumption DEF Init
  <2>2. 0 \in 0..MaxEditions /\ 0 \in 0..MaxRounds /\ 0 \in 0..MaxExtras
    BY ClockAssumption
  <2>3. "PENDING" \in Statuses /\ "OK" \in SlaStates
    BY DEF Statuses, SlaStates
  <2> QED
    BY <1>1, <2>1, <2>2, <2>3 DEF Init, TypeOK
<1>3. EscalationMatchesState
  BY DEF Init, EscalationMatchesState
<1>4. \A w \in Workers : worker[w].pc = "idle"
  BY DEF Init, WorkerIdle
<1>5. CompletedTold /\ AnnouncedOnRecord
  BY DEF Init, CompletedTold, AnnouncedOnRecord, Present, Thresholds
<1> QED
  BY <1>2, <1>3, <1>4, <1>5 DEF WorkerInv, EvaluationsKnow, ReadIsCurrent

\* A hook leaves everything the worker relies on alone.
LEMMA HookWorkerInv ==
  ASSUME WorkerInv, NEW h \in Hooks, HookNext(h)
  PROVE  WorkerInv' /\ (ReadIsCurrent => ReadIsCurrent')
<1>1. TypeOK
  BY DEF WorkerInv
<1>2. TypeOK'
  BY <1>1, HookType
<1>3. UNCHANGED <<database, worker>>
  <2>1. ASSUME NEW t \in Thresholds, ThresholdStep(h, t) PROVE UNCHANGED <<database, worker>>
    BY <2>1, ThresholdStepRest DEF unhooked
  <2> QED
    BY <2>1 DEF HookNext, HookStep, ThresholdStep, CommitMove, CommitPatch, Replay, ReadPolicy,
                HookDies, unhooked
<1>4. status' = "TERMINAL" \/ status # "TERMINAL"
  <2>1. ASSUME NEW t \in Thresholds, ThresholdStep(h, t) PROVE status' = status
    BY <2>1, ThresholdStepRest DEF unhooked
  <2>2. ASSUME NEW to \in Statuses, CommitMove(h, to) PROVE status # "TERMINAL"
    BY <2>2 DEF CommitMove, Moves
  <2> QED
    BY <2>1, <2>2 DEF HookNext, HookStep, ThresholdStep, CommitPatch, Replay, ReadPolicy,
                      HookDies, unhooked
<1>5. Present("BREACH")' /\ timer'["BREACH"].state = "completed" => timer'["BREACH"] = timer["BREACH"]
  <2>1. ASSUME NEW t \in Thresholds, ThresholdStep(h, t)
        PROVE  Present("BREACH")' /\ timer'["BREACH"].state = "completed"
                 => timer'["BREACH"] = timer["BREACH"]
    BY <1>1, <2>1, ThresholdStepTimer DEF Thresholds, Present
  <2> QED
    BY <2>1 DEF HookNext, HookStep, ThresholdStep, CommitMove, CommitPatch, Replay, ReadPolicy,
                HookDies
<1>6. CompletedTold'
  BY <1>3, <1>4, <1>5 DEF WorkerInv, CompletedTold, Present, database
<1> QED
  BY <1>2, <1>3, <1>6 DEF WorkerInv, EscalationMatchesState, EvaluationsKnow, AnnouncedOnRecord,
                          ReadIsCurrent, database

\* What a settled evaluation leaves behind is sound when a breach that is
\* acknowledged was announced, or the job is terminal.
LEMMA SettleWorkerInv ==
  ASSUME WorkerInv, NEW w \in Workers, Evaluating(w), NEW entry \in Timer, Settle(w, entry),
         UNCHANGED unworked,
         slaState' \in SlaStates, escalation' \subseteq Thresholds, escalation \subseteq escalation',
         announced' \in BOOLEAN, announced => announced',
         EscalationMatchesState', AnnouncedOnRecord',
         worker[w].threshold = "BREACH" /\ entry.state = "completed"
           => announced' \/ status = "TERMINAL"
  PROVE  WorkerInv'
<1>1. TypeOK
  BY DEF WorkerInv
<1>2. TypeOK'
  BY <1>1, SettleEffect DEF TypeOK, unworked, stood
<1>3. \A v \in Workers : worker'[v] = worker[v] \/ worker'[v].pc = "idle"
  BY <1>1, SettleEffect DEF WorkerIdle
<1>4. EvaluationsKnow'
  BY <1>3 DEF WorkerInv, EvaluationsKnow
<1>5. \/ timer'["BREACH"] = timer["BREACH"]
      \/ worker[w].threshold = "BREACH" /\ timer'["BREACH"] = entry
  BY <1>1, SettleEffect DEF Thresholds
<1>6. CompletedTold'
  BY <1>5 DEF WorkerInv, CompletedTold, Present, unworked, stood
<1> QED
  BY <1>2, <1>4, <1>6 DEF WorkerInv

\* An evaluation that goes on from "pc" to another step.
LEMMA GoOnWorkerInv ==
  ASSUME WorkerInv, NEW w \in Workers, NEW next \in Evaluation,
         worker' = [worker EXCEPT ![w] = next], UNCHANGED <<unworked, timer, announced>>,
         slaState' \in SlaStates, escalation' \subseteq Thresholds, escalation \subseteq escalation',
         EscalationMatchesState',
         next.pc = "write" /\ next.slaState = "BREACHED" => "BREACH" \in escalation',
         next.pc = "announce" => "BREACH" \in escalation'
  PROVE  WorkerInv'
<1>1. TypeOK'
  BY DEF WorkerInv, TypeOK, unworked, stood
<1>2. EvaluationsKnow'
  BY DEF WorkerInv, EvaluationsKnow, TypeOK
<1>3. CompletedTold' /\ AnnouncedOnRecord'
  BY DEF WorkerInv, CompletedTold, AnnouncedOnRecord, Present, unworked, stood
<1> QED
  BY <1>1, <1>2, <1>3 DEF WorkerInv

LEMMA FireWorkerInv ==
  ASSUME WorkerInv, NEW w \in Workers, NEW t \in Thresholds, Fire(w, t)
  PROVE  WorkerInv'
<1>1. TypeOK
  BY DEF WorkerInv
<1>2. TypeOK'
  BY <1>1, FireEffect DEF Fire, TypeOK, unworked, stood, database
<1>3. EvaluationsKnow'
  <2>1. \A v \in Workers : worker'[v] = worker[v] \/ worker'[v].pc = "read"
    BY <1>1, FireEffect
  <2> QED
    BY <2>1 DEF WorkerInv, EvaluationsKnow, Fire, database
<1>4. CompletedTold'
  <2>1. timer'["BREACH"] = timer["BREACH"] \/ timer'["BREACH"].state = "active"
    BY <1>1, FireEffect DEF Thresholds
  <2> QED
    BY <2>1 DEF WorkerInv, CompletedTold, Present, Fire, unworked, stood, database
<1> QED
  BY <1>2, <1>3, <1>4
     DEF WorkerInv, EscalationMatchesState, AnnouncedOnRecord, Fire, database

LEMMA ReadJobWorkerInv ==
  ASSUME WorkerInv, NEW w \in Workers, ReadJob(w)
  PROVE  WorkerInv'
<1>1. TypeOK
  BY DEF WorkerInv
<1>2. worker[w] \in Evaluation /\ Evaluating(w)
  BY <1>1, EvaluationType, IdleByPc DEF ReadJob
<1>3. UNCHANGED <<unworked, database>>
  BY DEF ReadJob
<1>4. slaState' \in SlaStates /\ escalation' \subseteq Thresholds /\ announced' \in BOOLEAN
      /\ EscalationMatchesState' /\ AnnouncedOnRecord'
  BY <1>3 DEF WorkerInv, TypeOK, database, EscalationMatchesState, AnnouncedOnRecord
<1>5. CASE status = "TERMINAL"
  <2>1. Settle(w, Acknowledged)
    BY <1>5 DEF ReadJob
  <2> QED
    BY <1>2, <1>3, <1>4, <1>5, <2>1, SettledType, SettleWorkerInv DEF database
<1>6. CASE status # "TERMINAL"
  <2> DEFINE e1 == [worker[w] EXCEPT !.pc = "write"]
             next == [e1 EXCEPT !.slaState = slaState]
  <2>1. e1 \in Evaluation /\ e1.pc = "write"
    BY <1>2 DEF Evaluation
  <2>2. slaState \in SlaStates
    BY <1>1 DEF TypeOK
  <2>3. worker' = [worker EXCEPT ![w] = next] /\ UNCHANGED timer
    BY <1>1, <1>6 DEF ReadJob, TypeOK
  <2> HIDE DEF e1
  <2>4. next \in Evaluation /\ next.pc = "write" /\ next.slaState = slaState
    BY <2>1, <2>2 DEF Evaluation
  <2>5. slaState = "BREACHED" => "BREACH" \in escalation'
    BY <1>3 DEF WorkerInv, EscalationMatchesState, database
  <2> HIDE DEF next
  <2> QED
    BY <1>3, <1>4, <2>3, <2>4, <2>5, GoOnWorkerInv DEF database
<1> QED
  BY <1>5, <1>6

LEMMA EscalateWorkerInv ==
  ASSUME WorkerInv, NEW w \in Workers, Escalate(w)
  PROVE  WorkerInv'
<1>1. TypeOK
  BY DEF WorkerInv
<1>2. worker[w] \in Evaluation /\ Evaluating(w) /\ worker[w].pc = "write"
  BY <1>1, EvaluationType, IdleByPc DEF Escalate
<1> DEFINE threshold == worker[w].threshold
           was == worker[w].slaState
<1>3. /\ threshold \in Thresholds /\ was \in SlaStates
      /\ was = "BREACHED" => "BREACH" \in escalation
  BY <1>2 DEF Evaluation, WorkerInv, EvaluationsKnow
<1>4. /\ slaState' = NextSlaState(threshold, was)
      /\ escalation' = escalation \cup {threshold}
      /\ UNCHANGED <<unworked, announced>>
  BY DEF Escalate
<1> HIDE DEF was
<1>5. slaState' \in SlaStates /\ escalation' \subseteq Thresholds /\ EscalationMatchesState'
  BY <1>1, <1>3, <1>4 DEF NextSlaState, EscalationMatchesState, TypeOK, SlaStates, Thresholds
<1>6. announced' \in BOOLEAN /\ AnnouncedOnRecord'
  BY <1>1, <1>4 DEF AnnouncedOnRecord, WorkerInv, TypeOK
<1>7. CASE threshold = "BREACH"
  <2> DEFINE next == Announcing
  <2>1. next \in Evaluation /\ next.pc = "announce"
    BY DEF Announcing, Evaluation, Thresholds, SlaStates
  <2>2. worker' = [worker EXCEPT ![w] = next] /\ UNCHANGED timer
    BY <1>7 DEF Escalate
  <2> HIDE DEF next
  <2> QED
    BY <1>4, <1>5, <1>7, <2>1, <2>2, GoOnWorkerInv
<1>8. CASE threshold # "BREACH"
  <2>1. Settle(w, Acknowledged)
    BY <1>8 DEF Escalate
  <2> QED
    BY <1>2, <1>4, <1>5, <1>6, <1>8, <2>1, SettledType, SettleWorkerInv
<1> QED
  BY <1>7, <1>8

LEMMA AlreadyEscalatedWorkerInv ==
  ASSUME WorkerInv, NEW w \in Workers, AlreadyEscalated(w)
  PROVE  WorkerInv'
<1>1. TypeOK
  BY DEF WorkerInv
<1>2. worker[w] \in Evaluation /\ Evaluating(w)
  BY <1>1, EvaluationType, IdleByPc DEF AlreadyEscalated
<1>3. UNCHANGED <<unworked, database>> /\ worker[w].threshold \in escalation
  BY DEF AlreadyEscalated
<1>4. slaState' \in SlaStates /\ escalation' \subseteq Thresholds /\ announced' \in BOOLEAN
      /\ EscalationMatchesState' /\ AnnouncedOnRecord'
  BY <1>3 DEF WorkerInv, TypeOK, database, EscalationMatchesState, AnnouncedOnRecord
<1>5. CASE worker[w].threshold = "BREACH"
  <2> DEFINE next == Announcing
  <2>1. next \in Evaluation /\ next.pc = "announce"
    BY DEF Announcing, Evaluation, Thresholds, SlaStates
  <2>2. worker' = [worker EXCEPT ![w] = next] /\ UNCHANGED timer
    BY <1>5 DEF AlreadyEscalated
  <2> HIDE DEF next
  <2> QED
    BY <1>3, <1>4, <1>5, <2>1, <2>2, GoOnWorkerInv DEF database
<1>6. CASE worker[w].threshold # "BREACH"
  <2>1. Settle(w, Acknowledged)
    BY <1>6 DEF AlreadyEscalated
  <2> QED
    BY <1>2, <1>3, <1>4, <1>6, <2>1, SettledType, SettleWorkerInv DEF database
<1> QED
  BY <1>5, <1>6

LEMMA AnnounceWorkerInv ==
  ASSUME WorkerInv, NEW w \in Workers, Announce(w)
  PROVE  WorkerInv'
<1>1. TypeOK
  BY DEF WorkerInv
<1>2. Evaluating(w) /\ "BREACH" \in escalation
  BY <1>1, IdleByPc DEF Announce, WorkerInv, EvaluationsKnow
<1>3. /\ announced' = TRUE /\ Settle(w, Acknowledged)
      /\ UNCHANGED <<unworked, slaState, escalation>>
  BY DEF Announce
<1>4. slaState' \in SlaStates /\ escalation' \subseteq Thresholds
      /\ EscalationMatchesState' /\ AnnouncedOnRecord'
  BY <1>2, <1>3 DEF WorkerInv, TypeOK, EscalationMatchesState, AnnouncedOnRecord
<1> QED
  BY <1>2, <1>3, <1>4, SettledType, SettleWorkerInv

LEMMA HandlerFailsWorkerInv ==
  ASSUME WorkerInv, NEW w \in Workers, HandlerFails(w)
  PROVE  WorkerInv'
<1>1. TypeOK
  BY DEF WorkerInv
<1>2. /\ Evaluating(w) /\ Settle(w, Retried(w))
      /\ UNCHANGED <<unworked, database>>
  BY DEF HandlerFails
<1>3. slaState' \in SlaStates /\ escalation' \subseteq Thresholds /\ announced' \in BOOLEAN
      /\ EscalationMatchesState' /\ AnnouncedOnRecord'
  BY <1>2 DEF WorkerInv, TypeOK, database, EscalationMatchesState, AnnouncedOnRecord
<1>4. CASE Owns(w)
  <2>1. Retried(w) \in Timer /\ Retried(w).state # "completed"
    BY <1>1, <1>2, <1>4, OwnedEntry, RetriedType
  <2> QED
    BY <1>2, <1>3, <2>1, SettleWorkerInv DEF database
<1>5. CASE ~Owns(w)
  <2>1. Settle(w, Failed)
    BY <1>2, <1>5 DEF Settle
  <2> QED
    BY <1>2, <1>3, <2>1, SettledType, SettleWorkerInv DEF database
<1> QED
  BY <1>4, <1>5

LEMMA StallWorkerInv ==
  ASSUME WorkerInv, NEW w \in Workers, Stall(w)
  PROVE  WorkerInv'
<1>1. TypeOK
  BY DEF WorkerInv
<1>2. UNCHANGED <<stood, database>> /\ extras' \in 0..MaxExtras
  BY <1>1, ExtraType DEF Stall, TypeOK
<1>3. TypeOK'
  BY <1>1, <1>2, StallEffect DEF TypeOK, stood, database
<1>4. EvaluationsKnow'
  <2>1. \A v \in Workers : worker'[v] = worker[v] \/ worker'[v].pc = "idle"
    BY <1>1, StallEffect DEF WorkerIdle
  <2> QED
    BY <1>2, <2>1 DEF WorkerInv, EvaluationsKnow, database
<1>5. CompletedTold'
  <2>1. Entry(w) \in Timer
    BY <1>1, OwnedEntry DEF Stall
  <2>2. timer'["BREACH"] = timer["BREACH"] \/ timer'["BREACH"].state # "completed"
    BY <1>1, <2>1, StallEffect, ReleasedType, SettledType DEF Thresholds
  <2> QED
    BY <1>2, <2>2 DEF WorkerInv, CompletedTold, Present, stood, database
<1> QED
  BY <1>2, <1>3, <1>4, <1>5 DEF WorkerInv, EscalationMatchesState, AnnouncedOnRecord, database

LEMMA EditPolicyType ==
  ASSUME TypeOK, EditPolicy
  PROVE  TypeOK'
<1>1. policy' \in 0..MaxEditions
  BY ClockAssumption DEF EditPolicy, TypeOK
<1> QED
  BY <1>1 DEF EditPolicy, Keep, TypeOK, database

LEMMA NextWorkerInv == WorkerInv /\ [Next]_vars => WorkerInv'
<1> SUFFICES ASSUME WorkerInv, [Next]_vars PROVE WorkerInv'
  OBVIOUS
<1>1. CASE EditPolicy
  <2>1. TypeOK'
    BY <1>1, EditPolicyType DEF WorkerInv
  <2> QED
    BY <1>1, <2>1 DEF EditPolicy, WorkerInv, database, EscalationMatchesState, EvaluationsKnow,
                      CompletedTold, AnnouncedOnRecord, Present
<1>2. ASSUME NEW h \in Hooks, HookNext(h) PROVE WorkerInv'
  BY <1>2, HookWorkerInv
<1>3. ASSUME NEW w \in Workers, WorkerStep(w) \/ HandlerFails(w) \/ Stall(w) PROVE WorkerInv'
  BY <1>3, FireWorkerInv, ReadJobWorkerInv, EscalateWorkerInv, AlreadyEscalatedWorkerInv,
     AnnounceWorkerInv, HandlerFailsWorkerInv, StallWorkerInv DEF WorkerStep
<1>4. CASE UNCHANGED vars
  BY <1>4 DEF vars, WorkerInv, TypeOK, EscalationMatchesState, EvaluationsKnow,
              CompletedTold, AnnouncedOnRecord, Present
<1> QED
  BY <1>1, <1>2, <1>3, <1>4 DEF Next

\* The evaluations' invariant, however many processes run them.
THEOREM SpecWorkerInv == Spec => []WorkerInv
BY InitWorkerInv, NextWorkerInv, PTL DEF Spec

\* Every variable keeps its type.
THEOREM SpecTypeOK == Spec => []TypeOK
<1>1. WorkerInv => TypeOK
  BY DEF WorkerInv
<1> QED
  BY <1>1, SpecWorkerInv, PTL

\* The SLA state of a job and its Escalation rows tell one story, for any
\* number of requests, worker processes, retries and stalls
\* (worker/handlers/sla-check.js).
THEOREM SpecEscalationMatchesState == Spec => []EscalationMatchesState
<1>1. WorkerInv => EscalationMatchesState
  BY DEF WorkerInv
<1> QED
  BY <1>1, SpecWorkerInv, PTL

\* An evaluation of a breach is never acknowledged with the breach on record
\* and not announced, unless the job is terminal (worker/handlers/sla-check.js).
THEOREM SpecBreachAnnounced == Spec => []BreachAnnounced
<1>1. WorkerInv => BreachAnnounced
  BY DEF WorkerInv, CompletedTold, BreachAnnounced
<1> QED
  BY <1>1, SpecWorkerInv, PTL

----------------------------------------------------------------------------
(* The escalation ladder, one evaluation at a time *)

\* Only the write of an evaluation changes the state, and nobody else is
\* between its read and its write.
LEMMA WorkerReadIsCurrent ==
  ASSUME TypeOK, ReadIsCurrent, WorkersApart, NEW w \in Workers, Evaluating(w),
         WorkerStep(w) \/ HandlerFails(w) \/ Stall(w)
  PROVE  ReadIsCurrent'
<1>1. \A v \in Workers : v # w => worker'[v] = WorkerIdle
  <2>1. \A v \in Workers : v # w => worker[v] = WorkerIdle
    BY DEF WorkersApart, Evaluating
  <2>2. worker' = [worker EXCEPT ![w] = worker'[w]]
    BY DEF TypeOK, WorkerStep, Fire, ReadJob, Escalate, AlreadyEscalated, Announce, HandlerFails,
           Stall, Settle
  <2> QED
    BY <2>1, <2>2 DEF TypeOK
<1> SUFFICES ASSUME worker'[w].pc = "write" PROVE worker'[w].slaState = slaState'
  BY <1>1 DEF ReadIsCurrent, WorkerIdle
<1>2. ASSUME NEW t \in Thresholds, Fire(w, t) PROVE worker'[w].pc # "write"
  BY <1>2, FireEffect
<1>3. ASSUME NEW entry \in Timer, Evaluating(w), Settle(w, entry) PROVE worker'[w].pc # "write"
  BY <1>3, SettleEffect DEF WorkerIdle
<1>4. ASSUME worker' = [worker EXCEPT ![w] = Announcing] PROVE worker'[w].pc # "write"
  BY <1>4 DEF TypeOK, Announcing
<1>5. ASSUME Evaluating(w),
             worker' = [worker EXCEPT ![w].pc = "write", ![w].slaState = slaState]
      PROVE  worker'[w].slaState = slaState
  <2>1. worker[w] \in Evaluation
    BY <1>5, EvaluationType, IdleByPc
  <2> DEFINE e1 == [worker[w] EXCEPT !.pc = "write"]
             next == [e1 EXCEPT !.slaState = slaState]
  <2>2. e1 \in Evaluation
    BY <2>1 DEF Evaluation
  <2>3. worker' = [worker EXCEPT ![w] = next]
    BY <1>5 DEF TypeOK
  <2> HIDE DEF e1
  <2>4. next.slaState = slaState
    BY <2>2 DEF Evaluation
  <2> HIDE DEF next
  <2> QED
    BY <2>3, <2>4 DEF TypeOK
<1>6. CASE ReadJob(w)
  <2>1. Evaluating(w)
    BY <1>6, IdleByPc DEF ReadJob
  <2>2. CASE status = "TERMINAL"
    <3>1. Settle(w, Acknowledged)
      BY <1>6, <2>2 DEF ReadJob
    <3> QED
      BY <1>3, <2>1, <3>1, SettledType
  <2>3. CASE status # "TERMINAL"
    <3>1. worker' = [worker EXCEPT ![w].pc = "write", ![w].slaState = slaState]
      BY <1>6, <2>3 DEF ReadJob
    <3>2. slaState' = slaState
      BY <1>6 DEF ReadJob, database
    <3> QED
      BY <1>5, <2>1, <3>1, <3>2
  <2> QED
    BY <2>2, <2>3
<1>7. CASE Escalate(w) \/ AlreadyEscalated(w) \/ Announce(w)
  <2>1. Evaluating(w)
    BY <1>7, IdleByPc DEF Escalate, AlreadyEscalated, Announce
  <2>2. Settle(w, Acknowledged) \/ worker' = [worker EXCEPT ![w] = Announcing]
    BY <1>7 DEF Escalate, AlreadyEscalated, Announce
  <2> QED
    BY <1>3, <1>4, <2>1, <2>2, SettledType
<1>8. CASE HandlerFails(w)
  <2>1. worker' = [worker EXCEPT ![w] = WorkerIdle]
    BY <1>8 DEF HandlerFails, Settle
  <2> QED
    BY <2>1 DEF TypeOK, WorkerIdle
<1>9. CASE Stall(w)
  <2>1. worker'[w] = worker[w] \/ worker'[w] = WorkerIdle
    BY <1>9, StallEffect
  <2>2. slaState' = slaState
    BY <1>9 DEF Stall, database
  <2> QED
    BY <2>1, <2>2 DEF ReadIsCurrent, WorkerIdle
<1> QED
  BY <1>2, <1>6, <1>7, <1>8, <1>9 DEF WorkerStep

LEMMA NextLadderInv == WorkersApart /\ LadderInv /\ [Next]_vars => LadderInv'
<1> SUFFICES ASSUME WorkersApart, LadderInv, [Next]_vars PROVE LadderInv'
  OBVIOUS
<1>1. WorkerInv'
  BY NextWorkerInv DEF LadderInv
<1>2. ASSUME EditPolicy PROVE ReadIsCurrent'
  BY <1>2 DEF EditPolicy, LadderInv, ReadIsCurrent, database
<1>3. ASSUME NEW h \in Hooks, HookNext(h) PROVE ReadIsCurrent'
  BY <1>3, HookWorkerInv DEF LadderInv
<1>4. ASSUME NEW w \in Workers, WorkerStep(w) \/ HandlerFails(w) \/ Stall(w)
      PROVE  ReadIsCurrent'
  <2>1. CASE Evaluating(w)
    BY <1>4, <2>1, WorkerReadIsCurrent DEF LadderInv, WorkerInv
  <2>2. CASE ~Evaluating(w)
    <3>1. PICK t \in Thresholds : Fire(w, t)
      BY <1>4, <2>2, IdleByPc DEF LadderInv, WorkerInv, WorkerStep, ReadJob, Escalate,
                                 AlreadyEscalated, Announce, HandlerFails, Stall
    <3>2. worker'[w].pc = "read" /\ \A v \in Workers \ {w} : worker'[v] = worker[v]
      BY <3>1, FireEffect DEF LadderInv, WorkerInv
    <3>3. slaState' = slaState
      BY <3>1 DEF Fire, database
    <3> QED
      BY <3>2, <3>3 DEF LadderInv, ReadIsCurrent
  <2> QED
    BY <2>1, <2>2
<1>5. ASSUME UNCHANGED vars PROVE ReadIsCurrent'
  BY <1>5 DEF vars, LadderInv, ReadIsCurrent
<1> QED
  BY <1>1, <1>2, <1>3, <1>4, <1>5 DEF Next, LadderInv

\* What one step of the clock is to a reader of the job.
LEMMA LadderStep == LadderInv /\ [Next]_vars => [Ladder!Next]_(Ladder!vars)
<1> SUFFICES ASSUME LadderInv, [Next]_vars PROVE [Ladder!Next]_(Ladder!vars)
  OBVIOUS
<1>1. database' = database => [Ladder!Next]_(Ladder!vars)
  BY DEF database, Ladder!vars
<1>2. ASSUME NEW h \in Hooks, HookNext(h) PROVE database' = database
  <2>1. ASSUME NEW t \in Thresholds, ThresholdStep(h, t) PROVE database' = database
    BY <2>1, ThresholdStepRest DEF unhooked
  <2> QED
    BY <1>2, <2>1 DEF HookNext, HookStep, ThresholdStep, CommitMove, CommitPatch, Replay,
                      ReadPolicy, HookDies, unhooked
<1>3. ASSUME NEW w \in Workers, Escalate(w) PROVE Ladder!Next
  <2>1. worker[w].pc = "write" /\ worker[w].slaState = slaState
    BY <1>3 DEF Escalate, LadderInv, ReadIsCurrent
  <2>2. worker[w].threshold \in Thresholds
    BY <2>1, EvaluationType DEF LadderInv, WorkerInv, Evaluation
  <2>3. /\ worker[w].threshold \notin escalation
        /\ escalation' = escalation \cup {worker[w].threshold}
        /\ slaState' = NextSlaState(worker[w].threshold, slaState)
        /\ announced' = announced
    BY <1>3, <2>1 DEF Escalate
  <2>4. CASE worker[w].threshold = "WARNING"
    BY <2>3, <2>4 DEF NextSlaState, Ladder!Next, Ladder!Warn, Ladder!Record
  <2>5. CASE worker[w].threshold = "BREACH"
    BY <2>3, <2>5 DEF NextSlaState, Ladder!Next, Ladder!Breach, Ladder!Record
  <2> QED
    BY <2>2, <2>4, <2>5 DEF Thresholds
<1>4. ASSUME NEW w \in Workers, Announce(w) PROVE Ladder!Next
  <2>1. "BREACH" \in escalation
    BY <1>4 DEF Announce, LadderInv, WorkerInv, EvaluationsKnow
  <2> QED
    BY <1>4, <2>1 DEF Announce, Ladder!Next, Ladder!AnnounceBreach
<1>5. ASSUME NEW w \in Workers, WorkerStep(w) \/ HandlerFails(w) \/ Stall(w),
             ~Escalate(w), ~Announce(w)
      PROVE  database' = database
  BY <1>5 DEF WorkerStep, Fire, ReadJob, AlreadyEscalated, HandlerFails, Stall
<1>6. CASE EditPolicy \/ UNCHANGED vars
  BY <1>1, <1>6 DEF EditPolicy, vars, database
<1> QED
  BY <1>1, <1>2, <1>3, <1>4, <1>5, <1>6 DEF Next

\* However evaluations are armed, retried, stalled and handed out again, what a
\* reader of the job sees climbs the escalation ladder, as long as one worker
\* process evaluates the job at a time: two can read the row before either
\* writes it, and take a BREACHED job back to WARNING.
THEOREM SpecImplementsEscalationLadder == Spec /\ []WorkersApart => ImplementsEscalationLadder
<1>1. Init => LadderInv
  BY InitWorkerInv DEF LadderInv
<1>2. WorkersApart /\ LadderInv /\ [Next]_vars => LadderInv'
  BY NextLadderInv
<1>3. Init => Ladder!Init
  BY DEF Init, Ladder!Init
<1>4. Spec /\ []WorkersApart => []LadderInv
  BY <1>1, <1>2, PTL DEF Spec
<1> QED
  BY <1>3, <1>4, LadderStep, PTL DEF Spec, ImplementsEscalationLadder, Ladder!Spec

\* "WARNING never downgrades an already-BREACHED job" is then so, as the
\* comment in worker/handlers/sla-check.js says, with the same restriction.
THEOREM SpecWarningNeverDowngrades == Spec /\ []WorkersApart => WarningNeverDowngrades
<1>1. [Ladder!Next]_(Ladder!vars) => [slaState = "BREACHED" => slaState' = "BREACHED"]_vars
  BY DEF Ladder!Next, Ladder!vars, Ladder!Warn, Ladder!Breach, Ladder!AnnounceBreach,
         Ladder!Record, vars
<1> QED
  BY <1>1, SpecImplementsEscalationLadder, PTL
     DEF WarningNeverDowngrades, ImplementsEscalationLadder, Ladder!Spec

----------------------------------------------------------------------------
(* Arming, however the hooks interleave *)

LEMMA InitArmingInv == Init => ArmingInv
<1> SUFFICES ASSUME Init PROVE ArmingInv
  OBVIOUS
<1>1. TypeOK
  BY InitWorkerInv DEF WorkerInv
<1>2. intact = FALSE /\ promised = 0 /\ policy \in Nat /\ \A t \in Thresholds : ~Present(t)
  BY DEF Init, Present
<1>3. \A h \in Hooks : hook[h].pc = "work"
  BY DEF Init, HookIdle
<1> QED
  BY <1>1, <1>2, <1>3
     DEF ArmingInv, IntactArms, PresentOrCarried, EditionsGrow, ActiveStarted, PolicyFirst

\* Where nothing is promised, nothing is to be shown of the entries.
LEMMA BrokenArmingInv ==
  ASSUME TypeOK', promised' = 0, intact' = FALSE, ActiveStarted', PolicyFirst'
  PROVE  ArmingInv'
<1>1. policy' \in Nat
  BY DEF TypeOK
<1> QED
  BY <1>1 DEF ArmingInv, IntactArms, PresentOrCarried, EditionsGrow

\* A step that leaves the hooks, the promise and the job's status alone may
\* move entries as a worker does.
LEMMA EntriesArmingInv ==
  ASSUME ArmingInv, TypeOK', UNCHANGED <<hook, status, promised, intact, overtaken>>,
         policy' \in Nat, policy <= policy',
         \A t \in Thresholds : /\ Present(t)' <=> Present(t)
                               /\ Waits(t)' => timer'[t] = timer[t],
         ActiveStarted'
  PROVE  ArmingInv'
<1>1. IntactArms' /\ PolicyFirst'
  BY DEF ArmingInv, IntactArms, PolicyFirst, Disarms, Quiet
<1>2. \A h \in Hooks : /\ Arms(h)' <=> Arms(h)
                       /\ \A t \in Thresholds : /\ Carries(h, t)' <=> Carries(h, t)
                                                /\ Removes(h, t)' <=> Removes(h, t)
  BY DEF Arms, Carries, Removes
<1>3. PresentOrCarried'
  BY <1>2 DEF ArmingInv, PresentOrCarried
<1>4. \A t \in Thresholds : Waits(t)' => Waits(t) /\ timer'[t] = timer[t]
  BY DEF Waits, Present
<1>5. EditionsGrow'
  <2>1. promised \in Nat /\ policy \in Nat
    BY DEF ArmingInv, TypeOK
  <2> QED
    BY <2>1, <1>2, <1>4 DEF ArmingInv, EditionsGrow
<1> QED
  BY <1>1, <1>3, <1>5 DEF ArmingInv

LEMMA WorkerArmingInv ==
  ASSUME ArmingInv, NEW w \in Workers, WorkerStep(w) \/ HandlerFails(w) \/ Stall(w),
         TypeOK'
  PROVE  ArmingInv'
<1>1. UNCHANGED stood
  BY DEF WorkerStep, Fire, ReadJob, Escalate, AlreadyEscalated, Announce, HandlerFails, Stall,
         unworked
<1>2. policy \in Nat
  BY DEF ArmingInv, TypeOK
<1> QED
  BY <1>1, <1>2, WorkerKeepsEntries, EntriesArmingInv DEF ArmingInv, stood

\* A hook that starts carries nothing before it has read the policy, and one that
\* disarms starts only where nothing is promised.
LEMMA StartArmingInv ==
  ASSUME ArmingInv, NEW h \in Hooks, Quiet(h), TypeOK', NEW shown \in Statuses,
         NEW assigns \in 0..MaxRounds, StartHook(h, shown, assigns),
         UNCHANGED <<policy, timer>>,
         promised' = 0 \/ UNCHANGED <<promised, overtaken>>,
         promised' # 0 => intact',
         intact' => /\ status' = "ASSIGNED" /\ shown = "ASSIGNED"
                    /\ \A g \in Hooks : ~Disarms(g)
  PROVE  ArmingInv'
<1>1. TypeOK /\ promised \in Nat /\ policy \in Nat
  BY DEF ArmingInv, TypeOK
<1>2. /\ \A g \in Hooks \ {h} : hook'[g] = hook[g]
      /\ hook'[h].arms <=> shown = "ASSIGNED"
      /\ hook'[h].pc = "policy" <=> shown = "ASSIGNED"
      /\ \A t \in Thresholds : hook'[h].step[t] = "remove"
  BY <1>1, StartHookEffect
<1>3. ~Arms(h) /\ ~Arms(h)'
  BY <1>2 DEF Arms, Quiet, HookIdle
<1>4. \A g \in Hooks : /\ Arms(g)' <=> Arms(g)
                       /\ Arms(g) => hook'[g] = hook[g]
  BY <1>2, <1>3 DEF Arms
<1>5. \A g \in Hooks, t \in Thresholds : /\ Carries(g, t)' <=> Carries(g, t)
                                         /\ Removes(g, t)' <=> Removes(g, t)
  BY <1>4 DEF Carries, Removes
<1>6. IntactArms'
  <2>1. intact' => \A g \in Hooks : ~Disarms(g)'
    BY <1>2 DEF Disarms, Quiet
  <2> QED
    BY <2>1 DEF IntactArms
<1>7. PresentOrCarried'
  BY <1>5 DEF ArmingInv, PresentOrCarried, Present
<1>8. EditionsGrow'
  BY <1>1, <1>4, <1>5 DEF ArmingInv, EditionsGrow, Waits, Present
<1>9. ActiveStarted' /\ PolicyFirst'
  BY <1>2 DEF ArmingInv, ActiveStarted, PolicyFirst, Present
<1> QED
  BY <1>6, <1>7, <1>8, <1>9 DEF ArmingInv

\* Reading the policy makes the promise before anything is removed.
LEMMA ReadPolicyArmingInv ==
  ASSUME ArmingInv, NEW h \in Hooks, TypeOK', ReadPolicy(h)
  PROVE  ArmingInv'
<1>1. TypeOK /\ promised \in Nat /\ policy \in Nat /\ promised <= policy
  BY DEF ArmingInv, TypeOK, EditionsGrow
<1>2. /\ \A g \in Hooks \ {h} : hook'[g] = hook[g]
      /\ policy = 0 => hook'[h] = HookIdle
      /\ policy # 0 => /\ hook'[h].pc = "work" /\ hook'[h].edition = policy
                       /\ hook'[h].arms = hook[h].arms
                       /\ hook'[h].step = hook[h].step
  BY <1>1, ReadPolicyEffect
<1>3. hook[h].pc = "policy" /\ hook[h].arms /\ \A t \in Thresholds : hook[h].step[t] = "remove"
  BY DEF ArmingInv, PolicyFirst, ReadPolicy
<1>4. HookIdle.arms = FALSE /\ HookIdle.pc = "work"
  BY DEF HookIdle
<1>5. /\ UNCHANGED <<policy, timer, status, intact>>
      /\ \/ UNCHANGED <<promised, overtaken>>
         \/ /\ intact /\ promised' = policy
            /\ ~overtaken' => \A g \in Hooks : ~ArmsWithOlder(g, policy)
  BY DEF ReadPolicy, unhooked
<1>6. hook[h] # HookIdle
  BY <1>3, <1>4
<1>7. /\ ~Arms(h)
      /\ \A g \in Hooks \ {h} : /\ Arms(g)' <=> Arms(g)
                                /\ hook'[g] = hook[g]
  BY <1>2, <1>3 DEF Arms
<1>8. \A g \in Hooks, t \in Thresholds : /\ Carries(g, t) => Carries(g, t)'
                                         /\ Removes(g, t) => Removes(g, t)'
  BY <1>7 DEF Carries, Removes
<1>9. policy # 0 => \A t \in Thresholds : Carries(h, t)' /\ Removes(h, t)'
  BY <1>2, <1>3 DEF Carries, Removes, Arms
<1>10. IntactArms'
  <2>1. \A g \in Hooks : Disarms(g)' => Disarms(g)
    BY <1>2, <1>3, <1>6 DEF Disarms, Quiet
  <2> QED
    BY <1>5, <2>1 DEF ArmingInv, IntactArms
<1>11. PresentOrCarried'
  <2> SUFFICES ASSUME promised' # 0, NEW t \in Thresholds
               PROVE  Present(t)' \/ \E g \in Hooks : Carries(g, t)'
    BY DEF PresentOrCarried
  <2>1. policy # 0
    BY <1>1, <1>5
  <2> QED
    BY <1>9, <2>1
<1>12. EditionsGrow'
  <2>1. promised' <= policy'
    BY <1>1, <1>5
  <2> SUFFICES ASSUME promised' # 0, ~overtaken'
               PROVE  /\ \A g \in Hooks : Arms(g)' => hook'[g].edition >= promised'
                      /\ \A t \in Thresholds :
                           Waits(t)' => \/ timer'[t].edition >= promised'
                                        \/ \E g \in Hooks : Removes(g, t)'
    BY <2>1 DEF EditionsGrow
  <2>2. policy # 0 /\ promised' \in Nat
    BY <1>1, <1>5
  <2>3. ASSUME NEW g \in Hooks, g # h, Arms(g) PROVE hook[g].edition >= promised'
    <3>1. ~Quiet(g)
      BY <2>3, <1>4 DEF Quiet, Arms
    <3>2. hook[g].edition \in Nat
      BY <1>1 DEF TypeOK, Hook
    <3>3. UNCHANGED <<promised, overtaken>> => hook[g].edition >= promised
      BY <2>3 DEF ArmingInv, EditionsGrow
    <3> QED
      BY <1>1, <1>5, <2>3, <3>1, <3>2, <3>3 DEF ArmsWithOlder, Arms
  <2>4. \A g \in Hooks : Arms(g)' => hook'[g].edition >= promised'
    BY <1>1, <1>2, <1>5, <1>7, <2>1, <2>2, <2>3
  <2> QED
    BY <1>9, <2>2, <2>4
<1>13. ActiveStarted' /\ PolicyFirst'
  BY <1>2, <1>4, <1>5 DEF ArmingInv, ActiveStarted, PolicyFirst, Present
<1> QED
  BY <1>10, <1>11, <1>12, <1>13 DEF ArmingInv

\* A call of a hook is through with a threshold only when its entry is there, and
\* what it adds is no older than the promise.
LEMMA ThresholdArmingInv ==
  ASSUME ArmingInv, NEW h \in Hooks, TypeOK', NEW t \in Thresholds, ThresholdStep(h, t)
  PROVE  ArmingInv'
<1>1. TypeOK /\ promised \in Nat /\ policy \in Nat /\ hook[h] \in Hook /\ None \notin Timer
  BY ClockAssumption DEF ArmingInv, TypeOK
<1>2. PICK to \in Steps : Advance(h, t, to)
  BY <1>1, ThresholdStepHook
<1>3. UNCHANGED <<status, policy>>
  BY ThresholdStepRest DEF unhooked
<1>4. hook[h].step[t] # "done"
  BY DEF ThresholdStep, Remove, Look, Clear, Add, RedisFails
<1>5. ~Quiet(h)
  BY <1>4 DEF Quiet, HookIdle
<1>6. hook[h].pc = "work"
  <2>1. hook[h].pc = "policy" => hook[h].step[t] = "remove"
    BY DEF ArmingInv, PolicyFirst
  <2>2. hook[h].step[t] = "remove" => hook[h].pc = "work"
    BY DEF ThresholdStep, Remove, Look, Clear, Add, RedisFails
  <2> QED
    BY <1>1, <2>1, <2>2 DEF Hook
<1>7. /\ \A g \in Hooks \ {h} : hook'[g] = hook[g]
      /\ hook'[h].pc = "work"
      /\ hook'[h].step[t] = to
      /\ \A u \in Thresholds \ {t} : hook'[h].step[u] = hook[h].step[u]
      /\ \/ hook'[h] = HookIdle
         \/ hook'[h].arms = hook[h].arms /\ hook'[h].edition = hook[h].edition
  BY <1>1, <1>2, <1>6, AdvanceEffect
<1>8. HookIdle.arms = FALSE /\ \A u \in Thresholds : HookIdle.step[u] = "done"
  BY DEF HookIdle
<1>9. PolicyFirst'
  BY <1>7 DEF ArmingInv, PolicyFirst
<1>10. ActiveStarted'
  BY <1>1, ThresholdStepTimer DEF ArmingInv, ActiveStarted, Present
<1>11. CASE RedisFails(h, t)
  BY <1>9, <1>10, <1>11, ThresholdStepRest, BrokenArmingInv DEF Break
<1>12. CASE ~RedisFails(h, t)
  <2>1. UNCHANGED <<promised, intact, overtaken>>
    BY <1>12, ThresholdStepRest
  <2>2. IntactArms'
    <3>1. \A g \in Hooks : Disarms(g)' => Disarms(g)
      BY <1>5, <1>7 DEF Disarms, Quiet
    <3> QED
      BY <1>3, <2>1, <3>1 DEF ArmingInv, IntactArms
  <2>3. \A g \in Hooks : Arms(g)' => Arms(g) /\ hook'[g].edition = hook[g].edition
    BY <1>6, <1>7, <1>8 DEF Arms
  <2>4. \A g \in Hooks, u \in Thresholds :
          g # h => /\ Carries(g, u)' <=> Carries(g, u)
                   /\ Removes(g, u)' <=> Removes(g, u)
    BY <1>7 DEF Carries, Removes, Arms
  <2>5. \A u \in Thresholds :
          hook'[h].step[u] # "done" => Arms(h)' = Arms(h)
    BY <1>6, <1>7, <1>8 DEF Arms
  <2>6. \A u \in Thresholds \ {t} : /\ Carries(h, u) => Carries(h, u)'
                                    /\ Removes(h, u) => Removes(h, u)'
    BY <1>7, <2>5 DEF Carries, Removes
  <2>7. \A u \in Thresholds \ {t} : timer'[u] = timer[u]
    BY <1>1, ThresholdStepTimer
  <2>8. ASSUME promised # 0 PROVE Arms(h)
    BY <1>5, <1>6, <2>8 DEF ArmingInv, IntactArms, Disarms, Arms
  <2>9. ASSUME promised # 0 PROVE Present(t)' \/ Carries(h, t)'
    <3>1. to # "done" => Carries(h, t)'
      BY <1>7, <2>5, <2>8, <2>9 DEF Carries
    <3>2. to = "done" => Present(t)'
      <4>1. CASE Remove(h, t)
        <5>1. Advance(h, t, "look")
          BY <2>8, <2>9, <4>1 DEF Remove, AfterRemove, Arms
        <5>2. hook'[h].step[t] = "look"
          BY <1>1, <5>1, AdvanceEffect DEF Steps
        <5> QED
          BY <1>7, <5>2
      <4>2. CASE Look(h, t)
        <5>1. ~Present(t) => Advance(h, t, "add")
          BY <4>2 DEF Look
        <5>2. ~Present(t) => hook'[h].step[t] = "add"
          BY <1>1, <5>1, AdvanceEffect DEF Steps
        <5>3. timer' = timer
          BY <4>2 DEF Look
        <5> QED
          BY <1>7, <5>2, <5>3 DEF Present
      <4>3. CASE Clear(h, t)
        <5>1. Advance(h, t, "add")
          BY <4>3 DEF Clear
        <5>2. hook'[h].step[t] = "add"
          BY <1>1, <5>1, AdvanceEffect DEF Steps
        <5> QED
          BY <1>7, <5>2
      <4>4. CASE Add(h, t)
        <5> DEFINE new == [state |-> "pending", owner |-> None, attempts |-> 0,
                           edition |-> hook[h].edition]
        <5>1. new \in Timer
          BY <1>1, ClockAssumption DEF Hook, Timer
        <5>2. timer' = IF Present(t) THEN timer ELSE [timer EXCEPT ![t] = new]
          BY <4>4 DEF Add
        <5> HIDE DEF new
        <5> QED
          BY <1>1, <5>1, <5>2 DEF Present, TypeOK
      <4> QED
        BY <1>12, <4>1, <4>2, <4>3, <4>4 DEF ThresholdStep
    <3> QED
      BY <3>1, <3>2
  <2>10. PresentOrCarried'
    <3> SUFFICES ASSUME promised # 0, NEW u \in Thresholds
                 PROVE  Present(u)' \/ \E g \in Hooks : Carries(g, u)'
      BY <2>1 DEF PresentOrCarried
    <3>1. CASE u = t
      BY <2>9, <3>1
    <3>2. CASE u # t
      <4>1. Present(u) \/ \E g \in Hooks : Carries(g, u)
        BY DEF ArmingInv, PresentOrCarried
      <4>2. Present(u) => Present(u)'
        BY <2>7, <3>2 DEF Present
      <4>3. \A g \in Hooks : Carries(g, u) => Carries(g, u)'
        BY <2>4, <2>6, <3>2
      <4> QED
        BY <4>1, <4>2, <4>3
    <3> QED
      BY <3>1, <3>2
  <2>11. ASSUME promised # 0, ~overtaken, Waits(t)'
         PROVE  timer'[t].edition >= promised \/ \E g \in Hooks : Removes(g, t)'
    <3>1. hook[h].edition >= promised
      BY <2>8, <2>11 DEF ArmingInv, EditionsGrow
    <3>2. Waits(t) => timer[t].edition >= promised \/ \E g \in Hooks : Removes(g, t)
      BY <2>11 DEF ArmingInv, EditionsGrow
    <3>3. CASE Remove(h, t) \/ Clear(h, t)
      <4>1. timer'[t] = IF Present(t) /\ timer[t].state # "active" THEN None ELSE timer[t]
        BY <1>1, <3>3 DEF Remove, Clear, WithoutEntry, TypeOK
      <4>2. Present(t) /\ timer[t].state = "active" => timer[t].edition = 0
        BY DEF ArmingInv, ActiveStarted
      <4> QED
        BY <2>11, <4>1, <4>2 DEF Waits, Present
    <3>4. ~Remove(h, t) => ~Removes(h, t)
      BY <1>12 DEF ThresholdStep, Remove, Look, Clear, Add, Removes
    <3>5. ASSUME ~Remove(h, t), timer'[t] = timer[t]
          PROVE  timer'[t].edition >= promised \/ \E g \in Hooks : Removes(g, t)'
      <4>1. Waits(t)
        BY <2>11, <3>5 DEF Waits, Present
      <4> QED
        BY <2>4, <3>2, <3>4, <3>5, <4>1
    <3>6. CASE Look(h, t) /\ ~Remove(h, t)
      BY <3>5, <3>6 DEF Look
    <3>7. CASE Add(h, t) /\ ~Remove(h, t)
      BY <1>1, <3>1, <3>5, <3>7, ThresholdStepTimer DEF Add, Clear
    <3> QED
      BY <1>12, <3>3, <3>6, <3>7 DEF ThresholdStep
  <2>12. EditionsGrow'
    <3>1. promised' <= policy'
      BY <1>3, <2>1 DEF ArmingInv, EditionsGrow
    <3> SUFFICES ASSUME promised # 0, ~overtaken
                 PROVE  /\ \A g \in Hooks : Arms(g)' => hook'[g].edition >= promised
                        /\ \A u \in Thresholds :
                             Waits(u)' => \/ timer'[u].edition >= promised
                                          \/ \E g \in Hooks : Removes(g, u)'
      BY <2>1, <3>1 DEF EditionsGrow
    <3>2. \A g \in Hooks : Arms(g)' => hook'[g].edition >= promised
      BY <2>3 DEF ArmingInv, EditionsGrow
    <3>3. ASSUME NEW u \in Thresholds, u # t, Waits(u)'
          PROVE  timer'[u].edition >= promised \/ \E g \in Hooks : Removes(g, u)'
      <4>1. Waits(u) /\ timer'[u] = timer[u]
        BY <2>7, <3>3 DEF Waits, Present
      <4>2. timer[u].edition >= promised \/ \E g \in Hooks : Removes(g, u)
        BY <4>1 DEF ArmingInv, EditionsGrow
      <4>3. \A g \in Hooks : Removes(g, u) => Removes(g, u)'
        BY <2>4, <2>6, <3>3
      <4> QED
        BY <4>1, <4>2, <4>3
    <3> QED
      BY <2>11, <3>2, <3>3
  <2> QED
    BY <1>9, <1>10, <2>2, <2>10, <2>12 DEF ArmingInv
<1> QED
  BY <1>11, <1>12

LEMMA HookArmingInv ==
  ASSUME ArmingInv, NEW h \in Hooks, TypeOK', HookNext(h)
  PROVE  ArmingInv'
<1>1. TypeOK /\ 0 \in 0..MaxRounds
  BY ClockAssumption DEF ArmingInv, TypeOK
<1>2. intact => status = "ASSIGNED" /\ \A g \in Hooks : ~Disarms(g)
  BY DEF ArmingInv, IntactArms
<1>3. promised # 0 => intact
  BY DEF ArmingInv, IntactArms
<1>4. ASSUME NEW to \in Statuses, CommitMove(h, to) PROVE ArmingInv'
  <2> DEFINE assigns == IF to = "ASSIGNED" THEN round + 1 ELSE 0
  <2>1. assigns \in 0..MaxRounds
    BY <1>1, <1>4, ClockAssumption DEF CommitMove, TypeOK
  <2>2. /\ Quiet(h) /\ StartHook(h, to, assigns)
        /\ promised' = 0 /\ status' = to /\ UNCHANGED <<policy, timer>>
        /\ intact' = (to = "ASSIGNED" /\ \A g \in Hooks : ~Disarms(g))
    BY <1>4 DEF CommitMove
  <2> HIDE DEF assigns
  <2> QED
    BY <2>1, <2>2, StartArmingInv
<1>5. CASE CommitPatch(h)
  <2>1. /\ Quiet(h) /\ StartHook(h, status, 0) /\ status \in Statuses
        /\ UNCHANGED <<promised, intact, overtaken, policy, timer, status>>
    BY <1>1, <1>5 DEF CommitPatch, Keep, TypeOK
  <2> QED
    BY <1>1, <1>2, <1>3, <2>1, StartArmingInv
<1>6. ASSUME NEW shownAssigned \in BOOLEAN, Replay(h, shownAssigned) PROVE ArmingInv'
  <2> DEFINE shown == IF shownAssigned THEN "ASSIGNED" ELSE "PENDING"
  <2>1. shown \in Statuses /\ (shown = "ASSIGNED" <=> shownAssigned)
    BY DEF Statuses
  <2>2. /\ Quiet(h) /\ StartHook(h, shown, 0) /\ UNCHANGED <<policy, timer, status>>
        /\ shownAssigned => UNCHANGED <<promised, intact, overtaken>>
        /\ ~shownAssigned => promised' = 0 /\ intact' = FALSE
    BY <1>6 DEF Replay, Keep, Break
  <2> HIDE DEF shown
  <2> QED
    BY <1>1, <1>2, <1>3, <2>1, <2>2, StartArmingInv
<1>7. CASE ReadPolicy(h)
  BY <1>7, ReadPolicyArmingInv
<1>8. ASSUME NEW t \in Thresholds, ThresholdStep(h, t) PROVE ArmingInv'
  BY <1>8, ThresholdArmingInv
<1>9. CASE HookDies(h)
  <2>1. /\ \A g \in Hooks : hook'[g] = hook[g] \/ hook'[g] = HookIdle
        /\ intact' = FALSE /\ promised' = 0 /\ UNCHANGED timer
    BY <1>1, <1>9 DEF HookDies, Break, TypeOK
  <2>2. HookIdle.pc = "work"
    BY DEF HookIdle
  <2>3. ActiveStarted' /\ PolicyFirst'
    BY <2>1, <2>2 DEF ArmingInv, ActiveStarted, PolicyFirst, Present
  <2> QED
    BY <2>1, <2>3, BrokenArmingInv
<1> QED
  BY <1>4, <1>5, <1>6, <1>7, <1>8, <1>9 DEF HookNext, HookStep, ThresholdStep

LEMMA NextArmingInv == TypeOK' /\ ArmingInv /\ [Next]_vars => ArmingInv'
<1> SUFFICES ASSUME TypeOK', ArmingInv, [Next]_vars PROVE ArmingInv'
  OBVIOUS
<1>1. policy \in Nat
  BY DEF ArmingInv, TypeOK
<1>2. CASE EditPolicy
  <2>1. UNCHANGED <<hook, status, promised, intact, overtaken, timer>> /\ policy' = policy + 1
    BY <1>2 DEF EditPolicy, Keep
  <2>2. ActiveStarted' /\ \A t \in Thresholds : /\ Present(t)' <=> Present(t)
                                                /\ Waits(t)' => timer'[t] = timer[t]
    BY <2>1 DEF ArmingInv, ActiveStarted, Present, Waits
  <2> QED
    BY <1>1, <2>1, <2>2, EntriesArmingInv
<1>3. ASSUME NEW h \in Hooks, HookNext(h) PROVE ArmingInv'
  BY <1>3, HookArmingInv
<1>4. ASSUME NEW w \in Workers, WorkerStep(w) \/ HandlerFails(w) \/ Stall(w) PROVE ArmingInv'
  BY <1>4, WorkerArmingInv
<1>5. CASE UNCHANGED vars
  <2>1. UNCHANGED <<hook, status, promised, intact, overtaken, timer, policy>>
    BY <1>5 DEF vars
  <2>2. ActiveStarted' /\ \A t \in Thresholds : /\ Present(t)' <=> Present(t)
                                                /\ Waits(t)' => timer'[t] = timer[t]
    BY <2>1 DEF ArmingInv, ActiveStarted, Present, Waits
  <2> QED
    BY <1>1, <2>1, <2>2, EntriesArmingInv
<1> QED
  BY <1>2, <1>3, <1>4, <1>5 DEF Next

\* The arming invariant: for every number of hooks, at every call of which
\* another hook or a worker may step in.
THEOREM SpecArmingInv == Spec => []ArmingInv
<1>1. TypeOK' /\ ArmingInv /\ [Next]_vars => ArmingInv'
  BY NextArmingInv
<1> QED
  BY <1>1, InitArmingInv, SpecTypeOK, PTL DEF Spec

\* A quiet hook has nothing left to do.
LEMMA QuietHook ==
  ASSUME NEW h \in Hooks, Quiet(h), NEW t \in Thresholds
  PROVE  ~Carries(h, t) /\ ~Removes(h, t)
BY DEF Quiet, HookIdle, Carries, Removes, Arms

\* Hooks that arm the clock may overlap: when all have run without a failure,
\* an ASSIGNED job has both evaluations in the queue, unless a hook was still
\* disarming when the assignment committed (lib/queue/index.js enqueueSlaCheck).
THEOREM SpecArmedWhenQuiet == Spec => []ArmedWhenQuiet
<1>1. ArmingInv => ArmedWhenQuiet
  <2> SUFFICES ASSUME ArmingInv, \A h \in Hooks : Quiet(h), promised # 0,
                      NEW t \in Thresholds
               PROVE  Present(t)
    BY DEF ArmedWhenQuiet
  <2> QED
    BY QuietHook DEF ArmingInv, PresentOrCarried
<1> QED
  BY <1>1, SpecArmingInv, PTL

\* ... and none that waits is older than the promise, unless a hook with an older
\* edition was still arming when the promise was read: an older entry is removed
\* or, when a hook keeps it, was not older (lib/queue/index.js removeSlaChecks).
THEOREM SpecPromiseNotOlder == Spec => []PromiseNotOlder
<1>1. ArmingInv => PromiseNotOlder
  <2> SUFFICES ASSUME ArmingInv, \A h \in Hooks : Quiet(h), promised # 0, ~overtaken,
                      NEW t \in Thresholds, Waits(t)
               PROVE  timer[t].edition >= promised
    BY DEF PromiseNotOlder
  <2> QED
    BY QuietHook DEF ArmingInv, EditionsGrow
<1> QED
  BY <1>1, SpecArmingInv, PTL

=============================================================================
