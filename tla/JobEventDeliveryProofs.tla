----------------------- MODULE JobEventDeliveryProofs -----------------------
(***************************************************************************)
(* Proofs about the job-events queue (JobEventDelivery): its types, and    *)
(* that a sweep which reaches its end leaves no gap, for any number of     *)
(* jobs, any page size and any scan cap.                                   *)
(*                                                                         *)
(* A sweep pages through the jobs by id; that it passes none over rests on *)
(* the least job that a page leaves out and on the greatest one it holds.  *)
(* Both exist because strict inclusion is well founded on the finite sets. *)
(***************************************************************************)
EXTENDS JobEventDelivery, FiniteSetTheorems, WellFoundedInduction, TLAPS

----------------------------------------------------------------------------
(* Greatest and least elements *)

\* A finite set of integers that is not empty has a greatest element.
LEMMA MaxOfFinite ==
  ASSUME NEW S \in SUBSET Int, IsFiniteSet(S), S # {}
  PROVE  Max(S) \in S /\ \A y \in S : y <= Max(S)
<1> DEFINE T == {t \in SUBSET S : \E x \in S : t = {y \in S : y > x}}
<1>1. \A y \in S : y \in Int
  OBVIOUS
<1>2. PICK a \in S : TRUE
  OBVIOUS
<1>3. T \in SUBSET SUBSET S /\ T # {}
  <2>1. {y \in S : y > a} \in T
    BY <1>2
  <2> QED  BY <2>1
<1>4. PICK t \in T : \A u \in T : <<u, t>> \notin StrictSubsetOrdering(S)
  <2>1. IsWellFoundedOn(StrictSubsetOrdering(S), FiniteSubsetsOf(S))
    BY FS_StrictSubsetOrderingWellFounded
  <2>2. T \subseteq FiniteSubsetsOf(S)
    BY <1>3, FS_Subset DEF FiniteSubsetsOf
  <2> HIDE DEF T
  <2> QED  BY <2>1, <2>2, <1>3, WFMin
<1>5. PICK x \in S : t = {y \in S : y > x}
  OBVIOUS
<1>6. ASSUME NEW y \in S, ~(y <= x) PROVE FALSE
  <2> DEFINE u == {z \in S : z > y}
  <2>1. u \in T /\ t \in SUBSET S
    OBVIOUS
  <2>2. y \in t /\ y \notin u
    BY <1>1, <1>5, <1>6
  <2>3. \A z \in S : z > y => z > x
    BY <1>1, <1>6
  <2>4. u \subseteq t
    BY <2>3, <1>5
  <2> QED  BY <2>1, <2>2, <2>4, <1>4 DEF StrictSubsetOrdering
<1>7. \A y \in S : y <= x
  BY <1>6
<1>8. \A m \in S : (\A y \in S : m >= y) => m = x
  BY <1>1, <1>7
<1>9. x >= x /\ \A y \in S : x >= y
  BY <1>1, <1>7
<1>10. Max(S) = x
  BY <1>8, <1>9 DEF Max
<1> QED  BY <1>7, <1>10

\* The set of its versions, and of its jobs, is bounded: the same, stated for
\* the intervals that they are taken from.
LEMMA MaxUpTo ==
  ASSUME NEW a \in Int, NEW b \in Int, NEW S \in SUBSET (a..b), S # {}
  PROVE  IsFiniteSet(S) /\ Max(S) \in S /\ \A y \in S : y <= Max(S)
<1>1. IsFiniteSet(a..b)
  BY FS_Interval
<1>2. IsFiniteSet(S)
  BY <1>1, FS_Subset
<1>3. S \in SUBSET Int
  OBVIOUS
<1> QED  BY <1>2, <1>3, MaxOfFinite

LEMMA LeastOf ==
  ASSUME NEW a \in Int, NEW b \in Int, NEW S \in SUBSET (a..b), S # {}
  PROVE  \E x \in S : \A y \in S : x <= y
<1> DEFINE mirror == {z \in -b..-a : -z \in S}
<1>1. \A x \in S : x \in Int /\ -x \in mirror
  OBVIOUS
<1>2. mirror # {} /\ mirror \in SUBSET (-b..-a)
  BY <1>1
<1>3. PICK z \in mirror : \A y \in mirror : y <= z
  <2> HIDE DEF mirror
  <2>1. -b \in Int /\ -a \in Int
    OBVIOUS
  <2> QED  BY <1>2, <2>1, MaxUpTo
<1>4. -z \in S /\ z \in Int
  OBVIOUS
<1>5. \A y \in S : -z <= y
  BY <1>1, <1>3, <1>4
<1> QED  BY <1>4, <1>5

----------------------------------------------------------------------------
(* What the operators of the model return *)

USE DeliveryAssumption

\* The greatest of the last versions bounds every job's.
LEMMA MaxVersionBounds ==
  /\ MaxVersion \in Nat \ {0}
  /\ \A j \in Jobs : LastVersion[j] \in Nat \ {0} /\ LastVersion[j] <= MaxVersion
<1> DEFINE R == Range(LastVersion)
<1>1. IsFiniteSet(Jobs) /\ 1 \in Jobs
  BY FS_Interval DEF Jobs
<1>2. LastVersion \in Surjection(Jobs, R)
  BY DEF Range, Surjection
<1>3. IsFiniteSet(R)
  <2> HIDE DEF R
  <2> QED  BY <1>1, <1>2, FS_Surjection
<1>4. R \in SUBSET (Nat \ {0}) /\ LastVersion[1] \in R /\ \A j \in Jobs : LastVersion[j] \in R
  BY <1>1 DEF Range
<1>5. Max(R) \in R /\ \A y \in R : y <= Max(R)
  <2> HIDE DEF R
  <2> QED  BY <1>3, <1>4, MaxOfFinite
<1> QED  BY <1>4, <1>5 DEF MaxVersion

\* The scan reads a version of the job that some entry carries, or 0.
LEMMA QueuedVersionType ==
  ASSUME NEW slots \in SUBSET Slots, NEW kept \in SUBSET (Jobs \X Versions), NEW j \in Jobs,
         \A s \in slots : queue[s] \in Entry
  PROVE  QueuedVersion(slots, kept, j) \in 0..MaxVersion
<1> DEFINE shown == {0} \cup {queue[s].version : s \in {t \in slots : queue[t].job = j}}
                        \cup {v \in Versions : <<j, v>> \in kept}
<1>1. MaxVersion \in Nat
  BY MaxVersionBounds
<1>2. \A s \in slots : queue[s].version \in Versions
  BY DEF Entry
<1>3. shown \in SUBSET (0..MaxVersion) /\ shown # {}
  BY <1>1, <1>2 DEF Versions
<1>4. Max(shown) \in shown
  <2>1. 0 \in Int /\ MaxVersion \in Int
    BY <1>1
  <2> HIDE DEF shown
  <2> QED  BY <2>1, <1>3, MaxUpTo
<1> QED  BY <1>3, <1>4 DEF QueuedVersion

\* A page holds jobs that exist, and passes over none of them: one that it
\* leaves out comes after all that it holds, and only a full page leaves any out.
LEMMA PageInOrder ==
  ASSUME NEW next \in 1..NJobs + 1, version \in [Jobs -> 0..MaxVersion]
  PROVE  /\ \A j \in PageFrom(next) : j \in Jobs /\ j >= next /\ version[j] > 0
         /\ \A p \in PageFrom(next), j \in Jobs \ PageFrom(next) :
              j >= next /\ version[j] > 0 => p < j
         /\ IsLast(PageFrom(next)) =>
              \A j \in Jobs \ PageFrom(next) : j >= next => version[j] = 0
         /\ PageFrom(next) = {} => IsLast(PageFrom(next))
         /\ PageFrom(next) # {} =>
              Max(PageFrom(next)) \in PageFrom(next) /\ \A p \in PageFrom(next) : p <= Max(PageFrom(next))
<1> DEFINE rest == {j \in next..NJobs : version[j] > 0}
           before(j) == {k \in rest : k < j}
           page == {j \in rest : Cardinality(before(j)) < Limit}
<1>1. MaxVersion \in Nat /\ Limit \in Nat \ {0} /\ NJobs \in Nat
  BY MaxVersionBounds
<1>2. rest \in SUBSET (next..NJobs) /\ page \in SUBSET (next..NJobs)
  OBVIOUS
<1>3. \A j \in rest : j \in Jobs /\ j >= next /\ version[j] \in Nat
  BY <1>1 DEF Jobs
<1>4. \A j \in Jobs : j >= next /\ version[j] > 0 => j \in rest
  BY <1>1 DEF Jobs
<1>5. IsFiniteSet(rest) /\ IsFiniteSet(page) /\ \A j \in rest : IsFiniteSet(before(j))
  <2>1. IsFiniteSet(next..NJobs)
    BY <1>1, FS_Interval
  <2>2. IsFiniteSet(rest)
    <3> HIDE DEF rest
    <3> QED  BY <1>2, <2>1, FS_Subset
  <2>3. \A Q \in SUBSET rest : IsFiniteSet(Q)
    <3> HIDE DEF rest
    <3> QED  BY <2>2, FS_Subset
  <2> QED  BY <2>2, <2>3
<1>6. ASSUME NEW j \in rest, NEW Q \in SUBSET rest, before(j) \subseteq Q
      PROVE  Cardinality(before(j)) \in Nat /\ Cardinality(Q) \in Nat
             /\ Cardinality(before(j)) <= Cardinality(Q)
  <2>1. IsFiniteSet(Q)
    <3> HIDE DEF rest
    <3> QED  BY <1>5, FS_Subset
  <2> HIDE DEF rest, before
  <2> QED  BY <1>5, <1>6, <2>1, FS_Subset, FS_CardinalityType
<1>7. ASSUME NEW p \in page, NEW j \in rest \ page PROVE p < j
  <2>1. p \in Int /\ j \in Int
    BY <1>2
  <2>2. SUFFICES ASSUME j <= p PROVE FALSE
    BY <2>1
  <2>3. \A k \in rest : k < j => k < p
    BY <1>2, <2>1, <2>2
  <2>4. before(j) \subseteq before(p) /\ before(p) \in SUBSET rest
    BY <2>3
  <2>5. Cardinality(before(j)) <= Cardinality(before(p)) /\ Cardinality(before(p)) < Limit
        /\ Cardinality(before(j)) \in Nat /\ Cardinality(before(p)) \in Nat
    BY <2>4, <1>6
  <2>6. Cardinality(before(j)) < Limit
    BY <2>5, <1>1
  <2> QED  BY <2>6
<1>8. ASSUME Cardinality(page) < Limit, rest \ page # {} PROVE FALSE
  <2>1. PICK j \in rest \ page : \A k \in rest \ page : j <= k
    <3>1. rest \ page \in SUBSET (next..NJobs)
      BY <1>2
    <3>2. next \in Int /\ NJobs \in Int
      BY <1>1
    <3> DEFINE out == rest \ page
    <3> HIDE DEF out
    <3>3. \E j \in out : \A k \in out : j <= k
      BY <1>8, <3>1, <3>2, LeastOf DEF out
    <3> QED  BY <3>3 DEF out
  <2>2. \A k \in rest : k < j => k \in page
    BY <1>2, <2>1
  <2>3. before(j) \subseteq page /\ page \in SUBSET rest
    BY <2>2
  <2>4. Cardinality(before(j)) <= Cardinality(page) /\ Cardinality(page) \in Nat
        /\ Cardinality(before(j)) \in Nat
    BY <2>3, <1>6
  <2>5. Cardinality(before(j)) < Limit
    BY <2>4, <1>8, <1>1
  <2> QED  BY <2>5
<1>9. page = {} => Cardinality(page) < Limit
  <2>1. Cardinality({}) = 0 /\ 0 < Limit
    BY FS_EmptySet, <1>1
  <2> HIDE DEF page
  <2> QED  BY <2>1
<1>10. page # {} => Max(page) \in page /\ \A p \in page : p <= Max(page)
  <2>1. next \in Int /\ NJobs \in Int /\ page \in SUBSET (next..NJobs)
    BY <1>1, <1>2
  <2> HIDE DEF page
  <2> QED  BY <2>1, MaxUpTo
<1>11. PageFrom(next) = page
  BY DEF PageFrom
<1>12. page \in SUBSET rest
  OBVIOUS
<1>13. \A j \in page : j \in Jobs /\ j >= next /\ version[j] > 0
  BY <1>3
<1> HIDE DEF page
<1>14. \A p \in page, j \in Jobs \ page : j >= next /\ version[j] > 0 => p < j
  BY <1>4, <1>7
<1>15. Cardinality(page) < Limit => \A j \in Jobs \ page : j >= next => version[j] = 0
  BY <1>1, <1>4, <1>8
<1> QED  BY <1>9, <1>10, <1>11, <1>13, <1>14, <1>15 DEF IsLast
----------------------------------------------------------------------------
(* The inductive invariant *)

\* What a sweep still owes lies ahead of it, or in what is left of its page; it
\* is a version the job has, and newer than those the sweep has seen.
OwedAhead ==
  \A j \in Jobs : sweep.owed[j] > 0 =>
    /\ sweep.owed[j] <= version[j] /\ sweep.seen[j] < sweep.owed[j]
    /\ \/ sweep.next <= j
       \/ \E v \in Versions : <<j, v>> \in sweep.missing /\ v >= sweep.owed[j]

\* What is left of the page is behind the next one, once per job.
MissingBehind ==
  \A j \in Jobs, v, w \in Versions :
    <<j, v>> \in sweep.missing => j < sweep.next /\ (<<j, w>> \in sweep.missing => v = w)

PageTaken == sweep.pc = "page" => sweep.missing = {}

NothingAfterLast ==
  sweep.pc = "requeue" /\ sweep.last => \A j \in Jobs : sweep.next <= j => sweep.owed[j] = 0

SweepInv == OwedAhead /\ MissingBehind /\ PageTaken /\ NothingAfterLast

DeliveryInv == TypeOK /\ (sweep # SweepIdle => SweepInv)

----------------------------------------------------------------------------
(* What the steps of a sweep make of it *)

\* A sweep that is on its way is not the idle one, and has its fields.
LEMMA SweepOnItsWay ==
  ASSUME TypeOK
  PROVE  /\ sweep # SweepIdle => sweep \in Sweep
         /\ sweep.pc \in {"page", "requeue"} => sweep \in Sweep
         /\ sweep \in Sweep =>
              /\ sweep # SweepIdle /\ sweep.pc \in {"page", "requeue"}
              /\ sweep.seen \in [Jobs -> 0..MaxVersion] /\ sweep.owed \in [Jobs -> 0..MaxVersion]
              /\ sweep.next \in 1..NJobs + 1 /\ sweep.last \in BOOLEAN
              /\ sweep.missing \in SUBSET (Jobs \X Versions)
<1>1. SweepIdle.pc = "idle"
  BY DEF SweepIdle
<1>2. sweep \in Sweep \cup {SweepIdle}
  BY DEF TypeOK
<1>3. ASSUME sweep \in Sweep
      PROVE  /\ sweep.pc \in {"page", "requeue"}
             /\ sweep.seen \in [Jobs -> 0..MaxVersion] /\ sweep.owed \in [Jobs -> 0..MaxVersion]
             /\ sweep.next \in 1..NJobs + 1 /\ sweep.last \in BOOLEAN
             /\ sweep.missing \in SUBSET (Jobs \X Versions)
  BY <1>3 DEF Sweep
<1> QED  BY <1>1, <1>2, <1>3

LEMMA ScanBecomes ==
  ASSUME TypeOK, Scan
  PROVE  /\ sweep' \in Sweep
         /\ sweep'.pc = "page" /\ sweep'.next = 1 /\ sweep'.missing = {}
         /\ \A j \in Jobs : sweep'.owed[j] > 0 =>
              sweep'.owed[j] = version[j] /\ sweep'.seen[j] < version[j]
<1>1. PICK waiting \in Shown(SlotsIn("waiting")), active \in Shown(SlotsIn("active")),
           completed \in Shown(SlotsIn("completed")), kept \in Shown(failed) :
         LET seen == [j \in Jobs |->
               QueuedVersion(waiting \cup active \cup completed, kept, j)] IN
         sweep' = [pc |-> "page", seen |-> seen, next |-> 1, missing |-> {}, last |-> FALSE,
                   owed |-> [j \in Jobs |-> IF version[j] > seen[j] THEN version[j] ELSE 0]]
  BY DEF Scan
<1> DEFINE slots == waiting \cup active \cup completed
           seen == [j \in Jobs |-> QueuedVersion(slots, kept, j)]
           owed == [j \in Jobs |-> IF version[j] > seen[j] THEN version[j] ELSE 0]
<1>2. slots \in SUBSET Slots /\ \A s \in slots : queue[s] \in Entry
  BY DEF Shown, SlotsIn, Holds, TypeOK
<1>3. kept \in SUBSET (Jobs \X Versions)
  BY DEF Shown, TypeOK
<1>4. seen \in [Jobs -> 0..MaxVersion]
  <2>1. ASSUME NEW j \in Jobs PROVE QueuedVersion(slots, kept, j) \in 0..MaxVersion
    <3> HIDE DEF slots
    <3> QED  BY <1>2, <1>3, QueuedVersionType
  <2> QED  BY <2>1
<1>5. version \in [Jobs -> 0..MaxVersion] /\ MaxVersion \in Nat
  BY MaxVersionBounds DEF TypeOK
<1>6. sweep' = [pc |-> "page", seen |-> seen, next |-> 1, missing |-> {}, last |-> FALSE,
                owed |-> owed]
  BY <1>1
<1> HIDE DEF seen
<1>7. owed \in [Jobs -> 0..MaxVersion]
      /\ \A j \in Jobs : owed[j] > 0 => owed[j] = version[j] /\ seen[j] < version[j]
  BY <1>4, <1>5
<1> HIDE DEF owed
<1>8. 1 \in 1..NJobs + 1 /\ {} \in SUBSET (Jobs \X Versions)
  OBVIOUS
<1> QED  BY <1>4, <1>6, <1>7, <1>8 DEF Sweep

LEMMA ReadPageBecomes ==
  ASSUME TypeOK, ReadPage
  PROVE  LET page == PageFrom(sweep.next)
             missing == {j \in page : IsMissing(sweep.seen[j], version[j])} IN
         /\ sweep \in Sweep /\ sweep.pc = "page"
         /\ page = {} => sweep' = SweepIdle
         /\ page # {} =>
              /\ sweep' \in Sweep /\ sweep'.pc = "requeue"
              /\ sweep'.seen = sweep.seen /\ sweep'.owed = sweep.owed
              /\ sweep'.next = Max(page) + 1
              /\ sweep'.last <=> IsLast(page)
              /\ sweep'.missing = {<<j, version[j]>> : j \in missing}
<1> DEFINE page == PageFrom(sweep.next)
           missing == {j \in page : IsMissing(sweep.seen[j], version[j])}
           left == {<<j, version[j]>> : j \in missing}
<1>1. sweep \in Sweep /\ sweep.pc = "page" /\ sweep.next \in 1..NJobs + 1
  BY SweepOnItsWay DEF ReadPage
<1>2. version \in [Jobs -> 0..MaxVersion] /\ MaxVersion \in Nat
  BY MaxVersionBounds DEF TypeOK
<1>3. /\ \A j \in page : j \in Jobs /\ version[j] > 0
      /\ page # {} => Max(page) \in page
  <2> DEFINE n == sweep.next
  <2>1. n \in 1..NJobs + 1
    BY <1>1
  <2> HIDE DEF n
  <2>2. /\ \A j \in PageFrom(n) : j \in Jobs /\ version[j] > 0
        /\ PageFrom(n) # {} => Max(PageFrom(n)) \in PageFrom(n)
    BY <1>2, <2>1, PageInOrder
  <2> QED  BY <2>2 DEF n
<1>4. left \in SUBSET (Jobs \X Versions)
  BY <1>2, <1>3 DEF Versions
<1>5. page # {} => Max(page) + 1 \in 1..NJobs + 1
  BY <1>3 DEF Jobs
<1>6. IsLast(page) \in BOOLEAN
  BY DEF IsLast
<1>7. IF page = {} THEN sweep' = SweepIdle
      ELSE sweep' = [sweep EXCEPT !.pc = "requeue", !.next = Max(page) + 1,
                                  !.last = IsLast(page), !.missing = left]
  BY DEF ReadPage
<1> HIDE DEF page, missing, left
<1>8. ASSUME page # {}
      PROVE  /\ sweep' \in Sweep /\ sweep'.pc = "requeue"
             /\ sweep'.seen = sweep.seen /\ sweep'.owed = sweep.owed
             /\ sweep'.next = Max(page) + 1
             /\ sweep'.last <=> IsLast(page)
             /\ sweep'.missing = left
  BY <1>1, <1>4, <1>5, <1>6, <1>7, <1>8 DEF Sweep
<1> QED  BY <1>1, <1>7, <1>8 DEF page, missing, left

LEMMA RequeueBecomes ==
  ASSUME TypeOK, Requeue
  PROVE  /\ sweep \in Sweep /\ sweep.pc = "requeue" /\ sweep' \in Sweep /\ sweep'.pc = "requeue"
         /\ sweep'.next = sweep.next /\ sweep'.last = sweep.last
         /\ \E j \in Jobs, v \in Versions :
              /\ <<j, v>> \in sweep.missing
              /\ Added(j, v)
              /\ sweep'.missing = sweep.missing \ {<<j, v>>}
              /\ sweep'.owed[j] = IF v >= sweep.owed[j] THEN 0 ELSE sweep.owed[j]
              /\ \A k \in Jobs \ {j} : sweep'.owed[k] = sweep.owed[k] /\ sweep'.seen[k] = sweep.seen[k]
<1>1. sweep \in Sweep /\ sweep.pc = "requeue"
      /\ sweep.seen \in [Jobs -> 0..MaxVersion] /\ sweep.owed \in [Jobs -> 0..MaxVersion]
      /\ sweep.missing \in SUBSET (Jobs \X Versions)
  BY SweepOnItsWay DEF Requeue
<1>2. PICK j \in Jobs, v \in Versions :
        /\ <<j, v>> \in sweep.missing
        /\ Added(j, v)
        /\ sweep' = [sweep EXCEPT !.seen[j] = v, !.missing = @ \ {<<j, v>>},
                                   !.owed[j] = IF v >= @ THEN 0 ELSE @]
  BY DEF Requeue
<1> DEFINE seen == [sweep.seen EXCEPT ![j] = v]
           owed == [sweep.owed EXCEPT ![j] = IF v >= @ THEN 0 ELSE @]
           missing == sweep.missing \ {<<j, v>>}
<1>3. sweep' = [sweep EXCEPT !.seen = seen, !.missing = missing, !.owed = owed]
  BY <1>1, <1>2 DEF Sweep
<1>4. /\ seen \in [Jobs -> 0..MaxVersion] /\ owed \in [Jobs -> 0..MaxVersion]
      /\ missing \in SUBSET (Jobs \X Versions)
      /\ owed[j] = IF v >= sweep.owed[j] THEN 0 ELSE sweep.owed[j]
      /\ \A k \in Jobs \ {j} : owed[k] = sweep.owed[k] /\ seen[k] = sweep.seen[k]
  BY <1>1, MaxVersionBounds DEF Versions
<1>5. missing = sweep.missing \ {<<j, v>>}
  OBVIOUS
<1> HIDE DEF seen, owed, missing
<1>6. /\ sweep' \in Sweep /\ sweep'.pc = "requeue"
      /\ sweep'.next = sweep.next /\ sweep'.last = sweep.last
      /\ sweep'.seen = seen /\ sweep'.owed = owed /\ sweep'.missing = missing
  BY <1>1, <1>3, <1>4 DEF Sweep
<1> QED  BY <1>1, <1>2, <1>4, <1>5, <1>6

LEMMA PageDoneBecomes ==
  ASSUME TypeOK, PageDone
  PROVE  /\ sweep \in Sweep /\ sweep.pc = "requeue" /\ sweep.missing = {}
         /\ sweep.last => sweep' = SweepIdle
         /\ ~sweep.last =>
              /\ sweep' \in Sweep /\ sweep'.pc = "page"
              /\ sweep'.seen = sweep.seen /\ sweep'.owed = sweep.owed
              /\ sweep'.next = sweep.next /\ sweep'.missing = sweep.missing
BY SweepOnItsWay DEF PageDone, Sweep

----------------------------------------------------------------------------
(* Types *)

LEMMA AddedType ==
  ASSUME TypeOK, NEW j \in Jobs, NEW v \in Versions, Added(j, v)
  PROVE  queue' \in [Slots -> Entry \cup {None}]
<1>1. [job |-> j, version |-> v, attempts |-> 0, state |-> "waiting"] \in Entry
  BY DEF Entry
<1> QED  BY <1>1 DEF Added, TypeOK

LEMMA HeldEntry ==
  ASSUME TypeOK, NEW s \in Slots, Holds(s)
  PROVE  /\ queue[s] \in Entry
         /\ queue[s].job \in Jobs /\ queue[s].version \in Versions
         /\ queue[s].attempts \in 0..MaxAttempts - 1
BY DEF Holds, TypeOK, Entry

LEMMA EntryMoved ==
  ASSUME NEW e \in Entry, NEW state \in {"waiting", "active", "completed"},
         NEW attempts \in 0..MaxAttempts - 1
  PROVE  [e EXCEPT !.state = state, !.attempts = attempts] \in Entry
BY DEF Entry

LEMMA ConsumeType ==
  ASSUME TypeOK, NEW s \in Slots, Consume(s)
  PROVE  TypeOK'
<1> DEFINE all == Append(done, s)
           trim == Len(all) > Keep
           entry == [queue[s] EXCEPT !.state = "completed", !.attempts = 0]
<1>1. queue[s] \in Entry /\ queue[s].job \in Jobs /\ queue[s].version \in Versions
  BY HeldEntry DEF Consume
<1>2. entry \in Entry
  <2>1. 0 \in 0..MaxAttempts - 1 /\ "completed" \in {"waiting", "active", "completed"}
    OBVIOUS
  <2> QED  BY <1>1, <2>1, EntryMoved
<1>3. queue' \in [Slots -> Entry \cup {None}]
  <2>1. queue' = [t \in Slots |-> IF trim /\ t = Head(all) THEN None
                                  ELSE IF t = s THEN entry ELSE queue[t]]
    BY DEF Consume
  <2> HIDE DEF trim, all, entry
  <2> QED  BY <1>2, <2>1 DEF TypeOK
<1>4. done' \in Seq(Slots)
  <2>1. all \in Seq(Slots) /\ all # <<>>
    <3>1. done \in Seq(Slots)
      BY DEF TypeOK
    <3>2. all \in Seq(Slots) /\ Len(all) = Len(done) + 1 /\ Len(done) \in Nat
      BY <3>1
    <3> HIDE DEF all
    <3>3. Len(<<>>) = 0 /\ Len(all) # 0
      BY <3>2
    <3> QED  BY <3>2, <3>3
  <2>2. done' = IF trim THEN Tail(all) ELSE all
    BY DEF Consume
  <2> HIDE DEF all, trim
  <2> QED  BY <2>1, <2>2
<1>5. consumed' \in [Jobs -> 0..MaxVersion]
  <2>1. queue[s].version \in 0..MaxVersion
    BY <1>1, MaxVersionBounds DEF Versions
  <2>2. consumed' = [consumed EXCEPT ![queue[s].job] =
                       IF queue[s].version > @ THEN queue[s].version ELSE @]
    BY DEF Consume
  <2> QED  BY <1>1, <2>1, <2>2 DEF TypeOK
<1> QED  BY <1>3, <1>4, <1>5 DEF Consume, TypeOK

LEMMA HandlerFailsType ==
  ASSUME TypeOK, NEW s \in Slots, HandlerFails(s)
  PROVE  TypeOK'
<1> DEFINE again == [queue[s] EXCEPT !.state = "waiting", !.attempts = @ + 1]
<1>1. /\ queue[s] \in Entry /\ queue[s].job \in Jobs /\ queue[s].version \in Versions
      /\ queue[s].attempts \in 0..MaxAttempts - 1
  BY HeldEntry DEF HandlerFails
<1>2. faults' \in 0..MaxFaults
  BY DEF HandlerFails, Fault, TypeOK
<1>3. CASE queue[s].attempts + 1 < MaxAttempts
  <2>1. queue' = [queue EXCEPT ![s] = again] /\ failed' = failed
    BY <1>3 DEF HandlerFails, TypeOK
  <2>2. again \in Entry
    <3> DEFINE n == queue[s].attempts + 1
    <3>1. again = [queue[s] EXCEPT !.state = "waiting", !.attempts = n]
      BY <1>1 DEF Entry
    <3>2. n \in 0..MaxAttempts - 1 /\ "waiting" \in {"waiting", "active", "completed"}
      BY <1>1, <1>3
    <3> HIDE DEF n, again
    <3> QED  BY <1>1, <3>1, <3>2, EntryMoved
  <2> HIDE DEF again
  <2>3. queue' \in [Slots -> Entry \cup {None}]
    BY <2>1, <2>2 DEF TypeOK
  <2> QED  BY <1>2, <2>1, <2>3 DEF HandlerFails, TypeOK
<1>4. CASE ~(queue[s].attempts + 1 < MaxAttempts)
  <2>1. queue' \in [Slots -> Entry \cup {None}]
    BY <1>4 DEF HandlerFails, TypeOK
  <2>2. failed' \subseteq Jobs \X Versions
    BY <1>1, <1>4 DEF HandlerFails, TypeOK
  <2> QED  BY <1>2, <2>1, <2>2 DEF HandlerFails, TypeOK
<1> QED  BY <1>3, <1>4

LEMMA TypeInit == Init => TypeOK
<1> SUFFICES ASSUME Init PROVE TypeOK
  OBVIOUS
<1>1. MaxVersion \in Nat
  BY MaxVersionBounds
<1> QED  BY <1>1 DEF Init, TypeOK

LEMMA TypeNext == TypeOK /\ [Next]_vars => TypeOK'
<1> SUFFICES ASSUME TypeOK, [Next]_vars PROVE TypeOK'
  OBVIOUS
<1>0. MaxVersion \in Nat
  BY MaxVersionBounds
<1>1. ASSUME NEW j \in Jobs, Commit(j) PROVE TypeOK'
  <2>1. version[j] + 1 \in Versions /\ version[j] \in Nat
    BY <1>0, <1>1, MaxVersionBounds DEF Commit, TypeOK, Versions
  <2>2. version' \in [Jobs -> 0..MaxVersion]
    BY <1>0, <1>1, <2>1 DEF Commit, TypeOK, Versions
  <2>3. seam' \subseteq Jobs \X Versions
    BY <1>1, <2>1 DEF Commit, TypeOK
  <2> QED  BY <1>1, <2>2, <2>3 DEF Commit, TypeOK
<1>2. ASSUME NEW j \in Jobs, NEW v \in Versions, EnqueueJobEvent(j, v) PROVE TypeOK'
  <2>1. queue' \in [Slots -> Entry \cup {None}]
    BY <1>2, AddedType DEF EnqueueJobEvent
  <2> QED  BY <1>2, <2>1 DEF EnqueueJobEvent, TypeOK
<1>3. ASSUME NEW j \in Jobs, NEW v \in Versions, EnqueueFails(j, v) PROVE TypeOK'
  BY <1>3 DEF EnqueueFails, Fault, TypeOK
<1>4. ASSUME NEW s \in Slots, Take(s) PROVE TypeOK'
  <2> DEFINE entry == [queue[s] EXCEPT !.state = "active"]
  <2>1. queue[s] \in Entry
    BY <1>4, HeldEntry DEF Take
  <2>2. entry \in Entry
    BY <2>1 DEF Entry
  <2>3. queue' = [queue EXCEPT ![s] = entry]
    BY <1>4 DEF Take
  <2> HIDE DEF entry
  <2>4. queue' \in [Slots -> Entry \cup {None}]
    BY <2>2, <2>3 DEF TypeOK
  <2> QED  BY <1>4, <2>4 DEF Take, TypeOK
<1>5. ASSUME WorkerDies PROVE TypeOK'
  <2>1. ASSUME NEW s \in Slots, Holds(s) PROVE [queue[s] EXCEPT !.state = "waiting"] \in Entry
    BY <2>1, HeldEntry DEF Entry
  <2>2. ASSUME NEW s \in Slots PROVE queue'[s] \in Entry \cup {None}
    <3>1. queue'[s] = IF Holds(s) /\ queue[s].state = "active"
                        THEN [queue[s] EXCEPT !.state = "waiting"] ELSE queue[s]
      BY <1>5 DEF WorkerDies
    <3> QED  BY <2>1, <3>1 DEF TypeOK
  <2>3. queue' = [s \in Slots |-> queue'[s]]
    BY <1>5 DEF WorkerDies
  <2>4. queue' \in [Slots -> Entry \cup {None}]
    BY <2>2, <2>3
  <2> QED  BY <1>5, <2>4 DEF WorkerDies, Fault, TypeOK
<1>6. ASSUME Wipe PROVE TypeOK'
  BY <1>6 DEF Wipe, Fault, TypeOK
<1>7. ASSUME Scan PROVE TypeOK'
  BY <1>7, ScanBecomes DEF Scan, TypeOK
<1>8. ASSUME ReadPage PROVE TypeOK'
  <2>1. sweep' \in Sweep \cup {SweepIdle}
    BY <1>8, ReadPageBecomes
  <2> QED  BY <1>8, <2>1 DEF ReadPage, TypeOK
<1>9. ASSUME Requeue PROVE TypeOK'
  <2>1. queue' \in [Slots -> Entry \cup {None}]
    BY <1>9, RequeueBecomes, AddedType
  <2> QED  BY <1>9, <2>1, RequeueBecomes DEF Requeue, TypeOK
<1>10. ASSUME PageDone PROVE TypeOK'
  <2>1. sweep' \in Sweep \cup {SweepIdle}
    BY <1>10, PageDoneBecomes, SweepOnItsWay
  <2> QED  BY <1>10, <2>1 DEF PageDone, TypeOK
<1>11. ASSUME SweepFails PROVE TypeOK'
  BY <1>11 DEF SweepFails, Fault, TypeOK
<1>12. CASE UNCHANGED vars
  BY <1>12 DEF vars, TypeOK
<1> QED  BY <1>1, <1>2, <1>3, <1>4, <1>5, <1>6, <1>7, <1>8, <1>9, <1>10, <1>11, <1>12,
            ConsumeType, HandlerFailsType DEF Next, Consumer, Sweeping

----------------------------------------------------------------------------
(* The sweep *)

\* While no sweep of the worker moves, commits only add to what it owes not.
LEMMA SweepStays ==
  ASSUME TypeOK, SweepInv, sweep' = sweep, sweep # SweepIdle,
         version' \in [Jobs -> 0..MaxVersion], \A j \in Jobs : version[j] <= version'[j]
  PROVE  SweepInv'
<1>1. \A j \in Jobs : sweep.owed[j] \in Int /\ version[j] \in Int /\ version'[j] \in Int
  BY SweepOnItsWay, MaxVersionBounds DEF TypeOK
<1>2. OwedAhead'
  BY <1>1 DEF SweepInv, OwedAhead
<1> QED  BY <1>2 DEF SweepInv, MissingBehind, PageTaken, NothingAfterLast

LEMMA ScanSweep ==
  ASSUME TypeOK, Scan
  PROVE  SweepInv'
<1>1. version' = version /\ version \in [Jobs -> 0..MaxVersion] /\ MaxVersion \in Nat
  BY MaxVersionBounds DEF Scan, TypeOK
<1>2. OwedAhead'
  BY <1>1, ScanBecomes DEF OwedAhead, Jobs
<1>3. MissingBehind' /\ PageTaken' /\ NothingAfterLast'
  BY ScanBecomes DEF MissingBehind, PageTaken, NothingAfterLast
<1> QED  BY <1>2, <1>3 DEF SweepInv

\* A page holds the jobs it passes that are still owed, and they are missing
\* for the sweep; what it leaves out is ahead of the next one.
LEMMA ReadPageSweep ==
  ASSUME TypeOK, SweepInv, ReadPage
  PROVE  /\ sweep' = SweepIdle => \A j \in Jobs : sweep.owed[j] = 0
         /\ sweep' # SweepIdle => SweepInv'
<1> DEFINE next == sweep.next
           page == PageFrom(next)
           missing == {j \in page : IsMissing(sweep.seen[j], version[j])}
           left == {<<j, version[j]>> : j \in missing}
<1>1. /\ sweep \in Sweep /\ sweep.pc = "page"
      /\ sweep.seen \in [Jobs -> 0..MaxVersion] /\ sweep.owed \in [Jobs -> 0..MaxVersion]
      /\ next \in 1..NJobs + 1
  BY SweepOnItsWay DEF ReadPage
<1>2. version \in [Jobs -> 0..MaxVersion] /\ MaxVersion \in Nat /\ version' = version
  BY MaxVersionBounds DEF ReadPage, TypeOK
<1>3. /\ \A j \in page : j \in Jobs /\ j >= next /\ version[j] > 0
      /\ \A p \in page, j \in Jobs \ page : j >= next /\ version[j] > 0 => p < j
      /\ IsLast(page) => \A j \in Jobs \ page : j >= next => version[j] = 0
      /\ page = {} => IsLast(page)
      /\ page # {} => Max(page) \in page /\ \A p \in page : p <= Max(page)
  <2> HIDE DEF next
  <2> QED  BY <1>1, <1>2, PageInOrder
<1>4. /\ page = {} => sweep' = SweepIdle
      /\ page # {} =>
           /\ sweep' \in Sweep /\ sweep'.pc = "requeue"
           /\ sweep'.seen = sweep.seen /\ sweep'.owed = sweep.owed
           /\ sweep'.next = Max(page) + 1
           /\ sweep'.last <=> IsLast(page)
           /\ sweep'.missing = left
  BY ReadPageBecomes
<1>5. \A j \in Jobs : sweep.owed[j] > 0 =>
        sweep.owed[j] <= version[j] /\ sweep.seen[j] < sweep.owed[j] /\ next <= j
  BY <1>1 DEF SweepInv, OwedAhead, PageTaken
<1>6. sweep' \in Sweep => sweep' # SweepIdle
  <2>1. SweepIdle.pc = "idle"
    BY DEF SweepIdle
  <2> QED  BY <1>4, <2>1 DEF Sweep
<1>7. \A j \in page : sweep.owed[j] > 0 => <<j, version[j]>> \in left /\ version[j] \in Versions
  <2>1. ASSUME NEW j \in page, sweep.owed[j] > 0 PROVE IsMissing(sweep.seen[j], version[j])
    BY <1>1, <1>2, <1>3, <1>5, <2>1 DEF IsMissing
  <2> QED  BY <1>2, <1>3, <2>1 DEF Versions
<1> HIDE DEF page, left, missing, next
<1>8. CASE page = {}
  BY <1>1, <1>2, <1>3, <1>4, <1>5, <1>8
<1>9. CASE page # {}
  <2>1. OwedAhead'
    <3> SUFFICES ASSUME NEW j \in Jobs, sweep.owed[j] > 0
                 PROVE  \/ sweep'.next <= j
                        \/ \E v \in Versions : <<j, v>> \in left /\ v >= sweep.owed[j]
      BY <1>1, <1>2, <1>4, <1>5, <1>9 DEF OwedAhead
    <3>1. CASE j \in page
      BY <1>1, <1>2, <1>5, <1>7, <3>1
    <3>2. CASE j \notin page
      <4>1. Max(page) < j /\ Max(page) \in Int /\ j \in Int
        <5>1. version[j] > 0 /\ next <= j /\ j \in Jobs \ page
          BY <1>1, <1>2, <1>5, <3>2
        <5>2. Max(page) \in page /\ Max(page) \in Jobs
          BY <1>3, <1>9
        <5>3. next \in Int /\ j \in Int /\ Max(page) \in Int
          BY <1>1, <5>2 DEF Jobs
        <5> QED  BY <1>3, <5>1, <5>2, <5>3
      <4> QED  BY <4>1, <1>4, <1>9
    <3> QED  BY <3>1, <3>2
  <2>2. MissingBehind'
    <3>1. \A j \in Jobs, v \in Versions : <<j, v>> \in left => j \in page /\ v = version[j]
      BY DEF left, missing
    <3>2. \A j \in page : j < Max(page) + 1
      BY <1>3, <1>9 DEF Jobs
    <3> QED  BY <1>4, <1>9, <3>1, <3>2 DEF MissingBehind
  <2>3. PageTaken'
    BY <1>4, <1>9 DEF PageTaken
  <2>4. NothingAfterLast'
    <3> SUFFICES ASSUME NEW j \in Jobs, IsLast(page), Max(page) + 1 <= j
                 PROVE  sweep.owed[j] = 0
      BY <1>4, <1>9 DEF NothingAfterLast
    <3>1. j \notin page
      BY <1>3, <1>9 DEF Jobs
    <3> QED  BY <1>1, <1>2, <1>3, <1>5, <3>1
  <2> QED  BY <1>4, <1>6, <1>9, <2>1, <2>2, <2>3, <2>4 DEF SweepInv
<1> QED  BY <1>8, <1>9

\* The entry that is added is the newest one the sweep owes its job.
LEMMA RequeueSweep ==
  ASSUME TypeOK, SweepInv, Requeue
  PROVE  SweepInv' /\ sweep' # SweepIdle
<1>1. PICK j \in Jobs, v \in Versions :
        /\ <<j, v>> \in sweep.missing
        /\ sweep'.missing = sweep.missing \ {<<j, v>>}
        /\ sweep'.owed[j] = IF v >= sweep.owed[j] THEN 0 ELSE sweep.owed[j]
        /\ \A k \in Jobs \ {j} : sweep'.owed[k] = sweep.owed[k] /\ sweep'.seen[k] = sweep.seen[k]
  BY RequeueBecomes
<1>2. /\ sweep.pc = "requeue" /\ sweep' \in Sweep /\ sweep'.pc = "requeue"
      /\ sweep'.next = sweep.next /\ sweep'.last = sweep.last
      /\ sweep.owed \in [Jobs -> 0..MaxVersion] /\ sweep.next \in Int
  BY RequeueBecomes, SweepOnItsWay
<1>3. version' = version /\ MaxVersion \in Nat
  BY MaxVersionBounds DEF Requeue
<1>4. sweep' # SweepIdle
  <2>1. SweepIdle.pc = "idle"
    BY DEF SweepIdle
  <2> QED  BY <1>2, <2>1
<1>5. j < sweep.next /\ \A w \in Versions : <<j, w>> \in sweep.missing => v = w
  BY <1>1 DEF SweepInv, MissingBehind
<1>6. sweep'.owed[j] = 0
  <2>1. CASE sweep.owed[j] > 0
    <3>1. \E w \in Versions : <<j, w>> \in sweep.missing /\ w >= sweep.owed[j]
      <4>1. \/ sweep.next <= j
            \/ \E w \in Versions : <<j, w>> \in sweep.missing /\ w >= sweep.owed[j]
        BY <2>1 DEF SweepInv, OwedAhead
      <4>2. ~(sweep.next <= j)
        BY <1>2, <1>5 DEF Jobs
      <4> QED  BY <4>1, <4>2
    <3>2. v >= sweep.owed[j]
      BY <1>5, <3>1
    <3> QED  BY <1>1, <3>2
  <2>2. CASE ~(sweep.owed[j] > 0)
    BY <1>1, <1>2, <1>3, <2>2 DEF Versions
  <2> QED  BY <2>1, <2>2
<1>7. OwedAhead'
  <2> SUFFICES ASSUME NEW k \in Jobs, sweep'.owed[k] > 0
               PROVE  /\ sweep'.owed[k] <= version[k] /\ sweep'.seen[k] < sweep'.owed[k]
                      /\ \/ sweep'.next <= k
                         \/ \E w \in Versions : <<k, w>> \in sweep'.missing /\ w >= sweep'.owed[k]
    BY <1>3 DEF OwedAhead
  <2>1. k # j
    BY <1>6
  <2>2. \A w \in Versions : <<k, w>> \in sweep.missing => <<k, w>> \in sweep'.missing
    BY <1>1, <2>1
  <2> QED  BY <1>1, <1>2, <2>1, <2>2 DEF SweepInv, OwedAhead
<1>8. MissingBehind'
  BY <1>1, <1>2 DEF SweepInv, MissingBehind
<1>9. PageTaken'
  BY <1>2 DEF PageTaken
<1>10. NothingAfterLast'
  <2> SUFFICES ASSUME NEW k \in Jobs, sweep.last, sweep.next <= k PROVE sweep'.owed[k] = 0
    BY <1>2 DEF NothingAfterLast
  <2> QED  BY <1>1, <1>2, <1>6 DEF SweepInv, NothingAfterLast
<1> QED  BY <1>4, <1>7, <1>8, <1>9, <1>10 DEF SweepInv

LEMMA PageDoneSweep ==
  ASSUME TypeOK, SweepInv, PageDone
  PROVE  /\ sweep' = SweepIdle => \A j \in Jobs : sweep.owed[j] = 0
         /\ sweep' # SweepIdle => SweepInv'
<1>1. /\ sweep.pc = "requeue" /\ sweep.missing = {} /\ sweep.last \in BOOLEAN
      /\ sweep.owed \in [Jobs -> 0..MaxVersion] /\ sweep.next \in Int
  BY PageDoneBecomes, SweepOnItsWay
<1>2. version' = version /\ MaxVersion \in Nat
  BY MaxVersionBounds DEF PageDone
<1>3. \A j \in Jobs : sweep.owed[j] > 0 => sweep.next <= j
  BY <1>1 DEF SweepInv, OwedAhead
<1>4. CASE sweep.last
  <2>1. \A j \in Jobs : sweep.owed[j] = 0
    BY <1>1, <1>2, <1>3, <1>4 DEF SweepInv, NothingAfterLast
  <2> QED  BY <1>4, <2>1, PageDoneBecomes
<1>5. CASE ~sweep.last
  <2>1. /\ sweep' \in Sweep /\ sweep'.pc = "page"
        /\ sweep'.seen = sweep.seen /\ sweep'.owed = sweep.owed
        /\ sweep'.next = sweep.next /\ sweep'.missing = sweep.missing
    BY <1>5, PageDoneBecomes
  <2>2. sweep' # SweepIdle
    <3>1. SweepIdle.pc = "idle"
      BY DEF SweepIdle
    <3> QED  BY <2>1, <3>1
  <2> QED  BY <1>1, <1>2, <2>1, <2>2
             DEF SweepInv, OwedAhead, MissingBehind, PageTaken, NothingAfterLast
<1> QED  BY <1>4, <1>5

----------------------------------------------------------------------------
(* Every step *)

LEMMA DeliveryInit == Init => DeliveryInv
BY TypeInit DEF Init, DeliveryInv

\* Every step of the queue, the requests, the consumer and the sweep keeps the
\* invariant; a sweep that ends by itself owes nothing.
LEMMA DeliveryNext ==
  DeliveryInv /\ [Next]_vars =>
    /\ DeliveryInv'
    /\ sweep # SweepIdle /\ sweep' = SweepIdle /\ faults' = faults =>
         \A j \in Jobs : sweep.owed[j] = 0
<1> SUFFICES ASSUME DeliveryInv, [Next]_vars
             PROVE  /\ sweep' # SweepIdle => SweepInv'
                    /\ sweep # SweepIdle /\ sweep' = SweepIdle /\ faults' = faults =>
                         \A j \in Jobs : sweep.owed[j] = 0
  BY TypeNext DEF DeliveryInv
<1> USE DEF DeliveryInv
<1>1. TypeOK /\ TypeOK'
  BY TypeNext
<1>2. ASSUME sweep' = sweep, version' = version PROVE sweep' # SweepIdle => SweepInv'
  BY <1>2 DEF SweepInv, OwedAhead, MissingBehind, PageTaken, NothingAfterLast
<1>3. ASSUME NEW j \in Jobs, Commit(j)
      PROVE  sweep' = sweep /\ (sweep' # SweepIdle => SweepInv')
  <2>1. sweep' = sweep /\ version' = [version EXCEPT ![j] = @ + 1]
    BY <1>3 DEF Commit
  <2>2. version \in [Jobs -> 0..MaxVersion] /\ version' \in [Jobs -> 0..MaxVersion] /\ MaxVersion \in Nat
    BY <1>1, MaxVersionBounds DEF TypeOK
  <2>3. \A k \in Jobs : version[k] <= version'[k]
    BY <2>1, <2>2
  <2> QED  BY <1>1, <2>1, <2>2, <2>3, SweepStays
<1>4. ASSUME NEW j \in Jobs, NEW v \in Versions, EnqueueJobEvent(j, v) \/ EnqueueFails(j, v)
      PROVE  sweep' = sweep /\ version' = version
  BY <1>4 DEF EnqueueJobEvent, EnqueueFails
<1>5. ASSUME NEW s \in Slots, Take(s) \/ Consume(s) \/ HandlerFails(s)
      PROVE  sweep' = sweep /\ version' = version
  BY <1>5 DEF Take, Consume, HandlerFails
<1>6. ASSUME WorkerDies \/ SweepFails PROVE sweep' = SweepIdle /\ faults' # faults
  BY <1>1, <1>6 DEF WorkerDies, SweepFails, Fault, TypeOK
<1>7. ASSUME Wipe PROVE sweep' = sweep /\ version' = version
  BY <1>7 DEF Wipe
<1>8. ASSUME Scan PROVE sweep = SweepIdle /\ SweepInv'
  BY <1>1, <1>8, ScanSweep DEF Scan
<1>9. ASSUME ReadPage \/ Requeue \/ PageDone
      PROVE  /\ sweep' # SweepIdle => SweepInv'
             /\ sweep' = SweepIdle => \A j \in Jobs : sweep.owed[j] = 0
  <2>1. sweep # SweepIdle
    BY <1>1, <1>9, SweepOnItsWay, ReadPageBecomes, RequeueBecomes, PageDoneBecomes
  <2> QED  BY <1>1, <1>9, <2>1, ReadPageSweep, RequeueSweep, PageDoneSweep
<1>10. CASE UNCHANGED vars
  BY <1>2, <1>10 DEF vars
<1> QED  BY <1>2, <1>3, <1>4, <1>5, <1>6, <1>7, <1>8, <1>9, <1>10 DEF Next, Consumer, Sweeping

----------------------------------------------------------------------------
(* Theorems *)

\* The inductive invariant of the queue and its sweep.
THEOREM SpecDeliveryInv == Spec => []DeliveryInv
<1>1. DeliveryInv /\ [Next]_vars => DeliveryInv'
  BY DeliveryNext
<1> QED  BY DeliveryInit, <1>1, PTL DEF Spec

\* The entries of the queue, of its failed set and of a sweep are versions of
\* jobs, and the version a scan reads off them is one of the job's, or 0.
THEOREM SpecTypeOK == Spec => []TypeOK
<1>1. DeliveryInv => TypeOK
  BY DEF DeliveryInv
<1> QED  BY <1>1, SpecDeliveryInv, PTL

\* A sweep that reaches its end has made up for every version that was current
\* when it scanned and that the queue did not show: it passes no job over, on
\* whatever page it is, and whatever is committed, consumed, failed or wiped
\* while it pages (worker/reconcile.js).
THEOREM SpecSweepComplete == Spec => SweepComplete
<1>1. DeliveryInv /\ [Next]_vars =>
        [sweep # SweepIdle /\ sweep' = SweepIdle /\ faults' = faults =>
           sweep.owed = [j \in Jobs |-> 0]]_vars
  <2> SUFFICES ASSUME DeliveryInv, [Next]_vars, sweep # SweepIdle, sweep' = SweepIdle, faults' = faults
               PROVE  sweep.owed = [j \in Jobs |-> 0]
    OBVIOUS
  <2>1. \A j \in Jobs : sweep.owed[j] = 0
    BY DeliveryNext
  <2>2. sweep.owed \in [Jobs -> 0..MaxVersion]
    BY SweepOnItsWay DEF DeliveryInv
  <2> QED  BY <2>1, <2>2
<1> QED  BY <1>1, SpecDeliveryInv, PTL DEF Spec, SweepComplete

=============================================================================
