------------------------- MODULE PositionCacheProofs -------------------------
(***************************************************************************)
(* Proofs about the position cache, for any number of pings and readers    *)
(* and any range of times.                                                 *)
(***************************************************************************)
EXTENDS PositionCache, TLAPS, WellFoundedInduction

----------------------------------------------------------------------------
(* The inductive invariant *)

Retained(t) == t >= cutoff => t \in rows

\* A ping that is past its insert has its row, as long as rows are kept that long.
InsertedRetained ==
  \A p \in Pings : ping[p].pc \in {"get", "set", "publish"} => Retained(ping[p].time)

\* So has the newest position that ever was hot, and with it what a read began from.
NewestRetained == newest # 0 => Retained(newest)
FloorRetained ==
  \A r \in Readers : reader[r].pc # "idle" /\ reader[r].floor # 0 => Retained(reader[r].floor)

\* A ping that is about to write found nothing, or something older.
SetIsNewer ==
  \A p \in Pings : ping[p].pc = "set" => ping[p].seen = None \/ ping[p].seen < ping[p].time

PositionInv ==
  /\ TypeOK
  /\ InsertedRetained
  /\ HotHasSibling
  /\ NewestRetained
  /\ FloorRetained
  /\ SetIsNewer
  /\ FallbackNotOlder

----------------------------------------------------------------------------
(* The newest of a set *)

LEMMA LeastExists ==
  ASSUME NEW T \in SUBSET Nat, T # {}
  PROVE  \E x \in T : \A y \in T : x <= y
<1> DEFINE R == OpToRel(<, Nat)
<1>1. IsWellFoundedOn(R, Nat)
  BY NatLessThanWellFounded
<1>2. \A x, y \in Nat : x < y => <<x, y>> \in R
  BY DEF OpToRel
<1> HIDE DEF R
<1>3. PICK x \in T : \A y \in T : ~ (<<y, x>> \in R)
  BY <1>1, WFMin
<1>4. ASSUME NEW y \in T PROVE x <= y
  <2>1. x \in Nat /\ y \in Nat
    OBVIOUS
  <2>2. ~ (y < x)
    BY <1>2, <1>3, <2>1
  <2> QED
    BY <2>1, <2>2
<1> QED
  BY <1>3, <1>4

LEMMA TimesAndAbsent == Times \subseteq 0..MaxTime /\ 0 \in 0..MaxTime
BY PositionAssumption DEF Times

\* A set of naturals with a bound has a maximum: the bound's least distance.
LEMMA MaxOfTimes ==
  ASSUME NEW n \in Nat, NEW S \in SUBSET (0..n), S # {}
  PROVE  Max(S) \in S /\ \A y \in S : Max(S) >= y
<1> DEFINE T == {n - x : x \in S}
<1>1. T \in SUBSET Nat /\ T # {}
  <2>1. \A x \in S : x \in 0..n /\ n - x \in Nat
    OBVIOUS
  <2> QED
    BY <2>1
<1>2. PICK d \in T : \A y \in T : d <= y
  BY <1>1, LeastExists
<1>3. PICK m \in S : d = n - m
  BY <1>2
<1>4. ASSUME NEW y \in S PROVE m >= y
  <2>1. n - y \in T
    OBVIOUS
  <2>2. n - m <= n - y
    BY <1>2, <1>3, <2>1
  <2> QED
    BY <2>2
<1>5. \E x \in S : \A y \in S : x >= y
  BY <1>4
<1> QED
  BY <1>5 DEF Max

----------------------------------------------------------------------------
(* What the program counters are moved by *)

LEMMA PingType ==
  ASSUME TypeOK, NEW p \in Pings, ping[p].pc # "idle"
  PROVE  ping[p] \in Ping
BY DEF TypeOK, Idle

LEMMA ReaderType ==
  ASSUME TypeOK, NEW r \in Readers, reader[r].pc # "idle"
  PROVE  reader[r] \in Reader
BY DEF TypeOK, Idle

LEMMA PingToEffect ==
  ASSUME TypeOK, NEW p \in Pings, ping[p].pc # "idle",
         NEW pc \in {"insert", "get", "set", "publish"}, PingTo(p, pc)
  PROVE  /\ ping' \in [Pings -> Ping \cup {Idle}]
         /\ ping'[p].pc = pc /\ ping'[p].time = ping[p].time /\ ping'[p].seen = ping[p].seen
         /\ \A q \in Pings \ {p} : ping'[q] = ping[q]
<1> DEFINE next == [ping[p] EXCEPT !.pc = pc]
<1>1. next \in Ping /\ next.pc = pc /\ next.time = ping[p].time /\ next.seen = ping[p].seen
  BY PingType DEF Ping
<1>2. ping' = [ping EXCEPT ![p] = next]
  BY DEF PingTo
<1> HIDE DEF next
<1> QED
  BY <1>1, <1>2 DEF TypeOK

LEMMA PingDoneEffect ==
  ASSUME TypeOK, NEW p \in Pings, PingDone(p)
  PROVE  /\ ping' \in [Pings -> Ping \cup {Idle}]
         /\ ping'[p].pc = "idle"
         /\ \A q \in Pings \ {p} : ping'[q] = ping[q]
BY DEF TypeOK, PingDone, Idle

\* An arrival goes on to write only when it is newer than what it finds.
LEMMA ReadHotEffect ==
  ASSUME TypeOK, NEW p \in Pings, ReadHot(p)
  PROVE  /\ ping' \in [Pings -> Ping \cup {Idle}]
         /\ ping'[p].pc \in {"publish", "set"} /\ ping'[p].time = ping[p].time
         /\ ping'[p].pc = "set" => ping'[p].seen = None \/ ping'[p].seen < ping[p].time
         /\ \A q \in Pings \ {p} : ping'[q] = ping[q]
<1> DEFINE seeing == [ping[p] EXCEPT !.seen = hot]
           pc == IF hot # None /\ ping[p].time <= hot THEN "publish" ELSE "set"
           next == [seeing EXCEPT !.pc = pc]
<1>1. ping[p] \in Ping /\ hot \in Times \cup {None}
  BY PingType DEF ReadHot, TypeOK
<1>2. seeing \in Ping /\ seeing.seen = hot /\ seeing.time = ping[p].time
  BY <1>1 DEF Ping
<1>3. pc \in {"publish", "set"} /\ (pc = "set" => hot = None \/ hot < ping[p].time)
  BY <1>1, PositionAssumption DEF Ping, Times
<1>4. ping' = [ping EXCEPT ![p] = next]
  BY DEF ReadHot, TypeOK
<1> HIDE DEF seeing, pc
<1>5. next \in Ping /\ next.pc = pc /\ next.time = ping[p].time /\ next.seen = hot
  BY <1>2, <1>3 DEF Ping
<1> HIDE DEF next
<1> QED
  BY <1>1, <1>3, <1>4, <1>5 DEF TypeOK

\* A position that was hot is remembered, as the newest or below it.
LEMMA WriteHotEffect ==
  ASSUME TypeOK, NEW p \in Pings, WriteHot(p)
  PROVE  /\ ping[p] \in Ping /\ hot' = ping[p].time
         /\ newest' \in {newest, ping[p].time}
         /\ newest' \in 0..MaxTime
         /\ UNCHANGED <<rows, cutoff, reader, dot>>
<1>1. ping[p] \in Ping
  BY PingType DEF WriteHot
<1>2. {newest, ping[p].time} \in SUBSET (0..MaxTime) /\ MaxTime \in Nat
  BY <1>1, PositionAssumption DEF TypeOK, Ping, Times
<1>3. newest' \in {newest, ping[p].time}
  BY <1>2, MaxOfTimes DEF WriteHot
<1> QED
  BY <1>1, <1>2, <1>3 DEF WriteHot

LEMMA ReaderGoesOn ==
  ASSUME TypeOK, NEW r \in Readers, reader[r].pc # "idle",
         NEW pc \in {"query", "cache", "database"}, NEW answer \in Times \cup {None},
         \/ reader' = [reader EXCEPT ![r].pc = pc, ![r].answer = answer]
         \/ reader' = [reader EXCEPT ![r].pc = pc] /\ answer = reader[r].answer
  PROVE  /\ reader' \in [Readers -> Reader \cup {Idle}]
         /\ reader'[r].pc = pc /\ reader'[r].answer = answer
         /\ reader'[r].floor = reader[r].floor
         /\ \A q \in Readers \ {r} : reader'[q] = reader[q]
<1> DEFINE moved == [reader[r] EXCEPT !.pc = pc]
           next == [moved EXCEPT !.answer = answer]
<1>1. moved \in Reader /\ moved.pc = pc /\ moved.floor = reader[r].floor
      /\ moved.answer = reader[r].answer
  BY ReaderType DEF Reader
<1>2. \/ reader' = [reader EXCEPT ![r] = next]
      \/ reader' = [reader EXCEPT ![r] = moved] /\ answer = reader[r].answer
  <2>1. CASE reader' = [reader EXCEPT ![r].pc = pc, ![r].answer = answer]
    BY <2>1 DEF TypeOK
  <2>2. CASE reader' = [reader EXCEPT ![r].pc = pc] /\ answer = reader[r].answer
    BY <2>2
  <2> QED
    BY <2>1, <2>2
<1> HIDE DEF moved
<1>3. next \in Reader /\ next.pc = pc /\ next.answer = answer /\ next.floor = reader[r].floor
  BY <1>1 DEF Reader
<1> HIDE DEF next
<1> QED
  BY <1>1, <1>2, <1>3 DEF TypeOK

----------------------------------------------------------------------------
(* Every step preserves the invariant *)

LEMMA InitPositionInv == Init => PositionInv
BY PositionAssumption
   DEF Init, PositionInv, TypeOK, InsertedRetained, HotHasSibling, NewestRetained, FloorRetained,
       SetIsNewer, FallbackNotOlder, Idle

\* A step that changes only what one ping has done.
LEMMA PingStep ==
  ASSUME PositionInv, NEW p \in Pings,
         ping' \in [Pings -> Ping \cup {Idle}],
         \A q \in Pings \ {p} : ping'[q] = ping[q],
         ping'[p].pc \in {"get", "set", "publish"} => Retained(ping'[p].time),
         ping'[p].pc = "set" => ping'[p].seen = None \/ ping'[p].seen < ping'[p].time,
         UNCHANGED <<rows, hot, cutoff, reader, newest>>,
         dot' \in 0..MaxTime \cup {None}
  PROVE  PositionInv'
<1>1. TypeOK'
  BY DEF PositionInv, TypeOK
<1>2. InsertedRetained' /\ SetIsNewer'
  BY DEF PositionInv, InsertedRetained, SetIsNewer, Retained
<1>3. HotHasSibling' /\ NewestRetained' /\ FloorRetained' /\ FallbackNotOlder'
  BY DEF PositionInv, HotHasSibling, NewestRetained, FloorRetained, FallbackNotOlder, Retained
<1> QED
  BY <1>1, <1>2, <1>3 DEF PositionInv

\* A step that changes only how far one read is, and the map.
LEMMA ReaderStep ==
  ASSUME PositionInv, NEW r \in Readers,
         reader' \in [Readers -> Reader \cup {Idle}],
         \A q \in Readers \ {r} : reader'[q] = reader[q],
         reader'[r].pc # "idle" /\ reader'[r].floor # 0 => Retained(reader'[r].floor),
         reader'[r].pc = "database" /\ reader'[r].floor > 0 /\ reader'[r].floor >= cutoff =>
           reader'[r].answer # None /\ reader'[r].answer >= reader'[r].floor,
         UNCHANGED <<rows, hot, cutoff, ping, newest>>,
         dot' \in 0..MaxTime \cup {None}
  PROVE  PositionInv'
<1>1. TypeOK'
  BY DEF PositionInv, TypeOK
<1>2. FloorRetained' /\ FallbackNotOlder'
  BY DEF PositionInv, FloorRetained, FallbackNotOlder, Retained
<1>3. InsertedRetained' /\ SetIsNewer' /\ HotHasSibling' /\ NewestRetained'
  BY DEF PositionInv, InsertedRetained, SetIsNewer, HotHasSibling, NewestRetained, Retained
<1> QED
  BY <1>1, <1>2, <1>3 DEF PositionInv

LEMMA PostPreserves ==
  ASSUME PositionInv, NEW p \in Pings, NEW t \in Times, Post(p, t)
  PROVE  PositionInv'
<1> DEFINE new == [pc |-> "insert", time |-> t, seen |-> None]
<1>1. new \in Ping /\ new.pc = "insert"
  BY DEF Ping
<1>2. ping' = [ping EXCEPT ![p] = new]
  BY DEF Post
<1> HIDE DEF new
<1>3. /\ ping' \in [Pings -> Ping \cup {Idle}] /\ ping'[p].pc = "insert"
      /\ \A q \in Pings \ {p} : ping'[q] = ping[q]
  BY <1>1, <1>2 DEF PositionInv, TypeOK
<1> QED
  BY <1>3, PingStep DEF Post, PositionInv, TypeOK

\* The row is there before anything is said about the position.
LEMMA InsertPreserves ==
  ASSUME PositionInv, NEW p \in Pings, InsertPing(p)
  PROVE  PositionInv'
<1>1. ping[p] \in Ping /\ ping[p].pc = "insert"
  BY PingType DEF InsertPing, PositionInv
<1>2. /\ ping' \in [Pings -> Ping \cup {Idle}]
      /\ ping'[p].pc = "get" /\ ping'[p].time = ping[p].time
      /\ \A q \in Pings \ {p} : ping'[q] = ping[q]
  BY <1>1, PingToEffect DEF InsertPing, PositionInv
<1>3. /\ rows' = rows \cup {ping[p].time}
      /\ UNCHANGED <<hot, cutoff, reader, newest, dot>>
  BY DEF InsertPing
<1>4. TypeOK'
  BY <1>1, <1>2, <1>3 DEF PositionInv, TypeOK, Ping
<1>5. InsertedRetained' /\ SetIsNewer'
  BY <1>2, <1>3 DEF PositionInv, InsertedRetained, SetIsNewer, Retained
<1>6. HotHasSibling' /\ NewestRetained' /\ FloorRetained' /\ FallbackNotOlder'
  BY <1>3 DEF PositionInv, HotHasSibling, NewestRetained, FloorRetained, FallbackNotOlder, Retained
<1> QED
  BY <1>4, <1>5, <1>6 DEF PositionInv

LEMMA WriteHotPreserves ==
  ASSUME PositionInv, NEW p \in Pings, WriteHot(p)
  PROVE  PositionInv'
<1>1. TypeOK
  BY DEF PositionInv
<1>2. /\ ping' \in [Pings -> Ping \cup {Idle}]
      /\ ping'[p].pc = "publish" /\ ping'[p].time = ping[p].time
      /\ \A q \in Pings \ {p} : ping'[q] = ping[q]
  BY <1>1, PingToEffect DEF WriteHot
<1>3. Retained(ping[p].time)
  BY DEF PositionInv, InsertedRetained, WriteHot
<1>4. TypeOK'
  BY <1>1, <1>2, WriteHotEffect DEF TypeOK, Ping
<1>5. InsertedRetained' /\ SetIsNewer'
  BY <1>1, <1>2, <1>3, WriteHotEffect DEF PositionInv, InsertedRetained, SetIsNewer, Retained
<1>6. HotHasSibling' /\ NewestRetained'
  BY <1>1, <1>3, WriteHotEffect DEF PositionInv, HotHasSibling, NewestRetained, Retained
<1>7. FloorRetained' /\ FallbackNotOlder'
  BY <1>1, WriteHotEffect DEF PositionInv, FloorRetained, FallbackNotOlder, Retained
<1> QED
  BY <1>4, <1>5, <1>6, <1>7 DEF PositionInv

\* A query that comes after the floor was hot finds a row at least as new.
LEMMA QueryPreserves ==
  ASSUME PositionInv, NEW r \in Readers, Query(r)
  PROVE  PositionInv'
<1>1. TypeOK /\ reader[r].pc = "query" /\ reader[r] \in Reader
  BY ReaderType DEF PositionInv, Query
<1>2. PICK t \in NewestRow(rows) :
        reader' = [reader EXCEPT ![r].pc = "database", ![r].answer = t]
  BY DEF Query
<1>3. MaxTime \in Nat /\ rows \in SUBSET (0..MaxTime) /\ None \notin Nat
  BY <1>1, PositionAssumption DEF TypeOK, Times
<1>4. t \in Times \cup {None} /\ (rows # {} => t \in rows /\ \A y \in rows : t >= y)
  BY <1>1, <1>2, <1>3, MaxOfTimes DEF NewestRow, TypeOK
<1>5. /\ reader' \in [Readers -> Reader \cup {Idle}]
      /\ reader'[r].pc = "database" /\ reader'[r].answer = t
      /\ reader'[r].floor = reader[r].floor
      /\ \A q \in Readers \ {r} : reader'[q] = reader[q]
  BY <1>1, <1>2, <1>4, ReaderGoesOn
<1>6. reader[r].floor \in Nat /\ (reader[r].floor # 0 => Retained(reader[r].floor))
  BY <1>1, PositionAssumption DEF PositionInv, FloorRetained, Reader
<1>7. reader[r].floor > 0 /\ reader[r].floor >= cutoff => t # None /\ t >= reader[r].floor
  <2> SUFFICES ASSUME reader[r].floor > 0, reader[r].floor >= cutoff
               PROVE  t # None /\ t >= reader[r].floor
    OBVIOUS
  <2>1. reader[r].floor # 0
    BY <1>6
  <2>2. reader[r].floor \in rows
    BY <1>6, <2>1 DEF Retained
  <2>3. t \in rows /\ t \in Nat
    <3>1. t \in rows
      BY <1>4, <2>2
    <3> QED
      BY <1>3, <3>1
  <2> QED
    BY <1>3, <1>4, <2>2, <2>3
<1> QED
  BY <1>1, <1>5, <1>6, <1>7, ReaderStep DEF Query, TypeOK

LEMMA GetPreserves ==
  ASSUME PositionInv, NEW r \in Readers, Get(r)
  PROVE  PositionInv'
<1> DEFINE new == [pc |-> "get", answer |-> None, floor |-> newest]
<1>1. new \in Reader /\ new.pc = "get" /\ new.floor = newest
  BY DEF PositionInv, TypeOK, Reader
<1>2. reader' = [reader EXCEPT ![r] = new]
  BY DEF Get
<1> HIDE DEF new
<1>3. /\ reader' \in [Readers -> Reader \cup {Idle}]
      /\ reader'[r].pc = "get" /\ reader'[r].floor = newest
      /\ \A q \in Readers \ {r} : reader'[q] = reader[q]
  BY <1>1, <1>2 DEF PositionInv, TypeOK
<1>4. newest # 0 => Retained(newest)
  BY DEF PositionInv, NewestRetained
<1> QED
  BY <1>3, <1>4, ReaderStep DEF Get, PositionInv, TypeOK

LEMMA HitMissPreserves ==
  ASSUME PositionInv, NEW r \in Readers, Hit(r) \/ Miss(r)
  PROVE  PositionInv'
<1>1. TypeOK /\ reader[r].pc = "get" /\ reader[r] \in Reader /\ hot \in Times \cup {None}
  BY ReaderType DEF PositionInv, Hit, Miss, TypeOK
<1>2. reader[r].answer \in Times \cup {None}
  BY <1>1 DEF Reader
<1>3. reader[r].floor # 0 => Retained(reader[r].floor)
  BY <1>1 DEF PositionInv, FloorRetained
<1>4. \E pc \in {"cache", "query"} :
        /\ reader' \in [Readers -> Reader \cup {Idle}]
        /\ reader'[r].pc = pc /\ reader'[r].floor = reader[r].floor
        /\ \A q \in Readers \ {r} : reader'[q] = reader[q]
  <2>1. CASE Hit(r)
    <3>1. reader' = [reader EXCEPT ![r].pc = "cache", ![r].answer = hot]
      BY <2>1 DEF Hit
    <3> QED
      BY <1>1, <3>1, ReaderGoesOn
  <2>2. CASE Miss(r)
    <3>1. reader' = [reader EXCEPT ![r].pc = "query"]
      BY <2>2 DEF Miss
    <3> QED
      BY <1>1, <1>2, <3>1, ReaderGoesOn
  <2> QED
    BY <2>1, <2>2
<1>5. UNCHANGED <<rows, hot, cutoff, ping, newest, dot>>
  BY DEF Hit, Miss
<1> QED
  BY <1>1, <1>3, <1>4, <1>5, ReaderStep DEF TypeOK

LEMMA ArrivePreserves ==
  ASSUME PositionInv, NEW r \in Readers, Arrive(r)
  PROVE  PositionInv'
<1>1. TypeOK /\ reader[r] \in Reader
  BY ReaderType DEF PositionInv, Arrive
<1>2. dot' \in 0..MaxTime \cup {None}
  <2>1. reader[r].answer \in Times \cup {None}
    BY <1>1 DEF Reader
  <2>2. dot' \in {0, reader[r].answer} /\ (reader[r].answer = None => dot' = 0)
    BY DEF Arrive
  <2> QED
    BY <2>1, <2>2, TimesAndAbsent
<1>3. /\ reader' \in [Readers -> Reader \cup {Idle}]
      /\ reader'[r].pc = "idle"
      /\ \A q \in Readers \ {r} : reader'[q] = reader[q]
  BY <1>1 DEF Arrive, TypeOK, Idle
<1> QED
  BY <1>2, <1>3, ReaderStep DEF Arrive

\* Time and retention take away only what nothing is claimed of.
LEMMA TimePreserves ==
  ASSUME PositionInv, ExpireHot \/ PruneExpiredPings \/ \E c \in Times : PassRetention(c)
  PROVE  PositionInv'
<1>1. /\ cutoff \in Nat /\ cutoff' \in Nat /\ cutoff <= cutoff'
      /\ \A t \in rows : t >= cutoff' => t \in rows'
      /\ hot' \in {hot, None}
      /\ UNCHANGED <<ping, reader, newest, dot>>
  BY PositionAssumption
     DEF PositionInv, TypeOK, Times, ExpireHot, PruneExpiredPings, PassRetention
<1>2. \A t \in Times : Retained(t) => Retained(t)'
  BY <1>1 DEF Retained, Times
<1>3. TypeOK'
  <2>1. rows' \subseteq Times /\ cutoff' \in 0..MaxTime
    <3>1. rows \subseteq Times /\ cutoff \in 0..MaxTime
      BY DEF PositionInv, TypeOK
    <3>2. \A c \in Times : c \in 0..MaxTime
      BY PositionAssumption DEF Times
    <3> QED
      BY <3>1, <3>2 DEF ExpireHot, PruneExpiredPings, PassRetention
  <2> QED
    BY <1>1, <2>1 DEF PositionInv, TypeOK
<1>4. InsertedRetained' /\ SetIsNewer'
  <2>1. \A p \in Pings : ping[p].pc \in {"get", "set", "publish"} => ping[p].time \in Times
    BY PingType DEF PositionInv, Ping
  <2> QED
    BY <1>1, <1>2, <2>1 DEF PositionInv, InsertedRetained, SetIsNewer, Retained
<1>5. HotHasSibling' /\ NewestRetained'
  <2>1. (hot # None => hot \in Times) /\ (newest # 0 => newest \in Times)
    BY DEF PositionInv, TypeOK, Times
  <2> QED
    BY <1>1, <1>2, <2>1 DEF PositionInv, HotHasSibling, NewestRetained, Retained
<1>6. FloorRetained' /\ FallbackNotOlder'
  <2>1. \A r \in Readers : reader[r].pc # "idle" =>
          reader[r].floor \in Nat /\ (reader[r].floor # 0 => reader[r].floor \in Times)
    BY ReaderType, PositionAssumption DEF PositionInv, Reader, Times
  <2> QED
    BY <1>1, <1>2, <2>1 DEF PositionInv, FloorRetained, FallbackNotOlder, Retained
<1> QED
  BY <1>3, <1>4, <1>5, <1>6 DEF PositionInv

LEMMA NextPositionInv == PositionInv /\ [Next]_vars => PositionInv'
<1> SUFFICES ASSUME PositionInv, [Next]_vars PROVE PositionInv'
  OBVIOUS
<1>1. ASSUME NEW p \in Pings, NEW t \in Times, Post(p, t) PROVE PositionInv'
  BY <1>1, PostPreserves
<1>2. ASSUME NEW p \in Pings, InsertPing(p) \/ WriteHot(p) PROVE PositionInv'
  BY <1>2, InsertPreserves, WriteHotPreserves
<1>3. ASSUME NEW p \in Pings, ReadHot(p) PROVE PositionInv'
  <2>1. Retained(ping[p].time)
    BY <1>3 DEF PositionInv, InsertedRetained, ReadHot
  <2> QED
    BY <1>3, <2>1, ReadHotEffect, PingStep DEF ReadHot, PositionInv, TypeOK
<1>4. ASSUME NEW p \in Pings, WriteDegrades(p) PROVE PositionInv'
  <2>1. Retained(ping[p].time) /\ ping[p].pc # "idle"
    BY <1>4 DEF PositionInv, InsertedRetained, WriteDegrades
  <2> QED
    BY <1>4, <2>1, PingToEffect, PingStep DEF WriteDegrades, PositionInv, TypeOK
<1>5. ASSUME NEW p \in Pings, Publish(p) \/ PingFails(p) PROVE PositionInv'
  <2>1. dot' \in 0..MaxTime \cup {None}
    BY <1>5, PingType, TimesAndAbsent DEF Publish, PingFails, PositionInv, TypeOK, Ping
  <2> QED
    BY <1>5, <2>1, PingDoneEffect, PingStep DEF Publish, PingFails, PositionInv
<1>6. ASSUME NEW r \in Readers, Get(r) \/ Hit(r) \/ Miss(r) \/ Query(r) \/ Arrive(r)
      PROVE  PositionInv'
  BY <1>6, GetPreserves, HitMissPreserves, QueryPreserves, ArrivePreserves
<1>7. CASE ExpireHot \/ PruneExpiredPings \/ \E c \in Times : PassRetention(c)
  BY <1>7, TimePreserves
<1>8. CASE UNCHANGED vars
  BY <1>8 DEF vars, PositionInv, TypeOK, InsertedRetained, HotHasSibling, NewestRetained,
              FloorRetained, SetIsNewer, FallbackNotOlder, Retained
<1> QED
  BY <1>1, <1>2, <1>3, <1>4, <1>5, <1>6, <1>7, <1>8 DEF Next

\* The position cache's invariant.
THEOREM SpecPositionInv == Spec => []PositionInv
BY InitPositionInv, NextPositionInv, PTL DEF Spec

\* Every variable keeps its type.
THEOREM SpecTypeOK == Spec => []TypeOK
<1>1. PositionInv => TypeOK
  BY DEF PositionInv
<1> QED
  BY <1>1, SpecPositionInv, PTL

\* A hot dot has a durable sibling while its retention lasts, for any number of
\* pings served at the same time (routes/pings.js, ping-retention.js).
THEOREM SpecHotHasSibling == Spec => []HotHasSibling
<1>1. PositionInv => HotHasSibling
  BY DEF PositionInv
<1> QED
  BY <1>1, SpecPositionInv, PTL

\* A reader that misses the hot store gets from the rows a position no older
\* than any that was hot before it asked (lib/tracking/position-cache.js).
THEOREM SpecFallbackNotOlder == Spec => []FallbackNotOlder
<1>1. PositionInv => FallbackNotOlder
  BY DEF PositionInv
<1> QED
  BY <1>1, SpecPositionInv, PTL

\* The hot position steps back only under a write that was overtaken between
\* its GET and its SET (lib/tracking/position-cache.js writePosition).
THEOREM SpecBackwardsOnlyIfOvertaken == Spec => BackwardsOnlyIfOvertaken
<1>1. PositionInv /\ [Next]_vars =>
        [hot # None /\ hot' # None /\ hot' < hot =>
          \E p \in Pings : ping[p].pc = "set" /\ ping[p].time = hot' /\ ping[p].seen # hot]_vars
  <2> SUFFICES ASSUME PositionInv, Next, hot # None, hot' # None, hot' < hot
               PROVE  \E p \in Pings : ping[p].pc = "set" /\ ping[p].time = hot' /\ ping[p].seen # hot
    OBVIOUS
  <2>1. hot \in Nat /\ TypeOK
    BY PositionAssumption DEF PositionInv, TypeOK, Times
  <2>2. hot' # hot
    BY <2>1
  <2>3. PICK p \in Pings : WriteHot(p)
    BY <2>2 DEF Next, Post, InsertPing, ReadHot, WriteDegrades, Publish, PingFails, Get, Hit, Miss,
                Query, Arrive, ExpireHot, PruneExpiredPings, PassRetention
  <2>4. ping[p].pc = "set" /\ hot' = ping[p].time
    BY <2>3 DEF WriteHot
  <2>5. ping[p].seen = None \/ ping[p].seen < hot'
    BY <2>4 DEF PositionInv, SetIsNewer
  <2>6. ping[p].time \in Nat /\ (ping[p].seen = None \/ ping[p].seen \in Nat)
    BY <2>1, <2>4, PingType, PositionAssumption DEF Ping, Times
  <2>7. ping[p].seen # hot
    BY <2>1, <2>4, <2>5, <2>6
  <2> QED
    BY <2>4, <2>7
<1> QED
  BY <1>1, SpecPositionInv, PTL DEF Spec, BackwardsOnlyIfOvertaken

=============================================================================
