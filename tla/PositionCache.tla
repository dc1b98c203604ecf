--------------------------- MODULE PositionCache ----------------------------
(***************************************************************************)
(* The latest position of one agent: POST and GET of routes/pings.js over  *)
(* the hot store in Redis (lib/tracking/position-cache.js) and the durable *)
(* pings that lib/tracking/ping-retention.js prunes, and the dot on the    *)
(* dispatcher's map, which the answers of GET replace and the published    *)
(* movements patch (client/src/hooks/use-realtime.js).                     *)
(*                                                                         *)
(* A position is its recordedAt.  The read and the write of the hot store  *)
(* are two calls, and so are the two stores of a read.                     *)
(***************************************************************************)
EXTENDS Integers, FiniteSets, FiniteSetsExt

CONSTANTS
  Pings,        \* slots for the pings of the agent served at the same time
  Readers,      \* slots for the dispatchers reading at the same time
  None,         \* a miss, or no answer yet
  MaxTime       \* bound: values of recordedAt

Times == 1..MaxTime

ASSUME PositionAssumption ==
  MaxTime \in Nat /\ None \notin Nat

VARIABLES
  rows,     \* the recordedAt of the agent's LocationPing rows
  hot,      \* the cached position, or None
  cutoff,   \* rows recorded before are past their retention
  ping,     \* what each POST has done
  reader,   \* what each GET has done
  newest,   \* the newest position that has ever been hot
  dot       \* the agent's position on the dispatcher's map: None before the map is
            \* loaded, 0 while the agent is not on it

vars == <<rows, hot, cutoff, ping, reader, newest, dot>>

----------------------------------------------------------------------------
Idle == [pc |-> "idle"]
\* seen is what the ping found in the hot store.
Ping == [pc : {"insert", "get", "set", "publish"}, time : Times, seen : Times \cup {None}]
Reader == [pc : {"get", "query", "cache", "database"}, answer : Times \cup {None},
           floor : 0..MaxTime]

TypeOK ==
  /\ rows \subseteq Times
  /\ hot \in Times \cup {None}
  /\ cutoff \in 0..MaxTime
  /\ ping \in [Pings -> Ping \cup {Idle}]
  /\ reader \in [Readers -> Reader \cup {Idle}]
  /\ newest \in 0..MaxTime
  /\ dot \in 0..MaxTime \cup {None}

Init ==
  /\ rows = {} /\ hot = None /\ cutoff = 0 /\ newest = 0 /\ dot = None
  /\ ping = [p \in Pings |-> Idle]
  /\ reader = [r \in Readers |-> Idle]

----------------------------------------------------------------------------
(* POST /pings *)

PingTo(p, pc) == ping' = [ping EXCEPT ![p].pc = pc]
PingDone(p) == ping' = [ping EXCEPT ![p] = Idle]

Post(p, t) ==
  /\ ping[p] = Idle
  /\ ping' = [ping EXCEPT ![p] = [pc |-> "insert", time |-> t, seen |-> None]]
  /\ UNCHANGED <<rows, hot, cutoff, reader, newest, dot>>

InsertPing(p) ==
  /\ ping[p].pc = "insert"
  /\ rows' = rows \cup {ping[p].time}
  /\ PingTo(p, "get")
  /\ UNCHANGED <<hot, cutoff, reader, newest, dot>>

\* Fault: a timestamp that is not parsed counts as zero.
FaultyWriteHot(p) ==
  /\ ping[p].pc = "set"
  /\ hot' = 0
  /\ newest' = Max({newest, ping[p].time})
  /\ PingTo(p, "publish")
  /\ UNCHANGED <<rows, cutoff, reader, dot>>

\* Fault: the arrival is not compared with what it finds.
FaultyReadHot(p) ==
  /\ ping[p].pc = "get"
  /\ ping' = [ping EXCEPT ![p].pc = "set", ![p].seen = hot]
  /\ UNCHANGED <<rows, hot, cutoff, reader, newest, dot>>

\* writePosition reads first: an arrival that is not newer leaves the dot.
ReadHot(p) ==
  /\ ping[p].pc = "get"
  /\ ping' = [ping EXCEPT ![p].seen = hot,
       ![p].pc = IF hot # None /\ ping[p].time <= hot THEN "publish" ELSE "set"]
  /\ UNCHANGED <<rows, hot, cutoff, reader, newest, dot>>

WriteHot(p) ==
  /\ ping[p].pc = "set"
  /\ hot' = ping[p].time
  /\ newest' = Max({newest, ping[p].time})
  /\ PingTo(p, "publish")
  /\ UNCHANGED <<rows, cutoff, reader, dot>>

\* Redis does not answer: the hot store stays as it is.
WriteDegrades(p) ==
  /\ ping[p].pc \in {"get", "set"}
  /\ PingTo(p, "publish")
  /\ UNCHANGED <<rows, hot, cutoff, reader, newest, dot>>

\* The movement is published whether or not the hot store took it, and patches
\* the map if it is loaded; an agent who is not on it is added.
Publish(p) ==
  /\ ping[p].pc = "publish"
  /\ dot' = IF dot = None THEN None ELSE ping[p].time
  /\ PingDone(p)
  /\ UNCHANGED <<rows, hot, cutoff, reader, newest>>

\* The process dies, or nobody hears the publish.
PingFails(p) ==
  /\ ping[p] # Idle
  /\ PingDone(p)
  /\ UNCHANGED <<rows, hot, cutoff, reader, newest, dot>>

----------------------------------------------------------------------------
(* GET /pings/latest and /pings/latest/:agentId *)

Get(r) ==
  /\ reader[r] = Idle
  /\ reader' = [reader EXCEPT ![r] = [pc |-> "get", answer |-> None, floor |-> newest]]
  /\ UNCHANGED <<rows, hot, cutoff, ping, newest, dot>>

Hit(r) ==
  /\ reader[r].pc = "get" /\ hot # None
  /\ reader' = [reader EXCEPT ![r].pc = "cache", ![r].answer = hot]
  /\ UNCHANGED <<rows, hot, cutoff, ping, newest, dot>>

\* Nothing is cached, or Redis does not answer.
Miss(r) ==
  /\ reader[r].pc = "get"
  /\ reader' = [reader EXCEPT ![r].pc = "query"]
  /\ UNCHANGED <<rows, hot, cutoff, ping, newest, dot>>

\* Fault: the rows are ordered by their creation.
FaultyNewestRow(set) == IF set = {} THEN {None} ELSE set

NewestRow(set) == IF set = {} THEN {None} ELSE {Max(set)}

Query(r) ==
  /\ reader[r].pc = "query"
  /\ \E t \in NewestRow(rows) :
       reader' = [reader EXCEPT ![r].pc = "database", ![r].answer = t]
  /\ UNCHANGED <<rows, hot, cutoff, ping, newest, dot>>

\* The answer replaces what the map shows; an agent it does not name is gone.
Arrive(r) ==
  /\ reader[r].pc \in {"cache", "database"}
  /\ dot' = IF reader[r].answer = None THEN 0 ELSE reader[r].answer
  /\ reader' = [reader EXCEPT ![r] = Idle]
  /\ UNCHANGED <<rows, hot, cutoff, ping, newest>>

----------------------------------------------------------------------------
(* Time *)

\* Five minutes after the last write.
ExpireHot ==
  /\ hot # None
  /\ hot' = None
  /\ UNCHANGED <<rows, cutoff, ping, reader, newest, dot>>

\* Thirty days after a position was recorded.
PassRetention(c) ==
  /\ c > cutoff
  /\ cutoff' = c
  /\ UNCHANGED <<rows, hot, ping, reader, newest, dot>>

\* Fault: the boundary row is deleted too.
FaultyPruneExpiredPings ==
  /\ rows' = {t \in rows : t > cutoff}
  /\ UNCHANGED <<hot, cutoff, ping, reader, newest, dot>>

PruneExpiredPings ==
  /\ rows' = {t \in rows : t >= cutoff}
  /\ UNCHANGED <<hot, cutoff, ping, reader, newest, dot>>

Next ==
  \/ \E p \in Pings :
       \/ \E t \in Times : Post(p, t)
       \/ InsertPing(p) \/ ReadHot(p) \/ WriteHot(p) \/ WriteDegrades(p) \/ Publish(p) \/ PingFails(p)
  \/ \E r \in Readers : Get(r) \/ Hit(r) \/ Miss(r) \/ Query(r) \/ Arrive(r)
  \/ ExpireHot \/ PruneExpiredPings
  \/ \E c \in Times : PassRetention(c)

Spec == Init /\ [][Next]_vars

----------------------------------------------------------------------------
(* Properties *)

\* "A hot dot always has a durable sibling": the fleet read finds the agents
\* in the rows, so a dot without a row would not be on the map.  (A position
\* that is sent beyond its retention loses its row to the next prune.)
HotHasSibling == hot # None /\ hot >= cutoff => hot \in rows

\* A miss is not a step back: what the database answers is at least as new as
\* every position that was hot before the read began and is still retained.
FallbackNotOlder ==
  \A r \in Readers :
    reader[r].pc = "database" /\ reader[r].floor > 0 /\ reader[r].floor >= cutoff =>
      reader[r].answer # None /\ reader[r].answer >= reader[r].floor

\* Action: "an arrival older than (or equal to) the cached recordedAt never
\* overwrites it" (position-cache.js:68), except an arrival that another one has
\* overtaken between its GET and its SET.
BackwardsOnlyIfOvertaken ==
  [][hot # None /\ hot' # None /\ hot' < hot =>
       \E p \in Pings : ping[p].pc = "set" /\ ping[p].time = hot' /\ ping[p].seen # hot]_vars

\* Action: the dot on the map does not step back when a movement is published
\* (Dispatch_plan.md:2909, "Older point cannot regress live map").
MapNeverBackwards ==
  [][\A p \in Pings : Publish(p) /\ dot # None => dot' >= dot]_vars

=============================================================================
