----------------------------- MODULE LiveBoard -----------------------------
(***************************************************************************)
(* The board of one dispatcher: the list read behind its cache and the     *)
(* hook after a commit (server/src/routes/jobs.js), the push over several  *)
(* API processes (lib/realtime/socket-server.js, the worker's bridge in    *)
(* lib/integration-adapters.js), and the browser, which patches its list   *)
(* from events, polls while its socket is down and refetches once when it  *)
(* is back (client/src/hooks/use-realtime.js, lib/socket-client.js).       *)
(*                                                                         *)
(* The states a job goes through are numbered, by its commits and by the   *)
(* one breach of its clock, which the worker may announce more than once;  *)
(* 0 is a job that is not there yet.                                       *)
(***************************************************************************)
EXTENDS Integers, Sequences, FiniteSets

CONSTANTS
  Jobs,
  Instances,    \* the API processes
  None,
  MaxState,     \* bound: states of a job
  MaxRepeats,   \* bound: replays of requests and redeliveries of evaluations
  MaxPublishers,  \* bound: requests and deliveries between their commit and their publish
  MaxDeliveries,  \* bound: deliveries of the evaluation that finds a job's breach
  MaxOnTheWay   \* bound: events on one connection

State == 0..MaxState
Board == [Jobs -> State]
Kinds == {"job.updated", "job.escalated"}
Deliveries == 1..MaxDeliveries

\* "delivery" tells the escalations of a job apart: the delivery of its breach
\* that published this one; 0 in an update.
Event == [kind : Kinds, job : Jobs, state : State, delivery : 0..MaxDeliveries]
Hook == [at : Instances, job : Jobs, state : State, pc : {"invalidate", "publish"}]
Announcement == [pc : {"none", "due", "read", "done"}, state : State]
Read == [at : Instances, pc : {"sent", "read", "answered"}, board : Board]

ASSUME BoardAssumption ==
  /\ MaxState \in Nat /\ MaxRepeats \in Nat /\ MaxPublishers \in Nat /\ MaxOnTheWay \in Nat
  /\ MaxDeliveries \in Nat \ {0}
  /\ None \notin Instances /\ None \notin Board /\ None \notin Read

VARIABLES
  row,          \* the states of the Job rows in PostgreSQL
  breachOf,     \* which of its states is a job's breach, or 0
  hook,         \* requests whose write has committed
  repeats,      \* replays and redeliveries so far
  breach,       \* per job and delivery of its breach, the worker's announcement and
                \* the state it will carry
  cache,        \* boardCache of each process
  relay,        \* what each process has yet to get from Redis: updates by the
                \* adapter's connection, escalations by the bridge's
  socket,       \* the events on the browser's connection
  conn,         \* the process the browser is connected to, or None
  screen,       \* the browser's ['jobs'] entry, None before it is loaded
  read,         \* the GET of the list that the browser waits for, or None
  needsReconcile,
  reconciling,  \* reconcileInFlight
  lost          \* history: jobs that the push has lost or taken back

server == <<row, breachOf, hook, repeats, breach, cache>>
browser == <<screen, read, needsReconcile, reconciling>>
vars == <<server, relay, socket, conn, browser, lost>>

----------------------------------------------------------------------------
\* Types; nothing is on a connection that is down, and the guard of the
\* reconciliation (use-realtime.js, reconcileInFlight) is up only while its
\* read is under way, or no reconnect would refetch any more.
TypeOK ==
  /\ row \in Board /\ breachOf \in Board
  /\ hook \subseteq Hook
  /\ repeats \in 0..MaxRepeats
  /\ breach \in [Jobs -> [Deliveries -> Announcement]]
  /\ cache \in [Instances -> Board \cup {None}]
  /\ relay \in [Instances -> [Kinds -> Seq(Event)]]
  /\ socket \in Seq(Event)
  /\ conn \in Instances \cup {None}
  /\ screen \in Board \cup {None}
  /\ read \in Read \cup {None}
  /\ needsReconcile \in BOOLEAN /\ reconciling \in BOOLEAN
  /\ conn = None => socket = <<>>
  /\ reconciling => read # None
  /\ lost \subseteq Jobs

Init ==
  /\ row = [j \in Jobs |-> 0] /\ breachOf = [j \in Jobs |-> 0]
  /\ hook = {} /\ repeats = 0
  /\ breach = [j \in Jobs |-> [n \in Deliveries |-> [pc |-> "none", state |-> 0]]]
  /\ cache = [i \in Instances |-> None]
  /\ relay = [i \in Instances |-> [k \in Kinds |-> <<>>]]
  /\ socket = <<>> /\ conn = None /\ screen = None
  /\ read = None
  /\ needsReconcile = FALSE /\ reconciling = FALSE
  /\ lost = {}

----------------------------------------------------------------------------
(* Writes and the hook after them *)

Publishing == {a \in Jobs \X Deliveries : breach[a[1]][a[2]].pc \in {"due", "read"}}
MayEnter == Cardinality(hook) + Cardinality(Publishing) < MaxPublishers

EnterHook(i, j, s) ==
  /\ MayEnter
  /\ hook' = hook \cup {[at |-> i, job |-> j, state |-> s, pc |-> "invalidate"]}

\* A service commits the next version of a job, for a request to process i.
Commit(i, j) ==
  /\ row[j] < MaxState
  /\ row' = [row EXCEPT ![j] = @ + 1]
  /\ EnterHook(i, j, row'[j])
  /\ UNCHANGED <<breachOf, repeats, breach, cache, relay, socket, conn, browser, lost>>

\* A retry is answered from its idempotency key, and runs the hook with the
\* row that was stored.
Replay(i, j) ==
  /\ repeats < MaxRepeats /\ repeats' = repeats + 1
  /\ \E s \in 1..row[j] : s # breachOf[j] /\ EnterHook(i, j, s)
  /\ UNCHANGED <<row, breachOf, breach, cache, relay, socket, conn, browser, lost>>

InvalidateBoardCache(h) ==
  /\ h \in hook /\ h.pc = "invalidate"
  /\ cache' = [cache EXCEPT ![h.at] = None]
  /\ hook' = (hook \ {h}) \cup {[h EXCEPT !.pc = "publish"]}
  /\ UNCHANGED <<row, breachOf, repeats, breach, relay, socket, conn, browser, lost>>

\* A browser that was never connected does not refetch when it connects: what
\* reaches a process now is lost to it.
NeverConnected == conn = None /\ ~needsReconcile
Unheard(e) == IF NeverConnected THEN {e.job} ELSE {}

\* The room of process i: the browser, if that is where it is connected.
Emit(i, e) ==
  /\ conn = i => Len(socket) < MaxOnTheWay
  /\ socket' = IF conn = i THEN Append(socket, e) ELSE socket

RoomOnTheWay(to, kind) == \A i \in to : Len(relay[i][kind]) < MaxOnTheWay
Relayed(to, e) ==
  [i \in Instances |-> IF i \in to THEN [relay[i] EXCEPT ![e.kind] = Append(@, e)] ELSE relay[i]]

\* publishToOrg: to the room of this process at once, and through Redis to
\* the rooms of the others.
Publish(h) ==
  LET e == [kind |-> "job.updated", job |-> h.job, state |-> h.state, delivery |-> 0]
      others == Instances \ {h.at} IN
  /\ h \in hook /\ h.pc = "publish"
  /\ RoomOnTheWay(others, e.kind)
  /\ hook' = hook \ {h}
  /\ Emit(h.at, e)
  /\ relay' = Relayed(others, e)
  /\ lost' = lost \cup Unheard(e)
  /\ UNCHANGED <<row, breachOf, repeats, breach, cache, conn, browser>>

\* The publish throws, which is counted, or the read of the event before it.
PublishFails(h) ==
  /\ h \in hook /\ h.pc = "publish"
  /\ hook' = hook \ {h}
  /\ lost' = lost \cup {h.job}
  /\ UNCHANGED <<row, breachOf, repeats, breach, cache, relay, socket, conn, browser>>

----------------------------------------------------------------------------
(* The worker: a breach is committed, read again and put on the bridge *)

Announces(j, n, pc, state) ==
  breach' = [breach EXCEPT ![j][n] = [pc |-> pc, state |-> state]]

Breach(j) ==
  /\ MayEnter
  /\ row[j] > 0 /\ breachOf[j] = 0 /\ row[j] < MaxState
  /\ row' = [row EXCEPT ![j] = @ + 1]
  /\ breachOf' = [breachOf EXCEPT ![j] = row'[j]]
  /\ Announces(j, 1, "due", 0)
  /\ UNCHANGED <<hook, repeats, cache, relay, socket, conn, browser, lost>>

\* The evaluation is delivered again, after it failed behind its publish or while
\* the worker that stalled goes on: it meets the escalation row that is there,
\* and announces the breach again.
Redeliver(j, n) ==
  /\ MayEnter
  /\ n > 1 /\ breach[j][n - 1].pc # "none" /\ breach[j][n].pc = "none"
  /\ repeats < MaxRepeats /\ repeats' = repeats + 1
  /\ Announces(j, n, "due", 0)
  /\ UNCHANGED <<row, breachOf, hook, cache, relay, socket, conn, browser, lost>>

ReadBreached(j, n) ==
  /\ breach[j][n].pc = "due"
  /\ Announces(j, n, "read", row[j])
  /\ UNCHANGED <<row, breachOf, hook, repeats, cache, relay, socket, conn, browser, lost>>

\* publishBridgeEvent: every process hears it.
PublishEscalation(j, n) ==
  LET e == [kind |-> "job.escalated", job |-> j, state |-> breach[j][n].state, delivery |-> n] IN
  /\ breach[j][n].pc = "read"
  /\ RoomOnTheWay(Instances, e.kind)
  /\ Announces(j, n, "done", 0)
  /\ relay' = Relayed(Instances, e)
  /\ UNCHANGED <<row, breachOf, hook, repeats, cache, socket, conn, browser, lost>>

EscalationLost(j, n) ==
  /\ breach[j][n].pc \in {"due", "read"}
  /\ Announces(j, n, "done", 0)
  /\ lost' = lost \cup {j}
  /\ UNCHANGED <<row, breachOf, hook, repeats, cache, relay, socket, conn, browser>>

----------------------------------------------------------------------------
(* Redis to process to browser *)

\* Fault: a bridge event is emitted to the rooms of all processes.
FaultyReceive(i, kind) ==
  LET e == Head(relay[i][kind])
      to == IF kind = "job.escalated" THEN {k \in Instances \ {i} : relay[k][kind] = <<>>} ELSE {} IN
  /\ relay[i][kind] # <<>>
  /\ Emit(i, e)
  /\ relay' = [Relayed(to, e) EXCEPT ![i][kind] = Tail(@)]
  /\ lost' = lost \cup Unheard(e)
  /\ UNCHANGED <<server, conn, browser>>

\* The adapter and the bridge emit to this process's own sockets.
Receive(i, kind) ==
  LET e == Head(relay[i][kind]) IN
  /\ relay[i][kind] # <<>>
  /\ Emit(i, e)
  /\ relay' = [relay EXCEPT ![i][kind] = Tail(@)]
  /\ lost' = lost \cup Unheard(e)
  /\ UNCHANGED <<server, conn, browser>>

\* patchJob: the list is patched if it is there, with whatever arrives.
Patched(board, e) == IF board = None THEN None ELSE [board EXCEPT ![e.job] = e.state]

Deliver ==
  LET e == Head(socket) IN
  /\ socket # <<>>
  /\ socket' = Tail(socket)
  /\ screen' = Patched(screen, e)
  /\ lost' = IF screen # None /\ e.state = row[e.job] THEN lost \ {e.job}
             ELSE IF screen = None \/ e.state < screen[e.job] THEN lost \cup {e.job}
             ELSE lost
  /\ UNCHANGED <<server, relay, conn, read, needsReconcile, reconciling>>

----------------------------------------------------------------------------
(* GET /jobs *)

Request(i) == [at |-> i, pc |-> "sent", board |-> [j \in Jobs |-> 0]]

\* The cached answer, which may be behind the rows ...
ServeCached ==
  /\ read # None /\ read.pc = "sent"
  /\ cache[read.at] # None
  /\ read' = [read EXCEPT !.pc = "answered", !.board = cache[read.at]]
  /\ lost' = lost \cup {j \in Jobs : cache[read.at][j] < row[j]}
  /\ UNCHANGED <<server, relay, socket, conn, screen, needsReconcile, reconciling>>

\* ... or a miss: the rows are read, and cached afterwards.
ReadRows ==
  /\ read # None /\ read.pc = "sent"
  /\ cache[read.at] = None
  /\ read' = [read EXCEPT !.pc = "read", !.board = row]
  /\ UNCHANGED <<server, relay, socket, conn, screen, needsReconcile, reconciling, lost>>

FillCache ==
  /\ read # None /\ read.pc = "read"
  /\ cache' = [cache EXCEPT ![read.at] = read.board]
  /\ read' = [read EXCEPT !.pc = "answered"]
  /\ UNCHANGED <<row, breachOf, hook, repeats, breach, relay, socket, conn, screen, needsReconcile, reconciling, lost>>

\* Ten seconds after it was filled; the next read drops it.
ExpireCache(i) ==
  /\ cache[i] # None
  /\ cache' = [cache EXCEPT ![i] = None]
  /\ UNCHANGED <<row, breachOf, hook, repeats, breach, relay, socket, conn, browser, lost>>

----------------------------------------------------------------------------
(* The browser *)

\* The page mounts, or the polling interval of a disconnected one ends.
Poll(i) ==
  /\ screen = None \/ conn = None
  /\ read = None
  /\ read' = Request(i)
  /\ UNCHANGED <<server, relay, socket, conn, screen, needsReconcile, reconciling, lost>>

\* The answer replaces the list, and takes a job back that an event has
\* moved further meanwhile.
Arrive ==
  LET back == {j \in Jobs : screen # None /\ read.board[j] < screen[j]} IN
  /\ read # None /\ read.pc = "answered"
  /\ screen' = read.board
  /\ read' = None
  /\ reconciling' = FALSE
  /\ lost' = (lost \cup back) \ {j \in Jobs : read.board[j] = row[j]}
  /\ UNCHANGED <<server, relay, socket, conn, needsReconcile>>

\* Fault: the guard is not lowered when the reconciliation fails.
FaultyFetchFails ==
  /\ read # None
  /\ read' = None
  /\ lost' = IF conn # None THEN Jobs ELSE lost
  /\ UNCHANGED <<server, relay, socket, conn, screen, needsReconcile, reconciling>>

\* The answer does not come, or it is an error after two retries.
FetchFails ==
  /\ read # None
  /\ read' = None
  /\ reconciling' = FALSE
  /\ lost' = IF conn # None THEN Jobs ELSE lost
  /\ UNCHANGED <<server, relay, socket, conn, screen, needsReconcile>>

\* The first connection.
Connect(i) ==
  /\ NeverConnected
  /\ conn' = i
  /\ UNCHANGED <<server, relay, socket, browser, lost>>

\* sharedReconcile: invalidateQueries cancels a fetch of a list that is loaded
\* and starts another one; what was missed until now is behind its question.
\* The answer of the cancelled one may still be cached where it was read.
Reconnect(i) ==
  /\ conn = None /\ needsReconcile /\ ~reconciling
  /\ read = None \/ screen # None
  /\ conn' = i
  /\ needsReconcile' = FALSE /\ reconciling' = TRUE
  /\ \E k \in Instances : read' = Request(k)
  /\ cache' \in {cache} \cup
       (IF read # None /\ read.pc = "read" THEN {[cache EXCEPT ![read.at] = read.board]} ELSE {})
  /\ lost' = {}
  /\ UNCHANGED <<row, breachOf, hook, repeats, breach, relay, socket, screen>>

\* A first fetch of the list, which has no data yet, is joined ...
ReconnectBeforeLoad(i) ==
  /\ conn = None /\ needsReconcile /\ ~reconciling
  /\ read # None /\ screen = None
  /\ conn' = i
  /\ needsReconcile' = FALSE /\ reconciling' = TRUE
  /\ lost' = Jobs
  /\ UNCHANGED <<server, relay, socket, screen, read>>

\* ... and so is a reconciliation that is under way.
ReconnectAndJoin(i) ==
  /\ conn = None /\ needsReconcile /\ reconciling
  /\ conn' = i
  /\ needsReconcile' = FALSE
  /\ lost' = Jobs
  /\ UNCHANGED <<server, relay, socket, screen, read, reconciling>>

\* Fault: the connection that is lost is not remembered.
FaultyDisconnect ==
  /\ conn # None
  /\ conn' = None /\ socket' = <<>>
  /\ UNCHANGED <<server, relay, browser, lost>>

Disconnect ==
  /\ conn # None
  /\ conn' = None /\ socket' = <<>>
  /\ needsReconcile' = TRUE
  /\ UNCHANGED <<server, relay, screen, read, reconciling, lost>>

Pending(i) == UNION {{relay[i][k][n] : n \in DOMAIN relay[i][k]} : k \in Kinds}

\* The process dies with its cache, its hooks and its connections, and is
\* started again; the browser retries the read it waits for.
Crash(i) ==
  LET unpublished == {h \in hook : h.at = i} IN
  /\ cache' = [cache EXCEPT ![i] = None]
  /\ hook' = hook \ unpublished
  /\ relay' = [relay EXCEPT ![i] = [k \in Kinds |-> <<>>]]
  /\ lost' = lost \cup {h.job : h \in unpublished}
       \cup (IF NeverConnected THEN {e.job : e \in Pending(i)} ELSE {})
  /\ IF conn = i THEN conn' = None /\ socket' = <<>> /\ needsReconcile' = TRUE
     ELSE UNCHANGED <<conn, socket, needsReconcile>>
  /\ read' = IF read # None /\ read.at = i THEN Request(i) ELSE read
  /\ UNCHANGED <<row, breachOf, repeats, breach, screen, reconciling>>

----------------------------------------------------------------------------
Serve == ServeCached \/ ReadRows \/ FillCache
Expire == \E i \in Instances : ExpireCache(i)
Polling == \E i \in Instances : Poll(i)

Next ==
  \/ \E i \in Instances, j \in Jobs : Commit(i, j) \/ Replay(i, j)
  \/ \E h \in hook : InvalidateBoardCache(h) \/ Publish(h) \/ PublishFails(h)
  \/ \E j \in Jobs :
       \/ Breach(j)
       \/ \E n \in Deliveries :
            Redeliver(j, n) \/ ReadBreached(j, n) \/ PublishEscalation(j, n) \/ EscalationLost(j, n)
  \/ \E i \in Instances :
       \/ \E kind \in Kinds : Receive(i, kind)
       \/ Connect(i) \/ Reconnect(i) \/ ReconnectBeforeLoad(i) \/ ReconnectAndJoin(i) \/ Crash(i)
  \/ Deliver \/ Arrive \/ FetchFails \/ Disconnect
  \/ Serve \/ Expire \/ Polling

Spec == Init /\ [][Next]_vars

----------------------------------------------------------------------------
(* Properties *)

\* No update is on its way to the browser.
Quiet ==
  /\ hook = {} /\ \A j \in Jobs, n \in Deliveries : breach[j][n].pc \in {"none", "done"}
  /\ conn # None => Pending(conn) = {}
  /\ socket = <<>> /\ read = None

\* Safety: what a connected browser shows once nothing is on its way is what
\* the tables hold, however reads, cache fills, events, lost connections and
\* reconciliations were interleaved, except for a job that `lost' names.  A job
\* gets there in one of these ways only: its publish failed, or came before the
\* browser was ever connected or had its list; an event or an answer replaced a
\* newer state; the answer came from a cache that was behind; the reconnect
\* joined an earlier read, or its read failed (use-realtime.js, "the single
\* reconnect reconciliation refetches everything missed").
StaleOnlyIfLost ==
  (conn # None /\ screen # None /\ Quiet) =>
    \A j \in Jobs \ lost : screen[j] = row[j]

\* Safety: a breach may be announced more than once, and the bridge brings each
\* announcement to every process; but of each one copy is on its way to the
\* browser (socket-server.js, "N attached servers deliver once each").
NoEscalationTwice ==
  conn # None =>
    LET way == relay[conn]["job.escalated"] \o socket IN
    \A n, m \in DOMAIN way :
      /\ way[n].kind = "job.escalated" /\ way[m].kind = "job.escalated"
      /\ way[n].job = way[m].job /\ way[n].delivery = way[m].delivery
      => n = m

=============================================================================
