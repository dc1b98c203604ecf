-------------------------- MODULE LiveBoardProofs --------------------------
(***************************************************************************)
(* Proofs about the live board (LiveBoard): its types; that each           *)
(* announcement of a breach is on its way to the browser once; and that a  *)
(* connected browser that has nothing on its way shows every job as the    *)
(* tables hold it, but for those that the push has lost.  For any number   *)
(* of API processes, jobs, states, announcements and events on the way.    *)
(***************************************************************************)
EXTENDS LiveBoard, TLAPS

USE BoardAssumption

----------------------------------------------------------------------------
(* The inductive invariant *)

\* The events of a queue; no two of its escalations are one announcement.
DeliveryNumbers == 0..MaxDeliveries
On(q) == {q[n] : n \in DOMAIN q}
Escalation(e, j, d) == e.kind = "job.escalated" /\ e.job = j /\ e.delivery = d
Once(q) ==
  \A n, m \in DOMAIN q :
    Escalation(q[n], q[m].job, q[m].delivery) /\ q[m].kind = "job.escalated" => n = m

EscalationOn(q, j, d) == \E e \in On(q) : Escalation(e, j, d)

\* A breach is announced once it is committed.
Announced == \A j \in Jobs, n \in Deliveries : breachOf[j] = 0 => breach[j][n].pc = "none"

\* An announcement that was not made yet is on nobody's way; what a process has
\* yet to get from Redis is not on the browser's connection to it as well.
OneEscalation ==
  /\ \A i \in Instances :
       /\ \A e \in On(relay[i]["job.updated"]) : e.kind = "job.updated"
       /\ Once(relay[i]["job.escalated"])
  /\ Once(socket)
  /\ \A j \in Jobs, n \in Deliveries : breach[j][n].pc # "done" =>
       /\ ~EscalationOn(socket, j, n)
       /\ \A i \in Instances : ~EscalationOn(relay[i]["job.escalated"], j, n)
  /\ conn # None =>
       \A j \in Jobs, d \in DeliveryNumbers :
         ~(EscalationOn(socket, j, d) /\ EscalationOn(relay[conn]["job.escalated"], j, d))

\* Nothing is ahead of the tables.
NotAhead ==
  /\ \A h \in hook : h.state <= row[h.job]
  /\ \A j \in Jobs, n \in Deliveries : breach[j][n].state <= row[j]
  /\ \A i \in Instances, k \in Kinds : \A e \in On(relay[i][k]) : e.state <= row[e.job]
  /\ \A e \in On(socket) : e.state <= row[e.job]
  /\ \A i \in Instances : cache[i] # None => \A j \in Jobs : cache[i][j] <= row[j]
  /\ read # None => \A j \in Jobs : read.board[j] <= row[j]

\* The state of a job is on its way to the browser, or to wherever it connects.
Carries(e, j) == e.job = j /\ e.state = row[j]
CarriedTo(i, j) == \E k \in Kinds : \E e \in On(relay[i][k]) : Carries(e, j)
WillCarry(a, j) == a.pc = "due" \/ (a.pc = "read" /\ a.state = row[j])
Carried(j) ==
  \/ \E h \in hook : Carries(h, j)
  \/ \E n \in Deliveries : WillCarry(breach[j][n], j)
  \/ \E e \in On(socket) : Carries(e, j)
  \/ conn # None /\ CarriedTo(conn, j)
  \/ conn = None /\ \A i \in Instances : CarriedTo(i, j)

\* A browser that is connected, or was never, shows a job as it is, or as it
\* will be corrected: by what is on its way, or by the reconciliation; and so
\* does the answer to its read, or an event has overtaken it.
Live == conn # None \/ ~needsReconcile
ShownSoon(j) ==
  screen # None =>
    screen[j] = row[j] \/ Carried(j) \/ (conn # None /\ read # None)
AnsweredSoon(j) ==
  read # None /\ read.pc # "sent" =>
    \/ read.board[j] = row[j] \/ Carried(j)
    \/ screen # None /\ read.board[j] < screen[j]
Followed == Live => \A j \in Jobs \ lost : ShownSoon(j) /\ AnsweredSoon(j)

LiveInv == TypeOK /\ Announced /\ OneEscalation /\ NotAhead /\ Followed

----------------------------------------------------------------------------
(* Queues *)

LEMMA OnEmpty == On(<<>>) = {} /\ Once(<<>>) /\ \A j \in Jobs, d \in DeliveryNumbers : ~EscalationOn(<<>>, j, d)
BY DEF On, Once, EscalationOn

LEMMA OnAppend ==
  ASSUME NEW q \in Seq(Event), NEW e \in Event
  PROVE  /\ Append(q, e) \in Seq(Event)
         /\ On(Append(q, e)) = On(q) \cup {e}
         /\ \A j \in Jobs, d \in DeliveryNumbers :
              EscalationOn(Append(q, e), j, d) <=> EscalationOn(q, j, d) \/ Escalation(e, j, d)
         /\ Once(q) /\ (e.kind = "job.escalated" => ~EscalationOn(q, e.job, e.delivery))
              => Once(Append(q, e))
<1> DEFINE p == Append(q, e)
<1>1. /\ p \in Seq(Event) /\ Len(p) = Len(q) + 1 /\ Len(q) \in Nat
      /\ DOMAIN p = 1..Len(q) + 1 /\ DOMAIN q = 1..Len(q)
      /\ \A n \in 1..Len(q) : p[n] = q[n]
      /\ p[Len(q) + 1] = e
  OBVIOUS
<1> HIDE DEF p
<1>2. On(p) = On(q) \cup {e}
  <2>1. \A x \in On(p) : x \in On(q) \cup {e}
    <3> SUFFICES ASSUME NEW n \in DOMAIN p PROVE p[n] \in On(q) \cup {e}
      BY DEF On
    <3>1. n \in 1..Len(q) \/ n = Len(q) + 1
      BY <1>1
    <3> QED  BY <1>1, <3>1 DEF On
  <2>2. On(q) \subseteq On(p)
    <3> SUFFICES ASSUME NEW n \in DOMAIN q PROVE q[n] \in On(p)
      BY DEF On
    <3>1. n \in DOMAIN p /\ p[n] = q[n]
      BY <1>1
    <3> QED  BY <3>1 DEF On
  <2>3. Len(q) + 1 \in DOMAIN p
    BY <1>1
  <2>4. e \in On(p)
    BY <1>1, <2>3 DEF On
  <2> QED  BY <2>1, <2>2, <2>4
<1>3. \A j \in Jobs, d \in DeliveryNumbers :
        EscalationOn(p, j, d) <=> EscalationOn(q, j, d) \/ Escalation(e, j, d)
  BY <1>2 DEF EscalationOn
<1>4. ASSUME Once(q), e.kind = "job.escalated" => ~EscalationOn(q, e.job, e.delivery)
      PROVE  Once(p)
  <2> SUFFICES ASSUME NEW n \in DOMAIN p, NEW m \in DOMAIN p,
                      p[n].kind = "job.escalated", p[m].kind = "job.escalated",
                      p[n].job = p[m].job, p[n].delivery = p[m].delivery
               PROVE  n = m
    BY DEF Once, Escalation
  <2>1. \A l \in DOMAIN p : l \in DOMAIN q \/ l = Len(q) + 1
    BY <1>1
  <2>2. \A l \in DOMAIN q : p[l] = q[l] /\ q[l] \in On(q)
    BY <1>1 DEF On
  <2>3. CASE n \in DOMAIN q /\ m \in DOMAIN q
    BY <1>4, <2>2, <2>3 DEF Once, Escalation
  <2>4. CASE n = Len(q) + 1 /\ m \in DOMAIN q
    BY <1>1, <1>4, <2>2, <2>4 DEF EscalationOn, Escalation
  <2>5. CASE n \in DOMAIN q /\ m = Len(q) + 1
    BY <1>1, <1>4, <2>2, <2>5 DEF EscalationOn, Escalation
  <2> QED  BY <2>1, <2>3, <2>4, <2>5
<1> QED  BY <1>1, <1>2, <1>3, <1>4 DEF p

LEMMA OnTail ==
  ASSUME NEW q \in Seq(Event), q # <<>>
  PROVE  /\ Tail(q) \in Seq(Event) /\ Head(q) \in Event
         /\ On(q) = On(Tail(q)) \cup {Head(q)}
         /\ Once(q) => /\ Once(Tail(q))
                       /\ Head(q).kind = "job.escalated" =>
                            ~EscalationOn(Tail(q), Head(q).job, Head(q).delivery)
<1> DEFINE p == Tail(q)
           e == Head(q)
<1>1. /\ p \in Seq(Event) /\ e \in Event /\ e = q[1] /\ Len(q) \in Nat \ {0}
      /\ DOMAIN p = 1..Len(q) - 1 /\ DOMAIN q = 1..Len(q)
      /\ \A n \in 1..Len(q) - 1 : p[n] = q[n + 1]
  OBVIOUS
<1> HIDE DEF p, e
<1>2. \A n \in DOMAIN p : n + 1 \in DOMAIN q /\ p[n] = q[n + 1] /\ n \in Nat \ {0}
  BY <1>1
<1>3. 1 \in DOMAIN q
  BY <1>1
<1>4. On(q) = On(p) \cup {e}
  <2>1. On(p) \subseteq On(q) /\ e \in On(q)
    BY <1>1, <1>2, <1>3 DEF On
  <2>2. ASSUME NEW n \in DOMAIN q PROVE q[n] \in On(p) \cup {e}
    <3>1. CASE n = 1
      BY <1>1, <3>1
    <3>2. CASE n # 1
      <4>1. n - 1 \in DOMAIN p /\ p[n - 1] = q[n]
        BY <1>1, <3>2
      <4> QED  BY <4>1 DEF On
    <3> QED  BY <3>1, <3>2
  <2>3. On(q) \subseteq On(p) \cup {e}
    BY <2>2 DEF On
  <2> QED  BY <2>1, <2>3
<1>5. ASSUME Once(q) PROVE Once(p)
  <2> SUFFICES ASSUME NEW n \in DOMAIN p, NEW m \in DOMAIN p,
                      p[n].kind = "job.escalated", p[m].kind = "job.escalated",
                      p[n].job = p[m].job, p[n].delivery = p[m].delivery
               PROVE  n = m
    BY DEF Once, Escalation
  <2>1. n + 1 = m + 1
    BY <1>2, <1>5 DEF Once, Escalation
  <2> QED  BY <1>2, <2>1
<1>6. ASSUME Once(q), e.kind = "job.escalated", EscalationOn(p, e.job, e.delivery)
      PROVE  FALSE
  <2>1. PICK n \in DOMAIN p : Escalation(p[n], e.job, e.delivery)
    BY <1>6 DEF EscalationOn, On
  <2>2. n + 1 = 1
    BY <1>1, <1>2, <1>3, <1>6, <2>1 DEF Once, Escalation
  <2> QED  BY <1>2, <2>2
<1> QED  BY <1>1, <1>4, <1>5, <1>6 DEF p, e

LEMMA OnceConcat ==
  ASSUME NEW p \in Seq(Event), NEW q \in Seq(Event), Once(p), Once(q),
         \A j \in Jobs, d \in DeliveryNumbers : ~(EscalationOn(p, j, d) /\ EscalationOn(q, j, d))
  PROVE  Once(p \o q)
<1> DEFINE w == p \o q
<1>1. /\ Len(p) \in Nat /\ Len(q) \in Nat
      /\ DOMAIN p = 1..Len(p) /\ DOMAIN q = 1..Len(q) /\ DOMAIN w = 1..Len(p) + Len(q)
      /\ \A n \in 1..Len(p) + Len(q) : w[n] = IF n <= Len(p) THEN p[n] ELSE q[n - Len(p)]
  OBVIOUS
<1> HIDE DEF w
<1>2. ASSUME NEW n \in DOMAIN w
      PROVE  \/ n \in DOMAIN p /\ w[n] = p[n]
             \/ n - Len(p) \in DOMAIN q /\ w[n] = q[n - Len(p)]
  BY <1>1
<1>3. \A n \in DOMAIN p : p[n].job \in Jobs /\ p[n].delivery \in DeliveryNumbers
  <2>1. \A n \in DOMAIN p : p[n] \in Event
    OBVIOUS
  <2> QED  BY <2>1 DEF Event, DeliveryNumbers
<1> SUFFICES ASSUME NEW n \in DOMAIN w, NEW m \in DOMAIN w,
                    w[n].kind = "job.escalated", w[m].kind = "job.escalated",
                    w[n].job = w[m].job, w[n].delivery = w[m].delivery
             PROVE  n = m
  BY DEF Once, Escalation, w
<1>4. CASE n \in DOMAIN p /\ w[n] = p[n] /\ m \in DOMAIN p /\ w[m] = p[m]
  BY <1>4 DEF Once, Escalation
<1>5. CASE /\ n - Len(p) \in DOMAIN q /\ w[n] = q[n - Len(p)]
           /\ m - Len(p) \in DOMAIN q /\ w[m] = q[m - Len(p)]
  <2>1. n - Len(p) = m - Len(p)
    BY <1>5 DEF Once, Escalation
  <2> QED  BY <1>1, <2>1
<1>6. ASSUME NEW a \in DOMAIN p, NEW b \in DOMAIN q, p[a].kind = "job.escalated",
             q[b].kind = "job.escalated", p[a].job = q[b].job, p[a].delivery = q[b].delivery
      PROVE  FALSE
  BY <1>3, <1>6 DEF EscalationOn, Escalation, On
<1> QED  BY <1>2, <1>4, <1>5, <1>6

----------------------------------------------------------------------------
(* What the steps make of the queues *)

LEMMA EventFields ==
  ASSUME NEW e \in Event
  PROVE  e.kind \in Kinds /\ e.job \in Jobs /\ e.state \in State /\ e.delivery \in DeliveryNumbers
BY DEF Event, DeliveryNumbers

\* Nobody's connection but the browser's gets longer by an event.
LEMMA EmitBecomes ==
  ASSUME TypeOK, NEW i \in Instances, NEW e \in Event, Emit(i, e)
  PROVE  /\ socket' \in Seq(Event)
         /\ conn # i => socket' = socket
         /\ conn = i =>
              /\ socket' = Append(socket, e)
              /\ On(socket') = On(socket) \cup {e}
              /\ \A j \in Jobs, d \in DeliveryNumbers :
                   EscalationOn(socket', j, d) <=> EscalationOn(socket, j, d) \/ Escalation(e, j, d)
              /\ Once(socket) /\ (e.kind = "job.escalated" => ~EscalationOn(socket, e.job, e.delivery))
                   => Once(socket')
<1>1. socket \in Seq(Event)
  BY DEF TypeOK
<1>2. socket' = IF conn = i THEN Append(socket, e) ELSE socket
  BY DEF Emit
<1> QED  BY <1>1, <1>2, OnAppend

LEMMA RelayedBecomes ==
  ASSUME TypeOK, NEW to \in SUBSET Instances, NEW e \in Event, relay' = Relayed(to, e)
  PROVE  /\ relay' \in [Instances -> [Kinds -> Seq(Event)]]
         /\ \A i \in Instances, k \in Kinds :
              /\ ~(i \in to /\ k = e.kind) => relay'[i][k] = relay[i][k]
              /\ i \in to /\ k = e.kind => relay'[i][k] = Append(relay[i][k], e)
<1>1. relay \in [Instances -> [Kinds -> Seq(Event)]] /\ e.kind \in Kinds
  BY EventFields DEF TypeOK
<1>2. \A i \in Instances :
        relay'[i] = IF i \in to THEN [relay[i] EXCEPT ![e.kind] = Append(@, e)] ELSE relay[i]
  BY DEF Relayed
<1>3. ASSUME NEW i \in Instances
      PROVE  /\ relay'[i] \in [Kinds -> Seq(Event)]
             /\ \A k \in Kinds :
                  /\ ~(i \in to /\ k = e.kind) => relay'[i][k] = relay[i][k]
                  /\ i \in to /\ k = e.kind => relay'[i][k] = Append(relay[i][k], e)
  <2>1. relay[i] \in [Kinds -> Seq(Event)]
    BY <1>1
  <2>2. Append(relay[i][e.kind], e) \in Seq(Event)
    BY <1>1, <2>1, OnAppend
  <2> QED  BY <1>1, <1>2, <2>1, <2>2
<1>4. relay' = [i \in Instances |-> relay'[i]]
  BY DEF Relayed
<1>5. relay' \in [Instances -> [Kinds -> Seq(Event)]]
  BY <1>3, <1>4
<1> QED  BY <1>3, <1>5

LEMMA ReceiveBecomes ==
  ASSUME TypeOK, NEW i \in Instances, NEW kind \in Kinds, Receive(i, kind)
  PROVE  LET q == relay[i][kind] IN
         /\ q \in Seq(Event) /\ q # <<>> /\ Head(q) \in Event
         /\ relay' \in [Instances -> [Kinds -> Seq(Event)]]
         /\ relay'[i][kind] = Tail(q)
         /\ \A l \in Instances, k \in Kinds : ~(l = i /\ k = kind) => relay'[l][k] = relay[l][k]
<1> DEFINE q == relay[i][kind]
<1>1. relay \in [Instances -> [Kinds -> Seq(Event)]] /\ relay[i] \in [Kinds -> Seq(Event)]
  BY DEF TypeOK
<1>2. q \in Seq(Event) /\ q # <<>>
  BY <1>1 DEF Receive
<1>3. Tail(q) \in Seq(Event) /\ Head(q) \in Event
  <2> HIDE DEF q
  <2> QED  BY <1>2, OnTail
<1>4. relay' = [relay EXCEPT ![i] = [relay[i] EXCEPT ![kind] = Tail(q)]]
  BY <1>1 DEF Receive
<1> DEFINE moved == [relay[i] EXCEPT ![kind] = Tail(q)]
<1>5. /\ moved \in [Kinds -> Seq(Event)] /\ moved[kind] = Tail(q)
      /\ \A k \in Kinds : k # kind => moved[k] = relay[i][k]
  BY <1>1, <1>3
<1> HIDE DEF moved, q
<1>6. /\ relay' \in [Instances -> [Kinds -> Seq(Event)]]
      /\ relay'[i] = moved /\ \A l \in Instances : l # i => relay'[l] = relay[l]
  BY <1>1, <1>4, <1>5 DEF moved
<1> QED  BY <1>2, <1>3, <1>5, <1>6 DEF q

LEMMA CrashBecomes ==
  ASSUME TypeOK, NEW i \in Instances, Crash(i)
  PROVE  /\ relay' \in [Instances -> [Kinds -> Seq(Event)]]
         /\ \A k \in Kinds : relay'[i][k] = <<>>
         /\ \A l \in Instances : l # i => relay'[l] = relay[l]
<1>1. relay \in [Instances -> [Kinds -> Seq(Event)]]
  BY DEF TypeOK
<1>2. relay' = [relay EXCEPT ![i] = [k \in Kinds |-> <<>>]]
  BY DEF Crash
<1>3. [k \in Kinds |-> <<>>] \in [Kinds -> Seq(Event)]
  OBVIOUS
<1> QED  BY <1>1, <1>2, <1>3

LEMMA PendingAre ==
  ASSUME NEW i \in Instances
  PROVE  \A e : e \in Pending(i) <=> \E k \in Kinds : e \in On(relay[i][k])
BY DEF Pending, On

----------------------------------------------------------------------------
(* Reads of the list *)

LEMMA BoardFacts ==
  /\ State \subseteq Int /\ 0 \in State
  /\ [j \in Jobs |-> 0] \in Board
  /\ \A b \in Board : b # None /\ \A j \in Jobs : b[j] \in State
BY DEF Board, State

LEMMA ReadFields ==
  ASSUME NEW r \in Read
  PROVE  /\ r # None /\ r.at \in Instances /\ r.pc \in {"sent", "read", "answered"}
         /\ r.board \in Board
BY DEF Read

LEMMA ReadMoved ==
  ASSUME NEW r \in Read, NEW pc \in {"sent", "read", "answered"}, NEW board \in Board
  PROVE  LET next == [r EXCEPT !.pc = pc, !.board = board] IN
         next \in Read /\ next.at = r.at /\ next.pc = pc /\ next.board = board
BY DEF Read

LEMMA ReadFilled ==
  ASSUME NEW r \in Read
  PROVE  LET next == [r EXCEPT !.pc = "answered"] IN
         next \in Read /\ next.at = r.at /\ next.pc = "answered" /\ next.board = r.board
BY DEF Read

LEMMA RequestFields ==
  ASSUME NEW i \in Instances
  PROVE  /\ Request(i) \in Read /\ Request(i).pc = "sent"
         /\ Request(i).board = [j \in Jobs |-> 0]
<1>1. [j \in Jobs |-> 0] \in Board
  BY BoardFacts
<1> DEFINE b == [j \in Jobs |-> 0]
<1> HIDE DEF b
<1>2. [at |-> i, pc |-> "sent", board |-> b] \in Read
  BY <1>1 DEF Read, b
<1> QED  BY <1>2 DEF Request, b

----------------------------------------------------------------------------
(* Types *)

LEMMA HookFields ==
  ASSUME NEW h \in Hook
  PROVE  /\ h.at \in Instances /\ h.job \in Jobs /\ h.state \in State
         /\ [h EXCEPT !.pc = "publish"] \in Hook
         /\ [h EXCEPT !.pc = "publish"].job = h.job
         /\ [h EXCEPT !.pc = "publish"].state = h.state
         /\ [kind |-> "job.updated", job |-> h.job, state |-> h.state, delivery |-> 0] \in Event
BY DEF Hook, Event, Kinds

LEMMA BreachFields ==
  ASSUME TypeOK, NEW j \in Jobs, NEW n \in Deliveries
  PROVE  /\ breach[j] \in [Deliveries -> Announcement] /\ breach[j][n] \in Announcement
         /\ breach[j][n].pc \in {"none", "due", "read", "done"} /\ breach[j][n].state \in State
         /\ [kind |-> "job.escalated", job |-> j, state |-> breach[j][n].state, delivery |-> n] \in Event
<1>1. breach[j] \in [Deliveries -> Announcement] /\ breach[j][n] \in Announcement
  BY DEF TypeOK
<1>2. breach[j][n].pc \in {"none", "due", "read", "done"} /\ breach[j][n].state \in State
  BY <1>1 DEF Announcement
<1>3. n \in 0..MaxDeliveries
  BY DEF Deliveries
<1> QED  BY <1>1, <1>2, <1>3 DEF Event, Kinds

\* One announcement of one job is moved.
LEMMA AnnouncesBecomes ==
  ASSUME TypeOK, NEW j \in Jobs, NEW n \in Deliveries, NEW pc \in {"none", "due", "read", "done"},
         NEW s \in State, Announces(j, n, pc, s)
  PROVE  /\ breach' \in [Jobs -> [Deliveries -> Announcement]]
         /\ breach'[j][n].pc = pc /\ breach'[j][n].state = s
         /\ \A k \in Jobs, m \in Deliveries : ~(k = j /\ m = n) => breach'[k][m] = breach[k][m]
<1> DEFINE new == [pc |-> pc, state |-> s]
           moved == [breach[j] EXCEPT ![n] = new]
<1>1. new \in Announcement /\ new.pc = pc /\ new.state = s
  BY DEF Announcement
<1>2. breach \in [Jobs -> [Deliveries -> Announcement]] /\ breach[j] \in [Deliveries -> Announcement]
  BY DEF TypeOK
<1>3. breach' = [breach EXCEPT ![j] = moved]
  BY DEF Announces
<1> HIDE DEF new
<1>4. /\ moved \in [Deliveries -> Announcement] /\ moved[n] = new
      /\ \A m \in Deliveries : m # n => moved[m] = breach[j][m]
  BY <1>1, <1>2
<1> HIDE DEF moved
<1>5. /\ breach' \in [Jobs -> [Deliveries -> Announcement]]
      /\ breach'[j] = moved /\ \A k \in Jobs : k # j => breach'[k] = breach[k]
  BY <1>2, <1>3, <1>4
<1> QED  BY <1>1, <1>4, <1>5

LEMMA EnterHookType ==
  ASSUME TypeOK, NEW i \in Instances, NEW j \in Jobs, NEW s \in State, EnterHook(i, j, s)
  PROVE  /\ hook' \subseteq Hook /\ hook \subseteq hook'
         /\ \E h \in hook' : h.job = j /\ h.state = s
         /\ \A h \in hook' : h \in hook \/ (h.job = j /\ h.state = s)
<1> DEFINE new == [at |-> i, job |-> j, state |-> s, pc |-> "invalidate"]
<1>1. new \in Hook /\ new.job = j /\ new.state = s
  BY DEF Hook
<1>2. hook' = hook \cup {new} /\ hook \subseteq Hook
  BY DEF EnterHook, TypeOK
<1> HIDE DEF new
<1>3. hook' \subseteq Hook /\ hook \subseteq hook' /\ new \in hook'
  BY <1>1, <1>2
<1>4. \E h \in hook' : h.job = j /\ h.state = s
  BY <1>1, <1>3
<1>5. \A h \in hook' : h \in hook \/ h = new
  BY <1>2
<1>6. \A h \in hook' : h \in hook \/ (h.job = j /\ h.state = s)
  BY <1>1, <1>5
<1> QED  BY <1>3, <1>4, <1>6

\* A commit, or a breach, makes the next state of the row.
LEMMA NextState ==
  ASSUME TypeOK, NEW j \in Jobs, row[j] < MaxState, row' = [row EXCEPT ![j] = @ + 1]
  PROVE  /\ row' \in Board /\ row'[j] = row[j] + 1 /\ row'[j] \in State
         /\ \A k \in Jobs : row[k] \in Int /\ row'[k] \in Int /\ row[k] <= row'[k]
         /\ \A k \in Jobs : k # j => row'[k] = row[k]
BY DEF TypeOK, Board, State

LEMMA TypeInit == Init => TypeOK
<1> SUFFICES ASSUME Init PROVE TypeOK
  OBVIOUS
<1>1. [j \in Jobs |-> 0] \in Board /\ 0 \in State
  BY BoardFacts
<1>2. breach \in [Jobs -> [Deliveries -> Announcement]] /\ repeats \in 0..MaxRepeats
  <2>1. [pc |-> "none", state |-> 0] \in Announcement
    BY <1>1 DEF Announcement
  <2> QED  BY <2>1 DEF Init
<1>3. relay \in [Instances -> [Kinds -> Seq(Event)]]
  BY DEF Init
<1>4. /\ hook \subseteq Hook /\ lost \subseteq Jobs /\ socket \in Seq(Event)
      /\ row \in Board /\ breachOf \in Board
      /\ cache \in [Instances -> Board \cup {None}]
  BY <1>1 DEF Init
<1>5. /\ conn \in Instances \cup {None} /\ screen \in Board \cup {None} /\ read \in Read \cup {None}
      /\ needsReconcile \in BOOLEAN /\ reconciling \in BOOLEAN
      /\ conn = None => socket = <<>>
      /\ reconciling => read # None
  BY DEF Init
<1> QED  BY <1>2, <1>3, <1>4, <1>5 DEF TypeOK

LEMMA TypeWrites ==
  ASSUME TypeOK,
         \/ \E i \in Instances, j \in Jobs : Commit(i, j) \/ Replay(i, j)
         \/ \E h \in hook : InvalidateBoardCache(h) \/ Publish(h) \/ PublishFails(h)
  PROVE  TypeOK'
<1>1. ASSUME NEW i \in Instances, NEW j \in Jobs, Commit(i, j) PROVE TypeOK'
  <2>1. row' \in Board /\ row'[j] \in State
    BY <1>1, NextState DEF Commit
  <2>2. PICK s \in State : s = row'[j]
    BY <2>1
  <2>3. hook' \subseteq Hook
    BY <1>1, <2>2, EnterHookType DEF Commit
  <2> QED  BY <1>1, <2>1, <2>3 DEF Commit, TypeOK, browser
<1>2. ASSUME NEW i \in Instances, NEW j \in Jobs, Replay(i, j) PROVE TypeOK'
  <2>1. PICK s \in 1..row[j] : EnterHook(i, j, s)
    BY <1>2 DEF Replay
  <2>2. s \in State
    BY DEF TypeOK, Board, State
  <2>3. hook' \subseteq Hook
    BY <2>1, <2>2, EnterHookType
  <2>4. repeats' \in 0..MaxRepeats
    BY <1>2 DEF Replay, TypeOK
  <2> QED  BY <1>2, <2>3, <2>4 DEF Replay, TypeOK, browser
<1>3. ASSUME NEW h \in hook, InvalidateBoardCache(h) PROVE TypeOK'
  <2>1. hook' \subseteq Hook
    BY <1>3, HookFields DEF InvalidateBoardCache, TypeOK
  <2>2. cache' \in [Instances -> Board \cup {None}]
    BY <1>3 DEF InvalidateBoardCache, TypeOK
  <2> QED  BY <1>3, <2>1, <2>2 DEF InvalidateBoardCache, TypeOK, browser
<1>4. ASSUME NEW h \in hook, Publish(h) PROVE TypeOK'
  <2> DEFINE e == [kind |-> "job.updated", job |-> h.job, state |-> h.state, delivery |-> 0]
  <2>1. h \in Hook
    BY DEF TypeOK
  <2>2. h.at \in Instances /\ h.job \in Jobs /\ e \in Event /\ e.job = h.job
    BY <2>1, HookFields
  <2>3. Emit(h.at, e) /\ relay' = Relayed(Instances \ {h.at}, e) /\ lost' = lost \cup Unheard(e)
    BY <1>4 DEF Publish
  <2> HIDE DEF e
  <2>4. socket' \in Seq(Event) /\ (conn = None => socket' = socket)
    BY <2>2, <2>3, EmitBecomes
  <2>5. relay' \in [Instances -> [Kinds -> Seq(Event)]]
    BY <2>2, <2>3, RelayedBecomes
  <2>6. lost' \subseteq Jobs
    BY <2>2, <2>3 DEF Unheard, TypeOK
  <2> QED  BY <1>4, <2>4, <2>5, <2>6 DEF Publish, TypeOK, browser
<1>5. ASSUME NEW h \in hook, PublishFails(h) PROVE TypeOK'
  <2>1. h \in Hook
    BY DEF TypeOK
  <2>2. h.job \in Jobs
    BY <2>1, HookFields
  <2> QED  BY <1>5, <2>2 DEF PublishFails, TypeOK, browser
<1> QED  BY <1>1, <1>2, <1>3, <1>4, <1>5

LEMMA TypeWorker ==
  ASSUME TypeOK, NEW j \in Jobs, NEW n \in Deliveries,
         \/ Breach(j) \/ Redeliver(j, n) \/ ReadBreached(j, n)
         \/ PublishEscalation(j, n) \/ EscalationLost(j, n)
  PROVE  TypeOK'
<1>1. 0 \in State /\ row[j] \in State /\ 1 \in Deliveries
  BY BoardFacts DEF TypeOK, Deliveries
<1>2. CASE Breach(j)
  <2>1. row' \in Board /\ row'[j] \in State
    BY <1>2, NextState DEF Breach
  <2>2. breachOf' \in Board
    BY <1>2, <2>1 DEF Breach, TypeOK, Board
  <2>3. breach' \in [Jobs -> [Deliveries -> Announcement]]
    BY <1>1, <1>2, AnnouncesBecomes DEF Breach
  <2> QED  BY <1>2, <2>1, <2>2, <2>3 DEF Breach, TypeOK, browser
<1>3. CASE Redeliver(j, n)
  <2>1. breach' \in [Jobs -> [Deliveries -> Announcement]]
    BY <1>1, <1>3, AnnouncesBecomes DEF Redeliver
  <2> QED  BY <1>3, <2>1 DEF Redeliver, TypeOK, browser
<1>4. CASE ReadBreached(j, n)
  <2>1. PICK s \in State : s = row[j]
    BY <1>1
  <2>2. breach' \in [Jobs -> [Deliveries -> Announcement]]
    BY <1>4, <2>1, AnnouncesBecomes DEF ReadBreached
  <2> QED  BY <1>4, <2>2 DEF ReadBreached, TypeOK, browser
<1>5. CASE PublishEscalation(j, n)
  <2> DEFINE e == [kind |-> "job.escalated", job |-> j, state |-> breach[j][n].state, delivery |-> n]
  <2>1. e \in Event
    BY BreachFields
  <2>2. relay' = Relayed(Instances, e)
    BY <1>5 DEF PublishEscalation
  <2> HIDE DEF e
  <2>3. relay' \in [Instances -> [Kinds -> Seq(Event)]]
    BY <2>1, <2>2, RelayedBecomes
  <2>4. breach' \in [Jobs -> [Deliveries -> Announcement]]
    BY <1>1, <1>5, AnnouncesBecomes DEF PublishEscalation
  <2> QED  BY <1>5, <2>3, <2>4 DEF PublishEscalation, TypeOK, browser
<1>6. CASE EscalationLost(j, n)
  <2>1. breach' \in [Jobs -> [Deliveries -> Announcement]]
    BY <1>1, <1>6, AnnouncesBecomes DEF EscalationLost
  <2> QED  BY <1>6, <2>1 DEF EscalationLost, TypeOK, browser
<1> QED  BY <1>2, <1>3, <1>4, <1>5, <1>6

LEMMA TypeEvents ==
  ASSUME TypeOK, Deliver \/ \E i \in Instances, kind \in Kinds : Receive(i, kind)
  PROVE  TypeOK'
<1>1. ASSUME NEW i \in Instances, NEW kind \in Kinds, Receive(i, kind) PROVE TypeOK'
  <2> DEFINE e == Head(relay[i][kind])
  <2>1. e \in Event /\ relay' \in [Instances -> [Kinds -> Seq(Event)]]
    BY <1>1, ReceiveBecomes
  <2>2. Emit(i, e) /\ lost' = lost \cup Unheard(e)
    BY <1>1 DEF Receive
  <2> HIDE DEF e
  <2>3. socket' \in Seq(Event) /\ (conn = None => socket' = socket)
    BY <2>1, <2>2, EmitBecomes
  <2>4. lost' \subseteq Jobs
    BY <2>1, <2>2, EventFields DEF Unheard, TypeOK
  <2> QED  BY <1>1, <2>1, <2>3, <2>4 DEF Receive, TypeOK, server, browser
<1>2. ASSUME Deliver PROVE TypeOK'
  <2> DEFINE e == Head(socket)
  <2>1. e \in Event /\ socket # <<>> /\ socket' = Tail(socket) /\ Tail(socket) \in Seq(Event)
    BY <1>2, OnTail DEF Deliver, TypeOK
  <2>2. screen' = Patched(screen, e)
        /\ lost' = IF screen # None /\ e.state = row[e.job] THEN lost \ {e.job}
                   ELSE IF screen = None \/ e.state < screen[e.job] THEN lost \cup {e.job}
                   ELSE lost
    BY <1>2 DEF Deliver
  <2> HIDE DEF e
  <2>3. e.job \in Jobs /\ e.state \in State
    BY <2>1, EventFields
  <2>4. screen' \in Board \cup {None}
    BY <2>2, <2>3 DEF Patched, TypeOK, Board
  <2>5. lost' \subseteq Jobs
    BY <2>2, <2>3 DEF TypeOK
  <2>6. conn # None
    BY <2>1 DEF TypeOK
  <2> QED  BY <1>2, <2>1, <2>4, <2>5, <2>6 DEF Deliver, TypeOK, server
<1> QED  BY <1>1, <1>2

LEMMA TypeReads ==
  ASSUME TypeOK, Serve \/ Expire \/ Polling \/ Arrive \/ FetchFails
  PROVE  TypeOK'
<1>1. read # None => read \in Read /\ read.at \in Instances /\ read.board \in Board
  BY ReadFields DEF TypeOK
<1>2. ASSUME ServeCached PROVE TypeOK'
  <2> DEFINE b == cache[read.at]
  <2>1. read \in Read /\ b \in Board
    BY <1>1, <1>2 DEF ServeCached, TypeOK
  <2>2. read' = [read EXCEPT !.pc = "answered", !.board = b]
    BY <1>2 DEF ServeCached
  <2> HIDE DEF b
  <2>3. read' \in Read
    BY <2>1, <2>2, ReadMoved
  <2>4. read' # None /\ lost' \subseteq Jobs
    BY <1>2, <2>3, ReadFields DEF ServeCached, TypeOK
  <2> QED  BY <1>2, <2>3, <2>4 DEF ServeCached, TypeOK, server
<1>3. ASSUME ReadRows PROVE TypeOK'
  <2>1. read \in Read /\ row \in Board /\ read' = [read EXCEPT !.pc = "read", !.board = row]
    BY <1>1, <1>3 DEF ReadRows, TypeOK
  <2>2. read' \in Read /\ read' # None
    BY <2>1, ReadMoved, ReadFields
  <2> QED  BY <1>3, <2>2 DEF ReadRows, TypeOK, server
<1>4. ASSUME FillCache PROVE TypeOK'
  <2>1. read \in Read /\ read' = [read EXCEPT !.pc = "answered"]
    BY <1>1, <1>4 DEF FillCache
  <2>2. read' \in Read /\ read' # None
    BY <2>1, ReadFilled, ReadFields
  <2>3. cache' \in [Instances -> Board \cup {None}]
    BY <1>1, <1>4 DEF FillCache, TypeOK
  <2> QED  BY <1>4, <2>2, <2>3 DEF FillCache, TypeOK
<1>5. ASSUME NEW i \in Instances, ExpireCache(i) PROVE TypeOK'
  <2>1. cache' \in [Instances -> Board \cup {None}]
    BY <1>5 DEF ExpireCache, TypeOK
  <2> QED  BY <1>5, <2>1 DEF ExpireCache, TypeOK, browser
<1>6. ASSUME NEW i \in Instances, Poll(i) PROVE TypeOK'
  <2>1. read' \in Read /\ read' # None
    BY <1>6, RequestFields, ReadFields DEF Poll
  <2> QED  BY <1>6, <2>1 DEF Poll, TypeOK, server
<1>7. ASSUME Arrive PROVE TypeOK'
  <2>1. screen' \in Board /\ lost' \subseteq Jobs
    BY <1>1, <1>7 DEF Arrive, TypeOK
  <2> QED  BY <1>7, <2>1 DEF Arrive, TypeOK, server
<1>8. ASSUME FetchFails PROVE TypeOK'
  <2>1. lost' \subseteq Jobs
    BY <1>8 DEF FetchFails, TypeOK
  <2> QED  BY <1>8, <2>1 DEF FetchFails, TypeOK, server
<1> QED  BY <1>2, <1>3, <1>4, <1>5, <1>6, <1>7, <1>8 DEF Serve, Expire, Polling

LEMMA TypeConnections ==
  ASSUME TypeOK,
         \/ Disconnect
         \/ \E i \in Instances : Connect(i) \/ Reconnect(i) \/ ReconnectBeforeLoad(i)
                                   \/ ReconnectAndJoin(i) \/ Crash(i)
  PROVE  TypeOK'
<1>1. read # None => read \in Read /\ read.at \in Instances /\ read.board \in Board
  BY ReadFields DEF TypeOK
<1>2. ASSUME Disconnect PROVE TypeOK'
  BY <1>2 DEF Disconnect, TypeOK, server
<1>3. ASSUME NEW i \in Instances, Connect(i) PROVE TypeOK'
  BY <1>3 DEF Connect, TypeOK, server, browser
<1>4. ASSUME NEW i \in Instances, Reconnect(i) PROVE TypeOK'
  <2>1. read' \in Read /\ read' # None
    BY <1>4, RequestFields, ReadFields DEF Reconnect
  <2>2. cache' \in [Instances -> Board \cup {None}]
    <3>1. \/ cache' = cache
          \/ read # None /\ cache' = [cache EXCEPT ![read.at] = read.board]
      BY <1>4 DEF Reconnect
    <3> QED  BY <1>1, <3>1 DEF TypeOK
  <2> QED  BY <1>4, <2>1, <2>2 DEF Reconnect, TypeOK
<1>5. ASSUME NEW i \in Instances, ReconnectBeforeLoad(i) PROVE TypeOK'
  BY <1>5 DEF ReconnectBeforeLoad, TypeOK, server
<1>6. ASSUME NEW i \in Instances, ReconnectAndJoin(i) PROVE TypeOK'
  BY <1>6 DEF ReconnectAndJoin, TypeOK, server
<1>7. ASSUME NEW i \in Instances, Crash(i) PROVE TypeOK'
  <2>1. relay' \in [Instances -> [Kinds -> Seq(Event)]]
    BY <1>7, CrashBecomes
  <2>2. /\ conn' \in Instances \cup {None} /\ socket' \in Seq(Event) /\ needsReconcile' \in BOOLEAN
        /\ conn' = None => socket' = <<>>
    <3>1. CASE conn = i
      <4>1. conn' = None /\ socket' = <<>> /\ needsReconcile' = TRUE
        BY <1>7, <3>1 DEF Crash
      <4>2. <<>> \in Seq(Event)
        OBVIOUS
      <4> QED  BY <4>1, <4>2
    <3>2. CASE conn # i
      <4>1. conn' = conn /\ socket' = socket /\ needsReconcile' = needsReconcile
        BY <1>7, <3>2 DEF Crash
      <4> QED  BY <4>1 DEF TypeOK
    <3> QED  BY <3>1, <3>2
  <2>3. read' \in Read \cup {None} /\ (read # None => read' # None)
    BY <1>7, RequestFields, ReadFields DEF Crash, TypeOK
  <2>4. \A e \in Pending(i) : e.job \in Jobs
    <3>1. \A k \in Kinds : \A e \in On(relay[i][k]) : e \in Event
      BY DEF TypeOK, On
    <3> QED  BY <3>1, PendingAre, EventFields
  <2>5. \A h \in hook : h.job \in Jobs
    BY HookFields DEF TypeOK
  <2>6. lost' \subseteq Jobs
    BY <1>7, <2>4, <2>5 DEF Crash, TypeOK
  <2>7. cache' \in [Instances -> Board \cup {None}] /\ hook' \subseteq Hook
    BY <1>7 DEF Crash, TypeOK
  <2> QED  BY <1>7, <2>1, <2>2, <2>3, <2>6, <2>7 DEF Crash, TypeOK
<1> QED  BY <1>2, <1>3, <1>4, <1>5, <1>6, <1>7

LEMMA TypeNext == TypeOK /\ [Next]_vars => TypeOK'
<1> SUFFICES ASSUME TypeOK, [Next]_vars PROVE TypeOK'
  OBVIOUS
<1>1. CASE UNCHANGED vars
  BY <1>1 DEF vars, server, browser, TypeOK
<1>2. CASE Next
  <2>1. 1 \in Deliveries
    BY DEF Deliveries
  <2>2. CASE \E j \in Jobs, n \in Deliveries :
               \/ Breach(j) \/ Redeliver(j, n) \/ ReadBreached(j, n)
               \/ PublishEscalation(j, n) \/ EscalationLost(j, n)
    BY <2>2, TypeWorker
  <2> QED  BY <1>2, <2>1, <2>2, TypeWrites, TypeEvents, TypeReads, TypeConnections DEF Next
<1> QED  BY <1>1, <1>2

----------------------------------------------------------------------------
(* Escalations *)

LEMMA DeliveryNumbered == Deliveries \subseteq DeliveryNumbers /\ 1 \in Deliveries
BY DEF Deliveries, DeliveryNumbers

LEMMA AnnouncedInit == Init => Announced
BY DEF Init, Announced

LEMMA AnnouncedNext == TypeOK /\ Announced /\ [Next]_vars => Announced'
<1> SUFFICES ASSUME TypeOK, Announced, [Next]_vars PROVE Announced'
  OBVIOUS
<1>1. ASSUME NEW j \in Jobs, Breach(j) PROVE Announced'
  <2>1. /\ \A k \in Jobs : k # j => breachOf'[k] = breachOf[k]
        /\ \A k \in Jobs, m \in Deliveries : k # j => breach'[k][m] = breach[k][m]
    BY <1>1, BoardFacts, DeliveryNumbered, AnnouncesBecomes DEF Breach, TypeOK, Board
  <2>2. breachOf'[j] # 0
    <3>1. row'[j] = row[j] + 1 /\ row[j] \in Int /\ row[j] > 0
      BY <1>1, NextState DEF Breach
    <3>2. breachOf'[j] = row'[j]
      BY <1>1 DEF Breach, TypeOK, Board
    <3> QED  BY <3>1, <3>2
  <2> QED  BY <2>1, <2>2 DEF Announced
<1>2. ASSUME NEW j \in Jobs, NEW n \in Deliveries,
             \/ Redeliver(j, n) \/ ReadBreached(j, n)
             \/ PublishEscalation(j, n) \/ EscalationLost(j, n)
      PROVE  Announced'
  <2>1. PICK s \in State : s = row[j]
    BY DEF TypeOK, Board
  <2>2. \A k \in Jobs, m \in Deliveries : ~(k = j /\ m = n) => breach'[k][m] = breach[k][m]
    BY <1>2, <2>1, BoardFacts, AnnouncesBecomes
       DEF Redeliver, ReadBreached, PublishEscalation, EscalationLost
  <2>3. breachOf' = breachOf
    BY <1>2 DEF Redeliver, ReadBreached, PublishEscalation, EscalationLost
  <2>4. breachOf[j] # 0
    <3>1. CASE Redeliver(j, n)
      <4>1. n - 1 \in Deliveries
        BY <3>1 DEF Redeliver, Deliveries
      <4> QED  BY <3>1, <4>1 DEF Redeliver, Announced
    <3>2. CASE ~Redeliver(j, n)
      <4>1. breach[j][n].pc # "none"
        BY <1>2, <3>2 DEF ReadBreached, PublishEscalation, EscalationLost
      <4> QED  BY <4>1 DEF Announced
    <3> QED  BY <3>1, <3>2
  <2> QED  BY <2>2, <2>3, <2>4 DEF Announced
<1>3. ASSUME breach' = breach, breachOf' = breachOf PROVE Announced'
  BY <1>3 DEF Announced
<1>4. ASSUME NEW i \in Instances, NEW j \in Jobs, Commit(i, j) \/ Replay(i, j) PROVE Announced'
  BY <1>3, <1>4 DEF Commit, Replay
<1>5. ASSUME NEW h \in hook, InvalidateBoardCache(h) \/ Publish(h) \/ PublishFails(h)
      PROVE  Announced'
  BY <1>3, <1>5 DEF InvalidateBoardCache, Publish, PublishFails
<1>6. ASSUME NEW i \in Instances, NEW kind \in Kinds, Receive(i, kind) PROVE Announced'
  BY <1>3, <1>6 DEF Receive, server
<1>7. ASSUME NEW i \in Instances,
             Connect(i) \/ Reconnect(i) \/ ReconnectBeforeLoad(i) \/ ReconnectAndJoin(i) \/ Crash(i)
      PROVE  Announced'
  BY <1>3, <1>7 DEF Connect, Reconnect, ReconnectBeforeLoad, ReconnectAndJoin, Crash, server
<1>8. ASSUME Deliver \/ Arrive \/ FetchFails \/ Disconnect \/ Serve \/ Expire \/ Polling
      PROVE  Announced'
  BY <1>3, <1>8 DEF Deliver, Arrive, FetchFails, Disconnect, Serve, ServeCached, ReadRows, FillCache,
                    Expire, ExpireCache, Polling, Poll, server
<1>9. CASE UNCHANGED vars
  BY <1>3, <1>9 DEF vars, server
<1> QED  BY <1>1, <1>2, <1>4, <1>5, <1>6, <1>7, <1>8, <1>9, DeliveryNumbered DEF Next

\* What other steps do to the queues: nothing, or they empty them.
LEMMA EscalationsStay ==
  ASSUME OneEscalation, TypeOK, breach' = breach,
         \A i \in Instances, k \in Kinds : relay'[i][k] \in {relay[i][k], <<>>},
         socket' \in {socket, <<>>}, conn' = conn \/ socket' = <<>>, conn' \in Instances \cup {None}
  PROVE  OneEscalation'
<1>1. "job.updated" \in Kinds /\ "job.escalated" \in Kinds
  BY DEF Kinds
<1>2. ASSUME NEW i \in Instances
      PROVE  /\ \A e \in On(relay'[i]["job.updated"]) : e.kind = "job.updated"
             /\ Once(relay'[i]["job.escalated"])
             /\ \A j \in Jobs, d \in DeliveryNumbers :
                  EscalationOn(relay'[i]["job.escalated"], j, d) =>
                    EscalationOn(relay[i]["job.escalated"], j, d)
  <2>1. /\ relay'[i]["job.updated"] \in {relay[i]["job.updated"], <<>>}
        /\ relay'[i]["job.escalated"] \in {relay[i]["job.escalated"], <<>>}
    BY <1>1
  <2> QED  BY <2>1, OnEmpty DEF OneEscalation
<1>3. Once(socket')
      /\ \A j \in Jobs, d \in DeliveryNumbers :
           EscalationOn(socket', j, d) => EscalationOn(socket, j, d)
  BY OnEmpty DEF OneEscalation
<1>4. conn' # None =>
        \A j \in Jobs, d \in DeliveryNumbers :
          ~(EscalationOn(socket', j, d) /\ EscalationOn(relay'[conn']["job.escalated"], j, d))
  <2>1. CASE socket' = <<>>
    BY <2>1, OnEmpty
  <2>2. CASE conn' = conn
    BY <1>2, <1>3, <2>2 DEF OneEscalation, TypeOK
  <2> QED  BY <2>1, <2>2
<1>5. Deliveries \subseteq DeliveryNumbers
  BY DeliveryNumbered
<1> QED  BY <1>2, <1>3, <1>4, <1>5 DEF OneEscalation

\* An update is no escalation.
LEMMA EscalationsPublish ==
  ASSUME OneEscalation, TypeOK, NEW h \in hook, Publish(h)
  PROVE  OneEscalation'
<1> DEFINE e == [kind |-> "job.updated", job |-> h.job, state |-> h.state, delivery |-> 0]
<1>1. h \in Hook
  BY DEF TypeOK
<1>2. h.at \in Instances /\ e \in Event /\ e.kind = "job.updated"
  BY <1>1, HookFields
<1>3. Emit(h.at, e) /\ relay' = Relayed(Instances \ {h.at}, e)
  BY DEF Publish
<1>4. breach' = breach /\ conn' = conn
  BY DEF Publish
<1> HIDE DEF e
<1>5. Once(socket')
      /\ \A j \in Jobs, d \in DeliveryNumbers :
           EscalationOn(socket', j, d) <=> EscalationOn(socket, j, d)
  BY <1>2, <1>3, EmitBecomes DEF OneEscalation, Escalation
<1>6. ASSUME NEW i \in Instances
      PROVE  /\ \A x \in On(relay'[i]["job.updated"]) : x.kind = "job.updated"
             /\ relay'[i]["job.escalated"] = relay[i]["job.escalated"]
  <2>1. "job.updated" \in Kinds /\ "job.escalated" \in Kinds
    BY DEF Kinds
  <2>2. /\ relay'[i]["job.updated"] \in {relay[i]["job.updated"], Append(relay[i]["job.updated"], e)}
        /\ relay'[i]["job.escalated"] = relay[i]["job.escalated"]
    <3>1. "job.escalated" # e.kind
      BY <1>2
    <3>2. PICK to \in SUBSET Instances : to = Instances \ {h.at}
      OBVIOUS
    <3>3. \A k \in Kinds :
            /\ ~(i \in to /\ k = e.kind) => relay'[i][k] = relay[i][k]
            /\ i \in to /\ k = e.kind => relay'[i][k] = Append(relay[i][k], e)
      <4>1. relay' = Relayed(to, e) /\ e \in Event
        BY <1>2, <1>3, <3>2
      <4>2. \A l \in Instances, k \in Kinds :
              /\ ~(l \in to /\ k = e.kind) => relay'[l][k] = relay[l][k]
              /\ l \in to /\ k = e.kind => relay'[l][k] = Append(relay[l][k], e)
        BY <4>1, RelayedBecomes
      <4> QED  BY <4>2
    <3> QED  BY <1>2, <2>1, <3>1, <3>3
  <2>3. relay[i]["job.updated"] \in Seq(Event)
    BY <2>1 DEF TypeOK
  <2>4. On(relay'[i]["job.updated"]) \subseteq On(relay[i]["job.updated"]) \cup {e}
    BY <1>2, <2>2, <2>3, OnAppend
  <2> QED  BY <1>2, <2>2, <2>4 DEF OneEscalation
<1> QED  BY <1>4, <1>5, <1>6, DeliveryNumbered DEF OneEscalation, TypeOK

\* An announcement is to be made, or given up; it was not made before.
LEMMA EscalationsWorker ==
  ASSUME OneEscalation, Announced, TypeOK, NEW j \in Jobs, NEW n \in Deliveries,
         Breach(j) \/ Redeliver(j, n) \/ ReadBreached(j, n) \/ EscalationLost(j, n)
  PROVE  OneEscalation'
<1>1. relay' = relay /\ socket' = socket /\ conn' = conn
  BY DEF Breach, Redeliver, ReadBreached, EscalationLost
<1>2. 0 \in State /\ row[j] \in State /\ 1 \in Deliveries
  BY BoardFacts, DeliveryNumbered DEF TypeOK
<1>3. ASSUME NEW k \in Jobs, NEW m \in Deliveries, breach'[k][m].pc # "done"
      PROVE  breach[k][m].pc # "done"
  <2>1. CASE Breach(j)
    <3>1. /\ ~(k = j /\ m = 1) => breach'[k][m] = breach[k][m]
          /\ breach[j][1].pc = "none"
      BY <1>2, <2>1, AnnouncesBecomes DEF Breach, Announced
    <3> QED  BY <1>3, <3>1
  <2>2. CASE Redeliver(j, n)
    <3>1. /\ ~(k = j /\ m = n) => breach'[k][m] = breach[k][m]
          /\ breach[j][n].pc = "none"
      BY <1>2, <2>2, AnnouncesBecomes DEF Redeliver
    <3> QED  BY <1>3, <3>1
  <2>3. CASE ReadBreached(j, n)
    <3>1. PICK s \in State : s = row[j]
      BY <1>2
    <3>2. /\ ~(k = j /\ m = n) => breach'[k][m] = breach[k][m]
          /\ breach[j][n].pc = "due"
      BY <2>3, <3>1, AnnouncesBecomes DEF ReadBreached
    <3> QED  BY <1>3, <3>2
  <2>4. CASE EscalationLost(j, n)
    <3>1. /\ ~(k = j /\ m = n) => breach'[k][m] = breach[k][m]
          /\ breach'[j][n].pc = "done"
      BY <1>2, <2>4, AnnouncesBecomes DEF EscalationLost
    <3> QED  BY <1>3, <3>1
  <2> QED  BY <2>1, <2>2, <2>3, <2>4
<1> QED  BY <1>1, <1>3 DEF OneEscalation

LEMMA EscalationsPublished ==
  ASSUME OneEscalation, TypeOK, NEW j \in Jobs, NEW n \in Deliveries, PublishEscalation(j, n)
  PROVE  OneEscalation'
<1> DEFINE e == [kind |-> "job.escalated", job |-> j, state |-> breach[j][n].state, delivery |-> n]
<1>1. e \in Event /\ e.kind = "job.escalated" /\ e.job = j /\ e.delivery = n
  BY BreachFields
<1>2. /\ relay' = Relayed(Instances, e) /\ breach[j][n].pc = "read"
      /\ socket' = socket /\ conn' = conn /\ Announces(j, n, "done", 0)
  BY DEF PublishEscalation
<1> HIDE DEF e
<1>3. /\ breach'[j][n].pc = "done"
      /\ \A k \in Jobs, m \in Deliveries : ~(k = j /\ m = n) => breach'[k][m] = breach[k][m]
  BY <1>2, BoardFacts, AnnouncesBecomes
<1>4. /\ ~EscalationOn(socket, j, n)
      /\ \A i \in Instances : ~EscalationOn(relay[i]["job.escalated"], j, n)
  BY <1>2 DEF OneEscalation
<1>5. ASSUME NEW i \in Instances
      PROVE  /\ relay'[i]["job.updated"] = relay[i]["job.updated"]
             /\ Once(relay'[i]["job.escalated"])
             /\ \A k \in Jobs, d \in DeliveryNumbers :
                  EscalationOn(relay'[i]["job.escalated"], k, d) <=>
                    EscalationOn(relay[i]["job.escalated"], k, d) \/ (k = j /\ d = n)
  <2>1. "job.updated" \in Kinds /\ "job.escalated" \in Kinds /\ "job.updated" # e.kind
    BY <1>1 DEF Kinds
  <2>2. /\ relay'[i]["job.updated"] = relay[i]["job.updated"]
        /\ relay'[i]["job.escalated"] = Append(relay[i]["job.escalated"], e)
    <3>1. PICK to \in SUBSET Instances : to = Instances
      OBVIOUS
    <3>2. \A k \in Kinds :
            /\ ~(i \in to /\ k = e.kind) => relay'[i][k] = relay[i][k]
            /\ i \in to /\ k = e.kind => relay'[i][k] = Append(relay[i][k], e)
      <4>1. relay' = Relayed(to, e) /\ e \in Event
        BY <1>1, <1>2, <3>1
      <4>2. \A l \in Instances, k \in Kinds :
              /\ ~(l \in to /\ k = e.kind) => relay'[l][k] = relay[l][k]
              /\ l \in to /\ k = e.kind => relay'[l][k] = Append(relay[l][k], e)
        BY <4>1, RelayedBecomes
      <4> QED  BY <4>2
    <3> QED  BY <1>1, <2>1, <3>1, <3>2
  <2>3. relay[i]["job.escalated"] \in Seq(Event) /\ Once(relay[i]["job.escalated"])
    BY <2>1 DEF TypeOK, OneEscalation
  <2> QED  BY <1>1, <1>4, <2>2, <2>3, OnAppend DEF Escalation
<1>6. ASSUME NEW k \in Jobs, NEW m \in Deliveries, breach'[k][m].pc # "done"
      PROVE  /\ ~EscalationOn(socket', k, m)
             /\ \A i \in Instances : ~EscalationOn(relay'[i]["job.escalated"], k, m)
  <2>1. ~(k = j /\ m = n) /\ breach[k][m].pc # "done" /\ m \in DeliveryNumbers
    BY <1>3, <1>6, DeliveryNumbered
  <2> QED  BY <1>2, <1>5, <2>1 DEF OneEscalation
<1>7. conn' # None =>
        \A k \in Jobs, d \in DeliveryNumbers :
          ~(EscalationOn(socket', k, d) /\ EscalationOn(relay'[conn']["job.escalated"], k, d))
  BY <1>2, <1>4, <1>5 DEF OneEscalation, TypeOK
<1> QED  BY <1>2, <1>5, <1>6, <1>7 DEF OneEscalation

\* An escalation moves from the process's queue to the browser's connection.
LEMMA EscalationsReceive ==
  ASSUME OneEscalation, TypeOK, NEW i \in Instances, NEW kind \in Kinds, Receive(i, kind)
  PROVE  OneEscalation'
<1> DEFINE q == relay[i][kind]
           e == Head(q)
<1>1. q \in Seq(Event) /\ q # <<>> /\ e \in Event /\ relay'[i][kind] = Tail(q)
      /\ \A l \in Instances, k \in Kinds : ~(l = i /\ k = kind) => relay'[l][k] = relay[l][k]
  BY ReceiveBecomes
<1>2. Emit(i, e) /\ breach' = breach /\ conn' = conn
  BY DEF Receive, server
<1>3. "job.updated" \in Kinds /\ "job.escalated" \in Kinds /\ e.job \in Jobs
      /\ e.delivery \in DeliveryNumbers
      /\ kind \in {"job.updated", "job.escalated"}
  BY <1>1, EventFields DEF Kinds
<1>4. On(q) = On(Tail(q)) \cup {e}
      /\ (Once(q) => /\ Once(Tail(q))
                     /\ e.kind = "job.escalated" => ~EscalationOn(Tail(q), e.job, e.delivery))
  BY <1>1, OnTail
<1>5. q = relay[i][kind]
  OBVIOUS
<1> HIDE DEF q, e
<1>6. kind = "job.updated" => e.kind = "job.updated"
  BY <1>4, <1>5 DEF OneEscalation
<1>7. kind = "job.escalated" /\ e.kind = "job.escalated" =>
        /\ EscalationOn(relay[i]["job.escalated"], e.job, e.delivery)
        /\ ~EscalationOn(relay'[i]["job.escalated"], e.job, e.delivery)
  BY <1>1, <1>4, <1>5 DEF OneEscalation, EscalationOn, Escalation
<1>8. ASSUME NEW l \in Instances
      PROVE  /\ \A x \in On(relay'[l]["job.updated"]) : x.kind = "job.updated"
             /\ Once(relay'[l]["job.escalated"])
             /\ \A j \in Jobs, d \in DeliveryNumbers :
                  EscalationOn(relay'[l]["job.escalated"], j, d) =>
                    EscalationOn(relay[l]["job.escalated"], j, d)
  <2>1. CASE l = i /\ kind = "job.updated"
    <3>1. relay'[l]["job.escalated"] = relay[l]["job.escalated"]
          /\ On(relay'[l]["job.updated"]) \subseteq On(relay[l]["job.updated"])
      BY <1>1, <1>3, <1>4, <1>5, <2>1
    <3> QED  BY <3>1 DEF OneEscalation
  <2>2. CASE l = i /\ kind = "job.escalated"
    <3>1. /\ relay'[l]["job.updated"] = relay[l]["job.updated"]
          /\ On(relay'[l]["job.escalated"]) \subseteq On(relay[l]["job.escalated"])
          /\ Once(relay'[l]["job.escalated"])
      BY <1>1, <1>3, <1>4, <1>5, <2>2 DEF OneEscalation
    <3> QED  BY <3>1 DEF OneEscalation, EscalationOn
  <2>3. CASE l # i
    <3>1. /\ relay'[l]["job.updated"] = relay[l]["job.updated"]
          /\ relay'[l]["job.escalated"] = relay[l]["job.escalated"]
      BY <1>1, <1>3, <2>3
    <3> QED  BY <3>1 DEF OneEscalation
  <2> QED  BY <1>3, <2>1, <2>2, <2>3
<1>9. CASE conn = i
  <2>1. e.kind = "job.escalated" => kind = "job.escalated"
    BY <1>3, <1>6
  <2>2. e.kind = "job.escalated" => ~EscalationOn(socket, e.job, e.delivery)
    BY <1>3, <1>7, <1>9, <2>1 DEF OneEscalation, TypeOK
  <2>3. /\ Once(socket')
        /\ \A j \in Jobs, d \in DeliveryNumbers :
             EscalationOn(socket', j, d) <=> EscalationOn(socket, j, d) \/ Escalation(e, j, d)
    BY <1>1, <1>2, <1>9, <2>2, EmitBecomes DEF OneEscalation
  <2>4. ASSUME NEW j \in Jobs, NEW n \in Deliveries, breach[j][n].pc # "done"
        PROVE  /\ ~EscalationOn(socket', j, n)
               /\ \A l \in Instances : ~EscalationOn(relay'[l]["job.escalated"], j, n)
    <3>1. n \in DeliveryNumbers
      BY DeliveryNumbered
    <3>2. ~Escalation(e, j, n)
      BY <1>7, <2>1, <2>4 DEF OneEscalation, Escalation
    <3> QED  BY <1>8, <2>3, <2>4, <3>1, <3>2 DEF OneEscalation
  <2>5. \A j \in Jobs, d \in DeliveryNumbers :
          ~(EscalationOn(socket', j, d) /\ EscalationOn(relay'[i]["job.escalated"], j, d))
    BY <1>7, <1>8, <1>9, <2>1, <2>3 DEF OneEscalation, Escalation, TypeOK
  <2> QED  BY <1>2, <1>8, <1>9, <2>3, <2>4, <2>5 DEF OneEscalation
<1>10. CASE conn # i
  <2>1. socket' = socket
    BY <1>1, <1>2, <1>10, EmitBecomes
  <2> QED  BY <1>2, <1>8, <2>1, DeliveryNumbered DEF OneEscalation, TypeOK
<1> QED  BY <1>9, <1>10

LEMMA EscalationsDeliver ==
  ASSUME OneEscalation, TypeOK, Deliver
  PROVE  OneEscalation'
<1>1. socket # <<>> /\ socket' = Tail(socket) /\ socket \in Seq(Event)
      /\ relay' = relay /\ breach' = breach /\ conn' = conn
  BY DEF Deliver, server, TypeOK
<1>2. On(socket') \subseteq On(socket) /\ Once(socket')
  BY <1>1, OnTail DEF OneEscalation
<1>3. \A j \in Jobs, d \in DeliveryNumbers : EscalationOn(socket', j, d) => EscalationOn(socket, j, d)
  BY <1>2 DEF EscalationOn
<1>4. Deliveries \subseteq DeliveryNumbers
  BY DeliveryNumbered
<1> QED  BY <1>1, <1>2, <1>3, <1>4 DEF OneEscalation

LEMMA OneEscalationInit == Init => OneEscalation
<1> SUFFICES ASSUME Init PROVE OneEscalation
  OBVIOUS
<1>1. \A i \in Instances : relay[i]["job.updated"] = <<>> /\ relay[i]["job.escalated"] = <<>>
  BY DEF Init, Kinds
<1>2. socket = <<>> /\ conn = None
  BY DEF Init
<1>3. \A j \in Jobs, n \in Deliveries :
        /\ ~EscalationOn(socket, j, n)
        /\ \A i \in Instances : ~EscalationOn(relay[i]["job.escalated"], j, n)
  BY <1>1, <1>2, OnEmpty, DeliveryNumbered
<1> QED  BY <1>1, <1>2, <1>3, OnEmpty DEF OneEscalation

LEMMA OneEscalationNext == TypeOK /\ Announced /\ OneEscalation /\ [Next]_vars => OneEscalation'
<1> SUFFICES ASSUME TypeOK, Announced, OneEscalation, [Next]_vars PROVE OneEscalation'
  OBVIOUS
<1>0. TypeOK'
  BY TypeNext
<1>1. ASSUME breach' = breach, relay' = relay,
             socket' \in {socket, <<>>}, conn' = conn \/ socket' = <<>>
      PROVE  OneEscalation'
  BY <1>0, <1>1, EscalationsStay DEF TypeOK
<1>2. ASSUME NEW i \in Instances, NEW j \in Jobs, Commit(i, j) \/ Replay(i, j) PROVE OneEscalation'
  BY <1>1, <1>2 DEF Commit, Replay
<1>3. ASSUME NEW h \in hook, InvalidateBoardCache(h) \/ PublishFails(h) PROVE OneEscalation'
  BY <1>1, <1>3 DEF InvalidateBoardCache, PublishFails
<1>4. ASSUME NEW i \in Instances,
             Connect(i) \/ Reconnect(i) \/ ReconnectBeforeLoad(i) \/ ReconnectAndJoin(i)
      PROVE  OneEscalation'
  <2>1. conn = None /\ breach' = breach /\ relay' = relay /\ socket' = socket
    BY <1>4 DEF Connect, NeverConnected, Reconnect, ReconnectBeforeLoad, ReconnectAndJoin, server
  <2>2. socket = <<>>
    BY <2>1 DEF TypeOK
  <2> QED  BY <1>1, <2>1, <2>2
<1>5. ASSUME NEW i \in Instances, Crash(i) PROVE OneEscalation'
  <2>1. \A l \in Instances, k \in Kinds : relay'[l][k] \in {relay[l][k], <<>>}
    BY <1>5, CrashBecomes
  <2>2. breach' = breach
    BY <1>5 DEF Crash
  <2>3. socket' \in {socket, <<>>} /\ (conn' = conn \/ socket' = <<>>)
    BY <1>5 DEF Crash
  <2> QED  BY <1>0, <2>1, <2>2, <2>3, EscalationsStay DEF TypeOK
<1>6. ASSUME Disconnect PROVE OneEscalation'
  BY <1>1, <1>6 DEF Disconnect, server
<1>7. ASSUME Arrive \/ FetchFails \/ Serve \/ Expire \/ Polling PROVE OneEscalation'
  <2>1. breach' = breach /\ relay' = relay /\ socket' = socket /\ conn' = conn
    BY <1>7 DEF Arrive, FetchFails, Serve, ServeCached, ReadRows, FillCache, Expire, ExpireCache,
               Polling, Poll, server
  <2> QED  BY <1>1, <2>1
<1>8. CASE UNCHANGED vars
  BY <1>1, <1>8 DEF vars, server
<1>9. CASE Next
  BY <1>2, <1>3, <1>4, <1>5, <1>6, <1>7, <1>9, DeliveryNumbered, EscalationsPublish,
     EscalationsWorker, EscalationsPublished, EscalationsReceive, EscalationsDeliver DEF Next
<1> QED  BY <1>8, <1>9

----------------------------------------------------------------------------
(* Nothing is ahead of the tables *)

LEMMA RelayedOn ==
  ASSUME TypeOK, NEW to \in SUBSET Instances, NEW e \in Event, relay' = Relayed(to, e)
  PROVE  \A i \in Instances, k \in Kinds :
           On(relay'[i][k]) = IF i \in to /\ k = e.kind THEN On(relay[i][k]) \cup {e}
                              ELSE On(relay[i][k])
<1>1. \A i \in Instances, k \in Kinds :
        /\ ~(i \in to /\ k = e.kind) => relay'[i][k] = relay[i][k]
        /\ i \in to /\ k = e.kind => relay'[i][k] = Append(relay[i][k], e)
  BY RelayedBecomes
<1>2. \A i \in Instances, k \in Kinds : relay[i][k] \in Seq(Event)
  BY DEF TypeOK
<1>3. \A q \in Seq(Event) : On(Append(q, e)) = On(q) \cup {e}
  BY OnAppend
<1> QED  BY <1>1, <1>2, <1>3

LEMMA ReceivedOn ==
  ASSUME TypeOK, NEW i \in Instances, NEW kind \in Kinds, Receive(i, kind)
  PROVE  /\ Head(relay[i][kind]) \in Event
         /\ On(relay[i][kind]) = On(relay'[i][kind]) \cup {Head(relay[i][kind])}
         /\ \A l \in Instances, k \in Kinds : ~(l = i /\ k = kind) => relay'[l][k] = relay[l][k]
<1> DEFINE q == relay[i][kind]
<1>1. q \in Seq(Event) /\ q # <<>> /\ Head(q) \in Event /\ relay'[i][kind] = Tail(q)
  BY ReceiveBecomes
<1>2. On(q) = On(Tail(q)) \cup {Head(q)}
  <2> HIDE DEF q
  <2> QED  BY <1>1, OnTail
<1> QED  BY <1>1, <1>2, ReceiveBecomes

\* The typed numbers.
LEMMA Numbers ==
  ASSUME TypeOK
  PROVE  /\ \A j \in Jobs : row[j] \in Int /\ row[j] >= 0
         /\ \A j \in Jobs, n \in Deliveries : breach[j][n].state \in Int
         /\ \A h \in hook : h \in Hook /\ h.job \in Jobs /\ h.state \in Int
         /\ \A i \in Instances, k \in Kinds : \A e \in On(relay[i][k]) :
              e \in Event /\ e.job \in Jobs /\ e.state \in Int
         /\ \A e \in On(socket) : e \in Event /\ e.job \in Jobs /\ e.state \in Int
         /\ \A i \in Instances : cache[i] # None => \A j \in Jobs : cache[i][j] \in Int
         /\ read # None => \A j \in Jobs : read.board[j] \in Int
         /\ screen # None => \A j \in Jobs : screen[j] \in Int
<1>1. State \subseteq Int /\ \A s \in State : s >= 0
  BY DEF State
<1>2. /\ \A j \in Jobs : row[j] \in Int /\ row[j] >= 0
      /\ \A j \in Jobs, n \in Deliveries : breach[j][n].state \in Int
  BY <1>1, BreachFields DEF TypeOK, Board
<1>3. \A h \in hook : h \in Hook /\ h.job \in Jobs /\ h.state \in Int
  BY <1>1, HookFields DEF TypeOK
<1>4. \A e \in Event : e.job \in Jobs /\ e.state \in Int
  BY <1>1, EventFields
<1>5. \A q \in Seq(Event) : \A e \in On(q) : e \in Event
  BY DEF On
<1>6. socket \in Seq(Event) /\ \A i \in Instances, k \in Kinds : relay[i][k] \in Seq(Event)
  BY DEF TypeOK
<1>7. \A b \in Board : \A j \in Jobs : b[j] \in Int
  BY <1>1 DEF Board
<1>8. read # None => read.board \in Board
  BY ReadFields DEF TypeOK
<1>9. (\A i \in Instances : cache[i] # None => cache[i] \in Board) /\ (screen # None => screen \in Board)
  BY DEF TypeOK
<1> QED  BY <1>2, <1>3, <1>4, <1>5, <1>6, <1>7, <1>8, <1>9

\* A step keeps it when the rows only grow and what it adds is not ahead.
LEMMA NotAheadStep ==
  ASSUME TypeOK, TypeOK', NotAhead,
         \A j \in Jobs : row[j] <= row'[j],
         \A h \in hook' : (\E g \in hook : g.job = h.job /\ g.state = h.state) \/ h.state <= row'[h.job],
         \A j \in Jobs, n \in Deliveries :
           breach'[j][n].state = breach[j][n].state \/ breach'[j][n].state <= row'[j],
         \A i \in Instances, k \in Kinds : \A e \in On(relay'[i][k]) :
           e \in On(relay[i][k]) \/ e.state <= row'[e.job],
         \A e \in On(socket') : e \in On(socket) \/ e.state <= row'[e.job],
         \A i \in Instances : cache'[i] = cache[i] \/ cache'[i] = None
                                \/ \A j \in Jobs : cache'[i][j] <= row'[j],
         \/ read' = None
         \/ read # None /\ read'.board = read.board
         \/ \A j \in Jobs : read'.board[j] <= row'[j]
  PROVE  NotAhead'
<1>1. \A j \in Jobs : row[j] \in Int /\ row'[j] \in Int
  BY DEF TypeOK, Board, State
<1>2. ASSUME NEW h \in hook' PROVE h.state <= row'[h.job]
  <2>1. CASE h.state <= row'[h.job]
    BY <2>1
  <2>2. ASSUME NEW g \in hook, g.job = h.job, g.state = h.state PROVE h.state <= row'[h.job]
    <3>1. g.job \in Jobs /\ g.state \in Int /\ g.state <= row[g.job]
      BY Numbers DEF NotAhead
    <3> QED  BY <1>1, <2>2, <3>1
  <2> QED  BY <2>1, <2>2
<1>3. ASSUME NEW j \in Jobs, NEW n \in Deliveries PROVE breach'[j][n].state <= row'[j]
  <2>1. breach[j][n].state \in Int /\ breach[j][n].state <= row[j]
    BY Numbers DEF NotAhead
  <2> QED  BY <1>1, <2>1
<1>4. ASSUME NEW e \in Event, e.state <= row[e.job] PROVE e.state <= row'[e.job]
  <2>1. e.job \in Jobs /\ e.state \in Int
    BY EventFields, BoardFacts
  <2> QED  BY <1>1, <1>4, <2>1
<1>5. \A i \in Instances, k \in Kinds : \A e \in On(relay'[i][k]) : e.state <= row'[e.job]
  BY <1>4, Numbers DEF NotAhead
<1>6. \A e \in On(socket') : e.state <= row'[e.job]
  BY <1>4, Numbers DEF NotAhead
<1>7. ASSUME NEW i \in Instances, cache'[i] # None, NEW j \in Jobs PROVE cache'[i][j] <= row'[j]
  <2>1. CASE cache'[i] = cache[i]
    <3>1. cache[i][j] \in Int /\ cache[i][j] <= row[j]
      BY <1>7, <2>1, Numbers DEF NotAhead
    <3> QED  BY <1>1, <2>1, <3>1
  <2> QED  BY <1>7, <2>1
<1>8. ASSUME read' # None, NEW j \in Jobs PROVE read'.board[j] <= row'[j]
  <2>1. CASE read # None /\ read'.board = read.board
    <3>1. read.board[j] \in Int /\ read.board[j] <= row[j]
      BY <2>1, Numbers DEF NotAhead
    <3> QED  BY <1>1, <2>1, <3>1
  <2> QED  BY <1>8, <2>1
<1> QED  BY <1>2, <1>3, <1>5, <1>6, <1>7, <1>8 DEF NotAhead

LEMMA NotAheadInit == Init => NotAhead
<1> SUFFICES ASSUME Init PROVE NotAhead
  OBVIOUS
<1>1. \A i \in Instances, k \in Kinds : relay[i][k] = <<>>
  BY DEF Init
<1>2. hook = {} /\ socket = <<>> /\ read = None
      /\ (\A i \in Instances : cache[i] = None)
      /\ \A j \in Jobs : row[j] = 0 /\ \A n \in Deliveries : breach[j][n].state = 0
  BY DEF Init
<1> QED  BY <1>1, <1>2, OnEmpty DEF NotAhead

\* An update goes to the browser, or to the queue of where it is connected.
LEMMA PublishOn ==
  ASSUME TypeOK, NEW h \in hook, Publish(h)
  PROVE  \E e \in Event :
           /\ e.kind = "job.updated" /\ e.job = h.job /\ e.state = h.state
           /\ h.at \in Instances /\ h.job \in Jobs /\ h.state \in Int
           /\ hook' = hook \ {h} /\ lost' = lost \cup Unheard(e)
           /\ \A i \in Instances, k \in Kinds :
                On(relay'[i][k]) = IF i # h.at /\ k = e.kind THEN On(relay[i][k]) \cup {e}
                                   ELSE On(relay[i][k])
           /\ conn = h.at => On(socket') = On(socket) \cup {e}
           /\ conn # h.at => socket' = socket
<1> DEFINE e == [kind |-> "job.updated", job |-> h.job, state |-> h.state, delivery |-> 0]
<1>1. h \in Hook /\ h.job \in Jobs /\ h.state \in Int
  BY Numbers
<1>2. h.at \in Instances /\ e \in Event
      /\ e.kind = "job.updated" /\ e.job = h.job /\ e.state = h.state
  BY <1>1, HookFields
<1>3. Emit(h.at, e) /\ relay' = Relayed(Instances \ {h.at}, e)
      /\ hook' = hook \ {h} /\ lost' = lost \cup Unheard(e)
  BY DEF Publish
<1> HIDE DEF e
<1>4. PICK to \in SUBSET Instances : to = Instances \ {h.at}
  OBVIOUS
<1>5. \A i \in Instances, k \in Kinds :
        On(relay'[i][k]) = IF i \in to /\ k = e.kind THEN On(relay[i][k]) \cup {e}
                           ELSE On(relay[i][k])
  BY <1>2, <1>3, <1>4, RelayedOn
<1>6. \A i \in Instances : i \in to <=> i # h.at
  BY <1>4
<1>7. (conn = h.at => On(socket') = On(socket) \cup {e}) /\ (conn # h.at => socket' = socket)
  BY <1>2, <1>3, EmitBecomes
<1>8. \A i \in Instances, k \in Kinds :
        On(relay'[i][k]) = IF i # h.at /\ k = e.kind THEN On(relay[i][k]) \cup {e}
                           ELSE On(relay[i][k])
  BY <1>5, <1>6
<1> QED  BY <1>1, <1>2, <1>3, <1>7, <1>8

\* Announcement n of job j has become the event e.
AnnouncedBy(e, j, n) ==
  /\ e.kind = "job.escalated" /\ e.job = j /\ e.state = breach[j][n].state
  /\ breach[j][n].pc = "read" /\ breach'[j][n].state = 0
  /\ \A l \in Jobs, m \in Deliveries : ~(l = j /\ m = n) => breach'[l][m] = breach[l][m]
  /\ \A i \in Instances, k \in Kinds :
       On(relay'[i][k]) = IF k = e.kind THEN On(relay[i][k]) \cup {e} ELSE On(relay[i][k])

LEMMA PublishedOn ==
  ASSUME TypeOK, NEW j \in Jobs, NEW n \in Deliveries, PublishEscalation(j, n)
  PROVE  \E e \in Event : AnnouncedBy(e, j, n)
<1> DEFINE e == [kind |-> "job.escalated", job |-> j, state |-> breach[j][n].state, delivery |-> n]
<1>1. e \in Event /\ e.kind = "job.escalated" /\ e.job = j /\ e.state = breach[j][n].state
  BY BreachFields
<1>2. relay' = Relayed(Instances, e) /\ breach[j][n].pc = "read" /\ Announces(j, n, "done", 0)
  BY DEF PublishEscalation
<1> HIDE DEF e
<1>3. PICK to \in SUBSET Instances : to = Instances
  OBVIOUS
<1>4. \A i \in Instances, k \in Kinds :
        On(relay'[i][k]) = IF i \in to /\ k = e.kind THEN On(relay[i][k]) \cup {e}
                           ELSE On(relay[i][k])
  BY <1>1, <1>2, <1>3, RelayedOn
<1>5. /\ breach'[j][n].state = 0
      /\ \A l \in Jobs, m \in Deliveries : ~(l = j /\ m = n) => breach'[l][m] = breach[l][m]
  BY <1>2, BoardFacts, AnnouncesBecomes
<1> QED  BY <1>1, <1>2, <1>3, <1>4, <1>5 DEF AnnouncedBy

\* An event that a process gets from Redis goes to the browser that is there.
LEMMA ReceiveOn ==
  ASSUME TypeOK, NEW i \in Instances, NEW kind \in Kinds, Receive(i, kind)
  PROVE  \E e \in On(relay[i][kind]) :
           /\ e \in Event /\ e.job \in Jobs /\ lost' = lost \cup Unheard(e)
           /\ On(relay[i][kind]) = On(relay'[i][kind]) \cup {e}
           /\ \A l \in Instances, k \in Kinds : ~(l = i /\ k = kind) => relay'[l][k] = relay[l][k]
           /\ conn = i => On(socket') = On(socket) \cup {e}
           /\ conn # i => socket' = socket
<1> DEFINE e == Head(relay[i][kind])
<1>1. /\ e \in Event /\ On(relay[i][kind]) = On(relay'[i][kind]) \cup {e}
      /\ \A l \in Instances, k \in Kinds : ~(l = i /\ k = kind) => relay'[l][k] = relay[l][k]
  BY ReceivedOn
<1>2. Emit(i, e) /\ lost' = lost \cup Unheard(e)
  BY DEF Receive
<1> HIDE DEF e
<1>3. (conn = i => On(socket') = On(socket) \cup {e}) /\ (conn # i => socket' = socket)
  BY <1>1, <1>2, EmitBecomes
<1>4. e.job \in Jobs
  BY <1>1, EventFields
<1> QED  BY <1>1, <1>2, <1>3, <1>4

LEMMA DeliverOn ==
  ASSUME TypeOK, Deliver
  PROVE  \E e \in On(socket) :
           /\ e \in Event /\ e.job \in Jobs /\ e.state \in Int
           /\ On(socket) = On(socket') \cup {e}
           /\ screen' = Patched(screen, e)
           /\ lost' = IF screen # None /\ e.state = row[e.job] THEN lost \ {e.job}
                      ELSE IF screen = None \/ e.state < screen[e.job] THEN lost \cup {e.job}
                      ELSE lost
<1> DEFINE e == Head(socket)
<1>1. e \in Event /\ On(socket) = On(socket') \cup {e}
  BY OnTail DEF Deliver, TypeOK
<1>2. screen' = Patched(screen, e)
      /\ lost' = IF screen # None /\ e.state = row[e.job] THEN lost \ {e.job}
                 ELSE IF screen = None \/ e.state < screen[e.job] THEN lost \cup {e.job}
                 ELSE lost
  BY DEF Deliver
<1> HIDE DEF e
<1>3. e \in On(socket)
  BY <1>1
<1>4. e.job \in Jobs /\ e.state \in Int
  BY <1>3, Numbers
<1> QED  BY <1>1, <1>2, <1>3, <1>4

LEMMA NotAheadNext == TypeOK /\ NotAhead /\ [Next]_vars => NotAhead'
<1> SUFFICES ASSUME TypeOK, NotAhead, [Next]_vars PROVE NotAhead'
  OBVIOUS
<1>0. TypeOK' /\ \A j \in Jobs : row[j] \in Int /\ row[j] <= row[j] /\ 0 <= row[j]
  BY TypeNext, Numbers
<1>1. ASSUME NEW i \in Instances, NEW j \in Jobs, Commit(i, j) PROVE NotAhead'
  <2>1. (\A k \in Jobs : row[k] <= row'[k]) /\ row'[j] \in State /\ row'[j] \in Int
    BY <1>1, NextState DEF Commit
  <2>2. PICK s \in State : s = row'[j]
    BY <2>1
  <2>3. \A h \in hook' : h \in hook \/ (h.job = j /\ h.state = row'[j])
    BY <1>1, <2>2, EnterHookType DEF Commit
  <2>4. row'[j] <= row'[j]
    BY <2>1
  <2> QED  BY <1>0, <1>1, <2>1, <2>3, <2>4, NotAheadStep DEF Commit, browser
<1>2. ASSUME NEW i \in Instances, NEW j \in Jobs, Replay(i, j) PROVE NotAhead'
  <2>1. PICK s \in 1..row[j] : EnterHook(i, j, s)
    BY <1>2 DEF Replay
  <2>2. s \in State /\ s <= row[j]
    BY <1>0 DEF TypeOK, Board, State
  <2>3. \A h \in hook' : h \in hook \/ (h.job = j /\ h.state = s)
    BY <2>1, <2>2, EnterHookType
  <2> QED  BY <1>0, <1>2, <2>2, <2>3, NotAheadStep DEF Replay, browser
<1>3. ASSUME NEW h \in hook, InvalidateBoardCache(h) PROVE NotAhead'
  <2>1. \A g \in hook' : \E f \in hook : f.job = g.job /\ f.state = g.state
    BY <1>3, HookFields DEF InvalidateBoardCache, TypeOK
  <2>2. \A i \in Instances : cache'[i] = cache[i] \/ cache'[i] = None
    BY <1>3 DEF InvalidateBoardCache, TypeOK
  <2> QED  BY <1>0, <1>3, <2>1, <2>2, NotAheadStep DEF InvalidateBoardCache, browser
<1>4. ASSUME NEW h \in hook, Publish(h) PROVE NotAhead'
  <2>0. PICK e \in Event :
          /\ e.job = h.job /\ e.state = h.state /\ hook' = hook \ {h}
          /\ \A i \in Instances, k \in Kinds :
               On(relay'[i][k]) = IF i # h.at /\ k = e.kind THEN On(relay[i][k]) \cup {e}
                                  ELSE On(relay[i][k])
          /\ conn = h.at => On(socket') = On(socket) \cup {e}
          /\ conn # h.at => socket' = socket
    BY <1>4, PublishOn
  <2>1. /\ e.job = h.job /\ e.state = h.state /\ hook' = hook \ {h}
        /\ \A i \in Instances, k \in Kinds : On(relay'[i][k]) \subseteq On(relay[i][k]) \cup {e}
        /\ On(socket') \subseteq On(socket) \cup {e}
    BY <2>0
  <2>2. e.state <= row[e.job]
    BY <2>1 DEF NotAhead
  <2> QED  BY <1>0, <1>4, <2>1, <2>2, NotAheadStep DEF Publish, browser
<1>5. ASSUME NEW h \in hook, PublishFails(h) PROVE NotAhead'
  BY <1>0, <1>5, NotAheadStep DEF PublishFails, browser
<1>6. ASSUME NEW j \in Jobs, Breach(j) PROVE NotAhead'
  <2>1. \A k \in Jobs : row[k] <= row'[k] /\ row[k] \in Int /\ row'[k] \in Int
    BY <1>6, NextState DEF Breach
  <2>2. \A k \in Jobs, m \in Deliveries :
          breach'[k][m] = breach[k][m] \/ breach'[k][m].state = 0
    BY <1>6, BoardFacts, DeliveryNumbered, AnnouncesBecomes DEF Breach
  <2>3. \A k \in Jobs, m \in Deliveries :
          breach'[k][m].state = breach[k][m].state \/ breach'[k][m].state <= row'[k]
    BY <1>0, <2>1, <2>2
  <2> QED  BY <1>0, <1>6, <2>1, <2>3, NotAheadStep DEF Breach, browser
<1>7. ASSUME NEW j \in Jobs, NEW n \in Deliveries,
             Redeliver(j, n) \/ ReadBreached(j, n) \/ EscalationLost(j, n)
      PROVE  NotAhead'
  <2>1. PICK s \in State : s = row[j]
    BY DEF TypeOK, Board
  <2>2. \A k \in Jobs, m \in Deliveries :
          \/ breach'[k][m] = breach[k][m]
          \/ breach'[k][m].state = 0
          \/ k = j /\ breach'[k][m].state = s
    BY <1>7, <2>1, BoardFacts, AnnouncesBecomes DEF Redeliver, ReadBreached, EscalationLost
  <2>3. \A k \in Jobs, m \in Deliveries :
          breach'[k][m].state = breach[k][m].state \/ breach'[k][m].state <= row[k]
    BY <1>0, <2>1, <2>2
  <2> QED  BY <1>0, <1>7, <2>3, NotAheadStep DEF Redeliver, ReadBreached, EscalationLost, browser
<1>8. ASSUME NEW j \in Jobs, NEW n \in Deliveries, PublishEscalation(j, n) PROVE NotAhead'
  <2>0. PICK e \in Event : AnnouncedBy(e, j, n)
    BY <1>8, PublishedOn
  <2>1. /\ e.job = j /\ e.state = breach[j][n].state
        /\ \A i \in Instances, k \in Kinds : On(relay'[i][k]) \subseteq On(relay[i][k]) \cup {e}
    BY <2>0 DEF AnnouncedBy
  <2>2. e.state <= row[e.job]
    BY <2>1 DEF NotAhead
  <2>3. \A k \in Jobs, m \in Deliveries :
          breach'[k][m].state = breach[k][m].state \/ breach'[k][m].state <= row[k]
    BY <1>0, <2>0 DEF AnnouncedBy
  <2> QED  BY <1>0, <1>8, <2>1, <2>2, <2>3, NotAheadStep DEF PublishEscalation, browser
<1>9. ASSUME NEW i \in Instances, NEW kind \in Kinds, Receive(i, kind) PROVE NotAhead'
  <2>1. PICK e \in On(relay[i][kind]) :
          /\ \A l \in Instances, k \in Kinds : On(relay'[l][k]) \subseteq On(relay[l][k])
          /\ On(socket') \subseteq On(socket) \cup {e}
    BY <1>9, ReceiveOn
  <2>2. e.state <= row[e.job]
    BY DEF NotAhead
  <2> QED  BY <1>0, <1>9, <2>1, <2>2, NotAheadStep DEF Receive, server, browser
<1>10. ASSUME Deliver PROVE NotAhead'
  <2>1. On(socket') \subseteq On(socket)
    BY <1>10, DeliverOn
  <2> QED  BY <1>0, <1>10, <2>1, NotAheadStep DEF Deliver, server
<1>11. ASSUME ServeCached PROVE NotAhead'
  <2>1. read \in Read /\ read.at \in Instances /\ cache[read.at] \in Board
    BY <1>11, ReadFields DEF ServeCached, TypeOK
  <2>2. PICK b \in Board : b = cache[read.at]
    BY <2>1
  <2>3. read' = [read EXCEPT !.pc = "answered", !.board = b]
    BY <1>11, <2>2 DEF ServeCached
  <2>4. read'.board = cache[read.at]
    <3>1. read'.board = b
      BY <2>1, <2>3, ReadMoved
    <3> QED  BY <2>2, <3>1
  <2>5. \A j \in Jobs : read'.board[j] <= row[j]
    BY <1>11, <2>1, <2>4 DEF NotAhead, ServeCached
  <2> QED  BY <1>0, <1>11, <2>5, NotAheadStep DEF ServeCached, server
<1>12. ASSUME ReadRows PROVE NotAhead'
  <2>1. read \in Read /\ row \in Board /\ read' = [read EXCEPT !.pc = "read", !.board = row]
    BY <1>12 DEF ReadRows, TypeOK
  <2>2. read'.board = row
    BY <2>1, ReadMoved
  <2> QED  BY <1>0, <1>12, <2>2, NotAheadStep DEF ReadRows, server
<1>13. ASSUME FillCache PROVE NotAhead'
  <2>1. read \in Read /\ read' = [read EXCEPT !.pc = "answered"]
    BY <1>13 DEF FillCache, TypeOK
  <2>2. read'.board = read.board /\ read # None
    BY <1>13, <2>1, ReadFilled DEF FillCache
  <2>3. \A i \in Instances : cache'[i] = cache[i] \/ cache'[i] = read.board
    BY <1>13 DEF FillCache, TypeOK
  <2>4. \A j \in Jobs : read.board[j] <= row[j]
    BY <2>2 DEF NotAhead
  <2> QED  BY <1>0, <1>13, <2>2, <2>3, <2>4, NotAheadStep DEF FillCache
<1>14. ASSUME NEW i \in Instances, ExpireCache(i) PROVE NotAhead'
  <2>1. \A l \in Instances : cache'[l] = cache[l] \/ cache'[l] = None
    BY <1>14 DEF ExpireCache, TypeOK
  <2> QED  BY <1>0, <1>14, <2>1, NotAheadStep DEF ExpireCache, browser
<1>15. ASSUME NEW i \in Instances, Poll(i) PROVE NotAhead'
  <2>1. \A j \in Jobs : read'.board[j] <= row[j]
    BY <1>0, <1>15, RequestFields DEF Poll
  <2> QED  BY <1>0, <1>15, <2>1, NotAheadStep DEF Poll, server
<1>16. ASSUME Arrive \/ FetchFails PROVE NotAhead'
  BY <1>0, <1>16, NotAheadStep DEF Arrive, FetchFails, server
<1>17. ASSUME NEW i \in Instances, Reconnect(i) PROVE NotAhead'
  <2>1. \A j \in Jobs : read'.board[j] <= row[j]
    BY <1>0, <1>17, RequestFields DEF Reconnect
  <2>2. \A l \in Instances : cache'[l] = cache[l] \/ (read # None /\ cache'[l] = read.board)
    <3>1. cache' = cache \/ (read # None /\ cache' = [cache EXCEPT ![read.at] = read.board])
      BY <1>17 DEF Reconnect
    <3> QED  BY <3>1 DEF TypeOK
  <2>3. read # None => \A j \in Jobs : read.board[j] <= row[j]
    BY DEF NotAhead
  <2> QED  BY <1>0, <1>17, <2>1, <2>2, <2>3, NotAheadStep DEF Reconnect
<1>18. ASSUME NEW i \in Instances,
              Connect(i) \/ ReconnectBeforeLoad(i) \/ ReconnectAndJoin(i)
       PROVE  NotAhead'
  BY <1>0, <1>18, NotAheadStep DEF Connect, ReconnectBeforeLoad, ReconnectAndJoin, server, browser
<1>19. ASSUME Disconnect PROVE NotAhead'
  <2>1. On(socket') = {}
    BY <1>19, OnEmpty DEF Disconnect
  <2> QED  BY <1>0, <1>19, <2>1, NotAheadStep DEF Disconnect, server
<1>20. ASSUME NEW i \in Instances, Crash(i) PROVE NotAhead'
  <2>1. \A l \in Instances, k \in Kinds : relay'[l][k] \in {relay[l][k], <<>>}
    BY <1>20, CrashBecomes
  <2>2. \A l \in Instances, k \in Kinds : On(relay'[l][k]) \subseteq On(relay[l][k])
    BY <2>1, OnEmpty
  <2>3. On(socket') \subseteq On(socket) /\ hook' \subseteq hook
    BY <1>20, OnEmpty DEF Crash
  <2>4. \A l \in Instances : cache'[l] = cache[l] \/ cache'[l] = None
    BY <1>20 DEF Crash, TypeOK
  <2>5. read' = read \/ \A j \in Jobs : read'.board[j] <= row[j]
    BY <1>0, <1>20, RequestFields DEF Crash
  <2>6. read' = None \/ (read # None /\ read'.board = read.board) \/ \A j \in Jobs : read'.board[j] <= row[j]
    BY <2>5
  <2>7. row' = row /\ breach' = breach
    BY <1>20 DEF Crash
  <2> QED  BY <1>0, <2>2, <2>3, <2>4, <2>6, <2>7, NotAheadStep
<1>21. CASE UNCHANGED vars
  BY <1>0, <1>21, NotAheadStep DEF vars, server, browser
<1>22. CASE Next
  BY <1>1, <1>2, <1>3, <1>4, <1>5, <1>6, <1>7, <1>8, <1>9, <1>10, <1>11, <1>12, <1>13, <1>14,
     <1>15, <1>16, <1>17, <1>18, <1>19, <1>20, <1>22, DeliveryNumbered DEF Next, Serve, Expire, Polling
<1> QED  BY <1>21, <1>22

----------------------------------------------------------------------------
(* The browser is followed *)

\* What carries the state of a job keeps carrying it, if it stays where it is.
LEMMA CarriedStays ==
  ASSUME NEW j \in Jobs, row'[j] = row[j], conn' = conn, conn \in Instances \cup {None},
         \A h \in hook : h.job = j => \E g \in hook' : g.job = h.job /\ g.state = h.state,
         \A n \in Deliveries : breach'[j][n] = breach[j][n] \/ WillCarry(breach'[j][n], j),
         On(socket) \subseteq On(socket'),
         \A i \in Instances, k \in Kinds : On(relay[i][k]) \subseteq On(relay'[i][k]),
         Carried(j)
  PROVE  Carried(j)'
<1>1. \A i \in Instances : CarriedTo(i, j) => CarriedTo(i, j)'
  BY DEF CarriedTo, Carries
<1>2. CASE \E h \in hook : Carries(h, j)
  BY <1>2 DEF Carried, Carries
<1>3. ASSUME NEW n \in Deliveries, WillCarry(breach[j][n], j) PROVE Carried(j)'
  BY <1>3 DEF Carried, WillCarry
<1>4. CASE \E e \in On(socket) : Carries(e, j)
  BY <1>4 DEF Carried, Carries
<1>5. CASE conn # None /\ CarriedTo(conn, j)
  <2>1. PICK c \in Instances : c = conn
    BY <1>5
  <2>2. CarriedTo(c, j)'
    BY <1>1, <1>5, <2>1
  <2> QED  BY <1>5, <2>1, <2>2 DEF Carried, CarriedTo
<1>6. CASE conn = None /\ \A i \in Instances : CarriedTo(i, j)
  BY <1>1, <1>6 DEF Carried
<1> QED  BY <1>2, <1>3, <1>4, <1>5, <1>6 DEF Carried

\* A step of the servers: whatever is not lost is carried, or as it was.
LEMMA FollowedStep ==
  ASSUME Followed, conn' = conn, needsReconcile' = needsReconcile, screen' = screen, read' = read,
         Live => \A j \in Jobs \ lost' :
           Carried(j)' \/ (j \notin lost /\ row'[j] = row[j] /\ (Carried(j) => Carried(j)'))
  PROVE  Followed'
<1> SUFFICES ASSUME Live, NEW j \in Jobs \ lost' PROVE ShownSoon(j)' /\ AnsweredSoon(j)'
  BY DEF Followed, Live
<1>1. CASE Carried(j)'
  BY <1>1 DEF ShownSoon, AnsweredSoon
<1>2. CASE j \notin lost /\ row'[j] = row[j] /\ (Carried(j) => Carried(j)')
  BY <1>2 DEF Followed, ShownSoon, AnsweredSoon
<1> QED  BY <1>1, <1>2

LEMMA FollowedWrites ==
  ASSUME TypeOK, Followed,
         \/ \E i \in Instances, j \in Jobs : Commit(i, j) \/ Replay(i, j)
         \/ \E h \in hook : InvalidateBoardCache(h) \/ PublishFails(h)
         \/ \E j \in Jobs, n \in Deliveries :
              Breach(j) \/ Redeliver(j, n) \/ ReadBreached(j, n) \/ EscalationLost(j, n)
         \/ Expire
  PROVE  Followed'
<1>0. conn \in Instances \cup {None}
  BY DEF TypeOK
<1>1. ASSUME NEW i \in Instances, NEW j \in Jobs, Commit(i, j) PROVE Followed'
  <2>1. row'[j] \in State /\ \A k \in Jobs : k # j => row'[k] = row[k]
    BY <1>1, NextState DEF Commit
  <2>2. PICK s \in State : s = row'[j]
    BY <2>1
  <2>3. hook \subseteq hook' /\ \E h \in hook' : h.job = j /\ h.state = row'[j]
    BY <1>1, <2>2, EnterHookType DEF Commit
  <2>4. Carried(j)'
    BY <2>3 DEF Carried, Carries
  <2>5. \A k \in Jobs : k # j => (Carried(k) => Carried(k)')
    BY <1>0, <1>1, <2>1, <2>3, CarriedStays DEF Commit
  <2> QED  BY <1>1, <2>1, <2>4, <2>5, FollowedStep DEF Commit, browser
<1>2. ASSUME NEW i \in Instances, NEW j \in Jobs, Replay(i, j) PROVE Followed'
  <2>1. hook \subseteq hook'
    BY <1>2 DEF Replay, EnterHook
  <2>2. \A k \in Jobs : Carried(k) => Carried(k)'
    BY <1>0, <1>2, <2>1, CarriedStays DEF Replay
  <2> QED  BY <1>2, <2>2, FollowedStep DEF Replay, browser
<1>3. ASSUME NEW h \in hook, InvalidateBoardCache(h) PROVE Followed'
  <2>1. \A f \in hook : \E g \in hook' : g.job = f.job /\ g.state = f.state
    BY <1>3, HookFields DEF InvalidateBoardCache, TypeOK
  <2>2. \A k \in Jobs : Carried(k) => Carried(k)'
    BY <1>0, <1>3, <2>1, CarriedStays DEF InvalidateBoardCache
  <2> QED  BY <1>3, <2>2, FollowedStep DEF InvalidateBoardCache, browser
<1>4. ASSUME NEW h \in hook, PublishFails(h) PROVE Followed'
  <2>1. \A k \in Jobs \ lost' : k \notin lost /\ k # h.job
    BY <1>4 DEF PublishFails
  <2>2. \A k \in Jobs \ lost' : Carried(k) => Carried(k)'
    BY <1>0, <1>4, <2>1, CarriedStays DEF PublishFails
  <2> QED  BY <1>4, <2>1, <2>2, FollowedStep DEF PublishFails, browser
<1>5. ASSUME NEW j \in Jobs, Breach(j) PROVE Followed'
  <2>1. \A k \in Jobs : k # j => row'[k] = row[k]
    BY <1>5, NextState DEF Breach
  <2>2. /\ breach'[j][1].pc = "due"
        /\ \A k \in Jobs, m \in Deliveries : k # j => breach'[k][m] = breach[k][m]
    BY <1>5, BoardFacts, DeliveryNumbered, AnnouncesBecomes DEF Breach
  <2>3. Carried(j)'
    BY <2>2, DeliveryNumbered DEF Carried, WillCarry
  <2>4. \A k \in Jobs : k # j => (Carried(k) => Carried(k)')
    BY <1>0, <1>5, <2>1, <2>2, CarriedStays DEF Breach
  <2> QED  BY <1>5, <2>1, <2>3, <2>4, FollowedStep DEF Breach, browser
<1>6. ASSUME NEW j \in Jobs, NEW n \in Deliveries, Redeliver(j, n) \/ ReadBreached(j, n)
      PROVE  Followed'
  <2>1. PICK s \in State : s = row[j]
    BY DEF TypeOK, Board
  <2>2. /\ breach'[j][n].pc = "due" \/ (breach'[j][n].pc = "read" /\ breach'[j][n].state = row[j])
        /\ \A k \in Jobs, m \in Deliveries : ~(k = j /\ m = n) => breach'[k][m] = breach[k][m]
    BY <1>6, <2>1, BoardFacts, AnnouncesBecomes DEF Redeliver, ReadBreached
  <2>3. \A k \in Jobs, m \in Deliveries :
          breach'[k][m] = breach[k][m] \/ WillCarry(breach'[k][m], k)
    BY <2>2 DEF WillCarry
  <2>4. \A k \in Jobs : Carried(k) => Carried(k)'
    BY <1>0, <1>6, <2>3, CarriedStays DEF Redeliver, ReadBreached
  <2> QED  BY <1>6, <2>4, FollowedStep DEF Redeliver, ReadBreached, browser
<1>7. ASSUME NEW j \in Jobs, NEW n \in Deliveries, EscalationLost(j, n) PROVE Followed'
  <2>1. \A k \in Jobs, m \in Deliveries : k # j => breach'[k][m] = breach[k][m]
    BY <1>7, BoardFacts, AnnouncesBecomes DEF EscalationLost
  <2>2. \A k \in Jobs \ lost' : k \notin lost /\ k # j
    BY <1>7 DEF EscalationLost
  <2>3. \A k \in Jobs \ lost' : Carried(k) => Carried(k)'
    BY <1>0, <1>7, <2>1, <2>2, CarriedStays DEF EscalationLost
  <2> QED  BY <1>7, <2>2, <2>3, FollowedStep DEF EscalationLost, browser
<1>8. ASSUME NEW i \in Instances, ExpireCache(i) PROVE Followed'
  <2>1. \A k \in Jobs : Carried(k) => Carried(k)'
    BY <1>0, <1>8, CarriedStays DEF ExpireCache
  <2> QED  BY <1>8, <2>1, FollowedStep DEF ExpireCache, browser
<1> QED  BY <1>1, <1>2, <1>3, <1>4, <1>5, <1>6, <1>7, <1>8 DEF Expire

\* An update that is published is on the browser's connection or on its way to
\* where it is connected; one that was never connected has lost it.
LEMMA FollowedPublish ==
  ASSUME TypeOK, Followed, NEW h \in hook, Publish(h)
  PROVE  Followed'
<1>0. conn \in Instances \cup {None} /\ row' = row /\ breach' = breach /\ conn' = conn
      /\ needsReconcile' = needsReconcile /\ screen' = screen /\ read' = read
  BY DEF TypeOK, Publish, browser
<1>1. PICK e \in Event :
        /\ e.kind = "job.updated" /\ e.job = h.job /\ e.state = h.state
        /\ h.at \in Instances /\ h.job \in Jobs /\ h.state \in Int
        /\ hook' = hook \ {h} /\ lost' = lost \cup Unheard(e)
        /\ \A i \in Instances, k \in Kinds :
             On(relay'[i][k]) = IF i # h.at /\ k = e.kind THEN On(relay[i][k]) \cup {e}
                                ELSE On(relay[i][k])
        /\ conn = h.at => On(socket') = On(socket) \cup {e}
        /\ conn # h.at => socket' = socket
  BY PublishOn
<1>2. On(socket) \subseteq On(socket')
      /\ \A i \in Instances, k \in Kinds : On(relay[i][k]) \subseteq On(relay'[i][k])
  BY <1>1
<1>3. ASSUME NEW j \in Jobs \ lost', Live, Carried(j) PROVE Carried(j)'
  <2>1. CASE Carries(h, j)
    <3>1. h.job = j /\ conn # None /\ Carries(e, j)'
      BY <1>0, <1>1, <1>3, <2>1 DEF Carries, Unheard, NeverConnected, Live
    <3>2. CASE conn = h.at
      BY <1>1, <3>1, <3>2 DEF Carried
    <3>3. CASE conn # h.at
      <4>1. e.kind \in Kinds /\ e \in On(relay'[conn][e.kind])
        BY <1>0, <1>1, <3>1, <3>3 DEF Kinds
      <4> QED  BY <1>0, <3>1, <4>1 DEF Carried, CarriedTo
    <3> QED  BY <3>2, <3>3
  <2>2. CASE ~Carries(h, j)
    <3>1. CASE h.job # j
      BY <1>0, <1>1, <1>2, <1>3, <3>1, CarriedStays
    <3>2. CASE h.job = j
      <4>1. CASE \E g \in hook : Carries(g, j)
        <5>1. \E g \in hook' : Carries(g, j)'
          BY <1>0, <1>1, <2>2, <4>1 DEF Carries
        <5> QED  BY <5>1 DEF Carried
      <4>2. CASE \E n \in Deliveries : WillCarry(breach[j][n], j)
        BY <1>0, <4>2 DEF Carried, WillCarry
      <4>3. CASE \E x \in On(socket) : Carries(x, j)
        BY <1>0, <1>2, <4>3 DEF Carried, Carries
      <4>4. CASE conn # None /\ CarriedTo(conn, j)
        BY <1>0, <1>2, <4>4 DEF Carried, CarriedTo, Carries
      <4>5. CASE conn = None /\ \A i \in Instances : CarriedTo(i, j)
        BY <1>0, <1>2, <4>5 DEF Carried, CarriedTo, Carries
      <4> QED  BY <1>3, <4>1, <4>2, <4>3, <4>4, <4>5 DEF Carried
    <3> QED  BY <3>1, <3>2
  <2> QED  BY <2>1, <2>2
<1> QED  BY <1>0, <1>1, <1>3, FollowedStep

LEMMA FollowedEscalation ==
  ASSUME TypeOK, Followed, NEW j \in Jobs, NEW n \in Deliveries, PublishEscalation(j, n)
  PROVE  Followed'
<1>0. /\ conn \in Instances \cup {None} /\ row' = row /\ conn' = conn /\ hook' = hook
      /\ socket' = socket /\ lost' = lost
      /\ needsReconcile' = needsReconcile /\ screen' = screen /\ read' = read
  BY DEF TypeOK, PublishEscalation, browser
<1>e. PICK e \in Event : AnnouncedBy(e, j, n)
  BY PublishedOn
<1>1. /\ e \in Event
      /\ e.kind = "job.escalated" /\ e.job = j /\ e.state = breach[j][n].state
      /\ breach[j][n].pc = "read" /\ breach'[j][n].state = 0
      /\ \A l \in Jobs, m \in Deliveries : ~(l = j /\ m = n) => breach'[l][m] = breach[l][m]
      /\ \A i \in Instances, k \in Kinds :
           On(relay'[i][k]) = IF k = e.kind THEN On(relay[i][k]) \cup {e} ELSE On(relay[i][k])
  BY <1>e DEF AnnouncedBy
<1>2. \A i \in Instances, k \in Kinds : On(relay[i][k]) \subseteq On(relay'[i][k])
  BY <1>1
<1>3. \A l \in Jobs : l # j => (Carried(l) => Carried(l)')
  BY <1>0, <1>1, <1>2, CarriedStays
<1>4. ASSUME Carried(j) PROVE Carried(j)'
  <2>1. CASE breach[j][n].state = row[j]
    <3>1. e.kind \in Kinds /\ Carries(e, j)'
      BY <1>0, <1>1, <2>1 DEF Carries, Kinds
    <3>2. \A i \in Instances : CarriedTo(i, j)'
      BY <1>1, <3>1 DEF CarriedTo
    <3> QED  BY <1>0, <3>2 DEF Carried, CarriedTo
  <2>2. CASE \E g \in hook : Carries(g, j)
    BY <1>0, <2>2 DEF Carried, Carries
  <2>3. CASE \E x \in On(socket) : Carries(x, j)
    BY <1>0, <2>3 DEF Carried, Carries
  <2>4. CASE conn # None /\ CarriedTo(conn, j)
    BY <1>0, <1>2, <2>4 DEF Carried, CarriedTo, Carries
  <2>5. CASE conn = None /\ \A i \in Instances : CarriedTo(i, j)
    BY <1>0, <1>2, <2>5 DEF Carried, CarriedTo, Carries
  <2>6. ASSUME NEW m \in Deliveries, WillCarry(breach[j][m], j) PROVE Carried(j)'
    <3>1. CASE m = n
      BY <1>1, <2>1, <2>6, <3>1 DEF WillCarry
    <3>2. CASE m # n
      BY <1>0, <1>1, <2>6, <3>2 DEF WillCarry, Carried
    <3> QED  BY <3>1, <3>2
  <2> QED  BY <1>4, <2>2, <2>3, <2>4, <2>5, <2>6 DEF Carried
<1> QED  BY <1>0, <1>3, <1>4, FollowedStep

LEMMA FollowedReceive ==
  ASSUME TypeOK, Followed, NEW i \in Instances, NEW kind \in Kinds, Receive(i, kind)
  PROVE  Followed'
<1>0. /\ conn \in Instances \cup {None} /\ row' = row /\ conn' = conn /\ hook' = hook /\ breach' = breach
      /\ needsReconcile' = needsReconcile /\ screen' = screen /\ read' = read
  BY DEF TypeOK, Receive, server, browser
<1>1. PICK e \in On(relay[i][kind]) :
        /\ e \in Event /\ e.job \in Jobs /\ lost' = lost \cup Unheard(e)
        /\ On(relay[i][kind]) = On(relay'[i][kind]) \cup {e}
        /\ \A l \in Instances, k \in Kinds : ~(l = i /\ k = kind) => relay'[l][k] = relay[l][k]
        /\ conn = i => On(socket') = On(socket) \cup {e}
        /\ conn # i => socket' = socket
  BY ReceiveOn
<1>2. On(socket) \subseteq On(socket')
  BY <1>1
<1>3. ASSUME NEW j \in Jobs \ lost', Live, Carried(j) PROVE Carried(j)'
  <2>1. CASE \E g \in hook : Carries(g, j)
    BY <1>0, <2>1 DEF Carried, Carries
  <2>2. CASE \E n \in Deliveries : WillCarry(breach[j][n], j)
    BY <1>0, <2>2 DEF Carried, WillCarry
  <2>3. CASE \E x \in On(socket) : Carries(x, j)
    BY <1>0, <1>2, <2>3 DEF Carried, Carries
  <2>4. CASE conn # None /\ CarriedTo(conn, j)
    <3>0. PICK k \in Kinds : \E x \in On(relay[conn][k]) : Carries(x, j)
      BY <2>4 DEF CarriedTo
    <3>1. PICK x \in On(relay[conn][k]) : Carries(x, j)
      BY <3>0
    <3>2. Carries(x, j)'
      BY <1>0, <3>1 DEF Carries
    <3>3. CASE conn = i /\ k = kind /\ x = e
      BY <1>1, <3>2, <3>3 DEF Carried
    <3>4. CASE ~(conn = i /\ k = kind /\ x = e)
      <4>1. x \in On(relay'[conn][k])
        BY <1>0, <1>1, <2>4, <3>1, <3>4
      <4> QED  BY <1>0, <2>4, <3>2, <4>1 DEF Carried, CarriedTo
    <3> QED  BY <3>3, <3>4
  <2>5. CASE conn = None /\ \A l \in Instances : CarriedTo(l, j)
    <3>1. j # e.job
      BY <1>1, <1>3, <2>5 DEF Unheard, NeverConnected, Live
    <3>2. ASSUME NEW l \in Instances PROVE CarriedTo(l, j)'
      <4>0. PICK k \in Kinds : \E x \in On(relay[l][k]) : Carries(x, j)
        BY <2>5 DEF CarriedTo
      <4>1. PICK x \in On(relay[l][k]) : Carries(x, j)
        BY <4>0
      <4>2. x # e /\ Carries(x, j)'
        BY <1>0, <3>1, <4>1 DEF Carries
      <4>3. x \in On(relay'[l][k])
        BY <1>1, <4>1, <4>2
      <4> QED  BY <4>2, <4>3 DEF CarriedTo
    <3> QED  BY <1>0, <2>5, <3>2 DEF Carried
  <2> QED  BY <1>3, <2>1, <2>2, <2>3, <2>4, <2>5 DEF Carried
<1> QED  BY <1>0, <1>1, <1>3, FollowedStep

\* An event that arrives shows its job as it is, or replaces an older state
\* while another one is carried.
LEMMA FollowedDeliver ==
  ASSUME TypeOK, NotAhead, Followed, Deliver
  PROVE  Followed'
<1>0. /\ conn \in Instances \cup {None} /\ row' = row /\ conn' = conn /\ hook' = hook
      /\ breach' = breach /\ relay' = relay /\ conn # None
      /\ needsReconcile' = needsReconcile /\ read' = read
  BY DEF TypeOK, Deliver, server
<1>1. PICK e \in On(socket) :
        /\ e \in Event /\ e.job \in Jobs /\ e.state \in Int
        /\ On(socket) = On(socket') \cup {e}
        /\ screen' = Patched(screen, e)
        /\ lost' = IF screen # None /\ e.state = row[e.job] THEN lost \ {e.job}
                   ELSE IF screen = None \/ e.state < screen[e.job] THEN lost \cup {e.job}
                   ELSE lost
  BY DeliverOn
<1>2. \/ screen = None /\ screen' = None
      \/ /\ screen # None /\ screen' # None /\ screen'[e.job] = e.state
         /\ \A l \in Jobs : l # e.job => screen'[l] = screen[l]
  <2>1. CASE screen = None
    BY <1>1, <2>1 DEF Patched
  <2>2. CASE screen # None
    <3>1. screen' = [screen EXCEPT ![e.job] = e.state] /\ screen \in Board
      BY <1>1, <2>2 DEF Patched, TypeOK
    <3>2. e.state \in State
      BY <1>1, EventFields
    <3>3. screen' \in Board
      BY <1>1, <3>1, <3>2 DEF Board
    <3> QED  BY <1>1, <2>2, <3>1, <3>3, BoardFacts DEF Board
  <2> QED  BY <2>1, <2>2
<1>3. ASSUME NEW j \in Jobs, ~Carries(e, j), Carried(j) PROVE Carried(j)'
  <2>1. CASE \E x \in On(socket) : Carries(x, j)
    <3>1. \E x \in On(socket') : Carries(x, j)'
      BY <1>0, <1>1, <1>3, <2>1 DEF Carries
    <3> QED  BY <3>1 DEF Carried
  <2>2. CASE \E h \in hook : Carries(h, j)
    BY <1>0, <2>2 DEF Carried, Carries
  <2>3. CASE \E n \in Deliveries : WillCarry(breach[j][n], j)
    BY <1>0, <2>3 DEF Carried, WillCarry
  <2>4. CASE conn # None /\ CarriedTo(conn, j)
    BY <1>0, <2>4 DEF Carried, CarriedTo, Carries
  <2> QED  BY <1>0, <1>3, <2>1, <2>2, <2>3, <2>4 DEF Carried
<1> SUFFICES ASSUME NEW j \in Jobs \ lost' PROVE ShownSoon(j)' /\ AnsweredSoon(j)'
  BY DEF Followed
<1>4. CASE j # e.job
  <2>1. ~Carries(e, j) /\ j \notin lost
    BY <1>1, <1>4 DEF Carries
  <2>2. ShownSoon(j) /\ AnsweredSoon(j) /\ (Carried(j) => Carried(j)')
    BY <1>0, <1>3, <2>1 DEF Followed, Live
  <2> QED  BY <1>0, <1>2, <1>4, <2>2 DEF ShownSoon, AnsweredSoon
<1>5. CASE j = e.job
  <2>1. screen # None /\ screen' # None /\ screen'[j] = e.state
    BY <1>1, <1>2, <1>5
  <2>2. row[j] \in Int /\ e.state <= row[j] /\ screen[j] \in Int
        /\ (read # None => read.board[j] \in Int /\ read.board[j] <= row[j])
    BY <1>1, <1>5, <2>1, Numbers DEF NotAhead
  <2>3. CASE e.state = row[j]
    BY <1>0, <2>1, <2>2, <2>3 DEF ShownSoon, AnsweredSoon
  <2>4. CASE e.state # row[j]
    <3>1. e.state >= screen[j] /\ j \notin lost /\ ~Carries(e, j)
      BY <1>1, <1>5, <2>1, <2>2, <2>4 DEF Carries
    <3>2. ShownSoon(j) /\ AnsweredSoon(j) /\ (Carried(j) => Carried(j)')
      BY <1>0, <1>3, <3>1 DEF Followed, Live
    <3>3. screen[j] # row[j]
      BY <1>1, <2>2, <2>4, <3>1
    <3>4. read # None /\ read.board[j] < screen[j] => read.board[j] < screen'[j]
      BY <1>1, <2>1, <2>2, <3>1
    <3> QED  BY <1>0, <2>1, <3>2, <3>3, <3>4 DEF ShownSoon, AnsweredSoon
  <2> QED  BY <2>3, <2>4
<1> QED  BY <1>4, <1>5

\* Nothing else is on its way, or less.
LEMMA CarriedUnchanged ==
  ASSUME NEW j \in Jobs, UNCHANGED <<hook, breach, row, socket, relay, conn>>
  PROVE  Carried(j)' <=> Carried(j)
BY DEF Carried, CarriedTo, Carries, WillCarry

LEMMA FollowedReads ==
  ASSUME TypeOK, NotAhead, Followed, Serve \/ Polling \/ Arrive \/ FetchFails
  PROVE  Followed'
<1>0. /\ row' = row /\ conn' = conn /\ needsReconcile' = needsReconcile
      /\ UNCHANGED <<hook, breach, row, socket, relay, conn>>
  BY DEF Serve, Polling, Poll, Arrive, FetchFails, ServeCached, ReadRows, FillCache, server
<1>1. \A j \in Jobs : Carried(j)' <=> Carried(j)
  BY <1>0, CarriedUnchanged
<1> SUFFICES ASSUME Live, NEW j \in Jobs \ lost' PROVE ShownSoon(j)' /\ AnsweredSoon(j)'
  BY <1>0 DEF Followed, Live
<1>2. ASSUME ServeCached PROVE ShownSoon(j)' /\ AnsweredSoon(j)'
  <2>1. read \in Read /\ read # None /\ read.at \in Instances /\ screen' = screen
        /\ cache[read.at] \in Board /\ cache[read.at] # None
    BY <1>2, ReadFields DEF ServeCached, TypeOK
  <2>2. read' # None /\ read'.board = cache[read.at]
    <3>1. PICK b \in Board : b = cache[read.at]
      BY <2>1
    <3>2. read' = [read EXCEPT !.pc = "answered", !.board = b]
      BY <1>2, <3>1 DEF ServeCached
    <3>3. read' \in Read /\ read'.board = b
      BY <2>1, <3>2, ReadMoved
    <3> QED  BY <3>1, <3>3, ReadFields
  <2>3. j \notin lost /\ ~(cache[read.at][j] < row[j])
    BY <1>2 DEF ServeCached
  <2>4. cache[read.at][j] \in Int /\ row[j] \in Int /\ cache[read.at][j] <= row[j]
    BY <2>1, Numbers DEF NotAhead
  <2>5. read'.board[j] = row[j]
    BY <2>2, <2>3, <2>4
  <2>6. ShownSoon(j)
    BY <2>3 DEF Followed
  <2> QED  BY <1>0, <1>1, <2>1, <2>2, <2>5, <2>6 DEF ShownSoon, AnsweredSoon
<1>3. ASSUME ReadRows PROVE ShownSoon(j)' /\ AnsweredSoon(j)'
  <2>1. read \in Read /\ read # None /\ screen' = screen /\ lost' = lost /\ row \in Board
    BY <1>3 DEF ReadRows, TypeOK
  <2>2. read' # None /\ read'.board = row
    <3>1. read' = [read EXCEPT !.pc = "read", !.board = row]
      BY <1>3 DEF ReadRows
    <3>2. read' \in Read /\ read'.board = row
      BY <2>1, <3>1, ReadMoved
    <3> QED  BY <3>2, ReadFields
  <2>3. ShownSoon(j)
    BY <2>1 DEF Followed
  <2> QED  BY <1>0, <1>1, <2>1, <2>2, <2>3 DEF ShownSoon, AnsweredSoon
<1>4. ASSUME FillCache PROVE ShownSoon(j)' /\ AnsweredSoon(j)'
  <2>1. read \in Read /\ read # None /\ screen' = screen /\ lost' = lost /\ read.pc = "read"
    BY <1>4 DEF FillCache, TypeOK
  <2>2. read' # None /\ read'.board = read.board
    BY <1>4, <2>1, ReadFilled, ReadFields DEF FillCache
  <2>3. ShownSoon(j) /\ AnsweredSoon(j)
    BY <2>1 DEF Followed
  <2> QED  BY <1>0, <1>1, <2>1, <2>2, <2>3 DEF ShownSoon, AnsweredSoon
<1>5. ASSUME NEW i \in Instances, Poll(i) PROVE ShownSoon(j)' /\ AnsweredSoon(j)'
  <2>1. read' # None /\ read'.pc = "sent" /\ screen' = screen /\ lost' = lost /\ read = None
    BY <1>5, RequestFields, ReadFields DEF Poll
  <2>2. ShownSoon(j)
    BY <2>1 DEF Followed
  <2> QED  BY <1>0, <1>1, <2>1, <2>2 DEF ShownSoon, AnsweredSoon
<1>6. ASSUME Arrive PROVE ShownSoon(j)' /\ AnsweredSoon(j)'
  <2>1. read # None /\ read.pc = "answered" /\ screen' = read.board /\ read' = None
        /\ lost' = (lost \cup {k \in Jobs : screen # None /\ read.board[k] < screen[k]})
                     \ {k \in Jobs : read.board[k] = row[k]}
    BY <1>6 DEF Arrive
  <2>2. CASE read.board[j] = row[j]
    BY <1>0, <2>1, <2>2 DEF ShownSoon, AnsweredSoon
  <2>3. CASE read.board[j] # row[j]
    <3>1. j \notin lost /\ ~(screen # None /\ read.board[j] < screen[j])
      BY <2>1, <2>3
    <3>2. Carried(j)
      BY <2>1, <2>3, <3>1 DEF Followed, AnsweredSoon
    <3> QED  BY <1>1, <3>2 DEF ShownSoon, AnsweredSoon
  <2> QED  BY <2>2, <2>3
<1>7. ASSUME FetchFails PROVE ShownSoon(j)' /\ AnsweredSoon(j)'
  <2>1. read' = None /\ screen' = screen /\ conn = None /\ j \notin lost
    BY <1>7 DEF FetchFails
  <2>2. ShownSoon(j)
    BY <2>1 DEF Followed
  <2> QED  BY <1>0, <1>1, <2>1, <2>2 DEF ShownSoon, AnsweredSoon
<1> QED  BY <1>2, <1>3, <1>4, <1>5, <1>6, <1>7 DEF Serve, Polling

\* A connection is made to one process; before it, an event goes to all.
LEMMA FollowedConnects ==
  ASSUME TypeOK, Followed, NEW i \in Instances,
         Connect(i) \/ Reconnect(i) \/ ReconnectBeforeLoad(i) \/ ReconnectAndJoin(i)
  PROVE  Followed'
<1>0. i # None
  OBVIOUS
<1>1. ASSUME Connect(i) PROVE Followed'
  <2>1. /\ row' = row /\ hook' = hook /\ breach' = breach /\ relay' = relay /\ socket' = socket
        /\ screen' = screen /\ read' = read /\ lost' = lost /\ conn' = i
        /\ conn = None /\ ~needsReconcile
    BY <1>1 DEF Connect, NeverConnected, server, browser
  <2>2. ASSUME NEW j \in Jobs, Carried(j) PROVE Carried(j)'
    <3>1. CASE \A l \in Instances : CarriedTo(l, j)
      <4>1. CarriedTo(i, j)'
        BY <2>1, <3>1 DEF CarriedTo, Carries
      <4> QED  BY <1>0, <2>1, <4>1 DEF Carried, CarriedTo
    <3>2. CASE \E h \in hook : Carries(h, j)
      BY <2>1, <3>2 DEF Carried, Carries
    <3>3. CASE \E n \in Deliveries : WillCarry(breach[j][n], j)
      BY <2>1, <3>3 DEF Carried, WillCarry
    <3>4. CASE \E e \in On(socket) : Carries(e, j)
      BY <2>1, <3>4 DEF Carried, Carries
    <3> QED  BY <2>1, <2>2, <3>1, <3>2, <3>3, <3>4 DEF Carried
  <2> SUFFICES ASSUME NEW j \in Jobs \ lost PROVE ShownSoon(j)' /\ AnsweredSoon(j)'
    BY <2>1 DEF Followed
  <2>3. ShownSoon(j) /\ AnsweredSoon(j)
    BY <2>1 DEF Followed, Live
  <2> QED  BY <2>1, <2>2, <2>3 DEF ShownSoon, AnsweredSoon
<1>2. ASSUME Reconnect(i) PROVE Followed'
  <2>1. conn' = i /\ screen' = screen /\ read' # None /\ read'.pc = "sent"
    BY <1>2, RequestFields, ReadFields DEF Reconnect
  <2> QED  BY <1>0, <2>1 DEF Followed, ShownSoon, AnsweredSoon
<1>3. ASSUME ReconnectBeforeLoad(i) \/ ReconnectAndJoin(i) PROVE Followed'
  BY <1>3 DEF ReconnectBeforeLoad, ReconnectAndJoin, Followed
<1> QED  BY <1>1, <1>2, <1>3

\* A process that dies loses what it has not published, and what a browser
\* that was never connected would have heard there.
LEMMA FollowedCrash ==
  ASSUME TypeOK, Followed, NEW i \in Instances, Crash(i)
  PROVE  Followed'
<1>1. /\ row' = row /\ breach' = breach /\ screen' = screen
      /\ hook' = hook \ {h \in hook : h.at = i}
      /\ lost' = lost \cup {h.job : h \in {g \in hook : g.at = i}}
                   \cup (IF NeverConnected THEN {e.job : e \in Pending(i)} ELSE {})
      /\ read' = IF read # None /\ read.at = i THEN Request(i) ELSE read
  BY DEF Crash
<1>2. /\ conn = i => conn' = None /\ needsReconcile'
      /\ conn # i => conn' = conn /\ socket' = socket /\ needsReconcile' = needsReconcile
  BY DEF Crash
<1>3. \A l \in Instances : l # i => relay'[l] = relay[l]
  BY CrashBecomes
<1> SUFFICES ASSUME Live', NEW j \in Jobs \ lost' PROVE ShownSoon(j)' /\ AnsweredSoon(j)'
  BY DEF Followed
<1>4. conn # i /\ conn' = conn /\ socket' = socket /\ Live /\ j \notin lost
  BY <1>1, <1>2 DEF Live
<1>5. \A h \in hook : h.job = j => h \in hook'
  BY <1>1
<1>6. ASSUME Carried(j) PROVE Carried(j)'
  <2>1. CASE \E h \in hook : Carries(h, j)
    BY <1>1, <1>5, <2>1 DEF Carried, Carries
  <2>2. CASE \E n \in Deliveries : WillCarry(breach[j][n], j)
    BY <1>1, <2>2 DEF Carried, WillCarry
  <2>3. CASE \E e \in On(socket) : Carries(e, j)
    BY <1>1, <1>4, <2>3 DEF Carried, Carries
  <2>4. CASE conn # None /\ CarriedTo(conn, j)
    <3>1. relay'[conn] = relay[conn]
      BY <1>3, <1>4, <2>4 DEF TypeOK
    <3> QED  BY <1>1, <1>4, <2>4, <3>1 DEF Carried, CarriedTo, Carries
  <2>5. CASE conn = None /\ \A l \in Instances : CarriedTo(l, j)
    <3>1. PICK k \in Kinds : \E e \in On(relay[i][k]) : Carries(e, j)
      BY <2>5 DEF CarriedTo
    <3>2. PICK e \in On(relay[i][k]) : Carries(e, j)
      BY <3>1
    <3>3. e \in Pending(i) /\ e.job = j
      BY <3>2, PendingAre DEF Carries
    <3>4. NeverConnected
      BY <1>4, <2>5 DEF Live, NeverConnected
    <3> QED  BY <1>1, <3>3, <3>4
  <2> QED  BY <1>6, <2>1, <2>2, <2>3, <2>4, <2>5 DEF Carried
<1>7. ShownSoon(j) /\ AnsweredSoon(j)
  BY <1>4 DEF Followed
<1>8. CASE read # None /\ read.at = i
  <2>1. read' # None /\ read'.pc = "sent"
    BY <1>1, <1>8, RequestFields, ReadFields
  <2> QED  BY <1>1, <1>4, <1>6, <1>7, <1>8, <2>1 DEF ShownSoon, AnsweredSoon
<1>9. CASE ~(read # None /\ read.at = i)
  <2>1. read' = read
    BY <1>1, <1>9
  <2> QED  BY <1>1, <1>4, <1>6, <1>7, <2>1 DEF ShownSoon, AnsweredSoon
<1> QED  BY <1>8, <1>9

LEMMA FollowedInit == Init => Followed
BY DEF Init, Followed, ShownSoon, AnsweredSoon

LEMMA FollowedNext == TypeOK /\ NotAhead /\ Followed /\ [Next]_vars => Followed'
<1> SUFFICES ASSUME TypeOK, NotAhead, Followed, [Next]_vars PROVE Followed'
  OBVIOUS
<1>1. ASSUME Disconnect PROVE Followed'
  BY <1>1 DEF Disconnect, Followed, Live
<1>2. CASE UNCHANGED vars
  BY <1>2 DEF vars, server, browser, Followed, Live, ShownSoon, AnsweredSoon, Carried, CarriedTo,
              Carries, WillCarry
<1>3. CASE Next
  BY <1>1, <1>3, DeliveryNumbered, FollowedWrites, FollowedPublish, FollowedEscalation, FollowedReceive,
     FollowedDeliver, FollowedReads, FollowedConnects, FollowedCrash DEF Next
<1> QED  BY <1>2, <1>3

----------------------------------------------------------------------------
(* The theorems *)

LEMMA LiveInit == Init => LiveInv
BY TypeInit, AnnouncedInit, OneEscalationInit, NotAheadInit, FollowedInit DEF LiveInv

LEMMA LiveNext == LiveInv /\ [Next]_vars => LiveInv'
<1> SUFFICES ASSUME LiveInv, [Next]_vars PROVE LiveInv'
  OBVIOUS
<1> QED  BY TypeNext, AnnouncedNext, OneEscalationNext, NotAheadNext, FollowedNext DEF LiveInv

\* The board, the queues and the browser as above, in every reachable state.
THEOREM SpecLiveInv == Spec => []LiveInv
BY LiveInit, LiveNext, PTL DEF Spec

\* The types; and the guard of the reconciliation is up only while its read is
\* under way (use-realtime.js, reconcileInFlight).
THEOREM SpecTypeOK == Spec => []TypeOK
<1>1. LiveInv => TypeOK
  BY DEF LiveInv
<1> QED  BY <1>1, SpecLiveInv, PTL

\* Of each announcement of a breach one copy is on its way to the browser,
\* however many processes hear the bridge (socket-server.js) and however often
\* the breach is announced (sla-check.js).
THEOREM SpecNoEscalationTwice == Spec => []NoEscalationTwice
<1>1. LiveInv => NoEscalationTwice
  <2> SUFFICES ASSUME LiveInv, conn # None
               PROVE  Once(relay[conn]["job.escalated"] \o socket)
    BY DEF NoEscalationTwice, Once, Escalation
  <2>1. conn \in Instances /\ socket \in Seq(Event)
    BY DEF LiveInv, TypeOK
  <2>2. PICK q \in Seq(Event) : q = relay[conn]["job.escalated"]
    BY <2>1 DEF LiveInv, TypeOK, Kinds
  <2>3. /\ Once(q) /\ Once(socket)
        /\ \A j \in Jobs, d \in DeliveryNumbers : ~(EscalationOn(q, j, d) /\ EscalationOn(socket, j, d))
    BY <2>1, <2>2 DEF LiveInv, OneEscalation
  <2>4. Once(q \o socket)
    BY <2>1, <2>3, OnceConcat
  <2> QED  BY <2>2, <2>4
<1> QED  BY <1>1, SpecLiveInv, PTL

\* A connected browser that has nothing on its way shows what the tables hold,
\* except for the jobs whose update the push has lost or an answer took back.
THEOREM SpecStaleOnlyIfLost == Spec => []StaleOnlyIfLost
<1>1. LiveInv => StaleOnlyIfLost
  <2> SUFFICES ASSUME LiveInv, conn # None, screen # None, Quiet, NEW j \in Jobs \ lost
               PROVE  screen[j] = row[j]
    BY DEF StaleOnlyIfLost
  <2>1. conn \in Instances
    BY DEF LiveInv, TypeOK
  <2>2. /\ hook = {} /\ Pending(conn) = {} /\ socket = <<>> /\ read = None
        /\ \A n \in Deliveries : breach[j][n].pc \in {"none", "done"}
    BY DEF Quiet
  <2>3. ~CarriedTo(conn, j)
    <3>1. \A k \in Kinds : On(relay[conn][k]) = {}
      BY <2>1, <2>2, PendingAre
    <3> QED  BY <3>1 DEF CarriedTo
  <2>4. ~Carried(j)
    BY <2>2, <2>3, OnEmpty DEF Carried, WillCarry
  <2> QED  BY <2>2, <2>4 DEF LiveInv, Followed, Live, ShownSoon
<1> QED  BY <1>1, SpecLiveInv, PTL

=============================================================================
