--------------------------- MODULE SessionsProofs ---------------------------
(***************************************************************************)
(* Proofs about sign-ins and the rotation of refresh tokens, for any       *)
(* number of tabs of the browser and of tokens.                            *)
(***************************************************************************)
EXTENDS Sessions, TLAPS, FiniteSetTheorems

----------------------------------------------------------------------------
(* The inductive invariant *)

\* Tokens are numbered without gaps, and a family is named by its first token.
TokensInOrder == \E n \in 0..MaxTokens : Created = 1..n
FamiliesNamed ==
  \A k \in Created : row[k].family \in Created /\ row[row[k].family].family = row[k].family

Waits(t) == call[t] # None
Sets(t) == Waits(t) /\ call[t].sets # None

\* What a request carries, creates and answers with fits its kind and progress.
CallFits(c) ==
  /\ c.with \in Created \cup {None} /\ c.sets \in Created \cup {None}
  /\ c.kind # "refresh" => c.pc \in {"sent", "answered"}
  /\ c.kind = "refresh" /\ c.pc \notin {"sent", "answered"} => c.with # None
  /\ c.kind = "refresh" /\ c.pc = "replace" => c.sets # None
  /\ c.kind = "refresh" /\ c.sets # None =>
       c.with # None /\ c.pc \in {"replace", "answered"} /\ row[c.sets].family = row[c.with].family
  /\ c.kind = "logout" \/ c.pc = "sent" => c.sets = None
CallsFit == \A t \in Tabs : Waits(t) => CallFits(call[t])

\* A new token is not in use until its answer arrives, so nobody replaces it.
UsableUnlessSpoilt(k) == Live(k) \/ row[k].family \in spoilt
NewTokensFresh ==
  \A t \in Tabs : Sets(t) =>
    /\ UsableUnlessSpoilt(call[t].sets)
    /\ cookie # call[t].sets
    /\ \A u \in Tabs : Waits(u) =>
         call[u].with # call[t].sets /\ (u # t => call[u].sets # call[t].sets)

\* A cookie whose token was replaced waits for the answer that replaces it.
Replacing(t, k) ==
  Sets(t) /\ call[t].kind = "refresh" /\ call[t].pc = "answered" /\ call[t].with = k
CookieFollowed ==
  cookie # None => UsableUnlessSpoilt(cookie) \/ \E t \in Tabs : Replacing(t, cookie)

RefreshCounted ==
  \A t \in Tabs : refreshes[t] <= 1 /\ (~refreshAttempted[t] => refreshes[t] = 0)

SessionInv ==
  /\ TypeOK
  /\ TokensInOrder
  /\ FamiliesNamed
  /\ CallsFit
  /\ NewTokensFresh
  /\ CookieFollowed
  /\ RefreshCounted

----------------------------------------------------------------------------
(* Types, and what a request becomes *)

DataType ==
  /\ row \in [Tokens -> Row \cup {None}]
  /\ cookie \in Created \cup {None}
  /\ call \in [Tabs -> Call \cup {None}]
  /\ spoilt \subseteq Created
  /\ \A k \in Created : row[k].replaced => row[k].revoked
BrowserType ==
  /\ socket \in [Tabs -> {"up", "down", "off"}]
  /\ access \in [Tabs -> BOOLEAN] /\ refreshAttempted \in [Tabs -> BOOLEAN]
  /\ refreshes \in [Tabs -> Nat]

DataInv ==
  DataType /\ TokensInOrder /\ FamiliesNamed /\ CallsFit /\ NewTokensFresh /\ CookieFollowed

LEMMA SplitInv == SessionInv <=> DataInv /\ BrowserType /\ RefreshCounted
BY DEF SessionInv, TypeOK, DataInv, DataType, BrowserType

LEMMA CallTyped ==
  ASSUME DataInv, NEW t \in Tabs, Waits(t)
  PROVE  call[t] \in Call /\ CallFits(call[t])
BY DEF DataInv, DataType, Waits, CallsFit

LEMMA CreatedTyped ==
  ASSUME DataInv, NEW k \in Created
  PROVE  /\ k \in Tokens /\ k # None
         /\ row[k] \in Row /\ row[k] # None /\ row[k].family \in Created
BY SessionsAssumption DEF DataInv, DataType, Created, FamiliesNamed

\* The fields of a request that moves on.
Becomes(t, pc, sets) ==
  /\ call' \in [Tabs -> Call \cup {None}]
  /\ call'[t] \in Call /\ call'[t] # None
  /\ call'[t].kind = call[t].kind /\ call'[t].with = call[t].with
  /\ call'[t].pc = pc /\ call'[t].sets = sets
  /\ \A u \in Tabs \ {t} : call'[u] = call[u]

LEMMA ProceedBecomes ==
  ASSUME DataInv, NEW t \in Tabs, Waits(t),
         NEW pc \in {"sent", "reused", "create", "replace", "answered"}, Proceed(t, pc)
  PROVE  Becomes(t, pc, call[t].sets)
<1> DEFINE c == call[t]
           next == [c EXCEPT !.pc = pc]
<1>1. c \in Call /\ call \in [Tabs -> Call \cup {None}]
  BY CallTyped DEF DataInv, DataType
<1>2. /\ next \in Call /\ next.kind = c.kind /\ next.with = c.with /\ next.sets = c.sets
      /\ next.pc = pc
  BY <1>1 DEF Call
<1>3. next # None
  BY <1>2, SessionsAssumption
<1>4. call' = [call EXCEPT ![t] = next]
  BY DEF Proceed
<1> HIDE DEF next
<1> QED
  BY <1>1, <1>2, <1>3, <1>4 DEF Becomes

LEMMA SetsBecomes ==
  ASSUME DataInv, NEW t \in Tabs, Waits(t),
         NEW pc \in {"sent", "reused", "create", "replace", "answered"},
         NEW s \in Tokens \cup {None},
         call' = [call EXCEPT ![t].pc = pc, ![t].sets = s]
  PROVE  Becomes(t, pc, s)
<1> DEFINE c == call[t]
           half == [c EXCEPT !.pc = pc]
           next == [half EXCEPT !.sets = s]
<1>1. c \in Call /\ call \in [Tabs -> Call \cup {None}]
  BY CallTyped DEF DataInv, DataType
<1>2. half \in Call /\ half.kind = c.kind /\ half.with = c.with /\ half.pc = pc
  BY <1>1 DEF Call
<1>3. call' = [call EXCEPT ![t] = next]
  BY <1>1
<1> HIDE DEF half
<1>4. /\ next \in Call /\ next.kind = c.kind /\ next.with = c.with /\ next.sets = s
      /\ next.pc = pc
  BY <1>2 DEF Call
<1>5. next # None
  BY <1>4, SessionsAssumption
<1> HIDE DEF next
<1> QED
  BY <1>1, <1>3, <1>4, <1>5 DEF Becomes

LEMMA AnswerBecomes ==
  ASSUME DataInv, NEW t \in Tabs, Waits(t), NEW s \in Tokens \cup {None}, Answer(t, s)
  PROVE  Becomes(t, "answered", s)
BY SetsBecomes DEF Answer

----------------------------------------------------------------------------
(* Steps that change no row *)

LEMMA StayPreserves ==
  ASSUME DataInv, UNCHANGED <<row, cookie, call, spoilt>>
  PROVE  DataInv'
BY DEF DataInv, DataType, TokensInOrder, FamiliesNamed, CallsFit, CallFits, NewTokensFresh,
       CookieFollowed, Created, Live, Waits, Sets, UsableUnlessSpoilt, Replacing

\* A request is sent, or goes on without a new token.
LEMMA QuietCall ==
  ASSUME DataInv, UNCHANGED <<row, cookie, spoilt>>, NEW t \in Tabs,
         call' \in [Tabs -> Call \cup {None}], call'[t] # None,
         \A u \in Tabs \ {t} : call'[u] = call[u],
         Waits(t) => call[t].sets = None,
         call'[t].sets = None,
         call'[t].with = cookie \/ (Waits(t) /\ call'[t].with = call[t].with),
         CallFits(call'[t])
  PROVE  DataInv'
<1>1. Created' = Created
  BY DEF Created
<1>2. DataType'
  BY <1>1 DEF DataInv, DataType
<1>3. TokensInOrder' /\ FamiliesNamed'
  BY <1>1 DEF DataInv, TokensInOrder, FamiliesNamed
<1>4. CallsFit'
  BY <1>1 DEF DataInv, CallsFit, CallFits, Waits
<1>5. \A u \in Tabs : Sets(u)' => u # t /\ Sets(u) /\ call'[u] = call[u]
  BY DEF Sets, Waits
<1>6. NewTokensFresh'
  <2> SUFFICES ASSUME NEW u \in Tabs, Sets(u)'
               PROVE  /\ UsableUnlessSpoilt(call[u].sets)'
                      /\ cookie # call'[u].sets
                      /\ \A v \in Tabs : Waits(v)' =>
                           call'[v].with # call'[u].sets /\ (v # u => call'[v].sets # call'[u].sets)
    BY DEF NewTokensFresh
  <2>1. u # t /\ Sets(u) /\ call'[u] = call[u] /\ call[u].sets # None
    BY <1>5 DEF Sets
  <2>2. UsableUnlessSpoilt(call[u].sets)'
    BY <2>1 DEF DataInv, NewTokensFresh, UsableUnlessSpoilt, Live
  <2>3. ASSUME NEW v \in Tabs, Waits(v)'
        PROVE  call'[v].with # call'[u].sets /\ (v # u => call'[v].sets # call'[u].sets)
    BY <2>1, <2>3 DEF DataInv, NewTokensFresh, Waits
  <2> QED
    BY <2>1, <2>2, <2>3 DEF DataInv, NewTokensFresh
<1>7. CookieFollowed'
  BY DEF DataInv, CookieFollowed, UsableUnlessSpoilt, Live, Replacing, Sets, Waits
<1> QED
  BY <1>2, <1>3, <1>4, <1>6, <1>7 DEF DataInv

----------------------------------------------------------------------------
(* A new row *)

LEMMA NextTokenFresh ==
  ASSUME DataInv
  PROVE  \E n \in 0..MaxTokens : Created = 1..n /\ NextToken = n + 1 /\ NextToken \notin Created
<1>1. PICK n \in 0..MaxTokens : Created = 1..n
  BY DEF DataInv, TokensInOrder
<1>2. Cardinality(1..n) = n
  BY FS_Interval, SessionsAssumption
<1> QED
  <2>1. NextToken = n + 1
    BY <1>1, <1>2 DEF NextToken
  <2>2. n + 1 \notin 1..n
    BY SessionsAssumption
  <2> QED
    BY <1>1, <2>1, <2>2

LEMMA CreateEffect ==
  ASSUME DataInv, NextToken \in Tokens, NEW f \in Tokens, Create(f)
  PROVE  /\ row' \in [Tokens -> Row \cup {None}]
         /\ Created' = Created \cup {NextToken} /\ NextToken \notin Created
         /\ \A k \in Tokens \ {NextToken} : row'[k] = row[k]
         /\ row'[NextToken].family = f /\ ~row'[NextToken].revoked /\ ~row'[NextToken].replaced
         /\ row'[NextToken] # None
<1> DEFINE new == [family |-> f, revoked |-> FALSE, replaced |-> FALSE]
<1>1. NextToken \notin Created
  BY NextTokenFresh
<1>2. new \in Row /\ new.family = f /\ ~new.revoked /\ ~new.replaced
  BY DEF Row
<1>3. new # None
  BY <1>2, SessionsAssumption
<1>4. row' = [row EXCEPT ![NextToken] = new] /\ row \in [Tokens -> Row \cup {None}]
  BY DEF Create, DataInv, DataType
<1>5. /\ row'[NextToken] = new /\ row' \in [Tokens -> Row \cup {None}]
      /\ \A k \in Tokens \ {NextToken} : row'[k] = row[k]
  BY <1>2, <1>4
<1> HIDE DEF new
<1> QED
  BY <1>1, <1>2, <1>3, <1>5 DEF Created

LEMMA GrowPreserves ==
  ASSUME DataInv, NEW t \in Tabs, Waits(t), call[t].sets = None,
         NextToken \in Tokens, NEW f \in Tokens, Create(f), UNCHANGED <<cookie, spoilt>>,
         f = NextToken \/ (f \in Created /\ row[f].family = f),
         NEW pc, Becomes(t, pc, NextToken),
         \/ call[t].kind = "login" /\ pc = "answered"
         \/ /\ call[t].kind = "refresh" /\ pc = "replace" /\ call[t].with # None
            /\ row[call[t].with].family = f
  PROVE  DataInv'
<1> DEFINE n == NextToken
<1>1. /\ row' \in [Tokens -> Row \cup {None}]
      /\ Created' = Created \cup {n} /\ n \notin Created
      /\ \A k \in Tokens \ {n} : row'[k] = row[k]
      /\ row'[n].family = f /\ ~row'[n].revoked /\ ~row'[n].replaced /\ row'[n] # None
  BY CreateEffect
<1>2. /\ \A k \in Created : k \in Created' /\ row'[k] = row[k]
      /\ Created \subseteq Tokens /\ None \notin Tokens /\ n # None /\ n \in Created'
  BY <1>1, SessionsAssumption DEF Created
<1>3. PICK m \in 0..MaxTokens : Created = 1..m /\ n = m + 1
  BY NextTokenFresh
<1> HIDE DEF n
<1>4. DataType'
  BY <1>1, <1>2 DEF DataInv, DataType, Becomes
<1>5. TokensInOrder'
  <2>1. m + 1 \in 0..MaxTokens /\ Created' = 1..(m + 1)
    BY <1>1, <1>2, <1>3, SessionsAssumption DEF Tokens, n
  <2> QED
    BY <2>1 DEF TokensInOrder
<1>6. f \in Created' /\ row'[f].family = f
  BY <1>1, <1>2 DEF n
<1>7. FamiliesNamed'
  BY <1>1, <1>2, <1>6 DEF DataInv, FamiliesNamed
<1>8. \A u \in Tabs \ {t} : call'[u] = call[u]
  BY DEF Becomes
<1>9. \A u \in Tabs : Waits(u) => /\ call[u].with # n /\ call[u].sets # n
                                  /\ call[u].with \in Created \cup {None}
                                  /\ call[u].sets \in Created \cup {None}
  BY <1>1, <1>2, CallTyped DEF CallFits
<1>10. CallFits(call[t])'
  BY <1>1, <1>2, <1>9 DEF Becomes, CallFits, n
<1>11. ASSUME NEW u \in Tabs \ {t}, Waits(u) PROVE CallFits(call[u])'
  <2>1. CallFits(call[u]) /\ call'[u] = call[u]
    BY <1>8, <1>11, CallTyped
  <2> QED
    BY <1>2, <1>9, <1>11, <2>1 DEF CallFits
<1>12. CallsFit'
  BY <1>8, <1>10, <1>11 DEF CallsFit, Waits
<1>13. \A k \in Created : UsableUnlessSpoilt(k) => UsableUnlessSpoilt(k)'
  BY <1>2 DEF UsableUnlessSpoilt, Live
<1>15. cookie \in Created \cup {None}
  BY DEF DataInv, DataType
<1>16. NewTokensFresh'
  <2>1. ASSUME NEW u \in Tabs, Sets(u)'
        PROVE  UsableUnlessSpoilt(call[u].sets)' /\ cookie' # call'[u].sets
    <3>1. CASE u = t
      BY <1>1, <1>2, <1>15, <3>1 DEF Becomes, n, UsableUnlessSpoilt, Live
    <3>2. CASE u # t
      <4>1. call'[u] = call[u] /\ Sets(u) /\ call[u].sets \in Created
        BY <1>8, <1>9, <2>1, <3>2 DEF Sets, Waits
      <4>2. UsableUnlessSpoilt(call[u].sets) /\ cookie # call[u].sets
        BY <4>1 DEF DataInv, NewTokensFresh
      <4> QED
        BY <1>13, <4>1, <4>2 DEF UsableUnlessSpoilt, Live
    <3> QED
      BY <3>1, <3>2
  <2>2. ASSUME NEW u \in Tabs, Sets(u)', NEW v \in Tabs, Waits(v)'
        PROVE  call'[v].with # call'[u].sets /\ (v # u => call'[v].sets # call'[u].sets)
    <3>1. CASE u = t
      <4>1. call'[u].sets = n
        BY <3>1 DEF Becomes, n
      <4>2. call'[v].with = call[v].with /\ Waits(v) /\ (v # t => call'[v].sets = call[v].sets)
        BY <1>8, <2>2 DEF Becomes, Waits
      <4> QED
        BY <1>9, <3>1, <4>1, <4>2
    <3>2. CASE u # t
      <4>1. call'[u] = call[u] /\ Sets(u)
        BY <1>8, <2>2, <3>2 DEF Sets, Waits
      <4>2. call'[v].with = call[v].with /\ Waits(v)
        BY <1>8, <2>2 DEF Becomes, Waits
      <4>3. call[v].with # call[u].sets /\ (v # u => call[v].sets # call[u].sets)
        BY <4>1, <4>2 DEF DataInv, NewTokensFresh
      <4>4. CASE v = t
        BY <1>9, <4>1, <4>2, <4>3, <4>4 DEF Becomes, n, Sets
      <4>5. CASE v # t
        BY <1>8, <4>1, <4>3, <4>5
      <4> QED
        BY <4>4, <4>5
    <3> QED
      BY <3>1, <3>2
  <2> QED
    BY <2>1, <2>2 DEF NewTokensFresh
<1>17. CookieFollowed'
  <2> SUFFICES ASSUME cookie # None
               PROVE  UsableUnlessSpoilt(cookie)' \/ \E u \in Tabs : Replacing(u, cookie)'
    BY DEF CookieFollowed
  <2>1. CASE UsableUnlessSpoilt(cookie)
    BY <1>2, <1>15, <2>1 DEF UsableUnlessSpoilt, Live
  <2>2. CASE \E u \in Tabs : Replacing(u, cookie)
    BY <1>8, <2>2 DEF Replacing, Sets, Waits
  <2> QED
    BY <2>1, <2>2 DEF DataInv, CookieFollowed
<1> QED
  BY <1>4, <1>5, <1>7, <1>12, <1>16, <1>17 DEF DataInv

----------------------------------------------------------------------------
(* Rows are revoked or replaced, answers arrive or are lost *)

\* An answered or refused request sets no token: what else the invariant says
\* of the other requests is a matter of which tokens stay usable.
LEMMA AnswerNone ==
  ASSUME DataInv, NEW t \in Tabs, Waits(t), call[t].sets = None, Becomes(t, "answered", None),
         UNCHANGED cookie,
         row' \in [Tokens -> Row \cup {None}], Created' = Created,
         \A k \in Created : row'[k].family = row[k].family,
         \A k \in Created : row'[k].replaced => row'[k].revoked,
         spoilt' \subseteq Created,
         \A k \in Created : UsableUnlessSpoilt(k) => UsableUnlessSpoilt(k)'
  PROVE  DataInv'
<1>1. \A u \in Tabs \ {t} : call'[u] = call[u]
  BY DEF Becomes
<1>2. DataType'
  BY DEF DataInv, DataType, Becomes
<1>3. TokensInOrder' /\ FamiliesNamed'
  BY DEF DataInv, TokensInOrder, FamiliesNamed
<1>4. CallsFit'
  <2>1. CallFits(call[t])'
    BY CallTyped DEF Becomes, CallFits
  <2>2. ASSUME NEW u \in Tabs \ {t}, Waits(u)' PROVE CallFits(call[u])'
    <3>1. CallFits(call[u]) /\ call'[u] = call[u]
      BY <1>1, <2>2, CallTyped DEF Waits
    <3> QED
      BY <3>1 DEF CallFits
  <2> QED
    BY <2>1, <2>2 DEF CallsFit
<1>5. \A u \in Tabs : Sets(u)' => u # t /\ Sets(u) /\ call'[u] = call[u]
  BY <1>1 DEF Sets, Waits, Becomes
<1>6. \A v \in Tabs : Waits(v)' => Waits(v) /\ call'[v].with = call[v].with
                                   /\ (call'[v].sets = call[v].sets \/ call'[v].sets = None)
  BY <1>1 DEF Waits, Becomes
<1>7. NewTokensFresh'
  <2> SUFFICES ASSUME NEW u \in Tabs, Sets(u)'
               PROVE  /\ UsableUnlessSpoilt(call[u].sets)'
                      /\ cookie' # call'[u].sets
                      /\ \A v \in Tabs : Waits(v)' =>
                           call'[v].with # call'[u].sets /\ (v # u => call'[v].sets # call'[u].sets)
    BY DEF NewTokensFresh
  <2>1. Sets(u) /\ call'[u] = call[u] /\ call[u].sets \in Created /\ call[u].sets # None
    BY <1>5, CallTyped DEF Sets, CallFits
  <2>2. UsableUnlessSpoilt(call[u].sets)'
    BY <2>1 DEF DataInv, NewTokensFresh, UsableUnlessSpoilt, Live
  <2> QED
    BY <1>6, <2>1, <2>2 DEF DataInv, NewTokensFresh
<1>8. CookieFollowed'
  <2> SUFFICES ASSUME cookie # None
               PROVE  UsableUnlessSpoilt(cookie)' \/ \E u \in Tabs : Replacing(u, cookie)'
    BY DEF CookieFollowed
  <2>1. cookie \in Created
    BY DEF DataInv, DataType
  <2>2. CASE UsableUnlessSpoilt(cookie)
    BY <2>1, <2>2 DEF UsableUnlessSpoilt, Live
  <2>3. CASE \E u \in Tabs : Replacing(u, cookie)
    BY <1>1, <2>3 DEF Replacing, Sets, Waits
  <2> QED
    BY <2>2, <2>3 DEF DataInv, CookieFollowed
<1> QED
  BY <1>2, <1>3, <1>4, <1>7, <1>8 DEF DataInv

\* Revoking a family that is signed out.
LEMMA RevokePreserves ==
  ASSUME DataInv, NEW t \in Tabs, Waits(t), call[t].sets = None, Answer(t, None),
         UNCHANGED cookie, NEW f \in Created, Revoke(f), spoilt' = spoilt \cup {f}
  PROVE  DataInv'
<1>1. \A k \in Tokens : row'[k] = IF Live(k) /\ row[k].family = f
                                    THEN [row[k] EXCEPT !.revoked = TRUE] ELSE row[k]
  BY DEF Revoke
<1>2. ASSUME NEW k \in Tokens, row[k] # None
      PROVE  /\ row'[k] \in Row /\ row'[k].family = row[k].family
             /\ (row'[k].replaced <=> row[k].replaced) /\ (row[k].revoked => row'[k].revoked)
             /\ (row[k].family # f => row'[k] = row[k])
  <2> DEFINE x == [row[k] EXCEPT !.revoked = TRUE]
  <2>1. row[k] \in Row
    BY <1>2 DEF DataInv, DataType
  <2>2. x \in Row /\ x.family = row[k].family /\ (x.replaced <=> row[k].replaced) /\ x.revoked
    BY <2>1 DEF Row
  <2>3. (row'[k] = x /\ row[k].family = f) \/ row'[k] = row[k]
    BY <1>1
  <2> HIDE DEF x
  <2> QED
    BY <2>1, <2>2, <2>3
<1>3. row' \in [Tokens -> Row \cup {None}] /\ Created' = Created
  <2>1. \A k \in Tokens : row[k] = None => row'[k] = None
    BY <1>1 DEF Live
  <2>2. row' = [k \in Tokens |-> row'[k]]
    BY DEF Revoke
  <2> QED
    BY <1>2, <2>1, <2>2, SessionsAssumption DEF Created
<1>4. \A k \in Created : row'[k].family = row[k].family /\ (row'[k].replaced => row'[k].revoked)
  BY <1>2 DEF DataInv, DataType, Created
<1>5. \A k \in Created : UsableUnlessSpoilt(k) => UsableUnlessSpoilt(k)'
  BY <1>2, <1>4 DEF UsableUnlessSpoilt, Live, Created
<1>6. Becomes(t, "answered", None)
  BY AnswerBecomes
<1>7. spoilt' \subseteq Created
  BY DEF DataInv, DataType
<1> QED
  BY <1>3, <1>4, <1>5, <1>6, <1>7, AnswerNone

\* The row of a rotated token; its family's other tokens, the successor among
\* them, are not touched.
LEMMA MarkPreserves ==
  ASSUME DataInv, NEW t \in Tabs, MarkReplaced(t)
  PROVE  DataInv'
<1> DEFINE k == call[t].with
           s == call[t].sets
<1>1. Waits(t) /\ call[t] \in Call /\ CallFits(call[t])
      /\ call[t].kind = "refresh" /\ call[t].pc = "replace"
  BY CallTyped DEF MarkReplaced, At, Waits
<1>2. k \in Created /\ s \in Created /\ k # None /\ s # None /\ row[s].family = row[k].family
  BY <1>1, SessionsAssumption DEF CallFits, Created
<1>3. Becomes(t, "answered", s)
  BY <1>1, <1>2, AnswerBecomes DEF MarkReplaced, Call
<1>4. /\ row' \in [Tokens -> Row \cup {None}]
      /\ row'[k].family = row[k].family /\ row'[k].revoked /\ row'[k] # None
      /\ \A m \in Tokens \ {k} : row'[m] = row[m]
  <2> DEFINE x == [row[k] EXCEPT !.revoked = TRUE]
             y == [x EXCEPT !.replaced = TRUE]
  <2>1. k \in Tokens /\ row[k] \in Row /\ row \in [Tokens -> Row \cup {None}]
    BY <1>2, CreatedTyped DEF DataInv, DataType
  <2>2. x \in Row /\ x.family = row[k].family /\ x.revoked
    BY <2>1 DEF Row
  <2>3. row' = [row EXCEPT ![k] = y]
    BY <2>1 DEF MarkReplaced
  <2> HIDE DEF x
  <2>4. y \in Row /\ y.family = row[k].family /\ y.revoked
    BY <2>2 DEF Row
  <2>5. y # None
    BY <2>4, SessionsAssumption
  <2> HIDE DEF y
  <2> QED
    BY <2>1, <2>3, <2>4, <2>5
<1>5. UNCHANGED <<cookie, spoilt>> /\ Created \subseteq Tokens /\ k \in Tokens
  BY <1>2 DEF MarkReplaced, Created
<1> HIDE DEF k, s
<1>6. Created' = Created
  BY <1>2, <1>4, <1>5 DEF Created
<1>7. \A m \in Created : row'[m].family = row[m].family
  BY <1>4, <1>5
<1>8. \A m \in Created : m # k /\ UsableUnlessSpoilt(m) => UsableUnlessSpoilt(m)'
  BY <1>4, <1>5 DEF UsableUnlessSpoilt, Live
<1>9. \A u \in Tabs \ {t} : call'[u] = call[u]
  BY <1>3 DEF Becomes
<1>10. \A u \in Tabs : /\ Waits(u)' => Waits(u) /\ call'[u].with = call[u].with
                                       /\ call'[u].sets = call[u].sets
                       /\ Sets(u)' => Sets(u)
  BY <1>1, <1>3, <1>9 DEF Waits, Sets, Becomes, s
<1>11. DataType'
  BY <1>3, <1>4, <1>5, <1>6 DEF DataInv, DataType, Becomes
<1>12. TokensInOrder' /\ FamiliesNamed'
  BY <1>6, <1>7 DEF DataInv, TokensInOrder, FamiliesNamed
<1>13. CallsFit'
  <2>1. CallFits(call[t])'
    BY <1>1, <1>2, <1>3, <1>6, <1>7 DEF Becomes, CallFits, k, s
  <2>2. ASSUME NEW u \in Tabs \ {t}, Waits(u)' PROVE CallFits(call[u])'
    <3>1. CallFits(call[u]) /\ call'[u] = call[u]
      BY <1>9, <2>2, CallTyped DEF Waits
    <3> QED
      BY <1>6, <1>7, <3>1, SessionsAssumption DEF CallFits
  <2> QED
    BY <2>1, <2>2 DEF CallsFit
<1>14. NewTokensFresh'
  <2> SUFFICES ASSUME NEW u \in Tabs, Sets(u)'
               PROVE  /\ UsableUnlessSpoilt(call[u].sets)'
                      /\ cookie' # call'[u].sets
                      /\ \A v \in Tabs : Waits(v)' =>
                           call'[v].with # call'[u].sets /\ (v # u => call'[v].sets # call'[u].sets)
    BY DEF NewTokensFresh
  <2>1. /\ Sets(u) /\ Waits(u) /\ call'[u].sets = call[u].sets
        /\ call[u].sets \in Created /\ call[u].sets # None
    BY <1>10, CallTyped DEF Sets, CallFits, Waits
  <2>2. call[u].sets # k
    BY <1>1, <2>1 DEF DataInv, NewTokensFresh, k
  <2>3. UsableUnlessSpoilt(call[u].sets)
    BY <2>1 DEF DataInv, NewTokensFresh
  <2>4. UsableUnlessSpoilt(call[u].sets)'
    BY <1>8, <2>1, <2>2, <2>3 DEF UsableUnlessSpoilt, Live
  <2> QED
    BY <1>5, <1>10, <2>1, <2>4 DEF DataInv, NewTokensFresh
<1>15. CookieFollowed'
  <2> SUFFICES ASSUME cookie # None
               PROVE  UsableUnlessSpoilt(cookie)' \/ \E u \in Tabs : Replacing(u, cookie)'
    BY <1>5 DEF CookieFollowed
  <2>1. cookie \in Created
    BY DEF DataInv, DataType
  <2>2. CASE cookie = k
    BY <1>1, <1>2, <1>3, <1>5, <2>2 DEF Replacing, Sets, Waits, Becomes, k
  <2>3. CASE cookie # k /\ UsableUnlessSpoilt(cookie)
    BY <1>5, <1>8, <2>1, <2>3 DEF UsableUnlessSpoilt, Live
  <2>4. CASE \E u \in Tabs : Replacing(u, cookie)
    <3>1. PICK u \in Tabs : Replacing(u, cookie)
      BY <2>4
    <3>2. u # t
      BY <1>1, <3>1 DEF Replacing
    <3> QED
      BY <1>5, <1>9, <3>1, <3>2 DEF Replacing, Sets, Waits
  <2> QED
    BY <2>2, <2>3, <2>4 DEF DataInv, CookieFollowed
<1> QED
  BY <1>11, <1>12, <1>13, <1>14, <1>15 DEF DataInv

\* An answer arrives, or the request fails: the tab waits for nothing, and a
\* replaced cookie is either followed by the new one or given up.
LEMMA EndPreserves ==
  ASSUME DataInv, NEW t \in Tabs, Waits(t), call' = [call EXCEPT ![t] = None],
         UNCHANGED row, spoilt \subseteq spoilt', spoilt' \subseteq Created,
         cookie' = cookie \/ (cookie' = call[t].sets /\ call[t].pc = "answered"),
         cookie' = cookie => (cookie # None /\ Replacing(t, cookie) => row[cookie].family \in spoilt')
  PROVE  DataInv'
<1>1. /\ call'[t] = None /\ \A u \in Tabs \ {t} : call'[u] = call[u]
      /\ call' \in [Tabs -> Call \cup {None}]
  BY DEF DataInv, DataType
<1>2. CallFits(call[t])
  BY CallTyped
<1>3. Created' = Created
  BY DEF Created
<1>4. DataType'
  BY <1>1, <1>2, <1>3 DEF DataInv, DataType, CallFits
<1>5. TokensInOrder' /\ FamiliesNamed'
  BY <1>3 DEF DataInv, TokensInOrder, FamiliesNamed
<1>6. CallsFit'
  BY <1>1, <1>3 DEF DataInv, CallsFit, CallFits, Waits
<1>7. \A u \in Tabs : /\ Waits(u)' => u # t /\ Waits(u) /\ call'[u] = call[u]
                      /\ Sets(u)' => u # t /\ Sets(u) /\ call'[u] = call[u]
  BY <1>1 DEF Waits, Sets
<1>8. \A m : UsableUnlessSpoilt(m) => UsableUnlessSpoilt(m)'
  BY DEF UsableUnlessSpoilt, Live
<1>9. NewTokensFresh'
  <2> SUFFICES ASSUME NEW u \in Tabs, Sets(u)'
               PROVE  /\ UsableUnlessSpoilt(call[u].sets)'
                      /\ cookie' # call'[u].sets
                      /\ \A v \in Tabs : Waits(v)' =>
                           call'[v].with # call'[u].sets /\ (v # u => call'[v].sets # call'[u].sets)
    BY DEF NewTokensFresh
  <2>1. u # t /\ Sets(u) /\ call'[u] = call[u] /\ UsableUnlessSpoilt(call[u].sets)
    BY <1>7 DEF DataInv, NewTokensFresh
  <2>2. UsableUnlessSpoilt(call[u].sets)'
    BY <1>8, <2>1 DEF UsableUnlessSpoilt, Live
  <2>3. cookie' # call'[u].sets
    BY <2>1 DEF DataInv, NewTokensFresh
  <2> QED
    BY <1>7, <2>1, <2>2, <2>3 DEF DataInv, NewTokensFresh
<1>10. CookieFollowed'
  <2> SUFFICES ASSUME cookie' # None
               PROVE  UsableUnlessSpoilt(cookie)' \/ \E u \in Tabs : Replacing(u, cookie)'
    BY DEF CookieFollowed
  <2>1. CASE cookie' = cookie
    <3>1. CASE UsableUnlessSpoilt(cookie)
      BY <1>8, <2>1, <3>1 DEF UsableUnlessSpoilt, Live
    <3>2. CASE Replacing(t, cookie)
      BY <2>1, <3>2 DEF UsableUnlessSpoilt
    <3>3. CASE \E u \in Tabs \ {t} : Replacing(u, cookie)
      BY <1>1, <2>1, <3>3 DEF Replacing, Sets, Waits
    <3> QED
      BY <2>1, <3>1, <3>2, <3>3 DEF DataInv, CookieFollowed
  <2>2. CASE cookie' = call[t].sets
    <3>1. UsableUnlessSpoilt(call[t].sets)
      BY <2>2 DEF DataInv, NewTokensFresh, Sets
    <3> QED
      BY <1>8, <2>2, <3>1 DEF UsableUnlessSpoilt, Live
  <2> QED
    BY <2>1, <2>2
<1> QED
  BY <1>4, <1>5, <1>6, <1>9, <1>10 DEF DataInv

----------------------------------------------------------------------------
(* The steps *)

LEMMA SentFits ==
  ASSUME DataInv, NEW kind \in {"login", "refresh", "logout"}
  PROVE  /\ Sent(kind) \in Call /\ Sent(kind) # None /\ Sent(kind).sets = None
         /\ Sent(kind).with = cookie
         /\ CallFits(Sent(kind))
<1>1. cookie \in Created \cup {None} /\ Created \subseteq Tokens
  BY DEF DataInv, DataType, Created
<1>2. Sent(kind) \in Call
  BY <1>1 DEF Sent, Call
<1>3. /\ Sent(kind).kind = kind /\ Sent(kind).pc = "sent" /\ Sent(kind).sets = None
      /\ Sent(kind).with = cookie
  BY DEF Sent
<1> QED
  BY <1>1, <1>2, <1>3, SessionsAssumption DEF CallFits

\* A request is sent: by a person, or by a refused socket.
LEMMA SendPreserves ==
  ASSUME DataInv, NEW t \in Tabs, ~Waits(t), UNCHANGED <<row, cookie, spoilt>>,
         NEW kind \in {"login", "refresh", "logout"}, call' = [call EXCEPT ![t] = Sent(kind)]
  PROVE  DataInv'
<1>1. /\ call'[t] = Sent(kind) /\ call' \in [Tabs -> Call \cup {None}]
      /\ \A u \in Tabs \ {t} : call'[u] = call[u]
  BY SentFits DEF DataInv, DataType
<1> QED
  BY <1>1, SentFits, QuietCall

\* A request that goes on without a new token.
LEMMA OnPreserves ==
  ASSUME DataInv, NEW t \in Tabs, Waits(t), call[t].sets = None, UNCHANGED <<row, cookie, spoilt>>,
         NEW pc, Becomes(t, pc, None),
         call[t].kind # "refresh" => pc = "answered",
         call[t].kind = "refresh" => pc \in {"reused", "create", "answered"},
         pc # "answered" => call[t].with # None
  PROVE  DataInv'
<1>1. CallFits(call[t])
  BY CallTyped
<1>2. CallFits(call'[t])
  BY <1>1 DEF CallFits, Becomes
<1> QED
  BY <1>2, QuietCall DEF Becomes

LEMMA IssuePreserves ==
  ASSUME DataInv, NEW t \in Tabs, IssueRefreshToken(t)
  PROVE  DataInv'
<1>1. Waits(t) /\ call[t].kind = "login" /\ call[t].sets = None
  BY CallTyped DEF IssueRefreshToken, At, Waits, CallFits
<1>2. Becomes(t, "answered", NextToken)
  BY <1>1, AnswerBecomes DEF IssueRefreshToken
<1> QED
  BY <1>1, <1>2, GrowPreserves DEF IssueRefreshToken

LEMMA LogoutPreserves ==
  ASSUME DataInv, NEW t \in Tabs, RevokeFamily(t)
  PROVE  DataInv'
<1>1. Waits(t) /\ call[t].kind = "logout" /\ call[t].sets = None /\ CallFits(call[t])
  BY CallTyped DEF RevokeFamily, At, Waits, CallFits
<1>2. CASE call[t].with = None
  BY <1>1, <1>2, AnswerBecomes, OnPreserves DEF RevokeFamily
<1>3. CASE call[t].with # None
  <2>1. row[call[t].with].family \in Created
    BY <1>1, <1>3, CreatedTyped DEF CallFits
  <2> QED
    BY <1>1, <1>3, <2>1, RevokePreserves DEF RevokeFamily
<1> QED
  BY <1>2, <1>3

LEMMA RotatePreserves ==
  ASSUME DataInv, NEW t \in Tabs, FindToken(t) \/ RevokeReused(t) \/ CreateSuccessor(t)
  PROVE  DataInv'
<1>1. /\ Waits(t) /\ call[t].kind = "refresh" /\ call[t].sets = None /\ CallFits(call[t])
      /\ call[t].pc \in {"sent", "reused", "create"}
  BY CallTyped DEF FindToken, RevokeReused, CreateSuccessor, At, Waits, CallFits
<1>2. CASE FindToken(t)
  <2>1. \/ Answer(t, None)
        \/ call[t].with # None /\ (Proceed(t, "create") \/ Proceed(t, "reused"))
    BY <1>2 DEF FindToken
  <2>2. UNCHANGED <<row, cookie, spoilt>>
    BY <1>2 DEF FindToken
  <2> QED
    BY <1>1, <2>1, <2>2, AnswerBecomes, ProceedBecomes, OnPreserves
<1>3. call[t].pc # "sent" => /\ call[t].with \in Created /\ call[t].with # None
                             /\ row[call[t].with].family \in Created
  BY <1>1, CreatedTyped DEF CallFits
<1>4. CASE RevokeReused(t)
  <2>1. call[t].pc # "sent"
    BY <1>4 DEF RevokeReused, At
  <2> QED
    BY <1>1, <1>3, <1>4, <2>1, RevokePreserves DEF RevokeReused
<1>5. CASE CreateSuccessor(t)
  <2> DEFINE f == row[call[t].with].family
  <2>1. /\ call[t].pc # "sent" /\ NextToken \in Tokens /\ Create(f)
        /\ UNCHANGED <<cookie, spoilt>>
    BY <1>5 DEF CreateSuccessor, At
  <2>2. f \in Created /\ f \in Tokens /\ row[f].family = f
    BY <1>3, <2>1 DEF DataInv, FamiliesNamed, Created
  <2>3. Becomes(t, "replace", NextToken)
    BY <1>1, <1>5, <2>1, SetsBecomes DEF CreateSuccessor
  <2> HIDE DEF f
  <2> QED
    BY <1>1, <1>3, <2>1, <2>2, <2>3, GrowPreserves DEF f
<1> QED
  BY <1>2, <1>4, <1>5

LEMMA ArrivalPreserves ==
  ASSUME DataInv, NEW t \in Tabs, Arrive(t) \/ ArriveRefresh(t)
  PROVE  DataInv'
<1>1. Waits(t) /\ CallFits(call[t]) /\ call[t].pc = "answered"
      /\ call' = [call EXCEPT ![t] = None] /\ UNCHANGED <<row, spoilt>>
  BY CallTyped DEF Arrive, ArriveRefresh, At, Waits
<1>2. spoilt \subseteq spoilt' /\ spoilt' \subseteq Created
  BY <1>1 DEF DataInv, DataType
<1>3. cookie' = call[t].sets \/ (cookie' = cookie /\ call[t].with = None)
  BY DEF Arrive, ArriveRefresh
<1>4. ~(cookie' = cookie /\ cookie # None /\ Replacing(t, cookie))
  <2> SUFFICES ASSUME cookie' = cookie, cookie # None, Replacing(t, cookie) PROVE FALSE
    OBVIOUS
  <2>1. Sets(t) /\ call[t].with = cookie
    BY DEF Replacing
  <2>2. cookie # call[t].sets
    BY <2>1 DEF DataInv, NewTokensFresh
  <2> QED
    BY <1>3, <2>1, <2>2
<1> QED
  BY <1>1, <1>2, <1>3, <1>4, EndPreserves

LEMMA FailPreserves ==
  ASSUME DataInv, NEW t \in Tabs, CallFails(t)
  PROVE  DataInv'
<1> DEFINE c == call[t]
           lost == c.kind = "refresh" /\ c.pc = "answered" /\ c.sets # None
<1>1. Waits(t) /\ CallFits(c) /\ call' = [call EXCEPT ![t] = None] /\ UNCHANGED <<row, cookie>>
  BY CallTyped DEF CallFails, Waits
<1>2. /\ lost => spoilt' = spoilt \cup {row[c.with].family}
      /\ ~lost => spoilt' = spoilt
  BY DEF CallFails
<1>3. lost => row[c.with].family \in Created
  BY <1>1, CreatedTyped DEF CallFits
<1>4. spoilt \subseteq spoilt' /\ spoilt' \subseteq Created
  BY <1>2, <1>3 DEF DataInv, DataType
<1>5. Replacing(t, cookie) => row[cookie].family \in spoilt'
  BY <1>2 DEF Replacing, Sets
<1> QED
  BY <1>1, <1>4, <1>5, EndPreserves

Step(t) ==
  \/ \E kind \in {"login", "logout"} : Submit(t, kind)
  \/ IssueRefreshToken(t) \/ RevokeFamily(t)
  \/ FindToken(t) \/ RevokeReused(t) \/ CreateSuccessor(t) \/ MarkReplaced(t)
  \/ Arrive(t) \/ ArriveRefresh(t) \/ CallFails(t)
  \/ Connected(t) \/ Refused(t) \/ ConnectSocket(t) \/ Disconnect(t) \/ AccessExpires(t)

LEMMA StepPreserves ==
  ASSUME DataInv, NEW t \in Tabs, Step(t)
  PROVE  DataInv'
<1>1. CASE \E kind \in {"login", "logout"} : Submit(t, kind)
  BY <1>1, SendPreserves DEF Submit, Waits
<1>2. CASE IssueRefreshToken(t) \/ RevokeFamily(t)
  BY <1>2, IssuePreserves, LogoutPreserves
<1>3. CASE FindToken(t) \/ RevokeReused(t) \/ CreateSuccessor(t) \/ MarkReplaced(t)
  BY <1>3, RotatePreserves, MarkPreserves
<1>4. CASE Arrive(t) \/ ArriveRefresh(t) \/ CallFails(t)
  BY <1>4, ArrivalPreserves, FailPreserves
<1>5. CASE Refused(t)
  <2>1. UNCHANGED <<row, cookie, spoilt>>
    BY <1>5 DEF Refused
  <2>2. \/ UNCHANGED call
        \/ ~Waits(t) /\ call' = [call EXCEPT ![t] = Sent("refresh")]
    BY <1>5 DEF Refused, Refresh, Waits
  <2> QED
    BY <2>1, <2>2, StayPreserves, SendPreserves
<1>6. CASE Connected(t) \/ ConnectSocket(t) \/ Disconnect(t) \/ AccessExpires(t)
  BY <1>6, StayPreserves DEF Connected, ConnectSocket, Disconnect, AccessExpires
<1> QED
  BY <1>1, <1>2, <1>3, <1>4, <1>5, <1>6 DEF Step

\* Only the socket's own steps count refreshes: one sets the guard, and what
\* clears the guard clears the count.
LEMMA StepBrowser ==
  ASSUME BrowserType, RefreshCounted, DataInv, NEW t \in Tabs, Step(t)
  PROVE  BrowserType' /\ RefreshCounted'
<1>1. CASE UNCHANGED browser
  BY <1>1 DEF browser, BrowserType, RefreshCounted
<1>2. CASE Arrive(t)
  <2>1. access' \in [Tabs -> BOOLEAN]
    BY <1>2 DEF Arrive, BrowserType
  <2>2. CASE UNCHANGED <<socket, refreshAttempted, refreshes>>
    BY <2>1, <2>2 DEF BrowserType, RefreshCounted
  <2>3. CASE /\ socket' = [socket EXCEPT ![t] = "off"]
             /\ refreshAttempted' = [refreshAttempted EXCEPT ![t] = FALSE]
             /\ refreshes' = [refreshes EXCEPT ![t] = 0]
    BY <2>1, <2>3 DEF BrowserType, RefreshCounted
  <2> QED
    BY <1>2, <2>2, <2>3 DEF Arrive
<1>3. CASE ArriveRefresh(t)
  <2> DEFINE ok == call[t].sets # None
  <2>1. access' = [access EXCEPT ![t] = @ \/ ok] /\ UNCHANGED <<refreshAttempted, refreshes>>
        /\ socket' = [socket EXCEPT ![t] = IF @ = "off" /\ ok THEN "down" ELSE @]
    BY <1>3 DEF ArriveRefresh
  <2> HIDE DEF ok
  <2>2. access' \in [Tabs -> BOOLEAN]
    BY <2>1 DEF BrowserType
  <2>3. socket' \in [Tabs -> {"up", "down", "off"}]
    BY <2>1 DEF BrowserType
  <2> QED
    BY <2>1, <2>2, <2>3 DEF BrowserType, RefreshCounted
<1>4. CASE Refused(t)
  <2>1. socket' = [socket EXCEPT ![t] = "off"] /\ UNCHANGED access
    BY <1>4 DEF Refused
  <2>2. CASE refreshAttempted[t] /\ UNCHANGED <<refreshAttempted, refreshes>>
    BY <2>1, <2>2 DEF BrowserType, RefreshCounted
  <2>3. CASE ~refreshAttempted[t] /\ Refresh(t)
    BY <2>1, <2>3 DEF BrowserType, RefreshCounted, Refresh
  <2> QED
    BY <1>4, <2>2, <2>3 DEF Refused
<1>5. CASE Connected(t)
  BY <1>5 DEF Connected, BrowserType, RefreshCounted
<1>6. CASE ConnectSocket(t) \/ Disconnect(t) \/ AccessExpires(t)
  BY <1>6 DEF ConnectSocket, Disconnect, AccessExpires, BrowserType, RefreshCounted
<1> QED
  BY <1>1, <1>2, <1>3, <1>4, <1>5, <1>6
     DEF Step, Submit, IssueRefreshToken, RevokeFamily, FindToken, RevokeReused, CreateSuccessor,
         MarkReplaced, CallFails

LEMMA InitSessionInv == Init => SessionInv
<1> SUFFICES ASSUME Init PROVE SessionInv
  OBVIOUS
<1>1. Created = {} /\ cookie = None /\ spoilt = {} /\ \A t \in Tabs : ~Waits(t)
  BY DEF Init, Created, Waits
<1>2. BrowserType /\ RefreshCounted
  BY DEF Init, BrowserType, RefreshCounted
<1>3. DataType
  BY <1>1 DEF Init, DataType
<1>4. TokensInOrder
  BY <1>1, SessionsAssumption DEF TokensInOrder
<1>5. FamiliesNamed /\ CallsFit /\ NewTokensFresh /\ CookieFollowed
  BY <1>1 DEF FamiliesNamed, CallsFit, NewTokensFresh, CookieFollowed, Sets
<1> QED
  BY <1>2, <1>3, <1>4, <1>5, SplitInv DEF DataInv

LEMMA NextSessionInv == SessionInv /\ [Next]_vars => SessionInv'
<1> SUFFICES ASSUME SessionInv, [Next]_vars PROVE DataInv' /\ BrowserType' /\ RefreshCounted'
  BY DEF SessionInv, TypeOK, DataInv, DataType, BrowserType
<1>1. DataInv /\ BrowserType /\ RefreshCounted
  BY SplitInv
<1>2. ASSUME NEW t \in Tabs, Step(t) PROVE DataInv' /\ BrowserType' /\ RefreshCounted'
  BY <1>1, <1>2, StepPreserves, StepBrowser
<1>3. CASE UNCHANGED vars
  BY <1>1, <1>3, StayPreserves DEF vars, BrowserType, RefreshCounted
<1> QED
  BY <1>2, <1>3 DEF Next, Step

\* The invariant of the sign-in.
THEOREM SpecSessionInv == Spec => []SessionInv
BY InitSessionInv, NextSessionInv, PTL DEF Spec

\* Every variable keeps its type, the cookie names a row, and a row that was
\* replaced is revoked.
THEOREM SpecTypeOK == Spec => []TypeOK
<1>1. SessionInv => TypeOK
  BY DEF SessionInv
<1> QED
  BY <1>1, SpecSessionInv, PTL

\* While no request is under way the cookie can be rotated, unless its family
\* was signed out or the answer of a finished rotation was lost.
THEOREM SpecCookieUsable == Spec => []CookieUsable
<1>1. SessionInv => CookieUsable
  BY DEF SessionInv, CookieFollowed, CookieUsable, UsableUnlessSpoilt, Replacing, Sets, Waits
<1> QED
  BY <1>1, SpecSessionInv, PTL

\* A tab refreshes once per connection cycle, however its requests end.
THEOREM SpecOneRefreshPerCycle == Spec => []OneRefreshPerCycle
<1>1. SessionInv => OneRefreshPerCycle
  BY DEF SessionInv, RefreshCounted, OneRefreshPerCycle
<1> QED
  BY <1>1, SpecSessionInv, PTL

----------------------------------------------------------------------------
(* Ended families *)

\* What a step does to the rows: families stay, no row becomes live again, and
\* a new row continues a family whose rotation is under way, or begins one.
LEMMA RowsOfStep ==
  ASSUME DataInv, NEW t \in Tabs, Step(t)
  PROVE  /\ \A k \in Created : k \in Created' /\ row'[k].family = row[k].family
                               /\ (Live(k)' => Live(k))
         /\ \A m \in Created' : m \in Created \/ row'[m].family = m
              \/ \E f \in Created : row'[m].family = f /\ Rotating(f)
<1>1. CASE UNCHANGED row
  BY <1>1 DEF Created, Live
<1>2. CASE IssueRefreshToken(t)
  BY <1>2, CreateEffect DEF IssueRefreshToken, Live, Created
<1>3. CASE CreateSuccessor(t)
  <2> DEFINE f == row[call[t].with].family
  <2>1. /\ Waits(t) /\ CallFits(call[t]) /\ call[t].kind = "refresh" /\ call[t].pc = "create"
        /\ NextToken \in Tokens /\ Create(f)
    BY <1>3, CallTyped DEF CreateSuccessor, At, Waits
  <2>2. call[t].with # None /\ f \in Created /\ f \in Tokens
    BY <2>1, CreatedTyped DEF CallFits, Created
  <2>3. Rotating(f)
    BY <2>1, <2>2 DEF Rotating, Waits
  <2> HIDE DEF f
  <2> QED
    BY <2>1, <2>2, <2>3, CreateEffect DEF Live, Created
<1>4. ASSUME NEW f, Revoke(f)
      PROVE  Created' = Created /\ \A k \in Created : row'[k].family = row[k].family
                                                      /\ (Live(k)' => Live(k))
  <2>1. \A k \in Tokens : row'[k] = IF Live(k) /\ row[k].family = f
                                      THEN [row[k] EXCEPT !.revoked = TRUE] ELSE row[k]
    BY <1>4 DEF Revoke
  <2>2. ASSUME NEW k \in Created
        PROVE  row'[k] # None /\ row'[k].family = row[k].family /\ (row[k].revoked => row'[k].revoked)
    <3> DEFINE x == [row[k] EXCEPT !.revoked = TRUE]
    <3>1. row[k] \in Row /\ row[k] # None /\ k \in Tokens
      BY CreatedTyped
    <3>2. x \in Row /\ x.family = row[k].family /\ x.revoked
      BY <3>1 DEF Row
    <3>3. row'[k] = x \/ row'[k] = row[k]
      BY <2>1, <3>1
    <3> HIDE DEF x
    <3> QED
      BY <3>1, <3>2, <3>3, SessionsAssumption
  <2>3. \A k \in Tokens : row[k] = None => row'[k] = None
    BY <2>1 DEF Live
  <2> QED
    BY <2>2, <2>3 DEF Created, Live
<1>5. CASE MarkReplaced(t)
  <2> DEFINE k == call[t].with
             x == [row[k] EXCEPT !.revoked = TRUE]
             y == [x EXCEPT !.replaced = TRUE]
  <2>1. Waits(t) /\ CallFits(call[t]) /\ call[t].kind = "refresh" /\ call[t].pc = "replace"
    BY <1>5, CallTyped DEF MarkReplaced, At, Waits
  <2>2. k \in Created /\ k \in Tokens /\ row[k] \in Row /\ row \in [Tokens -> Row \cup {None}]
    BY <2>1, CreatedTyped DEF CallFits, DataInv, DataType
  <2>3. x \in Row /\ x.family = row[k].family /\ x.revoked
    BY <2>2 DEF Row
  <2>4. row' = [row EXCEPT ![k] = y]
    BY <1>5, <2>2 DEF MarkReplaced
  <2> HIDE DEF x
  <2>5. y \in Row /\ y.family = row[k].family /\ y.revoked
    BY <2>3 DEF Row
  <2>6. y # None
    BY <2>5, SessionsAssumption
  <2> HIDE DEF y, k
  <2> QED
    BY <2>2, <2>4, <2>5, <2>6 DEF Created, Live
<1> QED
  BY <1>1, <1>2, <1>3, <1>4, <1>5
     DEF Step, Submit, RevokeFamily, FindToken, RevokeReused, Arrive, ArriveRefresh, CallFails,
         Connected, Refused, ConnectSocket, Disconnect, AccessExpires

\* A rotation begins with a token that is live.
LEMMA RotationsOfStep ==
  ASSUME DataInv, NEW t \in Tabs, Step(t), NEW u \in Tabs,
         Waits(u)', call'[u].kind = "refresh", call'[u].pc = "create", call'[u].with # None
  PROVE  \/ call'[u] = call[u]
         \/ call'[u].with \in Created /\ Live(call'[u].with) /\ UNCHANGED row
<1>1. CASE UNCHANGED call
  BY <1>1
<1>2. CASE call' = [call EXCEPT ![t] = None]
  BY <1>2 DEF DataInv, DataType, Waits
<1>3. ASSUME NEW kind \in {"login", "refresh", "logout"}, call' = [call EXCEPT ![t] = Sent(kind)]
      PROVE  call'[u] = call[u]
  <2>1. Sent(kind).pc = "sent" /\ call \in [Tabs -> Call \cup {None}]
    BY DEF Sent, DataInv, DataType
  <2> QED
    BY <1>3, <2>1
<1>4. ASSUME NEW s \in Tokens \cup {None}, Waits(t), Answer(t, s) PROVE call'[u] = call[u]
  BY <1>4, AnswerBecomes DEF Becomes
<1>5. CASE IssueRefreshToken(t) \/ RevokeFamily(t) \/ RevokeReused(t) \/ MarkReplaced(t)
  <2>1. Waits(t) /\ call[t] \in Call
    BY <1>5, CallTyped DEF IssueRefreshToken, RevokeFamily, RevokeReused, MarkReplaced, At, Waits
  <2>2. \E s \in Tokens \cup {None} : Answer(t, s)
    BY <1>5, <2>1 DEF IssueRefreshToken, RevokeFamily, RevokeReused, MarkReplaced, Call
  <2> QED
    BY <1>4, <2>1, <2>2
<1>6. CASE CreateSuccessor(t)
  <2>1. Waits(t) /\ NextToken \in Tokens
    BY <1>6 DEF CreateSuccessor, At, Waits
  <2>2. Becomes(t, "replace", NextToken)
    BY <1>6, <2>1, SetsBecomes DEF CreateSuccessor
  <2> QED
    BY <2>2 DEF Becomes
<1>7. CASE FindToken(t)
  <2>1. Waits(t) /\ CallFits(call[t]) /\ UNCHANGED row
    BY <1>7, CallTyped DEF FindToken, At, Waits
  <2>2. CASE Answer(t, None)
    BY <1>4, <2>1, <2>2
  <2>3. CASE Proceed(t, "reused")
    BY <2>1, <2>3, ProceedBecomes DEF Becomes
  <2>4. CASE call[t].with # None /\ ~row[call[t].with].revoked /\ Proceed(t, "create")
    <3>1. Becomes(t, "create", call[t].sets)
      BY <2>1, <2>4, ProceedBecomes
    <3>2. Live(call[t].with) /\ call[t].with \in Created
      BY <2>1, <2>4 DEF CallFits, Live, Created
    <3> QED
      BY <2>1, <3>1, <3>2 DEF Becomes
  <2> QED
    BY <1>7, <2>2, <2>3, <2>4 DEF FindToken
<1> QED
  BY <1>1, <1>2, <1>3, <1>5, <1>6, <1>7
     DEF Step, Submit, Arrive, ArriveRefresh, CallFails, Connected, Refused, Refresh,
         ConnectSocket, Disconnect, AccessExpires

LEMMA StaysEnded ==
  ASSUME DataInv, NEW t \in Tabs, Step(t), NEW f \in Created, row[f].family = f, Ended(f)
  PROVE  Ended(f)'
<1>1. f \in Created' /\ row'[f].family = f
  BY RowsOfStep
<1>2. \A k \in Created : row[k].family = f => ~Live(k)
  BY DEF Ended, Family
<1>3. ASSUME NEW k \in Family(f)' PROVE ~Live(k)'
  <2>1. k \in Created' /\ row'[k].family = f
    BY <1>1, <1>3 DEF Family
  <2>2. k \in Created
    BY <2>1, RowsOfStep DEF Ended
  <2> QED
    BY <1>2, <2>1, <2>2, RowsOfStep DEF Live
<1>4. ASSUME Rotating(f)' PROVE FALSE
  <2>1. PICK u \in Tabs : /\ Waits(u)' /\ call'[u].with # None /\ row'[call'[u].with].family = f
                          /\ call'[u].kind = "refresh" /\ call'[u].pc = "create"
    BY <1>4 DEF Rotating, Waits
  <2>2. CASE call'[u] = call[u]
    <3>1. call[u].with \in Created
      BY <2>1, <2>2, CallTyped DEF Waits, CallFits
    <3>2. row[call[u].with].family = f
      BY <2>1, <2>2, <3>1, RowsOfStep
    <3> QED
      BY <2>1, <2>2, <3>2 DEF Ended, Rotating, Waits
  <2>3. CASE call'[u].with \in Created /\ Live(call'[u].with) /\ UNCHANGED row
    BY <1>2, <2>1, <2>3
  <2> QED
    BY <2>1, <2>2, <2>3, RotationsOfStep
<1> QED
  BY <1>3, <1>4 DEF Ended

\* A family that is signed out, or whose reuse was noticed, is never brought
\* back by what a client presents (refresh-tokens.js, rotateRefreshToken).
THEOREM SpecEndedStaysEnded == Spec => EndedStaysEnded
<1>1. SessionInv /\ [Next]_vars =>
        [\A f \in Created : row[f].family = f /\ Ended(f) => Ended(f)']_vars
  <2> SUFFICES ASSUME SessionInv, Next, NEW f \in Created, row[f].family = f, Ended(f)
               PROVE  Ended(f)'
    OBVIOUS
  <2> QED
    BY StaysEnded, SplitInv DEF Next, Step
<1> QED
  BY <1>1, SpecSessionInv, PTL DEF Spec, EndedStaysEnded

=============================================================================
