------------------------------ MODULE Sessions ------------------------------
(***************************************************************************)
(* The sign-in of one user in a browser with several tabs: the rows of its *)
(* refresh tokens, their rotation statement by statement                   *)
(* (server/src/auth/refresh-tokens.js, routes/auth.js), the cookie that    *)
(* the tabs share, and each tab's socket, which refreshes the access token *)
(* once when its handshake is refused (client/src/lib/socket-client.js).   *)
(*                                                                         *)
(* Tokens are numbered as they are created; a family is named by its first *)
(* token.  Their seven days are not modelled.                              *)
(***************************************************************************)
EXTENDS Integers, FiniteSets

CONSTANTS
  Tabs,
  None,
  MaxTokens    \* bound: refresh tokens ever created

Tokens == 1..MaxTokens
Row == [family : Tokens, revoked : BOOLEAN, replaced : BOOLEAN]
\* A request: the cookie it carries, how far the server is with it, the row it
\* creates; when it is "answered", the cookie its answer sets, or None.
Call == [kind : {"login", "refresh", "logout"},
         pc : {"sent", "reused", "create", "replace", "answered"},
         with : Tokens \cup {None}, sets : Tokens \cup {None}]

ASSUME SessionsAssumption == MaxTokens \in Nat /\ None \notin Tokens \cup Row \cup Call

VARIABLES
  row,        \* the RefreshToken rows, None before they are created
  cookie,     \* the browser's refresh cookie, or None
  call,       \* per tab, the request it waits for, or None
  socket,     \* per tab: "up", "down" (it connects again) or "off" (it waits)
  access,     \* per tab: its access token is accepted
  refreshAttempted,
  refreshes,  \* history: refreshes of a tab since it was last connected or logged out
  spoilt      \* history: families signed out, or whose successor never arrived

vars == <<row, cookie, call, socket, access, refreshAttempted, refreshes, spoilt>>
browser == <<socket, access, refreshAttempted, refreshes>>

----------------------------------------------------------------------------
Created == {k \in Tokens : row[k] # None}
Live(k) == row[k] # None /\ ~row[k].revoked
Family(k) == {m \in Created : row[m].family = row[k].family}

\* Types; the cookie names a row, and a row that is replaced is revoked, or its
\* token could be rotated again and its reuse would not be noticed.
TypeOK ==
  /\ row \in [Tokens -> Row \cup {None}]
  /\ cookie \in Created \cup {None}
  /\ call \in [Tabs -> Call \cup {None}]
  /\ socket \in [Tabs -> {"up", "down", "off"}]
  /\ access \in [Tabs -> BOOLEAN] /\ refreshAttempted \in [Tabs -> BOOLEAN]
  /\ refreshes \in [Tabs -> Nat]
  /\ spoilt \subseteq Created
  /\ \A k \in Created : row[k].replaced => row[k].revoked

Init ==
  /\ row = [k \in Tokens |-> None]
  /\ cookie = None
  /\ call = [t \in Tabs |-> None]
  /\ socket = [t \in Tabs |-> "down"]
  /\ access = [t \in Tabs |-> FALSE]
  /\ refreshAttempted = [t \in Tabs |-> FALSE]
  /\ refreshes = [t \in Tabs |-> 0]
  /\ spoilt = {}

----------------------------------------------------------------------------
(* Requests *)

Sent(kind) == [kind |-> kind, pc |-> "sent", with |-> cookie, sets |-> None]

At(t, kind, pc) == call[t] # None /\ call[t].kind = kind /\ call[t].pc = pc
Proceed(t, pc) == call' = [call EXCEPT ![t].pc = pc]
Answer(t, sets) == call' = [call EXCEPT ![t].pc = "answered", ![t].sets = sets]

\* A person signs in, or registers, or signs out; a tab waits for one request
\* at a time.  The screens that ask for it are not written yet (B18 of the plan):
\* the routes are there, and what the client is to do then is in socket-client.js.
Submit(t, kind) ==
  /\ kind \in {"login", "logout"} /\ call[t] = None
  /\ call' = [call EXCEPT ![t] = Sent(kind)]
  /\ UNCHANGED <<row, cookie, browser, spoilt>>

\* The next token, of family f, or of a new one.
NextToken == Cardinality(Created) + 1
Create(f) == row' = [row EXCEPT ![NextToken] = [family |-> f, revoked |-> FALSE, replaced |-> FALSE]]
Revoke(f) ==
  row' = [k \in Tokens |-> IF Live(k) /\ row[k].family = f THEN [row[k] EXCEPT !.revoked = TRUE] ELSE row[k]]

\* loginUser and registerUser issue a token of a new family.
IssueRefreshToken(t) ==
  /\ At(t, "login", "sent") /\ NextToken \in Tokens
  /\ Create(NextToken)
  /\ Answer(t, NextToken)
  /\ UNCHANGED <<cookie, browser, spoilt>>

\* revokeFamily
RevokeFamily(t) ==
  /\ At(t, "logout", "sent")
  /\ IF call[t].with = None
       THEN UNCHANGED <<row, spoilt>>
       ELSE LET f == row[call[t].with].family IN Revoke(f) /\ spoilt' = spoilt \cup {f}
  /\ Answer(t, None)
  /\ UNCHANGED <<cookie, browser>>

----------------------------------------------------------------------------
(* rotateRefreshToken *)

\* Fault: a revoked token is rotated like any other.
FaultyFindToken(t) ==
  /\ At(t, "refresh", "sent")
  /\ IF call[t].with = None THEN Answer(t, None) ELSE Proceed(t, "create")
  /\ UNCHANGED <<row, cookie, browser, spoilt>>

FindToken(t) ==
  LET stored == row[call[t].with] IN
  /\ At(t, "refresh", "sent")
  /\ IF call[t].with = None THEN Answer(t, None)
     ELSE IF ~stored.revoked THEN Proceed(t, "create")
     ELSE IF stored.replaced THEN Proceed(t, "reused")
     ELSE Answer(t, None)
  /\ UNCHANGED <<row, cookie, browser, spoilt>>

RevokeReused(t) ==
  LET f == row[call[t].with].family IN
  /\ At(t, "refresh", "reused")
  /\ Revoke(f)
  /\ spoilt' = spoilt \cup {f}
  /\ Answer(t, None)
  /\ UNCHANGED <<cookie, browser>>

\* Fault: the row is replaced by an earlier statement than the one that
\* creates its successor.
FaultyCreateSuccessor(t) ==
  /\ At(t, "refresh", "create") /\ NextToken \in Tokens
  /\ IF ~row[call[t].with].replaced
       THEN /\ row' = [row EXCEPT ![call[t].with].revoked = TRUE, ![call[t].with].replaced = TRUE]
            /\ UNCHANGED call
       ELSE /\ Create(row[call[t].with].family)
            /\ call' = [call EXCEPT ![t].pc = "replace", ![t].sets = NextToken]
  /\ UNCHANGED <<cookie, browser, spoilt>>

CreateSuccessor(t) ==
  /\ At(t, "refresh", "create") /\ NextToken \in Tokens
  /\ Create(row[call[t].with].family)
  /\ call' = [call EXCEPT ![t].pc = "replace", ![t].sets = NextToken]
  /\ UNCHANGED <<cookie, browser, spoilt>>

\* Fault: the replaced row is not revoked.
FaultyMarkReplaced(t) ==
  /\ At(t, "refresh", "replace")
  /\ row' = [row EXCEPT ![call[t].with].replaced = TRUE]
  /\ Answer(t, call[t].sets)
  /\ UNCHANGED <<cookie, browser, spoilt>>

MarkReplaced(t) ==
  /\ At(t, "refresh", "replace")
  /\ row' = [row EXCEPT ![call[t].with].revoked = TRUE, ![call[t].with].replaced = TRUE]
  /\ Answer(t, call[t].sets)
  /\ UNCHANGED <<cookie, browser, spoilt>>

----------------------------------------------------------------------------
(* Answers, and the socket that waits for them *)

\* The answer of a login or logout: it sets or clears the cookie.
Arrive(t) ==
  /\ call[t] # None /\ call[t].pc = "answered" /\ call[t].kind # "refresh"
  /\ cookie' = call[t].sets
  /\ call' = [call EXCEPT ![t] = None]
  /\ access' = [access EXCEPT ![t] = call[t].kind = "login"]
  /\ IF call[t].kind = "logout"      \* disconnectSocket
       THEN /\ socket' = [socket EXCEPT ![t] = "off"]
            /\ refreshAttempted' = [refreshAttempted EXCEPT ![t] = FALSE]
            /\ refreshes' = [refreshes EXCEPT ![t] = 0]
       ELSE UNCHANGED <<socket, refreshAttempted, refreshes>>
  /\ UNCHANGED <<row, spoilt>>

\* The answer of a refresh: with a new token the socket connects again.  A
\* refresh without a cookie is refused and leaves it alone.
ArriveRefresh(t) ==
  LET ok == call[t].sets # None IN
  /\ At(t, "refresh", "answered")
  /\ cookie' = IF call[t].with = None THEN cookie ELSE call[t].sets
  /\ call' = [call EXCEPT ![t] = None]
  /\ access' = [access EXCEPT ![t] = @ \/ ok]
  /\ socket' = [socket EXCEPT ![t] = IF @ = "off" /\ ok THEN "down" ELSE @]
  /\ UNCHANGED <<row, refreshAttempted, refreshes, spoilt>>

\* The process dies with the request, or its answer is lost on the way.
CallFails(t) ==
  LET c == call[t] IN
  /\ c # None
  /\ call' = [call EXCEPT ![t] = None]
  /\ spoilt' = IF c.kind = "refresh" /\ c.pc = "answered" /\ c.sets # None
                 THEN spoilt \cup {row[c.with].family} ELSE spoilt
  /\ UNCHANGED <<row, cookie, browser>>

Connected(t) ==
  /\ socket[t] = "down" /\ access[t]
  /\ socket' = [socket EXCEPT ![t] = "up"]
  /\ refreshAttempted' = [refreshAttempted EXCEPT ![t] = FALSE]
  /\ refreshes' = [refreshes EXCEPT ![t] = 0]
  /\ UNCHANGED <<row, cookie, call, access, spoilt>>

Refresh(t) ==
  /\ call[t] = None
  /\ call' = [call EXCEPT ![t] = Sent("refresh")]
  /\ refreshAttempted' = [refreshAttempted EXCEPT ![t] = TRUE]
  /\ refreshes' = [refreshes EXCEPT ![t] = @ + 1]

\* Fault: every refused handshake refreshes.
FaultyRefused(t) ==
  /\ socket[t] = "down" /\ ~access[t]
  /\ Refresh(t)
  /\ socket' = [socket EXCEPT ![t] = "off"]
  /\ UNCHANGED <<row, cookie, access, spoilt>>

\* connect_error, after which the socket connects only when it is told to:
\* refresh, once in a connection cycle.
Refused(t) ==
  /\ socket[t] = "down" /\ ~access[t]
  /\ \/ ~refreshAttempted[t] /\ Refresh(t)
     \/ refreshAttempted[t] /\ UNCHANGED <<call, refreshAttempted, refreshes>>
  /\ socket' = [socket EXCEPT ![t] = "off"]
  /\ UNCHANGED <<row, cookie, access, spoilt>>

\* connectSocket of a page that mounts.
ConnectSocket(t) ==
  /\ socket[t] = "off"
  /\ socket' = [socket EXCEPT ![t] = "down"]
  /\ UNCHANGED <<row, cookie, call, access, refreshAttempted, refreshes, spoilt>>

Disconnect(t) ==
  /\ socket[t] = "up"
  /\ socket' = [socket EXCEPT ![t] = "down"]
  /\ UNCHANGED <<row, cookie, call, access, refreshAttempted, refreshes, spoilt>>

\* Fifteen minutes after it was signed.
AccessExpires(t) ==
  /\ access[t]
  /\ access' = [access EXCEPT ![t] = FALSE]
  /\ UNCHANGED <<row, cookie, call, socket, refreshAttempted, refreshes, spoilt>>

----------------------------------------------------------------------------
Next ==
  \E t \in Tabs :
    \/ \E kind \in {"login", "logout"} : Submit(t, kind)
    \/ IssueRefreshToken(t) \/ RevokeFamily(t)
    \/ FindToken(t) \/ RevokeReused(t) \/ CreateSuccessor(t) \/ MarkReplaced(t)
    \/ Arrive(t) \/ ArriveRefresh(t) \/ CallFails(t)
    \/ Connected(t) \/ Refused(t) \/ ConnectSocket(t) \/ Disconnect(t) \/ AccessExpires(t)

Spec == Init /\ [][Next]_vars

----------------------------------------------------------------------------
(* Properties *)

\* Safety: while no request is under way, the token in the cookie can be
\* rotated, unless its family was signed out or a finished rotation's answer was
\* lost; a process that dies in the middle of a rotation costs nobody a session
\* (the successor is created before the row is marked, refresh-tokens.js:34-46).
CookieUsable ==
  ((\A t \in Tabs : call[t] = None) /\ cookie # None) =>
    (Live(cookie) \/ row[cookie].family \in spoilt)

\* A request has found a live token of family f and may give it a successor.
Rotating(f) ==
  \E t \in Tabs : call[t] # None /\ call[t].with # None /\ row[call[t].with].family = f
                  /\ call[t].kind = "refresh" /\ call[t].pc = "create"
Ended(f) == (\A k \in Family(f) : ~Live(k)) /\ ~Rotating(f)

\* Action: a family with no live token and no rotation under way stays so:
\* nothing a client presents brings it back (refresh-tokens.js:22-31).
EndedStaysEnded == [][\A f \in Created : row[f].family = f /\ Ended(f) => Ended(f)']_vars

\* Safety: a tab whose handshakes are refused refreshes at most once until it is
\* connected again, however its requests end and its pages mount
\* (socket-client.js:47, "Single refresh per connection cycle").  A logout ends
\* the cycle too: disconnectSocket lowers the flag, and the count starts anew.
OneRefreshPerCycle == \A t \in Tabs : refreshes[t] <= 1

=============================================================================
