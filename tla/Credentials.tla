---------------------------- MODULE Credentials ----------------------------
(***************************************************************************)
(* What proves who is asking: browser sessions, personal API tokens, and   *)
(* the codes, access tokens and refresh tokens of connected apps           *)
(* (src/internal/auth and the handlers of src/internal/api).               *)
(*                                                                         *)
(* A handler that is one transaction, or one statement, is one action.  A  *)
(* handler that reads, and later acts on what it read, is a request of two *)
(* steps: another request may commit in between, and so may the answer     *)
(* never come (the client hangs up, the server stops).  A handler that is  *)
(* refused changes nothing and is no step.                                 *)
(***************************************************************************)
EXTENDS AuthStore

CONSTANTS
  Request,                                            \* requests in two steps, at a time
  SessionTTL, codeTTL, AccessTokenTTL, RefreshTokenTTL, idleClientTTL,
  KeyTTLs,                                            \* what the user may ask for; 0: never expires
  MaxSecret, MaxClock                                 \* bounds of the model

ASSUME TTLAssumption ==
  /\ {SessionTTL, codeTTL, AccessTokenTTL, RefreshTokenTTL, idleClientTTL}
       \subseteq Nat \ {0}
  /\ KeyTTLs \subseteq Nat
  /\ {MaxSecret, MaxClock} \subseteq Nat

VARIABLES
  db,       \* the database
  clock,    \* the time
  drawn,    \* secrets drawn so far: 1..drawn
  request   \* the requests between two steps

vars == <<db, clock, drawn, request>>

Idle == [at |-> "idle", user |-> None, secret |-> 0, client |-> None, grant |-> None]

\* secret: the session the request came with, while it is of use.
RequestRow == [at : {"idle", "login", "user", "approve", "keep", "revoke"},
               user : User \cup {None}, secret : Nat,
               client : Client \cup {None}, grant : Grant \cup {None}]

\* The rows of the tables are well formed, and none outlives what it hangs on.
TypeOK ==
  /\ db \in Database
  /\ {row.client : row \in db.codes \cup db.grants} \subseteq ClientIds(db)
  /\ {t.grant : t \in db.tokens} \subseteq {g.id : g \in db.grants}
  /\ clock \in Nat /\ drawn \in Nat
  /\ request \in [Request -> RequestRow]
  /\ \A r \in Request : /\ request[r].at \in {"login", "user", "approve", "keep"} =>
                             request[r].user \in User
                        /\ request[r].at = "approve" => request[r].client \in Client
                        /\ request[r].at = "revoke" => request[r].grant \in Grant

Draw ==
  /\ drawn < MaxSecret
  /\ drawn' = drawn + 1

Fresh == drawn + 1

End(r) == request' = [request EXCEPT ![r] = Idle]

-----------------------------------------------------------------------------
(* Sessions *)

\* The password was right and the account active when it was read.
Login(r, u) ==
  /\ request[r].at = "idle"
  /\ u \in db.active
  /\ request' = [request EXCEPT ![r] = [Idle EXCEPT !.at = "login", !.user = u]]
  /\ UNCHANGED <<db, clock, drawn>>

\* Two statements, no transaction: first the cleaning, which may be all.
StartSession(r) ==
  LET d == DeleteExpiredSessions(db, clock)
  IN  /\ request[r].at = "login"
      /\ \/ db' = d /\ UNCHANGED <<drawn, request>>
         \/ /\ Draw
            /\ db' = CreateSession(d, Fresh, request[r].user, clock + SessionTTL)
            /\ End(r)
      /\ UNCHANGED clock

\* requireUser: what follows acts for the user of the session.
Authenticate(r, s) ==
  /\ request[r].at = "idle"
  /\ s \in GetSessionUser(db, clock)
  /\ request' = [request EXCEPT ![r] =
                   [Idle EXCEPT !.at = "user", !.user = s.user, !.secret = s.secret]]
  /\ UNCHANGED <<db, clock, drawn>>

Logout(s) ==
  /\ s \in db.sessions
  /\ db' = DeleteSession(db, s.secret)
  /\ UNCHANGED <<clock, drawn, request>>

-----------------------------------------------------------------------------
(* Passwords and accounts *)

\* Signs out everywhere and disconnects the apps; API tokens stay, and so do
\* codes nobody redeemed yet.
Reset(d, u) == DeleteUserOAuthGrants(DeleteUserSessions(d, u), u)

\* By an administrator, or from the command line.
SetPassword(u) ==
  /\ db' = Reset(db, u)
  /\ UNCHANGED <<clock, drawn, request>>

\* By the user, who is signed in again under the same token, afterwards.
ChangePassword(r) ==
  /\ request[r].at = "user"
  /\ db' = Reset(db, request[r].user)
  /\ request' = [request EXCEPT ![r].at = "keep"]
  /\ UNCHANGED <<clock, drawn>>

KeepSession(r) ==
  /\ request[r].at = "keep"
  /\ db' = CreateSession(db, request[r].secret, request[r].user, clock + SessionTTL)
  /\ End(r)
  /\ UNCHANGED <<clock, drawn>>

\* Slip: deactivation leaves the apps connected.
SlipUpdate(u, isActive) ==
  /\ db' = IF isActive THEN UpdateUser(db, u, TRUE)
                       ELSE DeleteUserSessions(UpdateUser(db, u, FALSE), u)
  /\ UNCHANGED <<clock, drawn, request>>

\* An administrator deactivates an account, or activates it again.  (That an
\* administrator is left is module Access's.)
Update(u, isActive) ==
  /\ db' = IF isActive THEN UpdateUser(db, u, TRUE)
                       ELSE Reset(UpdateUser(db, u, FALSE), u)
  /\ UNCHANGED <<clock, drawn, request>>

-----------------------------------------------------------------------------
(* API tokens *)

CreateToken(r, ttl) ==
  /\ request[r].at = "user"
  /\ Draw
  /\ db' = CreateAPIToken(db, Fresh, request[r].user, IF ttl = 0 THEN None ELSE clock + ttl)
  /\ End(r)
  /\ UNCHANGED clock

\* Somebody else's is not found.
RevokeToken(r, k) ==
  /\ request[r].at = "user"
  /\ k \in db.keys
  /\ db' = DeleteAPIToken(db, k.secret, request[r].user)
  /\ End(r)
  /\ UNCHANGED <<clock, drawn>>

-----------------------------------------------------------------------------
(* Connecting an app *)

\* The id may be that of a client deleted before, or just now as idle.  The two
\* statements are no transaction: it may end with the first.
RegisterClient(c) ==
  LET d == IF clock < idleClientTTL THEN db
           ELSE DeleteIdleOAuthClients(db, clock - idleClientTTL)
  IN  /\ db' = d \/ (c \notin ClientIds(d) /\ db' = CreateOAuthClient(d, c, clock))
      /\ UNCHANGED <<clock, drawn, request>>

\* The client exists and the user approves.
checkAuthorize(r, c) ==
  /\ request[r].at = "user"
  /\ c \in ClientIds(db)
  /\ request' = [request EXCEPT ![r].at = "approve",
                                      ![r].secret = 0, ![r].client = c]
  /\ UNCHANGED <<db, clock, drawn>>

\* Likewise.  A client deleted since fails the foreign key.
IssueCode(r) ==
  LET d == DeleteExpiredOAuthCodes(db, clock)
  IN  /\ request[r].at = "approve"
      /\ \/ db' = d /\ UNCHANGED <<drawn, request>>
         \/ /\ Draw
            /\ request[r].client \in ClientIds(d)
            /\ db' = CreateOAuthCode(d, Fresh, request[r].user, request[r].client, clock + codeTTL)
            /\ End(r)
      /\ UNCHANGED clock

pruneOAuth(d) ==
  DeleteEmptyOAuthGrants(DeleteExpiredOAuthTokens(DeleteExpiredOAuthCodes(d, clock), clock))

issueTokens(d, id) ==
  CreateOAuthToken(CreateOAuthToken(d, id, "access", Fresh, clock + AccessTokenTTL),
                   id, "refresh", Fresh, clock + RefreshTokenTTL)

\* The code of row k is presented.  A second time, it ends what the first gave.
ReuseCode(k) ==
  /\ k.used
  /\ db' = IF k.grant = None THEN db ELSE DeleteOAuthGrantByID(db, k.grant)
  /\ UNCHANGED drawn

RedeemCode(k, id) ==
  /\ ~k.used
  /\ k.expires > clock
  /\ k.user \in db.active
  /\ id \notin {g.id : g \in pruneOAuth(db).grants}
  /\ db' = LET d == UseOAuthCode(CreateOAuthGrant(pruneOAuth(db), id, k), k, id)
           IN  issueTokens(TouchOAuthClient(d, k.client, clock), id)
  /\ Draw

\* The client was read before the transaction: without it there are no codes.
ExchangeCode(k) ==
  /\ k \in db.codes
  /\ ReuseCode(k) \/ \E id \in Grant : RedeemCode(k, id)
  /\ UNCHANGED <<clock, request>>

-----------------------------------------------------------------------------
(* Staying connected, and disconnecting *)

ReuseRefresh(t) ==
  /\ t.used
  /\ db' = DeleteOAuthGrantByID(db, t.grant)
  /\ UNCHANGED drawn

RotateRefresh(t) ==
  /\ ~t.used
  /\ t.expires > clock
  /\ GetOAuthGrantUser(db, t.grant) \cap db.active # {}
  /\ db' = LET clients == {g.client : g \in {h \in db.grants : h.id = t.grant}}
               d == TouchOAuthClient(UseOAuthToken(db, t), CHOOSE c \in clients : TRUE, clock)
           IN  pruneOAuth(issueTokens(d, t.grant))
  /\ Draw

\* The refresh token of row t is presented.
Refresh(t) ==
  /\ t \in db.tokens /\ t.kind = "refresh"
  /\ ReuseRefresh(t) \/ RotateRefresh(t)
  /\ UNCHANGED <<clock, request>>

\* By the user, in the browser; somebody else's is not found.
RevokeGrant(r, id) ==
  /\ request[r].at = "user"
  /\ db' = DeleteOAuthGrant(db, id, request[r].user)
  /\ End(r)
  /\ UNCHANGED <<clock, drawn>>

\* By the app, with either token, whatever became of it.  The grant's id is
\* read first, and may be another grant's when it is used.
RevokeOAuthToken(r, t) ==
  /\ request[r].at = "idle"
  /\ t \in db.tokens
  /\ request' = [request EXCEPT ![r] = [Idle EXCEPT !.at = "revoke", !.grant = t.grant]]
  /\ UNCHANGED <<db, clock, drawn>>

RevokeRead(r) ==
  /\ request[r].at = "revoke"
  /\ db' = DeleteOAuthGrantByID(db, request[r].grant)
  /\ End(r)
  /\ UNCHANGED <<clock, drawn>>

-----------------------------------------------------------------------------

\* A request that got no further: its context was cancelled, the server died.
Abandon(r) ==
  /\ request[r].at # "idle"
  /\ End(r)
  /\ UNCHANGED <<db, clock, drawn>>

Tick ==
  /\ clock < MaxClock
  /\ clock' = clock + 1
  /\ UNCHANGED <<db, drawn, request>>

Init ==
  /\ db = EmptyDatabase
  /\ clock = 0 /\ drawn = 0
  /\ request = [r \in Request |-> Idle]

\* What a request does once it knows its user.
AsUser(r) ==
  \/ ChangePassword(r)
  \/ \E ttl \in KeyTTLs : CreateToken(r, ttl)
  \/ \E k \in db.keys : RevokeToken(r, k)
  \/ \E c \in Client : checkAuthorize(r, c)
  \/ \E id \in Grant : RevokeGrant(r, id)

Next ==
  \/ \E r \in Request :
       \/ \E u \in User : Login(r, u)
       \/ \E s \in db.sessions : Authenticate(r, s)
       \/ \E t \in db.tokens : RevokeOAuthToken(r, t)
       \/ AsUser(r)
       \/ StartSession(r) \/ KeepSession(r) \/ IssueCode(r) \/ RevokeRead(r) \/ Abandon(r)
  \/ \E s \in db.sessions : Logout(s)
  \/ \E u \in User : SetPassword(u) \/ \E isActive \in BOOLEAN : Update(u, isActive)
  \/ \E c \in Client : RegisterClient(c)
  \/ \E k \in db.codes : ExchangeCode(k)
  \/ \E t \in db.tokens : Refresh(t)
  \/ Tick

Spec == Init /\ [][Next]_vars

-----------------------------------------------------------------------------
(* What must hold *)

\* A grant has at most one refresh token that was not used: after any number of
\* rotations there is one holder who can go on (Refresh, oauth.go:260-317).
OneLiveRefresh ==
  \A t, s \in db.tokens :
    /\ t.grant = s.grant
    /\ t.kind = "refresh" /\ s.kind = "refresh"
    /\ ~t.used /\ ~s.used
    => t = s

\* A redeemed code points at the grant it was redeemed for and at no other,
\* though ids of grants are given again; and until it expires it is there to do
\* so, so that a second presentation ends the grant (00009_oauth.sql:32-33).
CodesPointHome ==
  /\ \A k \in db.codes, g \in db.grants : k.grant = g.id => k.used /\ k.secret = g.code
  /\ \A k \in db.codes : k.grant # None => \E g \in db.grants : g.id = k.grant
  /\ \A g \in db.grants : g.until > clock =>
       \E k \in db.codes : k.secret = g.code /\ k.grant = g.id

\* A token leaves the table when it expires or with its grant, and a used one
\* stays used: a rotated refresh token that is presented again, even long after,
\* is known for what it is (00009_oauth.sql:48-50).
ReuseIsRemembered ==
  [][\A t \in db.tokens :
       t.expires > clock /\ (\E g \in db'.grants : g.id = t.grant) =>
         \E s \in db'.tokens : /\ s.secret = t.secret /\ s.kind = t.kind
                               /\ s.grant = t.grant
                               /\ t.used => s.used]_db

\* What somebody could present with success: a session, an API token, an access
\* token, a refresh token, a code; with whose it is.
Credential(kind, row, u, id) ==
  [kind |-> kind, secret |-> row.secret, user |-> u, grant |-> id]

UserOf(d, id) == CHOOSE u \in User : u \in GetOAuthGrantUser(d, id)

Working(d, now) ==
  {Credential("session", s, s.user, None) : s \in GetSessionUser(d, now)}
  \cup {Credential("key", k, k.user, None) : k \in GetAPITokenUser(d, now)}
  \cup {Credential("access", t, UserOf(d, t.grant), t.grant) : t \in GetOAuthAccessTokenUser(d, now)}
  \cup {Credential("refresh", t, UserOf(d, t.grant), t.grant) :
          t \in {s \in d.tokens : /\ s.kind = "refresh" /\ ~s.used /\ s.expires > now
                                  /\ GetOAuthGrantUser(d, s.grant) \cap d.active # {}}}
  \cup {Credential("code", k, k.user, None) :
          k \in {c \in d.codes : ~c.used /\ c.expires > now /\ c.user \in d.active}}

\* Somebody with a right to it ended grant id in this step: its user, its app,
\* or two who presented the same code or refresh token.
Disconnected(id) ==
  \/ \E r \in Request :
       \/ RevokeGrant(r, id) /\ (\E g \in db.grants : g.id = id /\ g.user = request[r].user)
       \/ RevokeRead(r) /\ request[r].grant = id
  \/ \E k \in db.codes : k.grant = id /\ ReuseCode(k)
  \/ \E t \in db.tokens : t.grant = id /\ t.kind = "refresh" /\ ReuseRefresh(t)

PasswordSet(u) ==
  \/ SetPassword(u)
  \/ \E r \in Request : request[r].user = u /\ ChangePassword(r)

\* Nobody is connected through client c, and idleClientTTL ago it had been
\* registered and used for the last time.
Idling(c) ==
  /\ \A g \in db.grants : g.client # c
  /\ \E row \in db.clients : row.id = c /\ row.used + idleClientTTL <= clock

\* What works goes on working until it runs out, its account is deactivated, or
\* the one step made for ending it is taken: cleaning up never disconnects
\* anybody, and one user's steps never another (pruneOAuth, DeleteIdleOAuthClients,
\* DeleteExpiredSessions).  There is one exception.  IssueCode does not touch the
\* client, so that a code given to an app that was idle goes with it when anybody
\* registers another, before the app can redeem it (oauth.go:122-126, 165-183).
EndsForAReason ==
  [][\A w \in Working(db, clock) \ Working(db', clock') :
       \/ clock' # clock
       \/ w.user \notin db'.active
       \/ w.kind \in {"session", "access", "refresh"} /\ PasswordSet(w.user)
       \/ w.kind = "session" /\ (\E s \in db.sessions : s.secret = w.secret /\ Logout(s))
       \/ /\ w.kind = "key"
          /\ \E r \in Request, k \in db.keys :
               k.secret = w.secret /\ request[r].user = w.user /\ RevokeToken(r, k)
       \/ w.kind \in {"access", "refresh"} /\ Disconnected(w.grant)
       \/ w.kind = "refresh" /\ (\E t \in db.tokens : t.secret = w.secret /\ Refresh(t))
       \/ w.kind = "code" /\ (\E k \in db.codes : k.secret = w.secret /\ ExchangeCode(k))
       \/ /\ w.kind = "code" /\ (\E c \in Client : RegisterClient(c))
          /\ \E k \in db.codes : k.secret = w.secret /\ Idling(k.client)]_<<db, clock>>

\* What does not work starts to only if it is new, if ChangePassword promised to
\* keep it, or if its account is activated again; and then connected apps do not
\* come back (user.go:143-148).
NothingComesBack ==
  [][\A w \in Working(db', clock') \ Working(db, clock) :
       \/ w.secret > drawn
       \/ w.kind = "session" /\ (\E r \in Request : request[r].secret = w.secret /\ KeepSession(r))
       \/ /\ w.user \notin db.active
          /\ w.kind \in {"session", "key", "code"}]_<<db, clock>>
=============================================================================
