----------------------------- MODULE AuthStore -----------------------------
(***************************************************************************)
(* The tables behind signing in: users (its is_active column), sessions,   *)
(* api_tokens and the four oauth tables of                                 *)
(* src/db/migrations/sqlite/00009_oauth.sql, and the queries of            *)
(* src/internal/database/dbgen on them.  A table is a set of rows, a query *)
(* an operator from a database to a database (or, when it only reads, to   *)
(* the rows it finds); the modules that use them say which queries make a  *)
(* transaction.                                                            *)
(*                                                                         *)
(* A secret is a number: no two drawings give the same one, and only who   *)
(* was given a secret can present it.  Times are numbers.  What the        *)
(* last_used_at columns of grants and API tokens say is only shown, and    *)
(* left out.                                                               *)
(***************************************************************************)
EXTENDS Naturals

CONSTANTS
  User,    \* accounts; none is ever deleted
  Client,  \* ids of oauth_clients
  Grant,   \* ids of oauth_grants
  None     \* SQL's NULL

ASSUME NoneAssumption == None \notin User \cup Client \cup Grant \cup Nat

Kind == {"access", "refresh"}

\* used: COALESCE(last_used_at, created_at).
ClientRow == [id : Client, used : Nat]

\* code and until are not columns: the code the grant was given for, and when
\* that code expires.
GrantRow == [id : Grant, user : User, client : Client, code : Nat, until : Nat]

\* grant: what the code was redeemed for, if that still stands.
CodeRow == [secret : Nat, user : User, client : Client, expires : Nat,
            used : BOOLEAN, grant : Grant \cup {None}]

TokenRow == [secret : Nat, kind : Kind, grant : Grant, expires : Nat, used : BOOLEAN]

SessionRow == [secret : Nat, user : User, expires : Nat]

KeyRow == [secret : Nat, user : User, expires : Nat \cup {None}]

Database ==
  [active : SUBSET User, clients : SUBSET ClientRow, grants : SUBSET GrantRow,
   codes : SUBSET CodeRow, tokens : SUBSET TokenRow, sessions : SUBSET SessionRow,
   keys : SUBSET KeyRow]

EmptyDatabase ==
  [active |-> User, clients |-> {}, grants |-> {}, codes |-> {}, tokens |-> {},
   sessions |-> {}, keys |-> {}]

-----------------------------------------------------------------------------
(* users and sessions *)

UpdateUser(d, u, isActive) ==
  [d EXCEPT !.active = IF isActive THEN @ \cup {u} ELSE @ \ {u}]

\* token_hash is UNIQUE: a second row for the same secret is refused.
CreateSession(d, secret, u, until) ==
  IF \E s \in d.sessions : s.secret = secret
  THEN d
  ELSE [d EXCEPT !.sessions = @ \cup {[secret |-> secret, user |-> u, expires |-> until]}]

DeleteSession(d, secret) ==
  [d EXCEPT !.sessions = {s \in @ : s.secret # secret}]

DeleteUserSessions(d, u) ==
  [d EXCEPT !.sessions = {s \in @ : s.user # u}]

DeleteExpiredSessions(d, now) ==
  [d EXCEPT !.sessions = {s \in @ : s.expires > now}]

GetSessionUser(d, now) ==
  {s \in d.sessions : s.expires > now /\ s.user \in d.active}

-----------------------------------------------------------------------------
(* api_tokens *)

CreateAPIToken(d, secret, u, until) ==
  [d EXCEPT !.keys = @ \cup {[secret |-> secret, user |-> u, expires |-> until]}]

DeleteAPIToken(d, secret, u) ==
  [d EXCEPT !.keys = {k \in @ : ~(k.secret = secret /\ k.user = u)}]

GetAPITokenUser(d, now) ==
  {k \in d.keys : (k.expires = None \/ k.expires > now) /\ k.user \in d.active}

-----------------------------------------------------------------------------
(* oauth_grants and oauth_tokens *)

\* Slip: the codes of the grants keep pointing at them.
SlipDropGrants(d, gone) ==
  [d EXCEPT !.grants = {g \in @ : g.id \notin gone},
            !.tokens = {t \in @ : t.grant \notin gone}]

\* Deletes grants: their tokens go too (ON DELETE CASCADE), and the codes they
\* were given for point nowhere (ON DELETE SET NULL).
DropGrants(d, gone) ==
  [d EXCEPT !.grants = {g \in @ : g.id \notin gone},
            !.tokens = {t \in @ : t.grant \notin gone},
            !.codes = {IF k.grant \in gone THEN [k EXCEPT !.grant = None] ELSE k : k \in @}]

DeleteOAuthGrantByID(d, id) == DropGrants(d, {id})

DeleteOAuthGrant(d, id, u) ==
  DropGrants(d, {g.id : g \in {h \in d.grants : h.id = id /\ h.user = u}})

DeleteUserOAuthGrants(d, u) ==
  DropGrants(d, {g.id : g \in {h \in d.grants : h.user = u}})

DeleteEmptyOAuthGrants(d) ==
  DropGrants(d, {g.id : g \in {h \in d.grants : \A t \in d.tokens : t.grant # h.id}})

\* id: one that is not in use now.
CreateOAuthGrant(d, id, code) ==
  [d EXCEPT !.grants = @ \cup {[id |-> id, user |-> code.user, client |-> code.client,
                               code |-> code.secret, until |-> code.expires]}]

CreateOAuthToken(d, id, kind, secret, until) ==
  [d EXCEPT !.tokens = @ \cup {[secret |-> secret, kind |-> kind, grant |-> id,
                               expires |-> until, used |-> FALSE]}]

\* Slip: the token is not marked.
SlipUseOAuthToken(d, token) == d

UseOAuthToken(d, token) ==
  [d EXCEPT !.tokens =
     {IF t = token THEN [t EXCEPT !.used = TRUE] ELSE t : t \in @}]

\* Slip: a refresh token that was used is not kept until it expires.
SlipDeleteExpiredOAuthTokens(d, now) ==
  [d EXCEPT !.tokens = {t \in @ : t.expires > now /\ ~t.used}]

DeleteExpiredOAuthTokens(d, now) ==
  [d EXCEPT !.tokens = {t \in @ : t.expires > now}]

\* The user of a token's grant.
GetOAuthGrantUser(d, id) == {g.user : g \in {h \in d.grants : h.id = id}}

GetOAuthAccessTokenUser(d, now) ==
  {t \in d.tokens : /\ t.kind = "access"
                    /\ t.expires > now
                    /\ GetOAuthGrantUser(d, t.grant) \cap d.active # {}}

-----------------------------------------------------------------------------
(* oauth_clients and oauth_codes *)

ClientIds(d) == {c.id : c \in d.clients}

CreateOAuthClient(d, id, now) ==
  [d EXCEPT !.clients = @ \cup {[id |-> id, used |-> now]}]

TouchOAuthClient(d, id, now) ==
  [d EXCEPT !.clients = {IF c.id = id THEN [c EXCEPT !.used = now] ELSE c : c \in @}]

\* Slip: their codes stay.
SlipDropClients(d, gone) ==
  LET e == DropGrants(d, {g.id : g \in {h \in d.grants : h.client \in gone}})
  IN  [e EXCEPT !.clients = {c \in @ : c.id \notin gone}]

\* Deletes clients: their codes and grants go too (ON DELETE CASCADE).
DropClients(d, gone) ==
  LET e == DropGrants(d, {g.id : g \in {h \in d.grants : h.client \in gone}})
  IN  [e EXCEPT !.clients = {c \in @ : c.id \notin gone},
                !.codes = {k \in @ : k.client \notin gone}]

\* Slip: a client somebody approved counts as idle too.
SlipDeleteIdleOAuthClients(d, before) ==
  DropClients(d, {c.id : c \in {b \in d.clients : b.used <= before}})

DeleteIdleOAuthClients(d, before) ==
  DropClients(d, {c.id : c \in {b \in d.clients : /\ b.used <= before
                                                  /\ \A g \in d.grants : g.client # b.id}})

CreateOAuthCode(d, secret, u, client, until) ==
  [d EXCEPT !.codes = @ \cup {[secret |-> secret, user |-> u, client |-> client,
                              expires |-> until, used |-> FALSE, grant |-> None]}]

UseOAuthCode(d, code, id) ==
  [d EXCEPT !.codes =
     {IF k = code THEN [k EXCEPT !.used = TRUE, !.grant = id] ELSE k : k \in @}]

DeleteExpiredOAuthCodes(d, now) ==
  [d EXCEPT !.codes = {k \in @ : k.expires > now}]
=============================================================================
