------------------------- MODULE CredentialsProofs -------------------------
(***************************************************************************)
(* What the tables of AuthStore keep under every handler of Credentials,   *)
(* for any accounts, clients, lifetimes and number of requests.            *)
(*                                                                         *)
(* Sound is what one query after another keeps; a lemma says so of each    *)
(* query.  Two transactions break it between two of their queries, and are *)
(* proved as a whole.                                                      *)
(***************************************************************************)
EXTENDS Credentials, TLAPS

One(d) ==
  \A t, s \in d.tokens :
    t.grant = s.grant /\ t.kind = "refresh" /\ s.kind = "refresh" /\ ~t.used /\ ~s.used => t = s

\* The tokens' foreign key.
Linked(d) == \A t \in d.tokens : \E g \in d.grants : g.id = t.grant

\* The foreign keys of codes and grants that name their client.
Owned(d) ==
  /\ \A k \in d.codes : \E c \in d.clients : c.id = k.client
  /\ \A g \in d.grants : \E c \in d.clients : c.id = g.client

\* The codes' other foreign key, and what a code and the grant it points at share.
Home(d, now) ==
  /\ \A k \in d.codes : k.grant # None => \E g \in d.grants : g.id = k.grant
  /\ \A k \in d.codes, g \in d.grants :
       k.grant = g.id => /\ k.used
                         /\ k.secret = g.code /\ k.expires = g.until /\ k.client = g.client
  /\ \A g \in d.grants : g.until > now => \E k \in d.codes : k.grant = g.id

Sound(d, now) == d \in Database /\ One(d) /\ Linked(d) /\ Owned(d) /\ Home(d, now)

IInv == TypeOK /\ Sound(db, clock)

-----------------------------------------------------------------------------
(* Queries on accounts, sessions and API tokens leave the rest alone *)

\* OAuth's four tables are the same in d and e.
SameApps(d, e) ==
  e.clients = d.clients /\ e.grants = d.grants /\ e.codes = d.codes /\ e.tokens = d.tokens

LEMMA SameAppsSound ==
  ASSUME NEW d, NEW now \in Nat, Sound(d, now), NEW e \in Database, SameApps(d, e)
  PROVE  Sound(e, now)
BY DEF Sound, SameApps, One, Linked, Owned, Home

LEMMA UpdateUserSound ==
  ASSUME NEW d, NEW now \in Nat, Sound(d, now), NEW u \in User, NEW isActive \in BOOLEAN
  PROVE  Sound(UpdateUser(d, u, isActive), now)
<1> DEFINE e == UpdateUser(d, u, isActive)
<1>1. e \in Database
  BY DEF Sound, Database, UpdateUser
<1>2. SameApps(d, e)
  BY DEF Sound, Database, UpdateUser, SameApps
<1> QED BY <1>1, <1>2, SameAppsSound

LEMMA SessionsSound ==
  ASSUME NEW d, NEW now \in Nat, Sound(d, now),
         NEW S \in SUBSET SessionRow
  PROVE  Sound([d EXCEPT !.sessions = S], now)
<1> DEFINE e == [d EXCEPT !.sessions = S]
<1>1. e \in Database
  BY DEF Sound, Database
<1>2. SameApps(d, e)
  BY DEF Sound, Database, SameApps
<1> QED BY <1>1, <1>2, SameAppsSound

LEMMA KeysSound ==
  ASSUME NEW d, NEW now \in Nat, Sound(d, now),
         NEW S \in SUBSET KeyRow
  PROVE  Sound([d EXCEPT !.keys = S], now)
<1> DEFINE e == [d EXCEPT !.keys = S]
<1>1. e \in Database
  BY DEF Sound, Database
<1>2. SameApps(d, e)
  BY DEF Sound, Database, SameApps
<1> QED BY <1>1, <1>2, SameAppsSound

LEMMA CreateSessionSound ==
  ASSUME NEW d, NEW now \in Nat, Sound(d, now),
         NEW secret \in Nat, NEW u \in User, NEW until \in Nat
  PROVE  Sound(CreateSession(d, secret, u, until), now)
<1> DEFINE row == [secret |-> secret, user |-> u, expires |-> until]
<1>1. d.sessions \cup {row} \in SUBSET SessionRow
  BY DEF Sound, Database, SessionRow
<1>2. Sound([d EXCEPT !.sessions = d.sessions \cup {row}], now)
  BY <1>1, SessionsSound
<1> QED BY <1>2 DEF CreateSession

LEMMA DeleteSessionSound ==
  ASSUME NEW d, NEW now \in Nat, Sound(d, now), NEW secret
  PROVE  Sound(DeleteSession(d, secret), now)
<1>1. {s \in d.sessions : s.secret # secret} \in SUBSET SessionRow
  BY DEF Sound, Database
<1> QED BY <1>1, SessionsSound DEF DeleteSession

LEMMA DeleteUserSessionsSound ==
  ASSUME NEW d, NEW now \in Nat, Sound(d, now), NEW u
  PROVE  Sound(DeleteUserSessions(d, u), now)
<1>1. {s \in d.sessions : s.user # u} \in SUBSET SessionRow
  BY DEF Sound, Database
<1> QED BY <1>1, SessionsSound DEF DeleteUserSessions

LEMMA DeleteExpiredSessionsSound ==
  ASSUME NEW d, NEW now \in Nat, Sound(d, now), NEW at
  PROVE  Sound(DeleteExpiredSessions(d, at), now)
<1>1. {s \in d.sessions : s.expires > at} \in SUBSET SessionRow
  BY DEF Sound, Database
<1> QED BY <1>1, SessionsSound DEF DeleteExpiredSessions

LEMMA CreateAPITokenSound ==
  ASSUME NEW d, NEW now \in Nat, Sound(d, now),
         NEW secret \in Nat, NEW u \in User, NEW until \in Nat \cup {None}
  PROVE  Sound(CreateAPIToken(d, secret, u, until), now)
<1>1. d.keys \cup {[secret |-> secret, user |-> u, expires |-> until]} \in SUBSET KeyRow
  BY DEF Sound, Database, KeyRow
<1> QED BY <1>1, KeysSound DEF CreateAPIToken

LEMMA DeleteAPITokenSound ==
  ASSUME NEW d, NEW now \in Nat, Sound(d, now), NEW secret, NEW u
  PROVE  Sound(DeleteAPIToken(d, secret, u), now)
<1>1. {k \in d.keys : ~(k.secret = secret /\ k.user = u)} \in SUBSET KeyRow
  BY DEF Sound, Database
<1> QED BY <1>1, KeysSound DEF DeleteAPIToken

-----------------------------------------------------------------------------
(* Queries on grants and tokens *)

LEMMA DropGrantsType ==
  ASSUME NEW d \in Database, NEW gone
  PROVE  /\ DropGrants(d, gone) \in Database
         /\ DropGrants(d, gone).grants = {g \in d.grants : g.id \notin gone}
         /\ DropGrants(d, gone).tokens = {t \in d.tokens : t.grant \notin gone}
         /\ DropGrants(d, gone).codes =
              {IF k.grant \in gone THEN [k EXCEPT !.grant = None] ELSE k : k \in d.codes}
         /\ DropGrants(d, gone).clients = d.clients
<1> DEFINE codes == {IF k.grant \in gone THEN [k EXCEPT !.grant = None] ELSE k : k \in d.codes}
<1>1. codes \in SUBSET CodeRow
  BY DEF Database, CodeRow
<1>2. {g \in d.grants : g.id \notin gone} \in SUBSET GrantRow
      /\ {t \in d.tokens : t.grant \notin gone} \in SUBSET TokenRow
  BY DEF Database
<1> HIDE DEF codes
<1>3. DropGrants(d, gone) = [d EXCEPT !.grants = {g \in d.grants : g.id \notin gone},
                                     !.tokens = {t \in d.tokens : t.grant \notin gone},
                                     !.codes = codes]
  BY DEF DropGrants, codes
<1>4. QED BY <1>1, <1>2, <1>3 DEF Database, codes

LEMMA DropGrantsSound ==
  ASSUME NEW d, NEW now \in Nat, Sound(d, now), NEW gone
  PROVE  Sound(DropGrants(d, gone), now)
<1> DEFINE e == DropGrants(d, gone)
<1>0. d \in Database
  BY DEF Sound
<1>1. /\ e \in Database
      /\ e.grants = {g \in d.grants : g.id \notin gone}
      /\ e.tokens = {t \in d.tokens : t.grant \notin gone}
      /\ e.codes = {IF k.grant \in gone THEN [k EXCEPT !.grant = None] ELSE k : k \in d.codes}
      /\ e.clients = d.clients
  BY <1>0, DropGrantsType
<1> HIDE DEF e
<1>2. One(e)
  BY <1>1 DEF Sound, One
<1>3. Linked(e)
  BY <1>1 DEF Sound, Linked
<1>4. ASSUME NEW k \in e.codes, k.grant # None
      PROVE  k \in d.codes /\ k.grant \notin gone
  <2>1. PICK c \in d.codes : k = IF c.grant \in gone THEN [c EXCEPT !.grant = None] ELSE c
    BY <1>1
  <2>2. c \in CodeRow
    BY <1>0 DEF Database
  <2>3. c.grant \notin gone
    BY <1>4, <2>1, <2>2 DEF CodeRow
  <2> QED BY <2>1, <2>3
<1>5. \A k \in d.codes : k.grant \notin gone => k \in e.codes
  BY <1>1
<1>6. None \notin Grant
  BY NoneAssumption
<1>7. \A g \in d.grants : g.id \in Grant
  BY <1>0 DEF Database, GrantRow
<1>8. Home(e, now)
  BY <1>1, <1>4, <1>5, <1>6, <1>7 DEF Sound, Home
<1>9. \A k \in e.codes : \E c \in d.codes : k.client = c.client
  BY <1>0, <1>1 DEF Database, CodeRow
<1>10. Owned(e)
  BY <1>1, <1>9 DEF Sound, Owned
<1> QED BY <1>1, <1>2, <1>3, <1>8, <1>10 DEF Sound, e

LEMMA DeleteGrantsSound ==
  ASSUME NEW d, NEW now \in Nat, Sound(d, now), NEW id, NEW u
  PROVE  /\ Sound(DeleteOAuthGrantByID(d, id), now)
         /\ Sound(DeleteOAuthGrant(d, id, u), now)
         /\ Sound(DeleteUserOAuthGrants(d, u), now)
         /\ Sound(DeleteEmptyOAuthGrants(d), now)
BY DropGrantsSound
   DEF DeleteOAuthGrantByID, DeleteOAuthGrant, DeleteUserOAuthGrants, DeleteEmptyOAuthGrants

LEMMA DeleteExpiredOAuthTokensSound ==
  ASSUME NEW d, NEW now \in Nat, Sound(d, now), NEW at
  PROVE  Sound(DeleteExpiredOAuthTokens(d, at), now)
<1> DEFINE T == {t \in d.tokens : t.expires > at}
           e == [d EXCEPT !.tokens = T]
<1>1. e \in Database
  BY DEF Sound, Database
<1>2. e.tokens = T /\ e.grants = d.grants /\ e.codes = d.codes /\ e.clients = d.clients
  BY DEF Sound, Database
<1>3. T \subseteq d.tokens
  OBVIOUS
<1> HIDE DEF T, e
<1>4. One(e) /\ Linked(e) /\ Owned(e) /\ Home(e, now)
  BY <1>2, <1>3 DEF Sound, One, Linked, Owned, Home
<1>5. DeleteExpiredOAuthTokens(d, at) = e
  BY DEF DeleteExpiredOAuthTokens, e, T
<1> QED BY <1>1, <1>4, <1>5 DEF Sound

\* A code that expired is the code of no grant whose code still stands.
LEMMA DeleteExpiredOAuthCodesSound ==
  ASSUME NEW d, NEW now \in Nat, Sound(d, now)
  PROVE  Sound(DeleteExpiredOAuthCodes(d, now), now)
<1> DEFINE K == {k \in d.codes : k.expires > now}
           e == [d EXCEPT !.codes = K]
<1>1. e \in Database
  BY DEF Sound, Database
<1>2. e.codes = K /\ e.grants = d.grants /\ e.tokens = d.tokens /\ e.clients = d.clients
  BY DEF Sound, Database
<1>3. One(e) /\ Linked(e) /\ Owned(e)
  BY <1>2 DEF Sound, One, Linked, Owned
<1>4. ASSUME NEW g \in d.grants, g.until > now
      PROVE  \E k \in K : k.grant = g.id
  BY <1>4 DEF Sound, Home
<1>5. K \subseteq d.codes
  OBVIOUS
<1> HIDE DEF K, e
<1>6. Home(e, now)
  BY <1>2, <1>4, <1>5 DEF Sound, Home
<1>7. DeleteExpiredOAuthCodes(d, now) = e
  BY DEF DeleteExpiredOAuthCodes, e, K
<1> QED BY <1>1, <1>3, <1>6, <1>7 DEF Sound

\* Queries on clients alone that delete none.
LEMMA ClientsSound ==
  ASSUME NEW d, NEW now \in Nat, Sound(d, now), NEW S \in SUBSET ClientRow,
         \A c \in d.clients : \E b \in S : b.id = c.id
  PROVE  Sound([d EXCEPT !.clients = S], now)
<1> DEFINE e == [d EXCEPT !.clients = S]
<1>1. e \in Database
  BY DEF Sound, Database
<1>2. e.codes = d.codes /\ e.grants = d.grants /\ e.tokens = d.tokens /\ e.clients = S
  BY DEF Sound, Database
<1> HIDE DEF e
<1>3. One(e) /\ Linked(e) /\ Owned(e) /\ Home(e, now)
  BY <1>2 DEF Sound, One, Linked, Owned, Home
<1> QED BY <1>1, <1>3 DEF Sound, e

LEMMA CreateOAuthClientSound ==
  ASSUME NEW d, NEW now \in Nat, Sound(d, now), NEW id \in Client, NEW at \in Nat
  PROVE  Sound(CreateOAuthClient(d, id, at), now)
<1>1. d.clients \cup {[id |-> id, used |-> at]} \in SUBSET ClientRow
  BY DEF Sound, Database, ClientRow
<1> QED BY <1>1, ClientsSound DEF CreateOAuthClient

LEMMA TouchOAuthClientSound ==
  ASSUME NEW d, NEW now \in Nat, Sound(d, now), NEW id, NEW at \in Nat
  PROVE  Sound(TouchOAuthClient(d, id, at), now)
<1> DEFINE S == {IF c.id = id THEN [c EXCEPT !.used = at] ELSE c : c \in d.clients}
<1>1. S \in SUBSET ClientRow
  BY DEF Sound, Database, ClientRow
<1>2. ASSUME NEW c \in d.clients
      PROVE  \E b \in S : b.id = c.id
  <2>1. [c EXCEPT !.used = at].id = c.id
    BY DEF Sound, Database, ClientRow
  <2> QED BY <2>1
<1>3. TouchOAuthClient(d, id, at) = [d EXCEPT !.clients = S]
  BY DEF TouchOAuthClient
<1> HIDE DEF S
<1> QED BY <1>1, <1>2, <1>3, ClientsSound

\* The codes of a client go with its grants, so no grant loses its code.
LEMMA DropClientsSound ==
  ASSUME NEW d, NEW now \in Nat, Sound(d, now), NEW gone
  PROVE  Sound(DropClients(d, gone), now)
<1> DEFINE ids == {g.id : g \in {h \in d.grants : h.client \in gone}}
           b == DropGrants(d, ids)
           C == {c \in b.clients : c.id \notin gone}
           K == {k \in b.codes : k.client \notin gone}
           e == [b EXCEPT !.clients = C, !.codes = K]
<1>0. Sound(b, now) /\ b.grants = {g \in d.grants : g.id \notin ids}
  BY DropGrantsSound, DropGrantsType DEF Sound
<1>1. \A g \in b.grants : g.client \notin gone
  BY <1>0
<1> HIDE DEF ids, b
<1>2. e \in Database
  BY <1>0 DEF Sound, Database
<1>3. e.codes = K /\ e.grants = b.grants /\ e.tokens = b.tokens /\ e.clients = C
  BY <1>0 DEF Sound, Database
<1>4. \A k \in b.codes, g \in b.grants : k.grant = g.id => k \in K
  BY <1>0, <1>1 DEF Sound, Home
<1>5. K \subseteq b.codes /\ \A k \in K : k.client \notin gone
  OBVIOUS
<1> HIDE DEF K, e
<1>6. One(e) /\ Linked(e)
  BY <1>0, <1>3 DEF Sound, One, Linked
<1>7. \A k \in e.codes : k.grant # None => \E g \in e.grants : g.id = k.grant
  BY <1>0, <1>3, <1>5 DEF Sound, Home
<1>8. \A k \in e.codes, g \in e.grants :
        k.grant = g.id => /\ k.used
                          /\ k.secret = g.code /\ k.expires = g.until /\ k.client = g.client
  BY <1>0, <1>3, <1>5 DEF Sound, Home
<1>9. \A g \in e.grants : g.until > now => \E k \in e.codes : k.grant = g.id
  BY <1>0, <1>3, <1>4 DEF Sound, Home
<1>10. Owned(e)
  BY <1>0, <1>1, <1>3, <1>5 DEF Sound, Owned
<1>11. Sound(e, now)
  BY <1>2, <1>6, <1>7, <1>8, <1>9, <1>10 DEF Sound, Home
<1>12. DropClients(d, gone) = e
  BY DEF DropClients, ids, b, e, K
<1> QED BY <1>11, <1>12

LEMMA DeleteIdleOAuthClientsSound ==
  ASSUME NEW d, NEW now \in Nat, Sound(d, now), NEW before
  PROVE  Sound(DeleteIdleOAuthClients(d, before), now)
BY DropClientsSound DEF DeleteIdleOAuthClients

LEMMA CreateOAuthCodeSound ==
  ASSUME NEW d, NEW now \in Nat, Sound(d, now), NEW secret \in Nat, NEW u \in User,
         NEW client \in Client, \E c \in d.clients : c.id = client, NEW until \in Nat
  PROVE  Sound(CreateOAuthCode(d, secret, u, client, until), now)
<1> DEFINE row == [secret |-> secret, user |-> u, client |-> client,
                   expires |-> until, used |-> FALSE, grant |-> None]
           K == d.codes \cup {row}
           e == [d EXCEPT !.codes = K]
<1>1. row \in CodeRow
  BY DEF CodeRow
<1>2. e \in Database
  BY <1>1 DEF Sound, Database
<1>3. e.codes = K /\ e.grants = d.grants /\ e.tokens = d.tokens /\ e.clients = d.clients
  BY DEF Sound, Database
<1>4. row.grant = None /\ row.client = client
  OBVIOUS
<1>5. \A g \in d.grants : g.id # None
  BY NoneAssumption DEF Sound, Database, GrantRow
<1> HIDE DEF row
<1>6. One(e) /\ Linked(e) /\ Owned(e)
  BY <1>3, <1>4 DEF Sound, One, Linked, Owned
<1>7. Home(e, now)
  BY <1>3, <1>4, <1>5 DEF Sound, Home
<1>8. CreateOAuthCode(d, secret, u, client, until) = e
  BY DEF CreateOAuthCode, row
<1> QED BY <1>2, <1>6, <1>7, <1>8 DEF Sound

\* A new grant, and the code it is given for, which pointed nowhere.
LEMMA UseCodeSound ==
  ASSUME NEW d, NEW now \in Nat, Sound(d, now), NEW k \in d.codes, ~k.used,
         NEW id \in Grant, \A g \in d.grants : g.id # id
  PROVE  LET e == UseOAuthCode(CreateOAuthGrant(d, id, k), k, id)
         IN  /\ Sound(e, now)
             /\ e.tokens = d.tokens
             /\ \E g \in e.grants : g.id = id
<1> DEFINE row == [id |-> id, user |-> k.user, client |-> k.client,
                   code |-> k.secret, until |-> k.expires]
           b == [d EXCEPT !.grants = d.grants \cup {row}]
           kept == [k EXCEPT !.used = TRUE, !.grant = id]
           K == {IF c = k THEN kept ELSE c : c \in d.codes}
           e == [b EXCEPT !.codes = K]
<1>0. d \in Database /\ k \in CodeRow
  BY DEF Sound, Database
<1>1. row \in GrantRow /\ kept \in CodeRow
  BY <1>0 DEF GrantRow, CodeRow
<1>2. /\ row.id = id /\ row.code = k.secret /\ row.until = k.expires /\ row.client = k.client
      /\ kept.used /\ kept.grant = id
      /\ kept.secret = k.secret /\ kept.expires = k.expires /\ kept.client = k.client
  BY <1>0 DEF CodeRow
<1> HIDE DEF row, kept
<1>3. K \in SUBSET CodeRow
  BY <1>0, <1>1 DEF Database
<1>4. /\ b \in Database /\ b.codes = d.codes /\ b.tokens = d.tokens /\ b.clients = d.clients
      /\ b.grants = d.grants \cup {row}
  BY <1>0, <1>1 DEF Database
<1> HIDE DEF b
<1>5. /\ e \in Database /\ e.codes = K /\ e.tokens = d.tokens /\ e.clients = d.clients
      /\ e.grants = d.grants \cup {row}
  BY <1>0, <1>3, <1>4 DEF Database
<1>6. kept \in e.codes /\ row \in e.grants
  BY <1>5
<1>7. \A c \in e.codes : c = kept \/ (c \in d.codes /\ c # k)
  BY <1>5
<1>8. \A c \in d.codes : c # k => c \in e.codes
  BY <1>5
<1> HIDE DEF K, e
<1>9. \A c \in d.codes : c.grant # id
  BY NoneAssumption DEF Sound, Home
<1>10. One(e) /\ Linked(e) /\ Owned(e)
  BY <1>2, <1>5, <1>7 DEF Sound, One, Linked, Owned
<1>11. \A c \in e.codes : c.grant # None => \E g \in e.grants : g.id = c.grant
  BY <1>2, <1>5, <1>6, <1>7 DEF Sound, Home
<1>12. ASSUME NEW c \in e.codes, NEW g \in e.grants, c.grant = g.id
       PROVE  /\ c.used
              /\ c.secret = g.code /\ c.expires = g.until /\ c.client = g.client
  <2>1. CASE c = kept
    <3>1. g = row
      BY <1>2, <1>5, <1>12, <2>1
    <3> QED BY <1>2, <2>1, <3>1
  <2>2. CASE c \in d.codes
    <3>1. g \in d.grants
      BY <1>2, <1>5, <1>9, <1>12, <2>2
    <3> QED BY <1>12, <2>2, <3>1 DEF Sound, Home
  <2> QED BY <1>7, <2>1, <2>2
<1>13. ASSUME NEW g \in e.grants, g.until > now
       PROVE  \E c \in e.codes : c.grant = g.id
  <2>1. CASE g = row
    BY <1>2, <1>6, <2>1
  <2>2. CASE g \in d.grants
    <3>1. PICK c \in d.codes : c.grant = g.id /\ c.used
      BY <1>13, <2>2 DEF Sound, Home
    <3> QED BY <1>8, <3>1
  <2> QED BY <1>5, <2>1, <2>2
<1>14. Sound(e, now)
  BY <1>5, <1>10, <1>11, <1>12, <1>13 DEF Sound, Home
<1>15. UseOAuthCode(CreateOAuthGrant(d, id, k), k, id) = e
  BY <1>4 DEF UseOAuthCode, CreateOAuthGrant, e, b, K, kept, row
<1> QED BY <1>2, <1>5, <1>6, <1>14, <1>15

LEMMA UseTokenSound ==
  ASSUME NEW d, NEW now \in Nat, Sound(d, now), NEW t \in d.tokens,
         t.kind = "refresh", ~t.used
  PROVE  LET e == UseOAuthToken(d, t)
         IN  /\ Sound(e, now)
             /\ e.grants = d.grants
             /\ \A s \in e.tokens : s.grant = t.grant /\ s.kind = "refresh" => s.used
<1> DEFINE kept == [t EXCEPT !.used = TRUE]
           T == {IF s = t THEN kept ELSE s : s \in d.tokens}
           e == [d EXCEPT !.tokens = T]
<1>0. d \in Database /\ t \in TokenRow
  BY DEF Sound, Database
<1>1. kept \in TokenRow /\ kept.used /\ kept.grant = t.grant
  BY <1>0 DEF TokenRow
<1> HIDE DEF kept
<1>2. T \in SUBSET TokenRow
  BY <1>0, <1>1 DEF Database
<1>3. /\ e \in Database /\ e.tokens = T /\ e.codes = d.codes /\ e.grants = d.grants
      /\ e.clients = d.clients
  BY <1>0, <1>2 DEF Database
<1>4. \A s \in e.tokens : s = kept \/ (s \in d.tokens /\ s # t)
  BY <1>3
<1> HIDE DEF T, e
<1>5. One(e)
  BY <1>1, <1>4 DEF Sound, One
<1>6. Linked(e)
  BY <1>1, <1>3, <1>4 DEF Sound, Linked
<1>7. Home(e, now) /\ Owned(e)
  BY <1>3 DEF Sound, Home, Owned
<1>8. \A s \in e.tokens : s.grant = t.grant /\ s.kind = "refresh" => s.used
  BY <1>1, <1>4 DEF Sound, One
<1>9. UseOAuthToken(d, t) = e
  BY DEF UseOAuthToken, e, T, kept
<1> QED BY <1>3, <1>5, <1>6, <1>7, <1>8, <1>9 DEF Sound

\* The grant has no refresh token left: it gets the one it may have.
LEMMA IssueTokensSound ==
  ASSUME NEW d, clock \in Nat, drawn \in Nat, Sound(d, clock),
         NEW id \in Grant, \E g \in d.grants : g.id = id,
         \A t \in d.tokens : t.grant = id /\ t.kind = "refresh" => t.used
  PROVE  Sound(issueTokens(d, id), clock)
<1> DEFINE A == [secret |-> Fresh, kind |-> "access", grant |-> id,
                 expires |-> clock + AccessTokenTTL, used |-> FALSE]
           R == [secret |-> Fresh, kind |-> "refresh", grant |-> id,
                 expires |-> clock + RefreshTokenTTL, used |-> FALSE]
           b == [d EXCEPT !.tokens = d.tokens \cup {A}]
           e == [b EXCEPT !.tokens = b.tokens \cup {R}]
<1>1. A \in TokenRow /\ R \in TokenRow
  BY TTLAssumption DEF TokenRow, Kind, Fresh
<1>2. A.grant = id /\ A.kind # "refresh" /\ R.grant = id
  OBVIOUS
<1> HIDE DEF A, R
<1>3. /\ b \in Database /\ b.codes = d.codes /\ b.grants = d.grants /\ b.clients = d.clients
      /\ b.tokens = d.tokens \cup {A}
  BY <1>1 DEF Sound, Database
<1> HIDE DEF b
<1>4. /\ e \in Database /\ e.codes = d.codes /\ e.grants = d.grants /\ e.clients = d.clients
      /\ e.tokens = d.tokens \cup {A, R}
  BY <1>1, <1>3 DEF Sound, Database
<1> HIDE DEF e
<1>5. One(e)
  BY <1>2, <1>4 DEF Sound, One
<1>6. Linked(e)
  BY <1>2, <1>4 DEF Sound, Linked
<1>7. Home(e, clock) /\ Owned(e)
  BY <1>4 DEF Sound, Home, Owned
<1>8. issueTokens(d, id) = e
  BY DEF issueTokens, CreateOAuthToken, e, b, A, R
<1> QED BY <1>4, <1>5, <1>6, <1>7, <1>8 DEF Sound

LEMMA TouchKeeps ==
  ASSUME NEW d, NEW now \in Nat, Sound(d, now), NEW id, NEW at
  PROVE  /\ TouchOAuthClient(d, id, at).tokens = d.tokens
         /\ TouchOAuthClient(d, id, at).grants = d.grants
BY DEF TouchOAuthClient, Sound, Database

-----------------------------------------------------------------------------
(* Transactions *)

LEMMA PruneSound ==
  ASSUME NEW d, clock \in Nat, Sound(d, clock)
  PROVE  Sound(pruneOAuth(d), clock)
BY DeleteExpiredOAuthCodesSound, DeleteExpiredOAuthTokensSound, DeleteGrantsSound DEF pruneOAuth

LEMMA ResetSound ==
  ASSUME NEW d, clock \in Nat, Sound(d, clock), NEW u
  PROVE  Sound(Reset(d, u), clock)
BY DeleteUserSessionsSound, DeleteGrantsSound DEF Reset

\* A code that points nowhere and has not expired is not pruned.
LEMMA PruneKeepsCode ==
  ASSUME NEW d, clock \in Nat, Sound(d, clock), NEW k \in d.codes, k.grant = None, k.expires > clock
  PROVE  k \in pruneOAuth(d).codes
<1> DEFINE b == DeleteExpiredOAuthCodes(d, clock)
           c == DeleteExpiredOAuthTokens(b, clock)
           gone == {g.id : g \in {h \in c.grants : \A t \in c.tokens : t.grant # h.id}}
<1>1. Sound(b, clock) /\ Sound(c, clock)
  BY DeleteExpiredOAuthCodesSound, DeleteExpiredOAuthTokensSound
<1>2. k \in b.codes
  BY DEF Sound, Database, DeleteExpiredOAuthCodes
<1>3. k \in c.codes
  BY <1>1, <1>2 DEF Sound, Database, DeleteExpiredOAuthTokens
<1>4. \A g \in c.grants : g.id # None
  BY <1>1, NoneAssumption DEF Sound, Database, GrantRow
<1> HIDE DEF b, c
<1>5. None \notin gone
  BY <1>4
<1>6. DropGrants(c, gone).codes =
        {IF x.grant \in gone THEN [x EXCEPT !.grant = None] ELSE x : x \in c.codes}
  BY <1>1, DropGrantsType DEF Sound
<1> HIDE DEF gone
<1>7. k \in DropGrants(c, gone).codes
  BY <1>3, <1>5, <1>6
<1> QED BY <1>7 DEF pruneOAuth, DeleteEmptyOAuthGrants, gone, b, c

LEMMA ReuseCodeSound ==
  ASSUME IInv, NEW k, ReuseCode(k)
  PROVE  Sound(db', clock)
BY DeleteGrantsSound DEF IInv, TypeOK, ReuseCode

LEMMA RedeemCodeSound ==
  ASSUME IInv, NEW k \in db.codes, NEW id \in Grant, RedeemCode(k, id)
  PROVE  Sound(db', clock)
<1> DEFINE p == pruneOAuth(db)
           d == UseOAuthCode(CreateOAuthGrant(p, id, k), k, id)
           e == TouchOAuthClient(d, k.client, clock)
<1>0. Sound(db, clock) /\ clock \in Nat /\ drawn \in Nat
  BY DEF IInv, TypeOK
<1>1. Sound(p, clock)
  BY <1>0, PruneSound
<1>2. k.grant = None
  BY <1>0 DEF Sound, Home, RedeemCode
<1>3. k \in p.codes
  BY <1>0, <1>2, PruneKeepsCode DEF RedeemCode
<1>4. \A g \in p.grants : g.id # id
  BY DEF RedeemCode
<1>5. ~k.used
  BY DEF RedeemCode
<1> HIDE DEF p
<1>6. Sound(d, clock) /\ d.tokens = p.tokens /\ \E g \in d.grants : g.id = id
  BY <1>0, <1>1, <1>3, <1>4, <1>5, UseCodeSound
<1> HIDE DEF d
<1>7. Sound(e, clock) /\ e.tokens = d.tokens /\ e.grants = d.grants
  BY <1>0, <1>6, TouchOAuthClientSound, TouchKeeps
<1> HIDE DEF e
<1>8. \A t \in e.tokens : t.grant # id
  BY <1>1, <1>4, <1>6, <1>7 DEF Sound, Linked
<1>9. Sound(issueTokens(e, id), clock)
  BY <1>0, <1>6, <1>7, <1>8, IssueTokensSound
<1> QED BY <1>9 DEF RedeemCode, e, d, p

LEMMA RotateRefreshSound ==
  ASSUME IInv, NEW t \in db.tokens, t.kind = "refresh", RotateRefresh(t)
  PROVE  Sound(db', clock)
<1> DEFINE clients == {g.client : g \in {h \in db.grants : h.id = t.grant}}
           c == CHOOSE x \in clients : TRUE
           u == UseOAuthToken(db, t)
           d == TouchOAuthClient(u, c, clock)
<1>0. Sound(db, clock) /\ clock \in Nat /\ drawn \in Nat
  BY DEF IInv, TypeOK
<1>1. t.grant \in Grant /\ \E g \in db.grants : g.id = t.grant
  BY <1>0 DEF Sound, Linked, Database, TokenRow
<1> HIDE DEF c
<1>2. /\ Sound(u, clock) /\ u.grants = db.grants
      /\ \A s \in u.tokens : s.grant = t.grant /\ s.kind = "refresh" => s.used
  BY <1>0, UseTokenSound DEF RotateRefresh
<1> HIDE DEF u
<1>3. Sound(d, clock) /\ d.tokens = u.tokens /\ d.grants = u.grants
  BY <1>0, <1>2, TouchOAuthClientSound, TouchKeeps
<1> HIDE DEF d
<1>4. Sound(issueTokens(d, t.grant), clock)
  BY <1>0, <1>1, <1>2, <1>3, IssueTokensSound
<1>5. Sound(pruneOAuth(issueTokens(d, t.grant)), clock)
  BY <1>0, <1>4, PruneSound
<1> QED BY <1>5 DEF RotateRefresh, d, u, c

-----------------------------------------------------------------------------
(* Requests *)

Acting == {"login", "user", "approve", "keep"}

RowOK(row) ==
  /\ row \in RequestRow
  /\ row.at \in Acting => row.user \in User
  /\ row.at = "approve" => row.client \in Client
  /\ row.at = "revoke" => row.grant \in Grant

RequestsOK(q) == q \in [Request -> RequestRow] /\ \A r \in Request : RowOK(q[r])

LEMMA TypeOKSplit ==
  TypeOK <=> /\ db \in Database
             /\ {row.client : row \in db.codes \cup db.grants} \subseteq ClientIds(db)
             /\ {t.grant : t \in db.tokens} \subseteq {g.id : g \in db.grants}
             /\ clock \in Nat /\ drawn \in Nat /\ RequestsOK(request)
BY DEF TypeOK, RequestsOK, RowOK, Acting

LEMMA SoundKeys ==
  ASSUME NEW d, NEW now, Sound(d, now)
  PROVE  /\ {row.client : row \in d.codes \cup d.grants} \subseteq ClientIds(d)
         /\ {t.grant : t \in d.tokens} \subseteq {g.id : g \in d.grants}
BY DEF Sound, Linked, Owned, ClientIds

LEMMA RequestSet ==
  ASSUME NEW q, RequestsOK(q), NEW r \in Request, NEW row, RowOK(row)
  PROVE  RequestsOK([q EXCEPT ![r] = row])
BY DEF RequestsOK, RowOK

LEMMA EndOK ==
  ASSUME RequestsOK(request), NEW r \in Request, End(r)
  PROVE  RequestsOK(request')
<1>1. RowOK(Idle)
  BY DEF RowOK, Idle, RequestRow, Acting
<1> QED BY <1>1, RequestSet DEF End

LEMMA RequestStep ==
  ASSUME IInv, Next
  PROVE  RequestsOK(request')
<1>0. RequestsOK(request) /\ db \in Database
  BY TypeOKSplit DEF IInv
<1>1. ASSUME NEW r \in Request, NEW u \in User, Login(r, u)
      PROVE  RequestsOK(request')
  <2> DEFINE row == [Idle EXCEPT !.at = "login", !.user = u]
  <2>1. RowOK(row)
    BY DEF RowOK, Idle, RequestRow, Acting
  <2> QED BY <1>0, <1>1, <2>1, RequestSet DEF Login
<1>2. ASSUME NEW r \in Request, NEW s \in db.sessions, Authenticate(r, s)
      PROVE  RequestsOK(request')
  <2> DEFINE row == [Idle EXCEPT !.at = "user", !.user = s.user, !.secret = s.secret]
  <2>1. s.user \in User /\ s.secret \in Nat
    BY <1>0 DEF Database, SessionRow
  <2>2. RowOK(row)
    BY <2>1 DEF RowOK, Idle, RequestRow, Acting
  <2> QED BY <1>0, <1>2, <2>2, RequestSet DEF Authenticate
<1>3. ASSUME NEW r \in Request, NEW t \in db.tokens, RevokeOAuthToken(r, t)
      PROVE  RequestsOK(request')
  <2> DEFINE row == [Idle EXCEPT !.at = "revoke", !.grant = t.grant]
  <2>1. t.grant \in Grant
    BY <1>0 DEF Database, TokenRow
  <2>2. RowOK(row)
    BY <2>1 DEF RowOK, Idle, RequestRow, Acting
  <2> QED BY <1>0, <1>3, <2>2, RequestSet DEF RevokeOAuthToken
<1>4. ASSUME NEW r \in Request, ChangePassword(r)
      PROVE  RequestsOK(request')
  <2> DEFINE row == [request[r] EXCEPT !.at = "keep"]
  <2>1. RowOK(request[r]) /\ request[r].at = "user"
    BY <1>0, <1>4 DEF RequestsOK, ChangePassword
  <2>2. RowOK(row)
    BY <2>1 DEF RowOK, RequestRow, Acting
  <2> QED BY <1>0, <1>4, <2>2, RequestSet DEF ChangePassword
<1>5. ASSUME NEW r \in Request, NEW c \in Client, checkAuthorize(r, c)
      PROVE  RequestsOK(request')
  <2> DEFINE row == [request[r] EXCEPT !.at = "approve", !.secret = 0, !.client = c]
  <2>1. RowOK(request[r]) /\ request[r].at = "user"
    BY <1>0, <1>5 DEF RequestsOK, checkAuthorize
  <2>2. RowOK(row)
    BY <2>1 DEF RowOK, RequestRow, Acting
  <2>3. request' = [request EXCEPT ![r] = row]
    BY <1>0, <1>5 DEF RequestsOK, checkAuthorize
  <2> QED BY <1>0, <2>2, <2>3, RequestSet
<1>6. ASSUME NEW r \in Request,
             \/ \E ttl \in KeyTTLs : CreateToken(r, ttl)
             \/ \E k \in db.keys : RevokeToken(r, k)
             \/ \E id \in Grant : RevokeGrant(r, id)
             \/ StartSession(r) \/ KeepSession(r) \/ IssueCode(r) \/ RevokeRead(r) \/ Abandon(r)
      PROVE  RequestsOK(request')
  <2>1. End(r) \/ request' = request
    BY <1>6 DEF CreateToken, RevokeToken, RevokeGrant, StartSession, KeepSession, IssueCode,
                RevokeRead, Abandon
  <2> QED BY <1>0, <2>1, EndOK
<1>7. CASE request' = request
  BY <1>0, <1>7
<1>8. ASSUME \/ \E s \in db.sessions : Logout(s)
             \/ \E u \in User : SetPassword(u) \/ \E isActive \in BOOLEAN : Update(u, isActive)
             \/ \E c \in Client : RegisterClient(c)
             \/ \E k \in db.codes : ExchangeCode(k)
             \/ \E t \in db.tokens : Refresh(t)
             \/ Tick
      PROVE  request' = request
  BY <1>8 DEF Logout, SetPassword, Update, RegisterClient, ExchangeCode, Refresh, Tick
<1> QED BY <1>1, <1>2, <1>3, <1>4, <1>5, <1>6, <1>7, <1>8 DEF Next, AsUser

LEMMA DrawnStep ==
  ASSUME IInv, Next
  PROVE  drawn' \in Nat
<1>0. drawn \in Nat
  BY DEF IInv, TypeOK
<1>1. Draw => drawn' \in Nat
  BY <1>0 DEF Draw
<1>2. drawn' = drawn \/ Draw
  BY DEF Next, AsUser, Login, StartSession, Authenticate, Logout, SetPassword, ChangePassword,
         KeepSession, Update, CreateToken, RevokeToken, RegisterClient, checkAuthorize, IssueCode,
         ReuseCode, RedeemCode, ExchangeCode, ReuseRefresh, RotateRefresh, Refresh, RevokeGrant,
         RevokeOAuthToken, RevokeRead, Abandon, Tick
<1> QED BY <1>0, <1>1, <1>2

-----------------------------------------------------------------------------
(* Every step *)

LEMMA InitSound ==
  Init => IInv
<1> SUFFICES ASSUME Init PROVE IInv
  OBVIOUS
<1>1. EmptyDatabase \in Database
  BY DEF EmptyDatabase, Database
<1>2. Sound(db, clock)
  BY <1>1 DEF Init, Sound, One, Linked, Owned, Home, EmptyDatabase
<1>3. RowOK(Idle)
  BY DEF RowOK, Idle, RequestRow, Acting
<1>4. RequestsOK(request)
  BY <1>3 DEF Init, RequestsOK, RowOK
<1> QED BY <1>1, <1>2, <1>4, TypeOKSplit, SoundKeys DEF Init, IInv

\* Time may only make a grant's code expire.
LEMMA TickSound ==
  ASSUME IInv, Tick
  PROVE  Sound(db', clock')
<1>1. Sound(db, clock) /\ clock \in Nat /\ db' = db /\ clock' = clock + 1
  BY DEF IInv, TypeOK, Tick
<1>2. \A g \in db.grants : g.until > clock + 1 => g.until > clock
  BY <1>1 DEF Sound, Database, GrantRow
<1>3. Sound(db, clock + 1)
  BY <1>1, <1>2 DEF Sound, Home
<1> QED BY <1>1, <1>3

\* Every handler that changes the database, at an unchanged time.
LEMMA HandlerSound ==
  ASSUME IInv, Next, clock' = clock
  PROVE  Sound(db', clock)
<1>0. Sound(db, clock) /\ clock \in Nat /\ drawn \in Nat /\ Fresh \in Nat /\ RequestsOK(request)
  BY TypeOKSplit DEF IInv, Fresh
<1>u. \A r \in Request : request[r].at \in Acting => request[r].user \in User
  BY <1>0 DEF RequestsOK, RowOK
<1>1. CASE db' = db
  BY <1>0, <1>1
<1>2. ASSUME NEW r \in Request, StartSession(r)
      PROVE  Sound(db', clock)
  <2>1. request[r].user \in User /\ clock + SessionTTL \in Nat
    BY <1>0, <1>2, <1>u, TTLAssumption DEF StartSession, Acting
  <2>2. Sound(DeleteExpiredSessions(db, clock), clock)
    BY <1>0, DeleteExpiredSessionsSound
  <2> QED BY <1>0, <1>2, <2>1, <2>2, CreateSessionSound DEF StartSession
<1>3. ASSUME NEW s \in db.sessions, Logout(s)
      PROVE  Sound(db', clock)
  BY <1>0, <1>3, DeleteSessionSound DEF Logout
<1>4. ASSUME NEW u \in User, SetPassword(u)
      PROVE  Sound(db', clock)
  BY <1>0, <1>4, ResetSound DEF SetPassword
<1>5. ASSUME NEW r \in Request, ChangePassword(r)
      PROVE  Sound(db', clock)
  BY <1>0, <1>5, ResetSound DEF ChangePassword
<1>6. ASSUME NEW r \in Request, KeepSession(r)
      PROVE  Sound(db', clock)
  <2>1. /\ request[r].user \in User /\ clock + SessionTTL \in Nat
        /\ request[r].secret \in Nat
    BY <1>0, <1>6, <1>u, TTLAssumption DEF KeepSession, Acting, RequestsOK, RequestRow
  <2> QED BY <1>0, <1>6, <2>1, CreateSessionSound DEF KeepSession
<1>7. ASSUME NEW u \in User, NEW isActive \in BOOLEAN, Update(u, isActive)
      PROVE  Sound(db', clock)
  <2>1. Sound(UpdateUser(db, u, TRUE), clock) /\ Sound(UpdateUser(db, u, FALSE), clock)
    BY <1>0, UpdateUserSound
  <2>2. Sound(Reset(UpdateUser(db, u, FALSE), u), clock)
    BY <1>0, <2>1, ResetSound
  <2> QED BY <1>7, <2>1, <2>2 DEF Update
<1>8. ASSUME NEW r \in Request, NEW ttl \in KeyTTLs, CreateToken(r, ttl)
      PROVE  Sound(db', clock)
  <2>1. request[r].user \in User
    BY <1>8, <1>u DEF CreateToken, Acting
  <2>2. (IF ttl = 0 THEN None ELSE clock + ttl) \in Nat \cup {None}
    BY <1>0, TTLAssumption
  <2> QED BY <1>0, <1>8, <2>1, <2>2, CreateAPITokenSound DEF CreateToken
<1>9. ASSUME NEW r \in Request, NEW k \in db.keys, RevokeToken(r, k)
      PROVE  Sound(db', clock)
  BY <1>0, <1>9, DeleteAPITokenSound DEF RevokeToken
<1>10. ASSUME NEW c \in Client, RegisterClient(c)
       PROVE  Sound(db', clock)
  <2> DEFINE d == IF clock < idleClientTTL THEN db
                  ELSE DeleteIdleOAuthClients(db, clock - idleClientTTL)
  <2>1. Sound(d, clock)
    BY <1>0, DeleteIdleOAuthClientsSound
  <2> HIDE DEF d
  <2>2. Sound(CreateOAuthClient(d, c, clock), clock)
    BY <1>0, <2>1, CreateOAuthClientSound
  <2> QED BY <1>10, <2>1, <2>2 DEF RegisterClient, d
<1>11. ASSUME NEW r \in Request, IssueCode(r)
       PROVE  Sound(db', clock)
  <2> DEFINE d == DeleteExpiredOAuthCodes(db, clock)
  <2>1. Sound(d, clock)
    BY <1>0, DeleteExpiredOAuthCodesSound
  <2>2. /\ request[r].user \in User /\ request[r].client \in Client
        /\ clock + codeTTL \in Nat
    BY <1>0, <1>11, <1>u, TTLAssumption DEF IssueCode, Acting, RequestsOK, RowOK
  <2> HIDE DEF d
  <2>3. ASSUME request[r].client \in ClientIds(d)
        PROVE  Sound(CreateOAuthCode(d, Fresh, request[r].user, request[r].client, clock + codeTTL),
                     clock)
    BY <1>0, <2>1, <2>2, <2>3, CreateOAuthCodeSound DEF ClientIds
  <2> QED BY <1>11, <2>1, <2>3 DEF IssueCode, d
<1>12. ASSUME NEW k \in db.codes, ExchangeCode(k)
       PROVE  Sound(db', clock)
  BY <1>12, ReuseCodeSound, RedeemCodeSound DEF ExchangeCode
<1>13. ASSUME NEW t \in db.tokens, Refresh(t)
       PROVE  Sound(db', clock)
  BY <1>0, <1>13, DeleteGrantsSound, RotateRefreshSound DEF Refresh, ReuseRefresh
<1>14. ASSUME NEW r \in Request, (\E id \in Grant : RevokeGrant(r, id)) \/ RevokeRead(r)
       PROVE  Sound(db', clock)
  BY <1>0, <1>14, DeleteGrantsSound DEF RevokeGrant, RevokeRead
<1>15. ASSUME NEW r \in Request,
              \/ \E u \in User : Login(r, u)
              \/ \E s \in db.sessions : Authenticate(r, s)
              \/ \E t \in db.tokens : RevokeOAuthToken(r, t)
              \/ \E c \in Client : checkAuthorize(r, c)
              \/ Abandon(r)
       PROVE  db' = db
  BY <1>15 DEF Login, Authenticate, RevokeOAuthToken, checkAuthorize, Abandon
<1>16. CASE Tick
  BY <1>0, <1>16 DEF Tick
<1> QED BY <1>1, <1>2, <1>3, <1>4, <1>5, <1>6, <1>7, <1>8, <1>9, <1>10, <1>11, <1>12, <1>13,
           <1>14, <1>15, <1>16 DEF Next, AsUser

LEMMA StepSound ==
  ASSUME IInv, [Next]_vars
  PROVE  IInv'
<1>1. CASE UNCHANGED vars
  BY <1>1 DEF vars, IInv, TypeOK
<1>2. CASE Next
  <2>1. Sound(db', clock') /\ clock' \in Nat
    <3>0. clock \in Nat
      BY DEF IInv, TypeOK
    <3>1. clock' = clock \/ Tick
      BY <1>2 DEF Next, AsUser, Login, StartSession, Authenticate, Logout, SetPassword,
           ChangePassword, KeepSession, Update, CreateToken, RevokeToken, RegisterClient,
           checkAuthorize, IssueCode, ExchangeCode, Refresh, RevokeGrant, RevokeOAuthToken,
           RevokeRead, Abandon
    <3>2. CASE clock' = clock
      BY <1>2, <3>0, <3>2, HandlerSound
    <3>3. CASE Tick
      BY <3>0, <3>3, TickSound DEF Tick
    <3> QED BY <3>1, <3>2, <3>3
  <2>2. drawn' \in Nat /\ RequestsOK(request')
    BY <1>2, DrawnStep, RequestStep
  <2>3. TypeOK'
    <3>1. /\ {row.client : row \in db'.codes \cup db'.grants} \subseteq ClientIds(db')
          /\ {t.grant : t \in db'.tokens} \subseteq {g.id : g \in db'.grants}
      BY <2>1, SoundKeys
    <3> QED BY <2>1, <2>2, <3>1 DEF TypeOK, ClientIds, Sound, RequestsOK, RowOK, Acting
  <2> QED BY <2>1, <2>3 DEF IInv
<1> QED BY <1>1, <1>2

\* The tables are sound, whoever signs in, connects, disconnects, retries or
\* gives up between two steps.
THEOREM Inductive ==
  Spec => []IInv
<1>1. Init => IInv
  BY InitSound
<1>2. IInv /\ [Next]_vars => IInv'
  BY StepSound
<1> QED BY <1>1, <1>2, PTL DEF Spec

\* Every row of every table is well-formed, and so is what a request carries
\* from its first step to its second.
THEOREM TypeCorrect ==
  Spec => []TypeOK
<1>1. IInv => TypeOK
  BY DEF IInv
<1> QED BY <1>1, Inductive, PTL

\* However often a connected app rotates its refresh token, and whoever else
\* presents an old one, a grant has at most one that can be exchanged.
THEOREM RotationIsLinear ==
  Spec => []OneLiveRefresh
<1>1. IInv => OneLiveRefresh
  BY DEF IInv, Sound, One, OneLiveRefresh
<1> QED BY <1>1, Inductive, PTL

\* A redeemed code points at its own grant, although ids are given again.
THEOREM CodesEndTheirOwnGrant ==
  Spec => []CodesPointHome
<1>1. ASSUME IInv
      PROVE  CodesPointHome
  <2>1. Home(db, clock)
    BY <1>1 DEF IInv, Sound
  <2>2. ASSUME NEW g \in db.grants, g.until > clock
        PROVE  \E k \in db.codes : k.secret = g.code /\ k.grant = g.id
    BY <2>1, <2>2 DEF Home
  <2> QED BY <2>1, <2>2 DEF Home, CodesPointHome
<1> QED BY <1>1, Inductive, PTL

-----------------------------------------------------------------------------
(* A used token is remembered *)

\* Every unexpired token of d whose grant stands in e is in e, as used as it was.
Remembers(d, e) ==
  \A t \in d.tokens :
    t.expires > clock /\ (\E g \in e.grants : g.id = t.grant) =>
      \E s \in e.tokens : /\ s.secret = t.secret /\ s.kind = t.kind
                          /\ s.grant = t.grant
                          /\ t.used => s.used

LEMMA DropRemembers ==
  ASSUME NEW d \in Database, NEW gone, NEW e,
         e.grants = DropGrants(d, gone).grants, e.tokens = DropGrants(d, gone).tokens
  PROVE  Remembers(d, e)
<1>1. /\ e.grants = {g \in d.grants : g.id \notin gone}
      /\ e.tokens = {t \in d.tokens : t.grant \notin gone}
  BY DropGrantsType
<1> QED BY <1>1 DEF Remembers

LEMMA DropClientsRemembers ==
  ASSUME NEW d \in Database, NEW gone
  PROVE  Remembers(d, DropClients(d, gone))
<1> DEFINE b == DropGrants(d, {g.id : g \in {h \in d.grants : h.client \in gone}})
<1>1. b \in Database
  BY DropGrantsType
<1>2. DropClients(d, gone).grants = b.grants /\ DropClients(d, gone).tokens = b.tokens
  BY <1>1 DEF DropClients, Database
<1> QED BY <1>2, DropRemembers

LEMMA PruneKeepsToken ==
  ASSUME NEW d \in Database, NEW t \in d.tokens, t.expires > clock
  PROVE  t \in pruneOAuth(d).tokens
<1> DEFINE b == DeleteExpiredOAuthCodes(d, clock)
           c == DeleteExpiredOAuthTokens(b, clock)
           gone == {g.id : g \in {h \in c.grants : \A x \in c.tokens : x.grant # h.id}}
<1>1. b \in Database /\ b.tokens = d.tokens
  BY DEF DeleteExpiredOAuthCodes, Database
<1> HIDE DEF b
<1>2. c \in Database /\ t \in c.tokens
  BY <1>1 DEF DeleteExpiredOAuthTokens, Database
<1> HIDE DEF c
<1>3. t.grant \notin gone
  BY <1>2
<1>4. t \in DropGrants(c, gone).tokens
  BY <1>2, <1>3, DropGrantsType
<1> QED BY <1>4 DEF pruneOAuth, DeleteEmptyOAuthGrants, gone, c, b

LEMMA IssueKeeps ==
  ASSUME NEW d \in Database, NEW id
  PROVE  d.tokens \subseteq issueTokens(d, id).tokens
<1> DEFINE b == CreateOAuthToken(d, id, "access", Fresh, clock + AccessTokenTTL)
<1>1. DOMAIN b = DOMAIN d /\ d.tokens \subseteq b.tokens /\ "tokens" \in DOMAIN d
  BY DEF CreateOAuthToken, Database
<1> HIDE DEF b
<1>2. b.tokens \subseteq CreateOAuthToken(b, id, "refresh", Fresh, clock + RefreshTokenTTL).tokens
  BY <1>1 DEF CreateOAuthToken
<1> QED BY <1>1, <1>2 DEF issueTokens, b

LEMMA RedeemRemembers ==
  ASSUME IInv, NEW k \in db.codes, NEW id \in Grant, RedeemCode(k, id)
  PROVE  Remembers(db, db')
<1> DEFINE p == pruneOAuth(db)
           d == UseOAuthCode(CreateOAuthGrant(p, id, k), k, id)
           e == TouchOAuthClient(d, k.client, clock)
<1>0. Sound(db, clock) /\ clock \in Nat
  BY DEF IInv, TypeOK
<1>1. Sound(p, clock)
  BY <1>0, PruneSound
<1>2. k.grant = None
  BY <1>0 DEF Sound, Home, RedeemCode
<1>3. k \in p.codes
  BY <1>0, <1>2, PruneKeepsCode DEF RedeemCode
<1>4. \A t \in db.tokens : t.expires > clock => t \in p.tokens
  BY <1>0, PruneKeepsToken DEF Sound
<1>5. (\A g \in p.grants : g.id # id) /\ ~k.used
  BY DEF RedeemCode
<1> HIDE DEF p
<1>6. Sound(d, clock) /\ d.tokens = p.tokens
  BY <1>0, <1>1, <1>3, <1>5, UseCodeSound
<1> HIDE DEF d
<1>7. Sound(e, clock) /\ e.tokens = d.tokens
  BY <1>0, <1>6, TouchOAuthClientSound, TouchKeeps
<1> HIDE DEF e
<1>8. p.tokens \subseteq issueTokens(e, id).tokens
  BY <1>6, <1>7, IssueKeeps DEF Sound
<1>9. db' = issueTokens(e, id)
  BY DEF RedeemCode, e, d, p
<1> QED BY <1>4, <1>8, <1>9 DEF Remembers

LEMMA RotateRemembers ==
  ASSUME IInv, NEW t \in db.tokens, t.kind = "refresh", RotateRefresh(t)
  PROVE  Remembers(db, db')
<1> DEFINE clients == {g.client : g \in {h \in db.grants : h.id = t.grant}}
           c == CHOOSE x \in clients : TRUE
           kept == [t EXCEPT !.used = TRUE]
           u == UseOAuthToken(db, t)
           d == TouchOAuthClient(u, c, clock)
           i == issueTokens(d, t.grant)
<1>0. Sound(db, clock) /\ clock \in Nat /\ drawn \in Nat /\ t \in TokenRow
  BY DEF IInv, TypeOK, Sound, Database
<1>1. t.grant \in Grant /\ \E g \in db.grants : g.id = t.grant
  BY <1>0 DEF Sound, Linked, TokenRow
<1>2. /\ kept.used /\ kept.expires = t.expires /\ kept.secret = t.secret
      /\ kept.kind = t.kind /\ kept.grant = t.grant
  BY <1>0 DEF TokenRow
<1>3. kept \in u.tokens /\ \A s \in db.tokens : s # t => s \in u.tokens
  BY <1>0 DEF UseOAuthToken, Sound, Database
<1> HIDE DEF kept, c
<1>4. /\ Sound(u, clock) /\ u.grants = db.grants
      /\ \A s \in u.tokens : s.grant = t.grant /\ s.kind = "refresh" => s.used
  BY <1>0, UseTokenSound DEF RotateRefresh
<1> HIDE DEF u
<1>5. Sound(d, clock) /\ d.tokens = u.tokens /\ d.grants = u.grants
  BY <1>0, <1>4, TouchOAuthClientSound, TouchKeeps
<1> HIDE DEF d
<1>6. Sound(i, clock) /\ d.tokens \subseteq i.tokens
  BY <1>0, <1>1, <1>4, <1>5, IssueTokensSound, IssueKeeps DEF Sound
<1> HIDE DEF i
<1>7. \A s \in i.tokens : s.expires > clock => s \in pruneOAuth(i).tokens
  BY <1>6, PruneKeepsToken DEF Sound
<1>8. db' = pruneOAuth(i)
  BY DEF RotateRefresh, i, d, u, c
<1>9. \A s \in db.tokens : s.expires > clock =>
        IF s = t THEN kept \in db'.tokens ELSE s \in db'.tokens
  BY <1>2, <1>3, <1>5, <1>6, <1>7, <1>8
<1> QED BY <1>2, <1>9 DEF Remembers

LEMMA ResetRemembers ==
  ASSUME NEW b, clock \in Nat, Sound(b, clock), NEW u
  PROVE  Remembers(b, Reset(b, u))
<1> DEFINE d == DeleteUserSessions(b, u)
<1>1. d \in Database /\ d.tokens = b.tokens /\ d.grants = b.grants
  BY DEF DeleteUserSessions, Sound, Database
<1> HIDE DEF d
<1>2. Remembers(d, DeleteUserOAuthGrants(d, u))
  BY <1>1, DropRemembers DEF DeleteUserOAuthGrants
<1> QED BY <1>1, <1>2 DEF Reset, Remembers, d

LEMMA SameRemembers ==
  ASSUME NEW d, NEW e, e.tokens = d.tokens
  PROVE  Remembers(d, e)
BY DEF Remembers

LEMMA StepRemembers ==
  ASSUME IInv, Next
  PROVE  Remembers(db, db')
<1>0. Sound(db, clock) /\ db \in Database /\ clock \in Nat
  BY DEF IInv, TypeOK
<1>1. CASE db' = db
  BY <1>1, SameRemembers
<1>2. ASSUME NEW r \in Request,
             \/ StartSession(r) \/ KeepSession(r)
             \/ \E ttl \in KeyTTLs : CreateToken(r, ttl)
             \/ \E k \in db.keys : RevokeToken(r, k)
             \/ IssueCode(r)
      PROVE  db'.tokens = db.tokens
  BY <1>0, <1>2 DEF StartSession, KeepSession, CreateToken, RevokeToken, IssueCode, CreateSession,
       DeleteExpiredSessions, CreateAPIToken, DeleteAPIToken, DeleteExpiredOAuthCodes,
       CreateOAuthCode, Database
<1>3. ASSUME NEW s \in db.sessions, Logout(s)
      PROVE  db'.tokens = db.tokens
  BY <1>0, <1>3 DEF Logout, DeleteSession, Database
<1>4. ASSUME NEW u \in User, SetPassword(u)
      PROVE  Remembers(db, db')
  BY <1>0, <1>4, ResetRemembers DEF SetPassword
<1>5. ASSUME NEW r \in Request, ChangePassword(r)
      PROVE  Remembers(db, db')
  BY <1>0, <1>5, ResetRemembers DEF ChangePassword
<1>6. ASSUME NEW u \in User, NEW isActive \in BOOLEAN, Update(u, isActive)
      PROVE  Remembers(db, db')
  <2>1. \A b \in BOOLEAN : /\ Sound(UpdateUser(db, u, b), clock)
                           /\ UpdateUser(db, u, b).tokens = db.tokens
    BY <1>0, UpdateUserSound DEF UpdateUser, Database
  <2>2. Remembers(UpdateUser(db, u, FALSE), Reset(UpdateUser(db, u, FALSE), u))
    BY <1>0, <2>1, ResetRemembers
  <2>3. Remembers(db, Reset(UpdateUser(db, u, FALSE), u))
    BY <2>1, <2>2 DEF Remembers
  <2>4. Remembers(db, UpdateUser(db, u, TRUE))
    BY <2>1, SameRemembers
  <2> QED BY <1>6, <2>3, <2>4 DEF Update
<1>7. ASSUME NEW c \in Client, RegisterClient(c)
      PROVE  Remembers(db, db')
  <2> DEFINE d == IF clock < idleClientTTL THEN db
                  ELSE DeleteIdleOAuthClients(db, clock - idleClientTTL)
  <2>1. Remembers(db, d)
    BY <1>0, DropClientsRemembers, SameRemembers DEF DeleteIdleOAuthClients
  <2>2. d \in Database
    BY <1>0, DeleteIdleOAuthClientsSound DEF Sound
  <2> HIDE DEF d
  <2>3. /\ CreateOAuthClient(d, c, clock).tokens = d.tokens
        /\ CreateOAuthClient(d, c, clock).grants = d.grants
    BY <2>2 DEF CreateOAuthClient, Database
  <2> QED BY <1>7, <2>1, <2>3 DEF RegisterClient, Remembers, d
<1>8. ASSUME NEW k \in db.codes, ExchangeCode(k)
      PROVE  Remembers(db, db')
  <2>1. CASE ReuseCode(k)
    BY <1>0, <2>1, DropRemembers, SameRemembers DEF ReuseCode, DeleteOAuthGrantByID
  <2> QED BY <1>8, <2>1, RedeemRemembers DEF ExchangeCode
<1>9. ASSUME NEW t \in db.tokens, Refresh(t)
      PROVE  Remembers(db, db')
  <2>1. CASE ReuseRefresh(t)
    BY <1>0, <2>1, DropRemembers DEF ReuseRefresh, DeleteOAuthGrantByID
  <2> QED BY <1>9, <2>1, RotateRemembers DEF Refresh
<1>10. ASSUME NEW r \in Request, (\E id \in Grant : RevokeGrant(r, id)) \/ RevokeRead(r)
       PROVE  Remembers(db, db')
  BY <1>0, <1>10, DropRemembers DEF RevokeGrant, RevokeRead, DeleteOAuthGrant, DeleteOAuthGrantByID
<1>11. ASSUME NEW r \in Request,
              \/ \E u \in User : Login(r, u)
              \/ \E s \in db.sessions : Authenticate(r, s)
              \/ \E t \in db.tokens : RevokeOAuthToken(r, t)
              \/ \E c \in Client : checkAuthorize(r, c)
              \/ Abandon(r)
       PROVE  db' = db
  BY <1>11 DEF Login, Authenticate, RevokeOAuthToken, checkAuthorize, Abandon
<1>12. CASE Tick
  BY <1>12, SameRemembers DEF Tick
<1> QED BY <1>1, <1>2, <1>3, <1>4, <1>5, <1>6, <1>7, <1>8, <1>9, <1>10, <1>11, <1>12,
           SameRemembers DEF Next, AsUser

\* A rotated refresh token stays known as used until it expires or its grant
\* ends, whatever else is pruned, deleted or disconnected meanwhile: no step
\* makes a token that was given away exchangeable again.
THEOREM RotatedStaysUsed ==
  Spec => ReuseIsRemembered
<1>1. ASSUME IInv, [Next]_vars
      PROVE  [Remembers(db, db')]_db
  BY <1>1, StepRemembers DEF vars
<1>2. ASSUME IInv, [Next]_vars
      PROVE  [\A t \in db.tokens :
               t.expires > clock /\ (\E g \in db'.grants : g.id = t.grant) =>
                 \E s \in db'.tokens : /\ s.secret = t.secret /\ s.kind = t.kind
                                       /\ s.grant = t.grant
                                       /\ t.used => s.used]_db
  BY <1>1, <1>2 DEF Remembers
<1> QED BY <1>2, Inductive, PTL DEF Spec, ReuseIsRemembered

-----------------------------------------------------------------------------
(* What works in one database and not in another *)

\* The column id is a primary key.
OneGrant(d) == \A g, h \in d.grants : g.id = h.id => g = h

\* Deactivating an account took its grants, and nobody else gets one.
GrantsActive(d) == \A g \in d.grants : g.user \in d.active

SameCode(k, x) ==
  x.secret = k.secret /\ x.user = k.user /\ x.expires = k.expires /\ x.used = k.used

LEMMA UserOfGrant ==
  ASSUME NEW d \in Database, OneGrant(d), NEW g \in d.grants
  PROVE  GetOAuthGrantUser(d, g.id) = {g.user} /\ UserOf(d, g.id) = g.user
<1>1. GetOAuthGrantUser(d, g.id) = {g.user}
  BY DEF GetOAuthGrantUser, OneGrant
<1>2. g.user \in User
  BY DEF Database, GrantRow
<1> QED BY <1>1, <1>2 DEF UserOf

\* A credential is of no use when its account is not active or its row is not there,
\* and only then.
SessionMissing(w, d, e, now) ==
  /\ w.kind = "session"
  /\ \E s \in d.sessions : /\ s.secret = w.secret /\ s.user = w.user /\ s.expires > now
                           /\ s \notin e.sessions

KeyMissing(w, d, e) ==
  /\ w.kind = "key"
  /\ \E k \in d.keys : k.secret = w.secret /\ k.user = w.user /\ k \notin e.keys

TokenMissing(w, d, e, now) ==
  /\ w.kind \in {"access", "refresh"}
  /\ \E t \in d.tokens, g \in d.grants :
       /\ t.kind = w.kind /\ t.secret = w.secret /\ t.grant = w.grant /\ t.expires > now
       /\ t.kind = "refresh" => ~t.used
       /\ g.id = w.grant /\ g.user = w.user
       /\ t \notin e.tokens \/ g \notin e.grants

CodeMissing(w, d, e, now) ==
  /\ w.kind = "code"
  /\ \E k \in d.codes : /\ k.secret = w.secret /\ k.user = w.user
                        /\ ~k.used /\ k.expires > now
                        /\ ~\E x \in e.codes : SameCode(k, x)

LEMMA TokenWorks ==
  ASSUME NEW d \in Database, OneGrant(d), NEW now,
         NEW t \in d.tokens, t.expires > now, t.kind = "refresh" => ~t.used,
         NEW g \in d.grants, g.id = t.grant, g.user \in d.active
  PROVE  Credential(t.kind, t, g.user, t.grant) \in Working(d, now)
<1>1. GetOAuthGrantUser(d, t.grant) = {g.user} /\ UserOf(d, t.grant) = g.user
  BY UserOfGrant
<1>2. t.kind \in {"access", "refresh"}
  BY DEF Database, TokenRow, Kind
<1>3. CASE t.kind = "access"
  <2>1. t \in GetOAuthAccessTokenUser(d, now)
    BY <1>1, <1>3 DEF GetOAuthAccessTokenUser
  <2> QED BY <1>1, <1>3, <2>1 DEF Working
<1>4. CASE t.kind = "refresh"
  <2>1. t \in {s \in d.tokens : /\ s.kind = "refresh" /\ ~s.used /\ s.expires > now
                                /\ GetOAuthGrantUser(d, s.grant) \cap d.active # {}}
    BY <1>1, <1>4
  <2> QED BY <1>1, <1>4, <2>1 DEF Working
<1> QED BY <1>2, <1>3, <1>4

LEMMA WorkingToken ==
  ASSUME NEW d \in Database, OneGrant(d), NEW now, NEW t \in d.tokens,
         GetOAuthGrantUser(d, t.grant) \cap d.active # {}
  PROVE  \E g \in d.grants : /\ g.id = t.grant /\ g.user \in d.active
                             /\ UserOf(d, t.grant) = g.user
<1>1. PICK g \in d.grants : g.id = t.grant /\ g.user \in d.active
  BY DEF GetOAuthGrantUser
<1> QED BY <1>1, UserOfGrant

LEMMA Missing ==
  ASSUME NEW d \in Database, NEW e \in Database, OneGrant(d), OneGrant(e), NEW now,
         NEW w \in Working(d, now) \ Working(e, now), w.user \in e.active
  PROVE  /\ w.user \in d.active
         /\ \/ SessionMissing(w, d, e, now)
            \/ KeyMissing(w, d, e)
            \/ TokenMissing(w, d, e, now)
            \/ CodeMissing(w, d, e, now)
<1>1. ASSUME NEW s \in GetSessionUser(d, now), w = Credential("session", s, s.user, None)
      PROVE  w.user \in d.active /\ SessionMissing(w, d, e, now)
  <2>1. w.kind = "session" /\ w.secret = s.secret /\ w.user = s.user
    BY <1>1 DEF Credential
  <2>2. s \notin GetSessionUser(e, now)
    BY <1>1 DEF Working
  <2> QED BY <2>1, <2>2 DEF GetSessionUser, SessionMissing
<1>2. ASSUME NEW k \in GetAPITokenUser(d, now), w = Credential("key", k, k.user, None)
      PROVE  w.user \in d.active /\ KeyMissing(w, d, e)
  <2>1. w.kind = "key" /\ w.secret = k.secret /\ w.user = k.user
    BY <1>2 DEF Credential
  <2>2. k \notin GetAPITokenUser(e, now)
    BY <1>2 DEF Working
  <2> QED BY <2>1, <2>2 DEF GetAPITokenUser, KeyMissing
<1>3. ASSUME NEW t \in d.tokens, t.kind \in {"access", "refresh"}, t.expires > now,
             t.kind = "refresh" => ~t.used,
             GetOAuthGrantUser(d, t.grant) \cap d.active # {},
             w = Credential(t.kind, t, UserOf(d, t.grant), t.grant)
      PROVE  w.user \in d.active /\ TokenMissing(w, d, e, now)
  <2>1. PICK g \in d.grants : /\ g.id = t.grant /\ g.user \in d.active
                              /\ UserOf(d, t.grant) = g.user
    BY <1>3, WorkingToken
  <2>2. /\ w.kind = t.kind /\ w.secret = t.secret /\ w.grant = t.grant /\ w.user = g.user
        /\ w = Credential(t.kind, t, g.user, t.grant)
    BY <1>3, <2>1 DEF Credential
  <2>3. t \notin e.tokens \/ g \notin e.grants
    BY <1>3, <2>1, <2>2, TokenWorks
  <2> QED BY <1>3, <2>1, <2>2, <2>3 DEF TokenMissing
<1>4. ASSUME NEW k \in d.codes, ~k.used, k.expires > now, k.user \in d.active,
             w = Credential("code", k, k.user, None)
      PROVE  w.user \in d.active /\ CodeMissing(w, d, e, now)
  <2>1. w.kind = "code" /\ w.secret = k.secret /\ w.user = k.user
    BY <1>4 DEF Credential
  <2>2. ASSUME NEW x \in e.codes, SameCode(k, x) PROVE FALSE
    <3>1. x \in {c \in e.codes : ~c.used /\ c.expires > now /\ c.user \in e.active}
      BY <1>4, <2>1, <2>2 DEF SameCode
    <3>2. w = Credential("code", x, x.user, None)
      BY <1>4, <2>2 DEF SameCode, Credential
    <3> QED BY <3>1, <3>2 DEF Working
  <2> QED BY <1>4, <2>1, <2>2 DEF CodeMissing
<1>5. \/ \E s \in GetSessionUser(d, now) : w = Credential("session", s, s.user, None)
      \/ \E k \in GetAPITokenUser(d, now) : w = Credential("key", k, k.user, None)
      \/ \E t \in GetOAuthAccessTokenUser(d, now) :
           w = Credential("access", t, UserOf(d, t.grant), t.grant)
      \/ \E t \in d.tokens : /\ t.kind = "refresh" /\ ~t.used /\ t.expires > now
                             /\ GetOAuthGrantUser(d, t.grant) \cap d.active # {}
                             /\ w = Credential("refresh", t, UserOf(d, t.grant), t.grant)
      \/ \E k \in d.codes : /\ ~k.used /\ k.expires > now /\ k.user \in d.active
                            /\ w = Credential("code", k, k.user, None)
  BY DEF Working
<1>6. ASSUME NEW t \in GetOAuthAccessTokenUser(d, now)
      PROVE  /\ t \in d.tokens /\ t.kind = "access" /\ t.expires > now
             /\ GetOAuthGrantUser(d, t.grant) \cap d.active # {}
  BY DEF GetOAuthAccessTokenUser
<1>7. CASE \E t \in GetOAuthAccessTokenUser(d, now) :
             w = Credential("access", t, UserOf(d, t.grant), t.grant)
  BY <1>3, <1>6, <1>7
<1>8. CASE \E t \in d.tokens : /\ t.kind = "refresh" /\ ~t.used /\ t.expires > now
                               /\ GetOAuthGrantUser(d, t.grant) \cap d.active # {}
                               /\ w = Credential("refresh", t, UserOf(d, t.grant), t.grant)
  BY <1>3, <1>8
<1> QED BY <1>1, <1>2, <1>4, <1>5, <1>7, <1>8

-----------------------------------------------------------------------------
(* What the queries leave and what they bring *)

SameAccounts(d, e) == e.active = d.active /\ e.sessions = d.sessions /\ e.keys = d.keys

\* No token of d that still counts is lost, nor the grant of one.
TokensKept(d, e) ==
  \A t \in d.tokens : t.expires > clock =>
    t \in e.tokens /\ \A g \in d.grants : g.id = t.grant => g \in e.grants

TokensOld(d, e) == e.tokens \subseteq d.tokens /\ e.grants \subseteq d.grants

CodesKept(d, e) ==
  \A k \in d.codes : k.expires > clock => \E x \in e.codes : SameCode(k, x)

CodesOld(d, e) == \A x \in e.codes : \E k \in d.codes : SameCode(k, x)

LEMMA DropLeaves ==
  ASSUME NEW d \in Database, NEW gone
  PROVE  LET e == DropGrants(d, gone)
         IN  /\ SameAccounts(d, e) /\ TokensOld(d, e) /\ CodesKept(d, e) /\ CodesOld(d, e)
             /\ \A t \in d.tokens : t.grant \notin gone => t \in e.tokens
             /\ \A g \in d.grants : g.id \notin gone <=> g \in e.grants
<1> DEFINE e == DropGrants(d, gone)
           drop(k) == IF k.grant \in gone THEN [k EXCEPT !.grant = None] ELSE k
<1>1. /\ e.grants = {g \in d.grants : g.id \notin gone}
      /\ e.tokens = {t \in d.tokens : t.grant \notin gone}
      /\ e.codes = {drop(k) : k \in d.codes}
  BY DropGrantsType
<1>2. SameAccounts(d, e)
  BY DEF DropGrants, Database, SameAccounts
<1>3. \A k \in d.codes : SameCode(k, drop(k))
  BY DEF Database, CodeRow, SameCode
<1> HIDE DEF drop, e
<1>4. CodesKept(d, e) /\ CodesOld(d, e)
  BY <1>1, <1>3 DEF CodesKept, CodesOld
<1>5. TokensOld(d, e)
  BY <1>1 DEF TokensOld
<1> QED BY <1>1, <1>2, <1>4, <1>5 DEF e

LEMMA PruneLeaves ==
  ASSUME NEW d, clock \in Nat, Sound(d, clock)
  PROVE  LET e == pruneOAuth(d)
         IN  SameAccounts(d, e) /\ TokensKept(d, e) /\ TokensOld(d, e)
             /\ CodesKept(d, e) /\ CodesOld(d, e)
<1> DEFINE b == DeleteExpiredOAuthCodes(d, clock)
           c == DeleteExpiredOAuthTokens(b, clock)
           gone == {g.id : g \in {h \in c.grants : \A x \in c.tokens : x.grant # h.id}}
           e == DropGrants(c, gone)
<1>0. d \in Database
  BY DEF Sound
<1>1. /\ b \in Database /\ SameAccounts(d, b) /\ b.tokens = d.tokens /\ b.grants = d.grants
      /\ b.codes = {k \in d.codes : k.expires > clock}
  BY <1>0 DEF DeleteExpiredOAuthCodes, Database, SameAccounts
<1> HIDE DEF b
<1>2. /\ c \in Database /\ SameAccounts(b, c) /\ c.grants = b.grants /\ c.codes = b.codes
      /\ c.tokens = {t \in b.tokens : t.expires > clock}
  BY <1>1 DEF DeleteExpiredOAuthTokens, Database, SameAccounts
<1> HIDE DEF c
<1>3. /\ SameAccounts(c, e) /\ TokensOld(c, e) /\ CodesKept(c, e) /\ CodesOld(c, e)
      /\ \A t \in c.tokens : t.grant \notin gone => t \in e.tokens
      /\ \A g \in c.grants : g.id \notin gone <=> g \in e.grants
  BY <1>2, DropLeaves
<1>4. \A t \in c.tokens : t.grant \notin gone
  OBVIOUS
<1> HIDE DEF gone, e
<1>5. SameAccounts(d, e)
  BY <1>1, <1>2, <1>3 DEF SameAccounts
<1>6. TokensKept(d, e) /\ TokensOld(d, e)
  BY <1>1, <1>2, <1>3, <1>4 DEF TokensKept, TokensOld
<1>7. CodesKept(d, e) /\ CodesOld(d, e)
  BY <1>1, <1>2, <1>3 DEF CodesKept, CodesOld
<1>8. pruneOAuth(d) = e
  BY DEF pruneOAuth, DeleteEmptyOAuthGrants, e, gone, c, b
<1> QED BY <1>5, <1>6, <1>7, <1>8

LEMMA TouchLeaves ==
  ASSUME NEW d \in Database, NEW id, NEW at
  PROVE  LET e == TouchOAuthClient(d, id, at)
         IN  SameAccounts(d, e) /\ e.tokens = d.tokens /\ e.grants = d.grants /\ e.codes = d.codes
BY DEF TouchOAuthClient, Database, SameAccounts

LEMMA IssueLeaves ==
  ASSUME NEW d \in Database, NEW id
  PROVE  LET e == issueTokens(d, id)
         IN  /\ SameAccounts(d, e) /\ e.grants = d.grants /\ e.codes = d.codes
             /\ d.tokens \subseteq e.tokens
             /\ \A t \in e.tokens : t \in d.tokens \/ (t.secret = Fresh /\ t.grant = id)
<1> DEFINE A == [secret |-> Fresh, kind |-> "access", grant |-> id,
                 expires |-> clock + AccessTokenTTL, used |-> FALSE]
           R == [secret |-> Fresh, kind |-> "refresh", grant |-> id,
                 expires |-> clock + RefreshTokenTTL, used |-> FALSE]
           b == [d EXCEPT !.tokens = d.tokens \cup {A}]
           e == [b EXCEPT !.tokens = b.tokens \cup {R}]
<1>1. A.secret = Fresh /\ R.secret = Fresh /\ A.grant = id /\ R.grant = id
  OBVIOUS
<1>2. issueTokens(d, id) = e
  BY DEF issueTokens, CreateOAuthToken
<1> HIDE DEF A, R
<1>3. /\ DOMAIN b = DOMAIN d /\ SameAccounts(d, b) /\ b.grants = d.grants /\ b.codes = d.codes
      /\ b.tokens = d.tokens \cup {A}
  BY DEF Database, SameAccounts
<1>4. DOMAIN d = {"active", "clients", "grants", "codes", "tokens", "sessions", "keys"}
  BY DEF Database
<1> HIDE DEF b
<1>5. /\ SameAccounts(b, e) /\ e.grants = b.grants /\ e.codes = b.codes
      /\ e.tokens = b.tokens \cup {R}
  BY <1>3, <1>4 DEF SameAccounts
<1> HIDE DEF e
<1> QED BY <1>1, <1>2, <1>3, <1>5 DEF SameAccounts

LEMMA DropClientsLeaves ==
  ASSUME NEW d \in Database, NEW gone, \A g \in d.grants : g.client \notin gone
  PROVE  LET e == DropClients(d, gone)
         IN  /\ SameAccounts(d, e) /\ e.tokens = d.tokens /\ e.grants = d.grants /\ CodesOld(d, e)
             /\ \A k \in d.codes : k.client \notin gone => k \in e.codes
<1> DEFINE ids == {g.id : g \in {h \in d.grants : h.client \in gone}}
           b == DropGrants(d, ids)
           C == {c \in b.clients : c.id \notin gone}
           K == {k \in b.codes : k.client \notin gone}
           e == [b EXCEPT !.clients = C, !.codes = K]
<1>1. ids = {}
  OBVIOUS
<1>2. /\ b \in Database /\ SameAccounts(d, b) /\ CodesOld(d, b)
      /\ b.tokens = {t \in d.tokens : t.grant \notin ids}
      /\ b.grants = {g \in d.grants : g.id \notin ids}
  BY DropGrantsType, DropLeaves
<1>3. d.codes \subseteq b.codes
  BY <1>1 DEF DropGrants, Database
<1>4. b.tokens = d.tokens /\ b.grants = d.grants
  BY <1>1, <1>2
<1>5. DropClients(d, gone) = e
  BY DEF DropClients
<1> HIDE DEF ids, b
<1>6. SameAccounts(b, e) /\ e.tokens = b.tokens /\ e.grants = b.grants /\ e.codes = K
  BY <1>2 DEF Database, SameAccounts
<1>7. K \subseteq b.codes /\ \A k \in d.codes : k.client \notin gone => k \in K
  BY <1>3
<1> HIDE DEF e, K
<1> QED BY <1>2, <1>4, <1>5, <1>6, <1>7 DEF SameAccounts, CodesOld

LEMMA ResetLeaves ==
  ASSUME NEW d, d \in Database, NEW u
  PROVE  LET e == Reset(d, u)
         IN  /\ e.active = d.active /\ e.keys = d.keys /\ TokensOld(d, e)
             /\ CodesKept(d, e) /\ CodesOld(d, e)
             /\ e.sessions = {s \in d.sessions : s.user # u}
             /\ \A g \in e.grants : g.user # u
             /\ OneGrant(d) => /\ \A g \in d.grants : g.user # u => g \in e.grants
                               /\ \A t \in d.tokens, g \in d.grants :
                                    g.id = t.grant /\ g.user # u => t \in e.tokens
<1> DEFINE b == DeleteUserSessions(d, u)
           gone == {g.id : g \in {h \in b.grants : h.user = u}}
           e == DropGrants(b, gone)
<1>1. /\ b \in Database /\ b.active = d.active /\ b.keys = d.keys
      /\ b.tokens = d.tokens /\ b.grants = d.grants /\ b.codes = d.codes
      /\ b.sessions = {s \in d.sessions : s.user # u}
  BY DEF DeleteUserSessions, Database
<1> HIDE DEF b
<1>2. /\ SameAccounts(b, e) /\ TokensOld(b, e) /\ CodesKept(b, e) /\ CodesOld(b, e)
      /\ \A t \in b.tokens : t.grant \notin gone => t \in e.tokens
      /\ \A g \in b.grants : g.id \notin gone <=> g \in e.grants
  BY <1>1, DropLeaves
<1>3. \A g \in b.grants : g.user = u => g.id \in gone
  OBVIOUS
<1>4. OneGrant(d) => \A g \in d.grants : g.user # u => g.id \notin gone
  BY <1>1 DEF OneGrant
<1>5. Reset(d, u) = e
  BY DEF Reset, DeleteUserOAuthGrants, b
<1> HIDE DEF gone, e
<1>6. \A g \in e.grants : g.user # u
  BY <1>2, <1>3 DEF TokensOld
<1>7. OneGrant(d) => /\ \A g \in d.grants : g.user # u => g \in e.grants
                     /\ \A t \in d.tokens, g \in d.grants :
                          g.id = t.grant /\ g.user # u => t \in e.tokens
  BY <1>1, <1>2, <1>4
<1>8. TokensOld(d, e) /\ CodesKept(d, e) /\ CodesOld(d, e)
  BY <1>1, <1>2 DEF TokensOld, CodesKept, CodesOld
<1> QED BY <1>1, <1>2, <1>5, <1>6, <1>7, <1>8 DEF SameAccounts

\* Redeeming code k brings grant id and two new tokens, and nothing else but
\* that the code is used.
LEMMA RedeemLeaves ==
  ASSUME IInv, NEW k \in db.codes, NEW id \in Grant, RedeemCode(k, id)
  PROVE  /\ SameAccounts(db, db') /\ TokensKept(db, db')
         /\ \A c \in db.codes : c.expires > clock /\ c.secret # k.secret =>
              \E x \in db'.codes : SameCode(c, x)
         /\ \A x \in db'.codes : x.used \/ \E c \in db.codes : SameCode(c, x)
         /\ \A t \in db'.tokens : t \in db.tokens \/ t.secret = Fresh
         /\ \A t \in db'.tokens, g \in db'.grants :
              g.id = t.grant => t.secret = Fresh \/ g \in db.grants
         /\ \A g \in db'.grants : g \in db.grants \/ g.user \in db.active
         /\ OneGrant(db) => OneGrant(db')
<1> DEFINE p == pruneOAuth(db)
           row == [id |-> id, user |-> k.user, client |-> k.client,
                   code |-> k.secret, until |-> k.expires]
           b == CreateOAuthGrant(p, id, k)
           d == UseOAuthCode(b, k, id)
           e == TouchOAuthClient(d, k.client, clock)
           f == issueTokens(e, id)
           use(c) == IF c = k THEN [c EXCEPT !.used = TRUE, !.grant = id] ELSE c
<1>0. Sound(db, clock) /\ clock \in Nat /\ drawn \in Nat /\ k.user \in db.active
  BY DEF IInv, TypeOK, RedeemCode
<1>1. /\ Sound(p, clock)
      /\ SameAccounts(db, p) /\ TokensKept(db, p) /\ TokensOld(db, p)
      /\ CodesKept(db, p) /\ CodesOld(db, p)
  BY <1>0, PruneSound, PruneLeaves
<1>2. k.grant = None
  BY <1>0 DEF Sound, Home, RedeemCode
<1>3. k \in p.codes
  BY <1>0, <1>2, PruneKeepsCode DEF RedeemCode
<1>4. (\A g \in p.grants : g.id # id) /\ ~k.used
  BY DEF RedeemCode
<1>5. db' = f
  BY DEF RedeemCode
<1> HIDE DEF p
<1>6. row.id = id /\ row.user = k.user
  OBVIOUS
<1>7. /\ SameAccounts(p, b) /\ b.tokens = p.tokens /\ b.codes = p.codes
      /\ b.grants = p.grants \cup {row} /\ DOMAIN b = DOMAIN p
  BY <1>1 DEF CreateOAuthGrant, Sound, Database, SameAccounts
<1>8. DOMAIN p = {"active", "clients", "grants", "codes", "tokens", "sessions", "keys"}
  BY <1>1 DEF Sound, Database
<1>9. k \in CodeRow
  BY <1>0 DEF Sound, Database
<1>10. Sound(d, clock)
  BY <1>0, <1>1, <1>3, <1>4, UseCodeSound
<1> HIDE DEF row, b
<1>11. /\ SameAccounts(b, d) /\ d.tokens = b.tokens /\ d.grants = b.grants
       /\ d.codes = {use(c) : c \in b.codes}
  BY <1>7, <1>8 DEF UseOAuthCode, SameAccounts
<1>u. use(k).used /\ \A c : c # k => use(c) = c
  BY <1>9 DEF CodeRow
<1> HIDE DEF d, use
<1>12. SameAccounts(d, e) /\ e.tokens = d.tokens /\ e.grants = d.grants /\ e.codes = d.codes
  BY <1>10, TouchLeaves DEF Sound
<1>13. e \in Database
  BY <1>0, <1>10, TouchOAuthClientSound DEF Sound
<1> HIDE DEF e
<1>14. /\ SameAccounts(e, f) /\ f.grants = e.grants /\ f.codes = e.codes
       /\ e.tokens \subseteq f.tokens
       /\ \A t \in f.tokens : t \in e.tokens \/ (t.secret = Fresh /\ t.grant = id)
  BY <1>13, IssueLeaves
<1> HIDE DEF f
<1>15. SameAccounts(db, db')
  BY <1>1, <1>5, <1>7, <1>11, <1>12, <1>14 DEF SameAccounts
<1>16. /\ p.tokens \subseteq db'.tokens /\ db'.grants = p.grants \cup {row}
       /\ \A t \in db'.tokens : t \in p.tokens \/ t.secret = Fresh
  BY <1>5, <1>7, <1>11, <1>12, <1>14
<1>17. TokensKept(db, db')
  BY <1>1, <1>16 DEF TokensKept
<1>18. \A t \in db'.tokens : t \in db.tokens \/ t.secret = Fresh
  BY <1>1, <1>16 DEF TokensOld
<1>19. \A t \in db'.tokens, g \in db'.grants :
         g.id = t.grant => t.secret = Fresh \/ g \in db.grants
  <2> SUFFICES ASSUME NEW t \in db'.tokens, NEW g \in db'.grants, g.id = t.grant,
                      t.secret # Fresh
               PROVE  g \in db.grants
    OBVIOUS
  <2>1. t \in p.tokens
    BY <1>16
  <2>2. t.grant # id
    BY <1>1, <1>4, <2>1 DEF Sound, Linked
  <2> QED BY <1>1, <1>6, <1>16, <2>2 DEF TokensOld
<1>20. \A g \in db'.grants : g \in db.grants \/ g.user \in db.active
  BY <1>0, <1>1, <1>6, <1>16 DEF TokensOld
<1>21. OneGrant(db) => OneGrant(db')
  BY <1>1, <1>4, <1>6, <1>16 DEF TokensOld, OneGrant
<1>22. ASSUME NEW c \in db.codes, c.expires > clock, c.secret # k.secret
       PROVE  \E x \in db'.codes : SameCode(c, x)
  <2>1. PICK x \in p.codes : SameCode(c, x)
    BY <1>1, <1>22 DEF CodesKept
  <2>2. x # k
    BY <1>22, <2>1 DEF SameCode
  <2>3. x \in d.codes
    BY <1>7, <1>11, <1>u, <2>1, <2>2
  <2> QED BY <1>5, <1>12, <1>14, <2>1, <2>3
<1>23. ASSUME NEW x \in db'.codes
       PROVE  x.used \/ \E c \in db.codes : SameCode(c, x)
  <2>1. x \in d.codes
    BY <1>5, <1>12, <1>14
  <2>2. PICK c \in p.codes : x = use(c)
    BY <1>7, <1>11, <2>1
  <2>3. CASE c = k
    BY <1>u, <2>2, <2>3
  <2>4. CASE c # k
    BY <1>1, <1>u, <2>2, <2>4 DEF CodesOld
  <2> QED BY <2>3, <2>4
<1> QED BY <1>15, <1>17, <1>18, <1>19, <1>20, <1>21, <1>22, <1>23

\* Rotating refresh token t brings two new tokens, and nothing else but that t
\* is used.
LEMMA RotateLeaves ==
  ASSUME IInv, NEW t \in db.tokens, t.kind = "refresh", RotateRefresh(t)
  PROVE  /\ SameAccounts(db, db') /\ CodesKept(db, db') /\ CodesOld(db, db')
         /\ db'.grants \subseteq db.grants
         /\ \A s \in db.tokens : s.expires > clock /\ s # t =>
              s \in db'.tokens /\ \A g \in db.grants : g.id = s.grant => g \in db'.grants
         /\ \A s \in db'.tokens : \/ s \in db.tokens \/ s.secret = Fresh
                                  \/ s.kind = "refresh" /\ s.used
<1> DEFINE clients == {g.client : g \in {h \in db.grants : h.id = t.grant}}
           c == CHOOSE x \in clients : TRUE
           u == UseOAuthToken(db, t)
           d == TouchOAuthClient(u, c, clock)
           i == issueTokens(d, t.grant)
           p == pruneOAuth(i)
<1>0. Sound(db, clock) /\ clock \in Nat /\ drawn \in Nat /\ t \in TokenRow
  BY DEF IInv, TypeOK, Sound, Database
<1>1. t.grant \in Grant /\ \E g \in db.grants : g.id = t.grant
  BY <1>0 DEF Sound, Linked, TokenRow
<1>2. db' = p
  BY DEF RotateRefresh
<1> HIDE DEF c
<1>3. /\ Sound(u, clock)
      /\ \A s \in u.tokens : s.grant = t.grant /\ s.kind = "refresh" => s.used
  BY <1>0, UseTokenSound DEF RotateRefresh
<1>4. /\ SameAccounts(db, u) /\ u.grants = db.grants /\ u.codes = db.codes
      /\ u.tokens = {IF s = t THEN [s EXCEPT !.used = TRUE] ELSE s : s \in db.tokens}
  BY <1>0 DEF UseOAuthToken, Sound, Database, SameAccounts
<1> HIDE DEF u
<1>5. SameAccounts(u, d) /\ d.tokens = u.tokens /\ d.grants = u.grants /\ d.codes = u.codes
  BY <1>3, TouchLeaves DEF Sound
<1>6. Sound(d, clock)
  BY <1>0, <1>3, TouchOAuthClientSound
<1> HIDE DEF d
<1>7. /\ SameAccounts(d, i) /\ i.grants = d.grants /\ i.codes = d.codes
      /\ d.tokens \subseteq i.tokens
      /\ \A s \in i.tokens : s \in d.tokens \/ s.secret = Fresh
  BY <1>6, IssueLeaves DEF Sound
<1>8. Sound(i, clock)
  BY <1>0, <1>1, <1>3, <1>4, <1>5, <1>6, IssueTokensSound
<1> HIDE DEF i
<1>9. /\ SameAccounts(i, p) /\ TokensKept(i, p) /\ TokensOld(i, p)
      /\ CodesKept(i, p) /\ CodesOld(i, p)
  BY <1>0, <1>8, PruneLeaves
<1> HIDE DEF p
<1>10. SameAccounts(db, db')
  BY <1>2, <1>4, <1>5, <1>7, <1>9 DEF SameAccounts
<1>11. i.codes = db.codes /\ i.grants = db.grants
  BY <1>4, <1>5, <1>7
<1>12. CodesKept(db, db') /\ CodesOld(db, db')
  BY <1>2, <1>9, <1>11 DEF CodesKept, CodesOld
<1>13. db'.grants \subseteq db.grants
  BY <1>2, <1>9, <1>11 DEF TokensOld
<1>14. ASSUME NEW s \in db.tokens, s.expires > clock, s # t
       PROVE  s \in db'.tokens /\ \A g \in db.grants : g.id = s.grant => g \in db'.grants
  <2>1. s \in i.tokens
    BY <1>4, <1>5, <1>7, <1>14
  <2> QED BY <1>2, <1>9, <1>11, <1>14, <2>1 DEF TokensKept
<1>15. ASSUME NEW s \in db'.tokens
       PROVE  s \in db.tokens \/ s.secret = Fresh \/ (s.kind = "refresh" /\ s.used)
  <2>1. s \in u.tokens \/ s.secret = Fresh
    BY <1>2, <1>5, <1>7, <1>9 DEF TokensOld
  <2>2. \A x \in u.tokens : x \in db.tokens \/ x = [t EXCEPT !.used = TRUE]
    BY <1>4
  <2>3. [t EXCEPT !.used = TRUE].kind = "refresh" /\ [t EXCEPT !.used = TRUE].used
    BY <1>0 DEF TokenRow
  <2> QED BY <2>1, <2>2, <2>3
<1> QED BY <1>10, <1>12, <1>13, <1>14, <1>15

-----------------------------------------------------------------------------
(* What each handler leaves and brings *)

SameTokens(d, e) == e.tokens = d.tokens /\ e.grants = d.grants

\* Handlers that write none of the tables.
Reading ==
  \/ \E r \in Request : \/ \E u \in User : Login(r, u)
                        \/ \E s \in db.sessions : Authenticate(r, s)
                        \/ \E t \in db.tokens : RevokeOAuthToken(r, t)
                        \/ \E c \in Client : checkAuthorize(r, c)
                        \/ Abandon(r)
  \/ UNCHANGED vars

LEMMA StartSessionLeaves ==
  ASSUME db \in Database, NEW r, StartSession(r)
  PROVE  /\ db'.active = db.active /\ db'.keys = db.keys /\ SameTokens(db, db')
         /\ db'.codes = db.codes
         /\ \A s \in db.sessions : s.expires > clock => s \in db'.sessions
         /\ \A s \in db'.sessions : s \in db.sessions \/ s.secret = Fresh
<1> DEFINE d   == DeleteExpiredSessions(db, clock)
           row == [secret |-> Fresh, user |-> request[r].user, expires |-> clock + SessionTTL]
<1>1. /\ d.active = db.active /\ d.keys = db.keys /\ SameTokens(db, d) /\ d.codes = db.codes
      /\ d.sessions = {s \in db.sessions : s.expires > clock}
      /\ DOMAIN d = {"active", "clients", "grants", "codes", "tokens", "sessions", "keys"}
  BY DEF DeleteExpiredSessions, Database, SameTokens
<1>2. db' = d \/ db' = [d EXCEPT !.sessions = d.sessions \cup {row}]
  BY DEF StartSession, CreateSession
<1>3. row.secret = Fresh
  OBVIOUS
<1> HIDE DEF d, row
<1> QED BY <1>1, <1>2, <1>3 DEF SameTokens

LEMMA KeepSessionLeaves ==
  ASSUME db \in Database, NEW r, KeepSession(r)
  PROVE  /\ db'.active = db.active /\ db'.keys = db.keys /\ SameTokens(db, db')
         /\ db'.codes = db.codes
         /\ db.sessions \subseteq db'.sessions
         /\ \A s \in db'.sessions : s \in db.sessions \/ s.secret = request[r].secret
<1> DEFINE row == [secret |-> request[r].secret, user |-> request[r].user,
                   expires |-> clock + SessionTTL]
<1>1. db' = db \/ db' = [db EXCEPT !.sessions = db.sessions \cup {row}]
  BY DEF KeepSession, CreateSession
<1>2. row.secret = request[r].secret
  OBVIOUS
<1> HIDE DEF row
<1> QED BY <1>1, <1>2 DEF SameTokens, Database

LEMMA LogoutLeaves ==
  ASSUME db \in Database, NEW s, Logout(s)
  PROVE  /\ db'.active = db.active /\ db'.keys = db.keys /\ SameTokens(db, db')
         /\ db'.codes = db.codes
         /\ db'.sessions = {x \in db.sessions : x.secret # s.secret}
BY DEF Logout, DeleteSession, Database, SameTokens

LEMMA CreateTokenLeaves ==
  ASSUME db \in Database, NEW r, NEW ttl, CreateToken(r, ttl)
  PROVE  /\ db'.active = db.active /\ db'.sessions = db.sessions /\ SameTokens(db, db')
         /\ db'.codes = db.codes
         /\ db.keys \subseteq db'.keys
         /\ \A k \in db'.keys : k \in db.keys \/ k.secret = Fresh
<1> DEFINE row == [secret |-> Fresh, user |-> request[r].user,
                   expires |-> IF ttl = 0 THEN None ELSE clock + ttl]
<1>1. db' = [db EXCEPT !.keys = db.keys \cup {row}]
  BY DEF CreateToken, CreateAPIToken
<1>2. row.secret = Fresh
  OBVIOUS
<1> HIDE DEF row
<1> QED BY <1>1, <1>2 DEF SameTokens, Database

LEMMA RevokeTokenLeaves ==
  ASSUME db \in Database, NEW r, NEW k, RevokeToken(r, k)
  PROVE  /\ db'.active = db.active /\ db'.sessions = db.sessions /\ SameTokens(db, db')
         /\ db'.codes = db.codes
         /\ db'.keys = {x \in db.keys : ~(x.secret = k.secret /\ x.user = request[r].user)}
BY DEF RevokeToken, DeleteAPIToken, Database, SameTokens

LEMMA IssueCodeLeaves ==
  ASSUME db \in Database, NEW r, IssueCode(r)
  PROVE  /\ SameAccounts(db, db') /\ SameTokens(db, db') /\ CodesKept(db, db')
         /\ \A x \in db'.codes : x \in db.codes \/ x.secret = Fresh
<1> DEFINE d   == DeleteExpiredOAuthCodes(db, clock)
           row == [secret |-> Fresh, user |-> request[r].user, client |-> request[r].client,
                   expires |-> clock + codeTTL, used |-> FALSE, grant |-> None]
<1>1. /\ SameAccounts(db, d) /\ SameTokens(db, d)
      /\ d.codes = {k \in db.codes : k.expires > clock}
      /\ DOMAIN d = {"active", "clients", "grants", "codes", "tokens", "sessions", "keys"}
  BY DEF DeleteExpiredOAuthCodes, Database, SameTokens, SameAccounts
<1>2. db' = d \/ db' = [d EXCEPT !.codes = d.codes \cup {row}]
  BY DEF IssueCode, CreateOAuthCode
<1>3. row.secret = Fresh
  OBVIOUS
<1> HIDE DEF d, row
<1>4. SameAccounts(db, db') /\ SameTokens(db, db')
  BY <1>1, <1>2 DEF SameAccounts, SameTokens
<1>5. d.codes \subseteq db'.codes /\ \A x \in db'.codes : x \in d.codes \/ x.secret = Fresh
  BY <1>1, <1>2, <1>3
<1> QED BY <1>1, <1>4, <1>5 DEF CodesKept, SameCode

\* Registering a client may take the codes of idling ones, and no grant.
LEMMA RegisterLeaves ==
  ASSUME IInv, NEW c, RegisterClient(c)
  PROVE  /\ SameAccounts(db, db') /\ SameTokens(db, db') /\ CodesOld(db, db')
         /\ \A k \in db.codes : k \in db'.codes \/ Idling(k.client)
<1> DEFINE gone == {x.id : x \in {b \in db.clients :
                      /\ b.used <= clock - idleClientTTL
                      /\ \A g \in db.grants : g.client # b.id}}
           d == IF clock < idleClientTTL THEN db ELSE DropClients(db, gone)
<1>0. Sound(db, clock) /\ db \in Database /\ clock \in Nat
  BY DEF IInv, TypeOK
<1>1. \A g \in db.grants : g.client \notin gone
  OBVIOUS
<1>2. DeleteIdleOAuthClients(db, clock - idleClientTTL) = DropClients(db, gone)
  BY DEF DeleteIdleOAuthClients
<1>3. clock >= idleClientTTL => \A x \in gone : Idling(x)
  <2> SUFFICES ASSUME clock >= idleClientTTL, NEW b \in db.clients,
                      b.used <= clock - idleClientTTL, \A g \in db.grants : g.client # b.id
               PROVE  Idling(b.id)
    OBVIOUS
  <2>1. b.used \in Nat /\ idleClientTTL \in Nat
    BY <1>0, TTLAssumption DEF Database, ClientRow
  <2>2. b.used + idleClientTTL <= clock
    BY <1>0, <2>1
  <2> QED BY <2>2 DEF Idling
<1> HIDE DEF gone
<1>4. \A k \in db.codes : k \in d.codes \/ Idling(k.client)
  BY <1>0, <1>1, <1>3, DropClientsLeaves, TTLAssumption
<1>5. SameAccounts(db, d) /\ SameTokens(db, d) /\ CodesOld(db, d)
  BY <1>0, <1>1, DropClientsLeaves DEF SameAccounts, SameTokens, CodesOld, SameCode
<1>6. d \in Database
  BY <1>0, DropClientsSound DEF Sound
<1>7. db' = d \/ db' = CreateOAuthClient(d, c, clock)
  BY <1>2 DEF RegisterClient
<1> HIDE DEF d
<1>8. /\ db'.active = d.active /\ db'.sessions = d.sessions /\ db'.keys = d.keys
      /\ db'.tokens = d.tokens /\ db'.grants = d.grants /\ db'.codes = d.codes
  BY <1>6, <1>7 DEF CreateOAuthClient, Database
<1> QED BY <1>4, <1>5, <1>8 DEF SameAccounts, SameTokens, CodesOld

\* Setting the password of u, or deactivating u, ends what u has but API tokens
\* and codes.
LEMMA ResetStep ==
  ASSUME db \in Database, NEW u, NEW b \in Database,
         b.keys = db.keys, b.sessions = db.sessions, SameTokens(db, b), b.codes = db.codes,
         db' = Reset(b, u)
  PROVE  /\ db'.active = b.active /\ db'.keys = db.keys /\ TokensOld(db, db')
         /\ CodesKept(db, db') /\ CodesOld(db, db')
         /\ db'.sessions = {s \in db.sessions : s.user # u}
         /\ \A g \in db'.grants : g.user # u
         /\ OneGrant(db) => /\ \A g \in db.grants : g.user # u => g \in db'.grants
                            /\ \A t \in db.tokens, g \in db.grants :
                                 g.id = t.grant /\ g.user # u => t \in db'.tokens
<1>1. OneGrant(db) <=> OneGrant(b)
  BY DEF SameTokens, OneGrant
<1> DEFINE e == Reset(b, u)
<1>2. /\ e.active = b.active /\ e.keys = b.keys /\ TokensOld(b, e)
      /\ CodesKept(b, e) /\ CodesOld(b, e)
      /\ e.sessions = {s \in b.sessions : s.user # u}
      /\ \A g \in e.grants : g.user # u
      /\ OneGrant(b) => /\ \A g \in b.grants : g.user # u => g \in e.grants
                        /\ \A t \in b.tokens, g \in b.grants :
                             g.id = t.grant /\ g.user # u => t \in e.tokens
  BY ResetLeaves
<1>3. db' = e
  OBVIOUS
<1> HIDE DEF e
<1>4. TokensOld(db, db') /\ CodesKept(db, db') /\ CodesOld(db, db')
  BY <1>2, <1>3 DEF SameTokens, TokensOld, CodesKept, CodesOld
<1> QED BY <1>1, <1>2, <1>3, <1>4 DEF SameTokens

LEMMA UpdateUserLeaves ==
  ASSUME db \in Database, NEW u \in User, NEW isActive \in BOOLEAN
  PROVE  LET b == UpdateUser(db, u, isActive)
         IN  /\ b \in Database
             /\ b.active = IF isActive THEN db.active \cup {u} ELSE db.active \ {u}
             /\ b.keys = db.keys /\ b.sessions = db.sessions /\ SameTokens(db, b)
             /\ b.codes = db.codes
BY DEF UpdateUser, Database, SameTokens

-----------------------------------------------------------------------------
(* What a step brings *)

SessionsBrought ==
  \A s \in db'.sessions :
    \/ s \in db.sessions \/ s.secret = Fresh
    \/ \E r \in Request : request[r].secret = s.secret /\ KeepSession(r)

KeysBrought == \A k \in db'.keys : k \in db.keys \/ k.secret = Fresh

TokensBrought ==
  \A t \in db'.tokens, g \in db'.grants :
    g.id = t.grant => \/ t.secret = Fresh
                      \/ t.kind = "refresh" /\ t.used
                      \/ t \in db.tokens /\ g \in db.grants

CodesBrought ==
  \A x \in db'.codes : x.used \/ x.secret = Fresh \/ \E c \in db.codes : SameCode(c, x)

GrantsBrought ==
  /\ \A g \in db'.grants : g \in db.grants \/ g.user \in db.active
  /\ OneGrant(db) => OneGrant(db')
  /\ GrantsActive(db) => GrantsActive(db')

Brought == SessionsBrought /\ KeysBrought /\ TokensBrought /\ CodesBrought /\ GrantsBrought

LEMMA AccountsBring ==
  ASSUME SameAccounts(db, db')
  PROVE  SessionsBrought /\ KeysBrought
BY DEF SameAccounts, SessionsBrought, KeysBrought

LEMMA NothingBrought ==
  ASSUME TokensOld(db, db'), CodesOld(db, db'), db'.active = db.active
  PROVE  TokensBrought /\ CodesBrought /\ GrantsBrought
BY DEF TokensOld, CodesOld, TokensBrought, CodesBrought, GrantsBrought, OneGrant, GrantsActive

LEMMA SameBrought ==
  ASSUME SameTokens(db, db'), db'.codes = db.codes, db'.active = db.active
  PROVE  TokensBrought /\ CodesBrought /\ GrantsBrought
<1>1. TokensOld(db, db') /\ CodesOld(db, db')
  BY DEF SameTokens, TokensOld, CodesOld, SameCode
<1> QED BY <1>1, NothingBrought

LEMMA DropBrings ==
  ASSUME db \in Database, NEW gone, db' = DropGrants(db, gone)
  PROVE  Brought
<1>1. SameAccounts(db, db') /\ TokensOld(db, db') /\ CodesOld(db, db')
  BY DropLeaves
<1> QED BY <1>1, AccountsBring, NothingBrought DEF SameAccounts, Brought

LEMMA ResetBrings ==
  ASSUME db \in Database, NEW u, NEW b \in Database,
         b.keys = db.keys, b.sessions = db.sessions, SameTokens(db, b), b.codes = db.codes,
         b.active \in {db.active, db.active \ {u}}, db' = Reset(b, u)
  PROVE  Brought
<1>1. /\ db'.active = b.active /\ db'.keys = db.keys /\ TokensOld(db, db') /\ CodesOld(db, db')
      /\ db'.sessions = {s \in db.sessions : s.user # u}
      /\ \A g \in db'.grants : g.user # u
  BY ResetStep
<1>2. TokensBrought /\ CodesBrought
  BY <1>1 DEF TokensOld, CodesOld, TokensBrought, CodesBrought
<1>3. GrantsBrought
  BY <1>1 DEF TokensOld, GrantsBrought, OneGrant, GrantsActive
<1>4. SessionsBrought /\ KeysBrought
  BY <1>1 DEF SessionsBrought, KeysBrought
<1> QED BY <1>2, <1>3, <1>4 DEF Brought

LEMMA StepBrings ==
  ASSUME IInv, [Next]_vars
  PROVE  Brought
<1>0. db \in Database
  BY DEF IInv, TypeOK
<1>1. ASSUME db' = db
      PROVE  Brought
  BY <1>1, AccountsBring, SameBrought DEF SameAccounts, SameTokens, Brought
<1>2. ASSUME NEW r \in Request, StartSession(r)
      PROVE  Brought
  BY <1>0, <1>2, StartSessionLeaves, SameBrought DEF Brought, SessionsBrought, KeysBrought
<1>3. ASSUME NEW s \in db.sessions, Logout(s)
      PROVE  Brought
  BY <1>0, <1>3, LogoutLeaves, SameBrought DEF Brought, SessionsBrought, KeysBrought
<1>4. ASSUME NEW u \in User, SetPassword(u)
      PROVE  Brought
  <2>1. SameTokens(db, db)
    BY DEF SameTokens
  <2> QED BY <1>0, <1>4, <2>1, ResetBrings DEF SetPassword
<1>5. ASSUME NEW r \in Request, ChangePassword(r)
      PROVE  Brought
  <2>1. SameTokens(db, db)
    BY DEF SameTokens
  <2> QED BY <1>0, <1>5, <2>1, ResetBrings DEF ChangePassword
<1>6. ASSUME NEW r \in Request, KeepSession(r)
      PROVE  Brought
  <2>1. SessionsBrought /\ KeysBrought
    BY <1>0, <1>6, KeepSessionLeaves DEF SessionsBrought, KeysBrought
  <2> QED BY <1>0, <1>6, <2>1, KeepSessionLeaves, SameBrought DEF Brought
<1>7. ASSUME NEW u \in User, Update(u, TRUE)
      PROVE  Brought
  <2>1. /\ db'.active = db.active \cup {u}
        /\ db'.keys = db.keys /\ db'.sessions = db.sessions /\ SameTokens(db, db')
        /\ db'.codes = db.codes
    BY <1>0, <1>7, UpdateUserLeaves DEF Update
  <2>2. SessionsBrought /\ KeysBrought
    BY <2>1 DEF SessionsBrought, KeysBrought
  <2>3. TokensBrought /\ CodesBrought
    BY <2>1 DEF SameTokens, TokensBrought, CodesBrought, SameCode
  <2>4. GrantsBrought
    BY <2>1 DEF SameTokens, GrantsBrought, OneGrant, GrantsActive
  <2> QED BY <2>2, <2>3, <2>4 DEF Brought
<1>8. ASSUME NEW u \in User, Update(u, FALSE)
      PROVE  Brought
  <2> DEFINE b == UpdateUser(db, u, FALSE)
  <2>1. /\ b \in Database /\ b.active = db.active \ {u}
        /\ b.keys = db.keys /\ b.sessions = db.sessions /\ SameTokens(db, b)
        /\ b.codes = db.codes
    BY <1>0, UpdateUserLeaves
  <2>2. db' = Reset(b, u)
    BY <1>8 DEF Update
  <2> HIDE DEF b
  <2> QED BY <1>0, <2>1, <2>2, ResetBrings
<1>9. ASSUME NEW r \in Request, NEW ttl \in KeyTTLs, CreateToken(r, ttl)
      PROVE  Brought
  BY <1>0, <1>9, CreateTokenLeaves, SameBrought DEF Brought, SessionsBrought, KeysBrought
<1>10. ASSUME NEW r \in Request, NEW k \in db.keys, RevokeToken(r, k)
       PROVE  Brought
  BY <1>0, <1>10, RevokeTokenLeaves, SameBrought DEF Brought, SessionsBrought, KeysBrought
<1>11. ASSUME NEW c \in Client, RegisterClient(c)
       PROVE  Brought
  <2>1. SameAccounts(db, db') /\ TokensOld(db, db') /\ CodesOld(db, db')
    BY <1>11, RegisterLeaves DEF SameTokens, TokensOld
  <2> QED BY <2>1, AccountsBring, NothingBrought DEF SameAccounts, Brought
<1>12. ASSUME NEW r \in Request, IssueCode(r)
       PROVE  Brought
  <2>1. /\ SameAccounts(db, db') /\ SameTokens(db, db')
        /\ \A x \in db'.codes : x \in db.codes \/ x.secret = Fresh
    BY <1>0, <1>12, IssueCodeLeaves
  <2>2. CodesBrought
    BY <2>1 DEF CodesBrought, SameCode
  <2>3. TokensBrought /\ GrantsBrought
    BY <2>1 DEF SameTokens, SameAccounts, TokensBrought, GrantsBrought, OneGrant, GrantsActive
  <2> QED BY <2>1, <2>2, <2>3, AccountsBring DEF Brought
<1>13. ASSUME NEW k \in db.codes, ReuseCode(k)
       PROVE  Brought
  BY <1>0, <1>1, <1>13, DropBrings DEF ReuseCode, DeleteOAuthGrantByID
<1>14. ASSUME NEW k \in db.codes, NEW id \in Grant, RedeemCode(k, id)
       PROVE  Brought
  <2>1. /\ SameAccounts(db, db')
        /\ \A x \in db'.codes : x.used \/ \E c \in db.codes : SameCode(c, x)
        /\ \A t \in db'.tokens : t \in db.tokens \/ t.secret = Fresh
        /\ \A t \in db'.tokens, g \in db'.grants :
             g.id = t.grant => t.secret = Fresh \/ g \in db.grants
        /\ \A g \in db'.grants : g \in db.grants \/ g.user \in db.active
        /\ OneGrant(db) => OneGrant(db')
    BY <1>14, RedeemLeaves
  <2>2. TokensBrought /\ CodesBrought
    BY <2>1 DEF TokensBrought, CodesBrought
  <2>3. GrantsBrought
    BY <2>1 DEF SameAccounts, GrantsBrought, GrantsActive
  <2> QED BY <2>1, <2>2, <2>3, AccountsBring DEF Brought
<1>15. ASSUME NEW t \in db.tokens, t.kind = "refresh", RotateRefresh(t)
       PROVE  Brought
  <2>1. /\ SameAccounts(db, db') /\ CodesOld(db, db') /\ db'.grants \subseteq db.grants
        /\ \A s \in db'.tokens : \/ s \in db.tokens \/ s.secret = Fresh
                                 \/ s.kind = "refresh" /\ s.used
    BY <1>15, RotateLeaves
  <2>2. TokensBrought /\ CodesBrought
    BY <2>1 DEF TokensBrought, CodesBrought, CodesOld
  <2>3. GrantsBrought
    BY <2>1 DEF SameAccounts, GrantsBrought, OneGrant, GrantsActive
  <2> QED BY <2>1, <2>2, <2>3, AccountsBring DEF Brought
<1>16. ASSUME NEW t \in db.tokens, ReuseRefresh(t)
       PROVE  Brought
  BY <1>0, <1>16, DropBrings DEF ReuseRefresh, DeleteOAuthGrantByID
<1>17. ASSUME NEW r \in Request, (\E id \in Grant : RevokeGrant(r, id)) \/ RevokeRead(r)
       PROVE  Brought
  BY <1>0, <1>17, DropBrings DEF RevokeGrant, RevokeRead, DeleteOAuthGrant, DeleteOAuthGrantByID
<1>18. ASSUME Reading \/ Tick
       PROVE  db' = db
  BY <1>18 DEF Reading, Login, Authenticate, RevokeOAuthToken, checkAuthorize, Abandon, Tick, vars
<1>19. CASE UNCHANGED vars
  BY <1>1, <1>19 DEF vars
<1>20. CASE Next
  BY <1>1, <1>2, <1>3, <1>4, <1>5, <1>6, <1>7, <1>8, <1>9, <1>10, <1>11, <1>12, <1>13, <1>14,
     <1>15, <1>16, <1>17, <1>18, <1>20 DEF Next, AsUser, ExchangeCode, Refresh, Reading
<1> QED BY <1>19, <1>20

CInv == IInv /\ OneGrant(db) /\ GrantsActive(db)

LEMMA CInvCorrect ==
  Spec => []CInv
<1>1. Init => CInv
  BY InitSound DEF Init, EmptyDatabase, CInv, OneGrant, GrantsActive
<1>2. CInv /\ [Next]_vars => CInv'
  BY StepSound, StepBrings DEF CInv, Brought, GrantsBrought, OneGrant, GrantsActive
<1> QED BY <1>1, <1>2, PTL DEF Spec

-----------------------------------------------------------------------------
(* What does not work does not start to *)

NewReason(w) ==
  \/ w.secret > drawn
  \/ w.kind = "session" /\ (\E r \in Request : request[r].secret = w.secret /\ KeepSession(r))
  \/ /\ w.user \notin db.active
     /\ w.kind \in {"session", "key", "code"}

\* Time alone makes nothing work.
LEMMA WorkingLater ==
  ASSUME db \in Database, clock \in Nat
  PROVE  Working(db, clock + 1) \subseteq Working(db, clock)
<1>1. /\ \A s \in db.sessions : s.expires > clock + 1 => s.expires > clock
      /\ \A t \in db.tokens : t.expires > clock + 1 => t.expires > clock
      /\ \A k \in db.codes : k.expires > clock + 1 => k.expires > clock
  BY DEF Database, SessionRow, TokenRow, CodeRow
<1>2. \A k \in db.keys : k.expires = None \/ k.expires \in Nat
  BY DEF Database, KeyRow
<1>3. \A k \in db.keys :
        k.expires = None \/ k.expires > clock + 1 => k.expires = None \/ k.expires > clock
  BY <1>2
<1>4. /\ GetSessionUser(db, clock + 1) \subseteq GetSessionUser(db, clock)
      /\ GetAPITokenUser(db, clock + 1) \subseteq GetAPITokenUser(db, clock)
      /\ GetOAuthAccessTokenUser(db, clock + 1) \subseteq GetOAuthAccessTokenUser(db, clock)
  BY <1>1, <1>3 DEF GetSessionUser, GetAPITokenUser, GetOAuthAccessTokenUser
<1>5. /\ {s \in db.tokens : /\ s.kind = "refresh" /\ ~s.used /\ s.expires > clock + 1
                            /\ GetOAuthGrantUser(db, s.grant) \cap db.active # {}}
           \subseteq {s \in db.tokens : /\ s.kind = "refresh" /\ ~s.used /\ s.expires > clock
                                        /\ GetOAuthGrantUser(db, s.grant) \cap db.active # {}}
      /\ {c \in db.codes : ~c.used /\ c.expires > clock + 1 /\ c.user \in db.active}
           \subseteq {c \in db.codes : ~c.used /\ c.expires > clock /\ c.user \in db.active}
  BY <1>1
<1> QED BY <1>4, <1>5, Zenon DEF Working

\* A token that works is of a grant, whose user is active.
LEMMA WorkingKind ==
  ASSUME NEW d \in Database, OneGrant(d), NEW now, NEW w \in Working(d, now)
  PROVE  \/ w.kind \in {"session", "key", "code"}
         \/ \E g \in d.grants : w.user = g.user
<1>1. ASSUME NEW t \in d.tokens, GetOAuthGrantUser(d, t.grant) \cap d.active # {},
             w.user = UserOf(d, t.grant)
      PROVE  \E g \in d.grants : w.user = g.user
  BY <1>1, WorkingToken
<1>2. \A kind, row, u, id : /\ Credential(kind, row, u, id).kind = kind
                            /\ Credential(kind, row, u, id).user = u
  BY DEF Credential
<1>3. \A t \in GetOAuthAccessTokenUser(d, now) :
        t \in d.tokens /\ GetOAuthGrantUser(d, t.grant) \cap d.active # {}
  BY DEF GetOAuthAccessTokenUser
<1>4. \/ \E s \in GetSessionUser(d, now) : w = Credential("session", s, s.user, None)
      \/ \E k \in GetAPITokenUser(d, now) : w = Credential("key", k, k.user, None)
      \/ \E t \in GetOAuthAccessTokenUser(d, now) :
           w = Credential("access", t, UserOf(d, t.grant), t.grant)
      \/ \E t \in d.tokens : /\ GetOAuthGrantUser(d, t.grant) \cap d.active # {}
                             /\ w = Credential("refresh", t, UserOf(d, t.grant), t.grant)
      \/ \E k \in d.codes : w = Credential("code", k, k.user, None)
  BY DEF Working
<1> QED BY <1>1, <1>2, <1>3, <1>4

LEMMA NewStep ==
  ASSUME CInv, [Next]_vars, NEW w \in Working(db', clock') \ Working(db, clock)
  PROVE  NewReason(w)
<1>0. /\ db \in Database /\ clock \in Nat /\ drawn \in Nat /\ OneGrant(db) /\ GrantsActive(db)
      /\ Fresh > drawn
  BY DEF CInv, IInv, TypeOK, Fresh
<1>1. db' \in Database
  BY StepSound DEF CInv, IInv, TypeOK
<1>2. Brought
  BY StepBrings DEF CInv
<1>3. OneGrant(db')
  BY <1>0, <1>2 DEF Brought, GrantsBrought
<1>4. clock' = clock \/ Tick
  BY DEF Next, AsUser, Login, StartSession, Authenticate, Logout, SetPassword,
         ChangePassword, KeepSession, Update, CreateToken, RevokeToken, RegisterClient,
         checkAuthorize, IssueCode, ExchangeCode, Refresh, RevokeGrant, RevokeOAuthToken,
         RevokeRead, Abandon, vars
<1>5. ~Tick
  <2> SUFFICES ASSUME Tick PROVE FALSE
    OBVIOUS
  <2>1. db' = db /\ clock' = clock + 1
    BY DEF Tick
  <2> QED BY <1>0, <2>1, WorkingLater
<1>6. w \in Working(db', clock) \ Working(db, clock)
  BY <1>4, <1>5
<1>7. CASE w.user \in db.active
  <2>1. \/ SessionMissing(w, db', db, clock)
        \/ KeyMissing(w, db', db)
        \/ TokenMissing(w, db', db, clock)
        \/ CodeMissing(w, db', db, clock)
    BY <1>0, <1>1, <1>3, <1>6, <1>7, Missing
  <2>2. CASE SessionMissing(w, db', db, clock)
    BY <1>0, <1>2, <2>2 DEF SessionMissing, Brought, SessionsBrought, NewReason
  <2>3. CASE KeyMissing(w, db', db)
    BY <1>0, <1>2, <2>3 DEF KeyMissing, Brought, KeysBrought, NewReason
  <2>4. CASE TokenMissing(w, db', db, clock)
    BY <1>0, <1>2, <2>4 DEF TokenMissing, Brought, TokensBrought, NewReason
  <2>5. CASE CodeMissing(w, db', db, clock)
    <3>1. PICK k \in db'.codes : /\ k.secret = w.secret /\ ~k.used
                                 /\ ~\E x \in db.codes : SameCode(k, x)
      BY <2>5 DEF CodeMissing
    <3>2. \A x : SameCode(x, k) => SameCode(k, x)
      BY DEF SameCode
    <3>3. k.secret = Fresh
      BY <1>2, <3>1, <3>2 DEF Brought, CodesBrought
    <3> QED BY <1>0, <3>1, <3>3 DEF NewReason
  <2> QED BY <2>1, <2>2, <2>3, <2>4, <2>5
<1>8. CASE w.user \notin db.active
  <2>1. \A g \in db'.grants : g.user \in db.active
    BY <1>0, <1>2 DEF Brought, GrantsBrought, GrantsActive
  <2>2. w.kind \in {"session", "key", "code"}
    BY <1>1, <1>3, <1>6, <1>8, <2>1, WorkingKind
  <2> QED BY <1>8, <2>2 DEF NewReason
<1> QED BY <1>7, <1>8

\* What was ended stays ended: whatever is redeemed, rotated, retried or raced,
\* a step makes only what it just issued work, the session ChangePassword
\* promised to keep, and what a reactivated account had, its apps excepted.
THEOREM NothingComesBackCorrect ==
  Spec => NothingComesBack
<1>1. ASSUME CInv, [Next]_vars
      PROVE  [\A w \in Working(db', clock') \ Working(db, clock) :
               \/ w.secret > drawn
               \/ w.kind = "session" /\ (\E r \in Request : request[r].secret = w.secret /\ KeepSession(r))
               \/ /\ w.user \notin db.active
                  /\ w.kind \in {"session", "key", "code"}]_<<db, clock>>
  BY <1>1, NewStep DEF NewReason
<1> QED BY <1>1, CInvCorrect, PTL DEF Spec, NothingComesBack

-----------------------------------------------------------------------------
(* What works ends for a reason *)

SessionsEnd ==
  \A s \in db.sessions : s.expires > clock =>
    \/ s \in db'.sessions \/ PasswordSet(s.user) \/ s.user \notin db'.active
    \/ \E x \in db.sessions : x.secret = s.secret /\ Logout(x)

KeysEnd ==
  \A k \in db.keys :
    \/ k \in db'.keys
    \/ \E r \in Request, x \in db.keys :
         x.secret = k.secret /\ request[r].user = k.user /\ RevokeToken(r, x)

TokensEnd ==
  \A t \in db.tokens, g \in db.grants :
    g.id = t.grant /\ t.expires > clock =>
      \/ t \in db'.tokens /\ g \in db'.grants
      \/ PasswordSet(g.user) \/ g.user \notin db'.active \/ Disconnected(g.id)
      \/ t.kind = "refresh" /\ Refresh(t)

CodesEnd ==
  \A k \in db.codes : k.expires > clock =>
    \/ \E x \in db'.codes : SameCode(k, x)
    \/ \E x \in db.codes : x.secret = k.secret /\ ExchangeCode(x)
    \/ (\E c \in Client : RegisterClient(c)) /\ Idling(k.client)

Ends == SessionsEnd /\ KeysEnd /\ TokensEnd /\ CodesEnd

LEMMA AccountsStay ==
  ASSUME SameAccounts(db, db')
  PROVE  SessionsEnd /\ KeysEnd
BY DEF SameAccounts, SessionsEnd, KeysEnd

LEMMA TokensStay ==
  ASSUME TokensKept(db, db') \/ SameTokens(db, db')
  PROVE  TokensEnd
BY DEF TokensKept, SameTokens, TokensEnd

LEMMA CodesStay ==
  ASSUME CodesKept(db, db') \/ db'.codes = db.codes
  PROVE  CodesEnd
BY DEF CodesKept, CodesEnd, SameCode

LEMMA DropEnds ==
  ASSUME db \in Database, NEW gone, db' = DropGrants(db, gone),
         \A g \in db.grants : g.id \in gone => Disconnected(g.id)
  PROVE  Ends
<1>1. /\ SameAccounts(db, db') /\ CodesKept(db, db')
      /\ \A t \in db.tokens : t.grant \notin gone => t \in db'.tokens
      /\ \A g \in db.grants : g.id \notin gone <=> g \in db'.grants
  BY DropLeaves
<1>2. TokensEnd
  BY <1>1 DEF TokensEnd
<1> QED BY <1>1, <1>2, AccountsStay, CodesStay DEF Ends

LEMMA ResetEnds ==
  ASSUME db \in Database, OneGrant(db), NEW u, NEW b \in Database,
         b.keys = db.keys, b.sessions = db.sessions, SameTokens(db, b), b.codes = db.codes,
         db' = Reset(b, u), PasswordSet(u) \/ u \notin b.active
  PROVE  Ends
<1>1. /\ db'.active = b.active /\ db'.keys = db.keys /\ CodesKept(db, db')
      /\ db'.sessions = {s \in db.sessions : s.user # u}
      /\ \A g \in db.grants : g.user # u => g \in db'.grants
      /\ \A t \in db.tokens, g \in db.grants :
           g.id = t.grant /\ g.user # u => t \in db'.tokens
  BY ResetStep
<1>2. PasswordSet(u) \/ u \notin db'.active
  BY <1>1
<1>3. SessionsEnd /\ TokensEnd
  BY <1>1, <1>2 DEF SessionsEnd, TokensEnd
<1> QED BY <1>1, <1>3, CodesStay DEF Ends, KeysEnd

LEMMA StepEnds ==
  ASSUME IInv, OneGrant(db), Next
  PROVE  Ends
<1>0. db \in Database
  BY DEF IInv, TypeOK
<1>1. ASSUME db' = db
      PROVE  Ends
  BY <1>1, AccountsStay, TokensStay, CodesStay DEF SameAccounts, SameTokens, Ends
<1>2. ASSUME NEW r \in Request, StartSession(r)
      PROVE  Ends
  <2>1. SessionsEnd /\ KeysEnd
    BY <1>0, <1>2, StartSessionLeaves DEF SessionsEnd, KeysEnd
  <2> QED BY <1>0, <1>2, <2>1, StartSessionLeaves, TokensStay, CodesStay DEF Ends
<1>3. ASSUME NEW s \in db.sessions, Logout(s)
      PROVE  Ends
  <2>1. SessionsEnd /\ KeysEnd
    BY <1>0, <1>3, LogoutLeaves DEF SessionsEnd, KeysEnd
  <2> QED BY <1>0, <1>3, <2>1, LogoutLeaves, TokensStay, CodesStay DEF Ends
<1>4. ASSUME NEW u \in User, SetPassword(u)
      PROVE  Ends
  <2>1. SameTokens(db, db) /\ PasswordSet(u) /\ db' = Reset(db, u)
    BY <1>4 DEF SameTokens, PasswordSet, SetPassword
  <2> QED BY <1>0, <2>1, ResetEnds
<1>5. ASSUME NEW r \in Request, ChangePassword(r)
      PROVE  Ends
  <2>1. /\ SameTokens(db, db) /\ PasswordSet(request[r].user)
        /\ db' = Reset(db, request[r].user)
    BY <1>5 DEF SameTokens, PasswordSet, ChangePassword
  <2> QED BY <1>0, <2>1, ResetEnds
<1>6. ASSUME NEW r \in Request, KeepSession(r)
      PROVE  Ends
  <2>1. SessionsEnd /\ KeysEnd
    BY <1>0, <1>6, KeepSessionLeaves DEF SessionsEnd, KeysEnd
  <2> QED BY <1>0, <1>6, <2>1, KeepSessionLeaves, TokensStay, CodesStay DEF Ends
<1>7. ASSUME NEW u \in User, Update(u, TRUE)
      PROVE  Ends
  <2>1. /\ db'.keys = db.keys /\ db'.sessions = db.sessions /\ SameTokens(db, db')
        /\ db'.codes = db.codes
    BY <1>0, <1>7, UpdateUserLeaves DEF Update
  <2>2. SessionsEnd /\ KeysEnd
    BY <2>1 DEF SessionsEnd, KeysEnd
  <2> QED BY <2>1, <2>2, TokensStay, CodesStay DEF Ends
<1>8. ASSUME NEW u \in User, Update(u, FALSE)
      PROVE  Ends
  <2> DEFINE b == UpdateUser(db, u, FALSE)
  <2>1. /\ b \in Database /\ u \notin b.active
        /\ b.keys = db.keys /\ b.sessions = db.sessions /\ SameTokens(db, b)
        /\ b.codes = db.codes
    BY <1>0, UpdateUserLeaves
  <2>2. db' = Reset(b, u)
    BY <1>8 DEF Update
  <2> HIDE DEF b
  <2> QED BY <1>0, <2>1, <2>2, ResetEnds
<1>9. ASSUME NEW r \in Request, NEW ttl \in KeyTTLs, CreateToken(r, ttl)
      PROVE  Ends
  <2>1. SessionsEnd /\ KeysEnd
    BY <1>0, <1>9, CreateTokenLeaves DEF SessionsEnd, KeysEnd
  <2> QED BY <1>0, <1>9, <2>1, CreateTokenLeaves, TokensStay, CodesStay DEF Ends
<1>10. ASSUME NEW r \in Request, NEW k \in db.keys, RevokeToken(r, k)
       PROVE  Ends
  <2>1. SessionsEnd /\ KeysEnd
    BY <1>0, <1>10, RevokeTokenLeaves DEF SessionsEnd, KeysEnd
  <2> QED BY <1>0, <1>10, <2>1, RevokeTokenLeaves, TokensStay, CodesStay DEF Ends
<1>11. ASSUME NEW c \in Client, RegisterClient(c)
       PROVE  Ends
  <2>1. CodesEnd
    BY <1>0, <1>11, RegisterLeaves DEF CodesEnd, SameCode
  <2> QED BY <1>11, <2>1, RegisterLeaves, AccountsStay, TokensStay DEF Ends
<1>12. ASSUME NEW r \in Request, IssueCode(r)
       PROVE  Ends
  BY <1>0, <1>12, IssueCodeLeaves, AccountsStay, TokensStay, CodesStay DEF Ends
<1>13. ASSUME NEW k \in db.codes, ReuseCode(k)
       PROVE  Ends
  <2>1. CASE k.grant = None
    BY <1>1, <1>13, <2>1 DEF ReuseCode
  <2>2. CASE k.grant # None
    <3>1. db' = DropGrants(db, {k.grant}) /\ Disconnected(k.grant)
      BY <1>13, <2>2 DEF ReuseCode, DeleteOAuthGrantByID, Disconnected
    <3> QED BY <1>0, <3>1, DropEnds
  <2> QED BY <2>1, <2>2
<1>14. ASSUME NEW k \in db.codes, NEW id \in Grant, RedeemCode(k, id), ExchangeCode(k)
       PROVE  Ends
  <2>1. CodesEnd
    BY <1>14, RedeemLeaves DEF CodesEnd
  <2> QED BY <1>14, <2>1, RedeemLeaves, AccountsStay, TokensStay DEF Ends
<1>15. ASSUME NEW t \in db.tokens, t.kind = "refresh", RotateRefresh(t), Refresh(t)
       PROVE  Ends
  <2>1. /\ SameAccounts(db, db') /\ CodesKept(db, db')
        /\ \A s \in db.tokens : s.expires > clock /\ s # t =>
             s \in db'.tokens /\ \A g \in db.grants : g.id = s.grant => g \in db'.grants
    BY <1>15, RotateLeaves
  <2>2. TokensEnd
    BY <1>15, <2>1 DEF TokensEnd
  <2> QED BY <2>1, <2>2, AccountsStay, CodesStay DEF Ends
<1>16. ASSUME NEW t \in db.tokens, t.kind = "refresh", ReuseRefresh(t)
       PROVE  Ends
  <2>1. db' = DropGrants(db, {t.grant}) /\ Disconnected(t.grant)
    BY <1>16 DEF ReuseRefresh, DeleteOAuthGrantByID, Disconnected
  <2> QED BY <1>0, <2>1, DropEnds
<1>17. ASSUME NEW r \in Request, NEW id \in Grant, RevokeGrant(r, id)
       PROVE  Ends
  <2> DEFINE gone == {g.id : g \in {h \in db.grants : h.id = id /\ h.user = request[r].user}}
  <2>1. db' = DropGrants(db, gone)
    BY <1>17 DEF RevokeGrant, DeleteOAuthGrant
  <2>2. ASSUME NEW i \in gone
        PROVE  Disconnected(i)
    BY <1>17 DEF Disconnected
  <2> HIDE DEF gone
  <2> QED BY <1>0, <2>1, <2>2, DropEnds
<1>18. ASSUME NEW r \in Request, RevokeRead(r)
       PROVE  Ends
  <2>1. db' = DropGrants(db, {request[r].grant}) /\ Disconnected(request[r].grant)
    BY <1>18 DEF RevokeRead, DeleteOAuthGrantByID, Disconnected
  <2> QED BY <1>0, <2>1, DropEnds
<1>19. ASSUME Reading \/ Tick
       PROVE  db' = db
  BY <1>19 DEF Reading, Login, Authenticate, RevokeOAuthToken, checkAuthorize, Abandon, Tick, vars
<1>20. ASSUME NEW k \in db.codes, ExchangeCode(k)
       PROVE  Ends
  BY <1>13, <1>14, <1>20 DEF ExchangeCode
<1>21. ASSUME NEW t \in db.tokens, Refresh(t)
       PROVE  Ends
  BY <1>15, <1>16, <1>21 DEF Refresh
<1> QED BY <1>1, <1>2, <1>3, <1>4, <1>5, <1>6, <1>7, <1>8, <1>9, <1>10, <1>11, <1>12,
           <1>17, <1>18, <1>19, <1>20, <1>21 DEF Next, AsUser, Reading

EndReason(w) ==
  \/ clock' # clock
  \/ w.user \notin db'.active
  \/ w.kind \in {"session", "access", "refresh"} /\ PasswordSet(w.user)
  \/ w.kind = "session" /\ (\E s \in db.sessions : s.secret = w.secret /\ Logout(s))
  \/ /\ w.kind = "key"
     /\ \E r \in Request, k \in db.keys :
          k.secret = w.secret /\ request[r].user = w.user /\ RevokeToken(r, k)
  \/ w.kind \in {"access", "refresh"} /\ Disconnected(w.grant)
  \/ w.kind = "refresh" /\ (\E t \in db.tokens : t.secret = w.secret /\ Refresh(t))
  \/ w.kind = "code" /\ (\E k \in db.codes : k.secret = w.secret /\ ExchangeCode(k))
  \/ /\ w.kind = "code" /\ (\E c \in Client : RegisterClient(c))
     /\ \E k \in db.codes : k.secret = w.secret /\ Idling(k.client)

LEMMA EndStep ==
  ASSUME CInv, [Next]_vars, NEW w \in Working(db, clock) \ Working(db', clock')
  PROVE  EndReason(w)
<1> SUFFICES ASSUME clock' = clock, w.user \in db'.active PROVE EndReason(w)
  BY DEF EndReason
<1>0. db \in Database /\ OneGrant(db)
  BY DEF CInv, IInv, TypeOK
<1>1. db' \in Database
  BY StepSound DEF CInv, IInv, TypeOK
<1>2. OneGrant(db')
  BY <1>0, StepBrings DEF CInv, Brought, GrantsBrought
<1>3. ~(UNCHANGED vars)
  BY DEF vars
<1>4. Ends
  BY <1>0, <1>3, StepEnds DEF CInv
<1>5. \/ SessionMissing(w, db, db', clock)
      \/ KeyMissing(w, db, db')
      \/ TokenMissing(w, db, db', clock)
      \/ CodeMissing(w, db, db', clock)
  BY <1>0, <1>1, <1>2, Missing
<1>6. CASE SessionMissing(w, db, db', clock)
  <2>1. PICK s \in db.sessions : /\ s.secret = w.secret /\ s.user = w.user /\ s.expires > clock
                                 /\ s \notin db'.sessions
    BY <1>6 DEF SessionMissing
  <2>2. PasswordSet(s.user) \/ \E x \in db.sessions : x.secret = s.secret /\ Logout(x)
    BY <1>4, <2>1 DEF Ends, SessionsEnd
  <2> QED BY <1>6, <2>1, <2>2 DEF SessionMissing, EndReason
<1>7. CASE KeyMissing(w, db, db')
  BY <1>4, <1>7 DEF KeyMissing, Ends, KeysEnd, EndReason
<1>8. CASE TokenMissing(w, db, db', clock)
  <2>1. PICK t \in db.tokens, g \in db.grants :
          /\ t.kind = w.kind /\ t.secret = w.secret /\ t.grant = w.grant /\ t.expires > clock
          /\ g.id = w.grant /\ g.user = w.user
          /\ t \notin db'.tokens \/ g \notin db'.grants
    BY <1>8 DEF TokenMissing
  <2>2. \/ PasswordSet(g.user) \/ Disconnected(g.id)
        \/ t.kind = "refresh" /\ Refresh(t)
    BY <1>4, <2>1 DEF Ends, TokensEnd
  <2>3. w.kind \in {"access", "refresh"}
    BY <1>8 DEF TokenMissing
  <2> QED BY <2>1, <2>2, <2>3 DEF EndReason
<1>9. CASE CodeMissing(w, db, db', clock)
  <2>1. PICK k \in db.codes : /\ k.secret = w.secret /\ k.expires > clock
                              /\ ~\E x \in db'.codes : SameCode(k, x)
    BY <1>9 DEF CodeMissing
  <2>2. \/ \E x \in db.codes : x.secret = k.secret /\ ExchangeCode(x)
        \/ (\E c \in Client : RegisterClient(c)) /\ Idling(k.client)
    BY <1>4, <2>1 DEF Ends, CodesEnd
  <2> QED BY <1>9, <2>1, <2>2 DEF CodeMissing, EndReason
<1> QED BY <1>5, <1>6, <1>7, <1>8, <1>9

\* Nobody who is signed in or connected is cut off by what others do or by the
\* cleaning up: what works goes on working until it runs out, its account is
\* deactivated, or the step made for ending it is taken by one who may.  Only a
\* code that waits to be redeemed goes with its client, if that was idling, when
\* another registers.
THEOREM EndsForAReasonCorrect ==
  Spec => EndsForAReason
<1>1. ASSUME CInv, [Next]_vars
      PROVE  [\A w \in Working(db, clock) \ Working(db', clock') :
       \/ clock' # clock
       \/ w.user \notin db'.active
       \/ w.kind \in {"session", "access", "refresh"} /\ PasswordSet(w.user)
       \/ w.kind = "session" /\ (\E s \in db.sessions : s.secret = w.secret /\ Logout(s))
       \/ /\ w.kind = "key"
          /\ \E r \in Request, k \in db.keys :
               k.secret = w.secret /\ request[r].user = w.user /\ RevokeToken(r, k)
       \/ w.kind \in {"access", "refresh"} /\ Disconnected(w.grant)
       \/ w.kind = "refresh" /\ (\E t \in db.tokens : t.secret = w.secret /\ Refresh(t))
       \/ w.kind = "code" /\ (\E k \in db.codes : k.secret = w.secret /\ ExchangeCode(k))
       \/ /\ w.kind = "code" /\ (\E c \in Client : RegisterClient(c))
          /\ \E k \in db.codes : k.secret = w.secret /\ Idling(k.client)]_<<db, clock>>
  BY <1>1, EndStep DEF EndReason
<1> QED BY <1>1, CInvCorrect, PTL DEF Spec, EndsForAReason
=============================================================================
