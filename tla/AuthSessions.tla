------------------------------ MODULE AuthSessions -----------------------------
(***************************************************************************)
(* Sessions: refresh tokens in PostgreSQL, rotated on every use and revoked *)
(* family by family, and access tokens that a logout puts on a denylist in  *)
(* Redis until they expire.                                                 *)
(*                                                                          *)
(* Source: internal/auth (service, repository, token, jti_store),           *)
(* internal/middleware/auth.go and internal/cron/refreshTokenCleanUp.go.    *)
(*                                                                          *)
(* Each statement a request sends to PostgreSQL or Redis is a step of its   *)
(* own. The transaction of RotateRefreshToken keeps the row it updated      *)
(* locked until it commits, and an UPDATE of several rows works on the      *)
(* snapshot taken when it started (READ COMMITTED).                         *)
(* A token is named by the identifier of its row, and a family by the token *)
(* that started it: both are fresh UUIDs made by the same INSERT. Passwords *)
(* and signatures are left out: requests are those that pass their checks.  *)
(***************************************************************************)
EXTENDS Integers, FiniteSets

CONSTANTS
    Emails,        \* users that may sign up
    Tokens,        \* bound: refresh tokens that can ever be generated
    AccessTokens,  \* bound: the access tokens that are followed, by their jti
    Handlers,      \* concurrent HTTP requests
    RefreshTTL,    \* RefreshTokenTTL, in ticks
    AccessTTL,     \* AccessTokenTTL, in ticks
    Horizon,       \* bound: the last tick of the clock
    RedisRestart,  \* whether this instance lets Redis restart
    None

ASSUME AuthAssumption ==
    /\ None \notin Tokens
    /\ RefreshTTL \in Nat \ {0}
    /\ AccessTTL \in Nat \ {0}
    /\ Horizon \in Nat
    /\ RedisRestart \in BOOLEAN

VARIABLES
    now,      \* the clock
    users,    \* the users table
    rt,       \* the refresh_tokens table, as committed
    exp,      \* the exp claim of each access token; 0 before it is issued
    deny,     \* Redis: when the key of a revoked jti expires; 0 when there is none
    saved,    \* Redis: the last snapshot on disk
    pc, email, stored, snap, access,   \* the requests
    loggedOut,  \* ghost: the access tokens whose Revoke succeeded
    lost,       \* ghost: those that Redis forgot in a crash
    dead,       \* ghost: the families for which a RevokeFamily has returned
    raced       \* ghost: families rotated while a RevokeFamily of theirs was under way,
                \* until the next one that finds all there is

tables  == <<users, rt>>
redis   == <<deny, saved>>
request == <<pc, email, stored, snap, access>>
ghosts  == <<loggedOut, lost, dead, raced>>
vars == <<now, tables, exp, redis, request, ghosts>>

RefreshToken == [status : {"absent", "active", "revoked", "deleted"},
                 family : Tokens \cup {None}, parent : Tokens \cup {None},
                 expiresAt : Nat]

AbsentToken == [status |-> "absent", family |-> None, parent |-> None, expiresAt |-> 0]

\* Where a request is between two statements.
PCs == {"idle", "signup", "rotate", "insert", "logout", "lookup", "revoke", "revoking"}

TypeOK ==
    /\ now \in 0..Horizon
    /\ users \subseteq Emails
    /\ rt \in [Tokens -> RefreshToken]
    /\ exp \in [AccessTokens -> Nat]
    /\ deny \in [AccessTokens -> Nat]
    /\ saved \in [AccessTokens -> Nat]
    /\ pc \in [Handlers -> PCs]
    /\ email \in [Handlers -> Emails \cup {None}]
    /\ stored \in [Handlers -> Tokens \cup {None}]
    /\ snap \in [Handlers -> SUBSET Tokens]
    /\ access \in [Handlers -> AccessTokens \cup {None}]
    /\ loggedOut \subseteq AccessTokens
    /\ lost \subseteq AccessTokens
    /\ dead \subseteq Tokens
    /\ raced \subseteq Tokens

Init ==
    /\ now = 0
    /\ users = {}
    /\ rt = [t \in Tokens |-> AbsentToken]
    /\ exp = [a \in AccessTokens |-> 0]
    /\ deny = [a \in AccessTokens |-> 0]
    /\ saved = [a \in AccessTokens |-> 0]
    /\ pc = [h \in Handlers |-> "idle"]
    /\ email = [h \in Handlers |-> None]
    /\ stored = [h \in Handlers |-> None]
    /\ snap = [h \in Handlers |-> {}]
    /\ access = [h \in Handlers |-> None]
    /\ loggedOut = {}
    /\ lost = {}
    /\ dead = {}
    /\ raced = {}

--------------------------------------------------------------------------------
(* Parts of the requests. *)

Goto(h, where) == pc' = [pc EXCEPT ![h] = where]

\* The handler returns; its local variables are gone.
Return(h) ==
    /\ Goto(h, "idle")
    /\ email' = [email EXCEPT ![h] = None]
    /\ stored' = [stored EXCEPT ![h] = None]
    /\ snap' = [snap EXCEPT ![h] = {}]
    /\ access' = [access EXCEPT ![h] = None]

\* GenerateRefreshToken and CreateToken: random, hence new.
Fresh(t) == rt[t].status = "absent"
NewAccess(a) == exp[a] = 0

\* Only some of the access tokens that are issued are followed; nobody logs out with
\* the others.
CreateToken ==
    \/ \E a \in AccessTokens : NewAccess(a) /\ exp' = [exp EXCEPT ![a] = now + AccessTTL]
    \/ UNCHANGED exp

\* A row without a parent gets a family of its own from the column default.
NewFamily(t) == [status |-> "active", family |-> t, parent |-> None,
                 expiresAt |-> now + RefreshTTL]

\* FindRefreshTokenByHash finds revoked and expired rows too.
Stored(t) == rt[t].status \in {"active", "revoked"}

\* The rows that a transaction of RotateRefreshToken has updated and not committed.
Locked == {stored[h] : h \in {g \in Handlers : pc[g] = "insert"}}

--------------------------------------------------------------------------------
(* The operations. *)

\* CreateUserService: CheckEmailExists, then one transaction for the user and the
\* first refresh token, which the unique index refuses if somebody was faster.
CheckEmailExists(h) ==
    /\ pc[h] = "idle"
    /\ \E e \in Emails \ users : email' = [email EXCEPT ![h] = e]
    /\ Goto(h, "signup")
    /\ UNCHANGED <<now, tables, exp, redis, stored, snap, access, ghosts>>

CreateUserWithRefreshToken(h) ==
    /\ pc[h] = "signup"
    /\ \/ /\ email[h] \notin users
          /\ users' = users \cup {email[h]}
          /\ \E t \in Tokens : Fresh(t) /\ rt' = [rt EXCEPT ![t] = NewFamily(t)]
          /\ CreateToken
       \/ /\ email[h] \in users
          /\ UNCHANGED <<tables, exp>>
    /\ Return(h)
    /\ UNCHANGED <<now, redis, ghosts>>

\* LoginUserService, for a user that exists and the right password.
LoginUserService(h) ==
    /\ pc[h] = "idle"
    /\ users # {}
    /\ \E t \in Tokens : Fresh(t) /\ rt' = [rt EXCEPT ![t] = NewFamily(t)]
    /\ CreateToken
    /\ UNCHANGED <<now, users, redis, request, ghosts>>

\* RefreshAccessToken up to the lookup: a revoked token leads to RevokeFamily, an
\* expired one to an error, a good one to the rotation.
RefreshAccessToken(h) ==
    /\ pc[h] = "idle"
    /\ \E t \in Tokens :
        /\ Stored(t)
        /\ rt[t].status = "revoked" \/ now <= rt[t].expiresAt
        /\ stored' = [stored EXCEPT ![h] = t]
        /\ Goto(h, IF rt[t].status = "revoked" THEN "revoke" ELSE "rotate")
    /\ UNCHANGED <<now, tables, exp, redis, email, snap, access, ghosts>>

\* Mutant: the UPDATE of the rotation has no "revoked_at IS NULL".
Rotatable_AnyStatus(t) == Stored(t)

\* The row the UPDATE of the rotation matches.
Rotatable(t) == rt[t].status = "active"

\* RotateRefreshToken, the UPDATE: it waits for the row's lock, and fails when the row
\* was revoked or deleted since the lookup.
RotateUpdate(h) ==
    /\ pc[h] = "rotate"
    /\ stored[h] \notin Locked
    /\ \/ /\ Rotatable(stored[h])
          /\ Goto(h, "insert")
          /\ UNCHANGED <<email, stored, snap, access>>
       \/ /\ ~Rotatable(stored[h])
          /\ Return(h)
    /\ UNCHANGED <<now, tables, exp, redis, ghosts>>

\* RotateRefreshToken, the INSERT and the commit.
RotateCommit(h) ==
    /\ pc[h] = "insert"
    /\ LET old == stored[h] IN
       /\ \E t \in Tokens :
            /\ Fresh(t)
            /\ rt' = [rt EXCEPT ![old].status = "revoked",
                                ![t] = [status |-> "active", family |-> rt[old].family,
                                        parent |-> old, expiresAt |-> now + RefreshTTL]]
       /\ raced' = IF \E r \in Handlers : /\ pc[r] = "revoking"
                                          /\ rt[stored[r]].family = rt[old].family
                     THEN raced \cup {rt[old].family} ELSE raced
    /\ CreateToken
    /\ Return(h)
    /\ UNCHANGED <<now, users, redis, loggedOut, lost, dead>>

\* ParseAccessToken refuses a token that has expired.
ParseAccessToken(a) == now < exp[a]

\* JTIStore.IsRevoked: Redis keeps a key until its time is over.
IsRevoked(a) == now < deny[a]

\* RequireAuth in front of a logout.
RequireAuth(h) ==
    /\ pc[h] = "idle"
    /\ \E a \in AccessTokens :
        /\ ParseAccessToken(a)
        /\ ~IsRevoked(a)
        /\ access' = [access EXCEPT ![h] = a]
    /\ Goto(h, "logout")
    /\ UNCHANGED <<now, tables, exp, redis, email, stored, snap, ghosts>>

\* Mutant: a token about to expire is not worth a key.
Until_Short(t) == t - now - 1

\* time.Until
Until(t) == t - now

\* LogoutService, JTIStore.Revoke: a key that lives as long as the token, or nothing
\* when the token has expired meanwhile.
Revoke(h) ==
    /\ pc[h] = "logout"
    /\ LET a == access[h] IN
       /\ deny' = IF Until(exp[a]) <= 0 THEN deny
                                        ELSE [deny EXCEPT ![a] = now + Until(exp[a])]
       /\ loggedOut' = loggedOut \cup {a}
       /\ lost' = lost \ {a}
    /\ Goto(h, "lookup")
    /\ UNCHANGED <<now, tables, exp, saved, email, stored, snap, access, dead, raced>>

\* LogoutService, the lookup of the refresh token in the body: unknown, it is ignored;
\* known, active or not, its family is revoked.
FindForLogout(h) ==
    /\ pc[h] = "lookup"
    /\ \E t \in Tokens :
       \/ /\ Stored(t)
          /\ stored' = [stored EXCEPT ![h] = t]
          /\ Goto(h, "revoke")
          /\ UNCHANGED <<email, snap, access>>
       \/ /\ ~Stored(t)
          /\ Return(h)
    /\ UNCHANGED <<now, tables, exp, redis, ghosts>>

\* Mutant: only the row of the token presented.
ActiveRows_TokenOnly(t) == {u \in Tokens : rt[u].status = "active" /\ u = t}

\* The rows the UPDATE of RevokeFamily finds when it starts.
ActiveRows(t) == {u \in Tokens : rt[u].status = "active" /\ rt[u].family = rt[t].family}

RevokeFamilyStarts(h) ==
    /\ pc[h] = "revoke"
    /\ snap' = [snap EXCEPT ![h] = ActiveRows(stored[h])]
    /\ Goto(h, "revoking")
    /\ UNCHANGED <<now, tables, exp, redis, email, stored, access, ghosts>>

\* It waits for the locks of these rows and revokes the ones that still match.
RevokeFamilyEnds(h) ==
    /\ pc[h] = "revoking"
    /\ snap[h] \cap Locked = {}
    /\ rt' = [t \in Tokens |-> IF t \in snap[h] /\ rt[t].status = "active"
                                 THEN [rt[t] EXCEPT !.status = "revoked"] ELSE rt[t]]
    /\ dead' = dead \cup {rt[stored[h]].family}
    /\ raced' = IF ActiveRows(stored[h]) \subseteq snap[h]
                  THEN raced \ {rt[stored[h]].family} ELSE raced
    /\ Return(h)
    /\ UNCHANGED <<now, users, exp, redis, loggedOut, lost>>

\* A statement fails, the request's context is done, or the server dies: what was not
\* committed is rolled back.
RequestFails(h) ==
    /\ pc[h] # "idle"
    /\ Return(h)
    /\ UNCHANGED <<now, tables, exp, redis, ghosts>>

\* RefreshTokenCleaner.clean, on every tick of its own. The foreign key of parent_id says
\* ON DELETE SET NULL.
Clean ==
    /\ LET gone == {t \in Tokens : Stored(t) /\ rt[t].expiresAt < now} IN
       /\ gone \cap Locked = {}
       /\ rt' = [t \in Tokens |->
                   IF t \in gone
                     THEN [rt[t] EXCEPT !.status = "deleted", !.parent = None]
                     ELSE [rt[t] EXCEPT !.parent = IF @ \in gone THEN None ELSE @]]
    /\ UNCHANGED <<now, users, exp, redis, request, ghosts>>

\* Redis writes its dataset to disk from time to time, and reads it when it restarts.
RedisSaves ==
    /\ RedisRestart
    /\ saved' = deny
    /\ UNCHANGED <<now, tables, exp, deny, request, ghosts>>

RedisRestarts ==
    /\ RedisRestart
    /\ deny' = saved
    /\ lost' = lost \cup {a \in loggedOut : saved[a] < deny[a]}
    /\ UNCHANGED <<now, tables, exp, saved, request, loggedOut, dead, raced>>

Tick ==
    /\ now < Horizon
    /\ now' = now + 1
    /\ UNCHANGED <<tables, exp, redis, request, ghosts>>

Request(h) ==
    \/ CheckEmailExists(h) \/ CreateUserWithRefreshToken(h)
    \/ LoginUserService(h)
    \/ RefreshAccessToken(h) \/ RotateUpdate(h) \/ RotateCommit(h)
    \/ RequireAuth(h) \/ Revoke(h) \/ FindForLogout(h)
    \/ RevokeFamilyStarts(h) \/ RevokeFamilyEnds(h)
    \/ RequestFails(h)

Next ==
    \/ Tick
    \/ \E h \in Handlers : Request(h)
    \/ Clean
    \/ RedisSaves
    \/ RedisRestarts

Spec == Init /\ [][Next]_vars

--------------------------------------------------------------------------------
(* Properties. *)

\* Concurrent refreshes of one token, retries and replays never leave a family with two
\* usable tokens: RotateRefreshToken's UPDATE lets one of them through.
OneActivePerFamily ==
    \A t, u \in Tokens :
        rt[t].status = "active" /\ rt[u].status = "active" /\ rt[t].family = rt[u].family
            => t = u

\* A refresh token is exchanged at most once: the parent_id links of a family never fork,
\* whatever the cleaner deletes.
RotatedOnce ==
    \A t, u \in Tokens : rt[t].parent # None /\ rt[t].parent = rt[u].parent => t = u

\* Once a RevokeFamily has returned, for a logout or a replayed token, the family has no
\* usable token and never gets one again, unless a rotation of the family committed while
\* the UPDATE was under way; the next RevokeFamily makes up for that.
RevokedFamilyStaysDead ==
    \A t \in Tokens :
        rt[t].status = "active" /\ rt[t].family \in dead => rt[t].family \in raced

\* After the Revoke of a logout the access token is refused until it expires: the key in
\* Redis outlives it, unless Redis restarted from a snapshot taken before.
LoggedOutDenied ==
    \A a \in loggedOut \ lost : ParseAccessToken(a) => IsRevoked(a)

--------------------------------------------------------------------------------
(* What a session is. *)

\* The tokens of a family that a rotation would accept.
Tip(f) == {t \in Tokens : rt[t].status = "active" /\ rt[t].family = f}

Chain == INSTANCE SessionChain
    WITH issued <- {t \in Tokens : rt[t].status # "absent"},
         tip <- [f \in Tokens |-> Tip(f)]

\* Rotations and revocations that race each other, replays, the cleaner and failing
\* requests leave a family what SessionChain says it is: one token at a time, each in its
\* turn and none twice, and over for good once it is over.
ImplementsChain == Chain!Spec

--------------------------------------------------------------------------------
(* What a comment says, and the code does not do. *)

\* auth/repository.go:111 says that RevokeFamily "revokes every active row in a token
\* family": none is left when it returns.
RevokesEveryActiveRow ==
    [][\A h \in Handlers :
         LET family == rt[stored[h]].family IN
         pc[h] = "revoking" /\ family \in dead' \ dead =>
             \A t \in Tokens : rt'[t].status = "active" => rt'[t].family # family]_vars
================================================================================
