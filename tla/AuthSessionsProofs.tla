--------------------------- MODULE AuthSessionsProofs --------------------------
(***************************************************************************)
(* Proofs about AuthSessions, for any number of users, tokens and requests. *)
(*                                                                          *)
(* The argument: a rotation holds the lock of an active row, so no two are  *)
(* at work on the same one; it retires that row in the step that adds the   *)
(* new one, so a family keeps one active row and a row gets one child. A    *)
(* RevokeFamily under way knows all active rows of its family, unless a     *)
(* rotation has committed since it started.                                 *)
(***************************************************************************)
EXTENDS AuthSessions, TLAPS

\* Of the table: where families and parents point, and what the rotation preserves.
TableInv ==
    /\ \A t \in Tokens : rt[t].status = "absent" => rt[t].family = None /\ rt[t].parent = None
    /\ \A t \in Tokens : rt[t].status # "absent" =>
          rt[t].family \in Tokens /\ rt[rt[t].family].status # "absent"
    /\ \A t \in Tokens : rt[t].parent # None => rt[rt[t].parent].status = "revoked"
    /\ OneActivePerFamily
    /\ RotatedOnce

\* Of the requests: the row a request found stays in the table's history, the row a
\* rotation has locked is active, and no other rotation has locked it.
RequestInv ==
    /\ \A h \in Handlers : pc[h] = "signup" => email[h] \in Emails
    /\ \A h \in Handlers : pc[h] \in {"rotate", "insert", "revoke", "revoking"} =>
          stored[h] \in Tokens /\ rt[stored[h]].status # "absent"
    /\ \A h \in Handlers : pc[h] = "insert" => rt[stored[h]].status = "active"
    /\ \A g, h \in Handlers : pc[g] = "insert" /\ pc[h] = "insert" /\ stored[g] = stored[h]
          => g = h

\* Of RevokeFamily.
FamilyInv ==
    /\ \A h \in Handlers : pc[h] = "revoking" =>
          \A t \in Tokens : rt[t].status = "active" /\ rt[t].family = rt[stored[h]].family
              => t \in snap[h] \/ rt[t].family \in raced
    /\ \A f \in dead : rt[f].status # "absent"
    /\ RevokedFamilyStaysDead

\* Of the denylist.
DenyInv ==
    /\ \A h \in Handlers : pc[h] = "logout" => access[h] \in AccessTokens
    /\ \A h \in Handlers : pc[h] = "logout" => exp[access[h]] # 0
    /\ \A a \in loggedOut : exp[a] # 0
    /\ \A a \in loggedOut \ lost : now < exp[a] => exp[a] <= deny[a]

AInv == TypeOK /\ TableInv /\ RequestInv /\ FamilyInv /\ DenyInv

LEMMA InitAInv == Init => AInv
  <1> SUFFICES ASSUME Init PROVE AInv
    OBVIOUS
  <1>1. TypeOK
    BY AuthAssumption DEF Init, TypeOK, AbsentToken, RefreshToken, PCs
  <1>2. \A t \in Tokens : rt[t] = AbsentToken
    BY DEF Init
  <1>3. TableInv
    BY <1>2 DEF TableInv, OneActivePerFamily, RotatedOnce, AbsentToken
  <1>4. RequestInv /\ FamilyInv /\ DenyInv
    BY <1>2 DEF Init, RequestInv, FamilyInv, RevokedFamilyStaysDead, DenyInv, AbsentToken
  <1> QED
    BY <1>1, <1>3, <1>4 DEF AInv

\* The end of a request touches nothing but its own local variables.
LEMMA ReturnType ==
    ASSUME TypeOK, NEW h \in Handlers, Return(h)
    PROVE  /\ pc' \in [Handlers -> PCs]
           /\ email' \in [Handlers -> Emails \cup {None}]
           /\ stored' \in [Handlers -> Tokens \cup {None}]
           /\ snap' \in [Handlers -> SUBSET Tokens]
           /\ access' \in [Handlers -> AccessTokens \cup {None}]
           /\ pc'[h] = "idle"
           /\ \A g \in Handlers \ {h} : /\ pc'[g] = pc[g] /\ stored'[g] = stored[g]
                                        /\ email'[g] = email[g]
                                        /\ snap'[g] = snap[g] /\ access'[g] = access[g]
  BY DEF TypeOK, Return, Goto, PCs

LEMMA CreateTokenType ==
    ASSUME TypeOK, CreateToken
    PROVE  /\ exp' \in [AccessTokens -> Nat]
           /\ \A a \in AccessTokens : exp[a] # 0 => exp'[a] = exp[a]
  <1>1. now + AccessTTL \in Nat
    BY AuthAssumption DEF TypeOK
  <1> QED
    BY <1>1 DEF TypeOK, CreateToken, NewAccess

LEMMA NewFamilyType ==
    ASSUME TypeOK, NEW t \in Tokens
    PROVE  NewFamily(t) \in RefreshToken
  <1>1. now + RefreshTTL \in Nat
    BY AuthAssumption DEF TypeOK
  <1> QED
    BY <1>1 DEF NewFamily, RefreshToken

--------------------------------------------------------------------------------
(* Steps that leave the table alone. *)

\* What the lemmas below need of a request's step: the other requests stay where they are.
Others(h) ==
    \A g \in Handlers \ {h} : /\ pc'[g] = pc[g] /\ stored'[g] = stored[g]
                              /\ email'[g] = email[g]
                              /\ snap'[g] = snap[g] /\ access'[g] = access[g]

\* A request that ends without having changed anything.
LEMMA ReturnKeeps ==
    ASSUME AInv, NEW h \in Handlers, Return(h),
           UNCHANGED <<now, users, rt, exp, deny, saved, loggedOut, lost, dead, raced>>
    PROVE  AInv'
  <1> USE DEF AInv
  <1>1. Others(h) /\ pc'[h] = "idle"
    BY ReturnType DEF Others
  <1>2. TypeOK'
    BY ReturnType DEF TypeOK
  <1>3. TableInv'
    BY DEF TableInv, OneActivePerFamily, RotatedOnce
  <1>4. RequestInv'
    BY <1>1 DEF RequestInv, Others
  <1>5. FamilyInv'
    BY <1>1 DEF FamilyInv, RevokedFamilyStaysDead, Others
  <1>6. DenyInv'
    BY <1>1 DEF DenyInv, Others
  <1> QED
    BY <1>2, <1>3, <1>4, <1>5, <1>6

LEMMA CheckEmailExistsInv ==
    ASSUME AInv, NEW h \in Handlers, CheckEmailExists(h)
    PROVE  AInv'
  <1> USE DEF AInv
  <1>1. TypeOK'
    BY DEF TypeOK, CheckEmailExists, Goto, PCs, tables, redis, ghosts
  <1>2. /\ Others(h) /\ pc'[h] = "signup" /\ email'[h] \in Emails
        /\ UNCHANGED <<now, rt, exp, deny, loggedOut, lost, dead, raced>>
    BY DEF TypeOK, CheckEmailExists, Goto, Others, tables, redis, ghosts
  <1>3. TableInv'
    BY <1>2 DEF TableInv, OneActivePerFamily, RotatedOnce
  <1>4. RequestInv' /\ DenyInv'
    BY <1>2 DEF RequestInv, DenyInv, Others
  <1>5. FamilyInv'
    BY <1>2 DEF FamilyInv, RevokedFamilyStaysDead, Others
  <1> QED
    BY <1>1, <1>3, <1>4, <1>5

LEMMA RefreshAccessTokenInv ==
    ASSUME AInv, NEW h \in Handlers, RefreshAccessToken(h)
    PROVE  AInv'
  <1> USE DEF AInv
  <1>1. PICK t \in Tokens :
          /\ Stored(t)
          /\ stored' = [stored EXCEPT ![h] = t]
          /\ Goto(h, IF rt[t].status = "revoked" THEN "revoke" ELSE "rotate")
    BY DEF RefreshAccessToken
  <1>2. UNCHANGED <<now, users, rt, exp, deny, saved, email, snap, access, loggedOut, lost,
                    dead, raced>>
    BY DEF RefreshAccessToken, tables, redis, ghosts
  <1>3. TypeOK'
    BY <1>1, <1>2 DEF TypeOK, Goto, PCs
  <1>4. Others(h) /\ pc'[h] \in {"revoke", "rotate"} /\ stored'[h] = t
    BY <1>1, <1>2 DEF TypeOK, Goto, Others
  <1>5. TableInv'
    BY <1>2 DEF TableInv, OneActivePerFamily, RotatedOnce
  <1>6. RequestInv' /\ DenyInv'
    BY <1>1, <1>2, <1>4 DEF RequestInv, DenyInv, Others, Stored
  <1>7. FamilyInv'
    BY <1>2, <1>4 DEF FamilyInv, RevokedFamilyStaysDead, Others
  <1> QED
    BY <1>3, <1>5, <1>6, <1>7

LEMMA RotateUpdateInv ==
    ASSUME AInv, NEW h \in Handlers, RotateUpdate(h)
    PROVE  AInv'
  <1> USE DEF AInv
  <1>1. UNCHANGED <<now, users, rt, exp, deny, saved, loggedOut, lost, dead, raced>>
    BY DEF RotateUpdate, tables, redis, ghosts
  <1>2. CASE Return(h)
    BY <1>1, <1>2, ReturnKeeps
  <1>3. CASE /\ Rotatable(stored[h])
             /\ Goto(h, "insert")
             /\ UNCHANGED <<email, stored, snap, access>>
    <2>1. TypeOK'
      BY <1>1, <1>3 DEF TypeOK, Goto, PCs
    <2>2. Others(h) /\ pc'[h] = "insert" /\ stored'[h] = stored[h] /\ pc[h] = "rotate"
      BY <1>3 DEF TypeOK, Goto, Others, RotateUpdate
    <2>3. \A g \in Handlers : pc[g] = "insert" => stored[g] # stored[h]
      BY DEF RotateUpdate, Locked
    <2>4. RequestInv'
      BY <1>1, <1>3, <2>2, <2>3 DEF RequestInv, Others, Rotatable
    <2>5. TableInv'
      BY <1>1 DEF TableInv, OneActivePerFamily, RotatedOnce
    <2>6. FamilyInv' /\ DenyInv'
      BY <1>1, <2>2 DEF FamilyInv, RevokedFamilyStaysDead, DenyInv, Others
    <2> QED
      BY <2>1, <2>4, <2>5, <2>6
  <1> QED
    BY <1>2, <1>3 DEF RotateUpdate

LEMMA RequireAuthInv ==
    ASSUME AInv, NEW h \in Handlers, RequireAuth(h)
    PROVE  AInv'
  <1> USE DEF AInv
  <1>1. PICK a \in AccessTokens : now < exp[a] /\ access' = [access EXCEPT ![h] = a]
    BY DEF RequireAuth, ParseAccessToken
  <1>2. /\ Goto(h, "logout")
        /\ UNCHANGED <<now, users, rt, exp, deny, saved, email, stored, snap, loggedOut, lost,
                       dead, raced>>
    BY DEF RequireAuth, tables, redis, ghosts
  <1>3. TypeOK'
    BY <1>1, <1>2 DEF TypeOK, Goto, PCs
  <1>4. Others(h) /\ pc'[h] = "logout" /\ access'[h] = a
    BY <1>1, <1>2 DEF TypeOK, Goto, Others
  <1>5. exp[a] # 0
    BY <1>1 DEF TypeOK
  <1>6. DenyInv'
    BY <1>2, <1>4, <1>5 DEF DenyInv, Others
  <1>7. TableInv'
    BY <1>2 DEF TableInv, OneActivePerFamily, RotatedOnce
  <1>8. RequestInv' /\ FamilyInv'
    BY <1>2, <1>4 DEF RequestInv, FamilyInv, RevokedFamilyStaysDead, Others
  <1> QED
    BY <1>3, <1>6, <1>7, <1>8

\* The key of a logout outlives the token.
LEMMA RevokeInv ==
    ASSUME AInv, NEW h \in Handlers, Revoke(h)
    PROVE  AInv'
  <1> USE DEF AInv
  <1>1. PICK a \in AccessTokens : a = access[h] /\ exp[a] # 0
    BY DEF Revoke, DenyInv
  <1>2. /\ deny' = IF Until(exp[a]) <= 0 THEN deny
                                         ELSE [deny EXCEPT ![a] = now + Until(exp[a])]
        /\ loggedOut' = loggedOut \cup {a}
        /\ lost' = lost \ {a}
        /\ Goto(h, "lookup")
        /\ UNCHANGED <<now, users, rt, exp, saved, email, stored, snap, access, dead, raced>>
    BY <1>1 DEF Revoke, tables
  <1>3. now \in Nat /\ exp[a] \in Nat /\ now + Until(exp[a]) = exp[a]
    BY AuthAssumption DEF TypeOK, Until
  <1>4. /\ deny' \in [AccessTokens -> Nat]
        /\ \A b \in AccessTokens \ {a} : deny'[b] = deny[b]
        /\ now < exp[a] => deny'[a] = exp[a]
    BY <1>2, <1>3 DEF TypeOK, Until
  <1>5. TypeOK'
    BY <1>2, <1>4 DEF TypeOK, Goto, PCs
  <1>6. Others(h) /\ pc'[h] = "lookup"
    BY <1>2 DEF TypeOK, Goto, Others
  <1>7. DenyInv'
    BY <1>1, <1>2, <1>3, <1>4, <1>6 DEF DenyInv, Others, TypeOK
  <1>8. TableInv'
    BY <1>2 DEF TableInv, OneActivePerFamily, RotatedOnce
  <1>9. RequestInv' /\ FamilyInv'
    BY <1>2, <1>6 DEF RequestInv, FamilyInv, RevokedFamilyStaysDead, Others
  <1> QED
    BY <1>5, <1>7, <1>8, <1>9

LEMMA FindForLogoutInv ==
    ASSUME AInv, NEW h \in Handlers, FindForLogout(h)
    PROVE  AInv'
  <1> USE DEF AInv
  <1>1. UNCHANGED <<now, users, rt, exp, deny, saved, loggedOut, lost, dead, raced>>
    BY DEF FindForLogout, tables, redis, ghosts
  <1>2. CASE Return(h)
    BY <1>1, <1>2, ReturnKeeps
  <1>3. ASSUME NEW t \in Tokens, Stored(t), stored' = [stored EXCEPT ![h] = t],
               Goto(h, "revoke"), UNCHANGED <<email, snap, access>>
        PROVE  AInv'
    <2>1. TypeOK'
      BY <1>1, <1>3 DEF TypeOK, Goto, PCs
    <2>2. Others(h) /\ pc'[h] = "revoke" /\ stored'[h] = t
      BY <1>3 DEF TypeOK, Goto, Others
    <2>3. TableInv'
      BY <1>1 DEF TableInv, OneActivePerFamily, RotatedOnce
    <2>4. RequestInv' /\ DenyInv'
      BY <1>1, <1>3, <2>2 DEF RequestInv, DenyInv, Others, Stored
    <2>5. FamilyInv'
      BY <1>1, <2>2 DEF FamilyInv, RevokedFamilyStaysDead, Others
    <2> QED
      BY <2>1, <2>3, <2>4, <2>5
  <1> QED
    BY <1>2, <1>3 DEF FindForLogout

LEMMA RevokeFamilyStartsInv ==
    ASSUME AInv, NEW h \in Handlers, RevokeFamilyStarts(h)
    PROVE  AInv'
  <1> USE DEF AInv
  <1>1. /\ pc[h] = "revoke"
        /\ snap' = [snap EXCEPT ![h] = ActiveRows(stored[h])]
        /\ Goto(h, "revoking")
        /\ UNCHANGED <<now, users, rt, exp, deny, saved, email, stored, access, loggedOut, lost,
                       dead, raced>>
    BY DEF RevokeFamilyStarts, tables, redis, ghosts
  <1>2. TypeOK'
    BY <1>1 DEF TypeOK, Goto, PCs, ActiveRows
  <1>3. /\ Others(h) /\ pc'[h] = "revoking" /\ stored'[h] = stored[h]
        /\ snap'[h] = ActiveRows(stored[h])
    BY <1>1 DEF TypeOK, Goto, Others
  <1>4. TableInv'
    BY <1>1 DEF TableInv, OneActivePerFamily, RotatedOnce
  <1>5. RequestInv' /\ DenyInv'
    BY <1>1, <1>3 DEF RequestInv, DenyInv, Others
  <1>6. FamilyInv'
    BY <1>1, <1>3 DEF FamilyInv, RevokedFamilyStaysDead, Others, ActiveRows
  <1> QED
    BY <1>2, <1>4, <1>5, <1>6

LEMMA RequestFailsInv ==
    ASSUME AInv, NEW h \in Handlers, RequestFails(h)
    PROVE  AInv'
  BY ReturnKeeps DEF RequestFails, tables, redis, ghosts

--------------------------------------------------------------------------------
(* Steps that write the table. *)

\* A new family: its name is new, so it has no other row and nobody has revoked it.
LEMMA NewFamilyKeeps ==
    ASSUME AInv, NEW t \in Tokens, Fresh(t), rt' = [rt EXCEPT ![t] = NewFamily(t)],
           UNCHANGED <<now, dead, raced>>
    PROVE  /\ rt' \in [Tokens -> RefreshToken]
           /\ TableInv'
           /\ \A u \in Tokens : rt[u].status # "absent" => rt'[u] = rt[u]
           /\ \A f \in dead : rt'[f].status # "absent"
           /\ RevokedFamilyStaysDead'
           /\ \A u \in Tokens : rt'[u].status = "active" =>
                 \/ rt'[u] = rt[u]
                 \/ \A v \in Tokens : rt[v].status # "absent" => rt'[u].family # rt[v].family
  <1> USE DEF AInv
  <1>1. rt' \in [Tokens -> RefreshToken]
    BY NewFamilyType DEF TypeOK
  <1>2. /\ rt'[t].status = "active" /\ rt'[t].family = t /\ rt'[t].parent = None
        /\ rt[t].status = "absent"
        /\ \A u \in Tokens \ {t} : rt'[u] = rt[u]
    BY DEF TypeOK, NewFamily, Fresh
  <1>3. \A u \in Tokens : rt[u].family # t /\ rt[u].parent # t
    BY <1>2, AuthAssumption DEF TableInv
  <1>4. TableInv'
    BY <1>2, <1>3 DEF TableInv, OneActivePerFamily, RotatedOnce, TypeOK, RefreshToken
  <1>5. t \notin dead /\ dead \subseteq Tokens
    BY <1>2 DEF FamilyInv, TypeOK
  <1>6. RevokedFamilyStaysDead'
    BY <1>2, <1>5 DEF FamilyInv, RevokedFamilyStaysDead
  <1> QED
    BY <1>1, <1>2, <1>3, <1>4, <1>5, <1>6 DEF FamilyInv

\* Requests that go on, while rows are only added.
LEMMA RowsStay ==
    ASSUME AInv, UNCHANGED <<dead, raced>>, RevokedFamilyStaysDead',
           \A g \in Handlers :
              \/ pc'[g] = "idle"
              \/ /\ pc'[g] = pc[g] /\ stored'[g] = stored[g]
                 /\ email'[g] = email[g] /\ snap'[g] = snap[g],
           \A u \in Tokens : rt[u].status # "absent" => rt'[u] = rt[u],
           \A f \in dead : rt'[f].status # "absent",
           \A u \in Tokens : rt'[u].status = "active" =>
              \/ rt'[u] = rt[u]
              \/ \A v \in Tokens : rt[v].status # "absent" => rt'[u].family # rt[v].family
    PROVE  RequestInv' /\ FamilyInv'
  <1> USE DEF AInv
  <1>1. ASSUME NEW g \in Handlers, pc'[g] \in {"rotate", "insert", "revoke", "revoking"}
        PROVE  /\ pc'[g] = pc[g] /\ stored'[g] = stored[g] /\ snap'[g] = snap[g]
               /\ stored[g] \in Tokens /\ rt[stored[g]].status # "absent"
               /\ rt'[stored[g]] = rt[stored[g]]
    BY <1>1 DEF RequestInv
  <1>2. RequestInv'
    BY <1>1 DEF RequestInv
  <1>3. ASSUME NEW g \in Handlers, pc'[g] = "revoking", NEW u \in Tokens,
               rt'[u].status = "active", rt'[u].family = rt'[stored'[g]].family
        PROVE  u \in snap'[g] \/ rt'[u].family \in raced'
    <2>1. rt'[u] = rt[u]
      BY <1>1, <1>3
    <2> QED
      BY <1>1, <1>3, <2>1 DEF FamilyInv
  <1> QED
    BY <1>2, <1>3 DEF FamilyInv

LEMMA CreateUserInv ==
    ASSUME AInv, NEW h \in Handlers, CreateUserWithRefreshToken(h)
    PROVE  AInv'
  <1> USE DEF AInv
  <1>1. Return(h) /\ UNCHANGED <<now, deny, saved, loggedOut, lost, dead, raced>>
    BY DEF CreateUserWithRefreshToken, redis, ghosts
  <1>2. CASE UNCHANGED <<tables, exp>>
    BY <1>1, <1>2, ReturnKeeps DEF tables
  <1>3. CASE /\ users' = users \cup {email[h]}
             /\ \E t \in Tokens : Fresh(t) /\ rt' = [rt EXCEPT ![t] = NewFamily(t)]
             /\ CreateToken
    <2>1. PICK t \in Tokens : Fresh(t) /\ rt' = [rt EXCEPT ![t] = NewFamily(t)]
      BY <1>3
    <2>2. Others(h) /\ pc'[h] = "idle"
      BY <1>1, ReturnType DEF Others
    <2>3. TypeOK'
      <3>1. users' \subseteq Emails
        BY <1>3 DEF TypeOK, RequestInv, CreateUserWithRefreshToken
      <3> QED
        BY <1>1, <1>3, <2>1, <3>1, ReturnType, CreateTokenType, NewFamilyKeeps DEF TypeOK
    <2>4. TableInv'
      BY <1>1, <2>1, NewFamilyKeeps
    <2>5. RequestInv' /\ FamilyInv'
      <3>1. \A g \in Handlers :
              \/ pc'[g] = "idle"
              \/ /\ pc'[g] = pc[g] /\ stored'[g] = stored[g]
                 /\ email'[g] = email[g] /\ snap'[g] = snap[g]
        BY <2>2 DEF Others
      <3> QED
        BY <1>1, <2>1, <3>1, NewFamilyKeeps, RowsStay
    <2>6. DenyInv'
      BY <1>1, <1>3, <2>2, CreateTokenType DEF DenyInv, Others, TypeOK
    <2> QED
      BY <2>3, <2>4, <2>5, <2>6
  <1> QED
    BY <1>2, <1>3 DEF CreateUserWithRefreshToken

LEMMA LoginInv ==
    ASSUME AInv, NEW h \in Handlers, LoginUserService(h)
    PROVE  AInv'
  <1> USE DEF AInv
  <1>1. PICK t \in Tokens : Fresh(t) /\ rt' = [rt EXCEPT ![t] = NewFamily(t)]
    BY DEF LoginUserService
  <1>2. /\ CreateToken
        /\ UNCHANGED <<now, users, deny, saved, pc, email, stored, snap, access, loggedOut, lost,
                       dead, raced>>
    BY DEF LoginUserService, redis, request, ghosts
  <1>3. TypeOK'
    BY <1>1, <1>2, CreateTokenType, NewFamilyKeeps DEF TypeOK
  <1>4. TableInv'
    BY <1>1, <1>2, NewFamilyKeeps
  <1>5. RequestInv' /\ FamilyInv'
    <2>1. \A g \in Handlers : /\ pc'[g] = pc[g] /\ stored'[g] = stored[g]
                              /\ email'[g] = email[g] /\ snap'[g] = snap[g]
      BY <1>2
    <2> QED
      BY <1>1, <1>2, <2>1, NewFamilyKeeps, RowsStay
  <1>6. DenyInv'
    BY <1>2, CreateTokenType DEF DenyInv, TypeOK
  <1> QED
    BY <1>3, <1>4, <1>5, <1>6

\* The rotation: one active row of the family is exchanged for another.
LEMMA RotateCommitInv ==
    ASSUME AInv, NEW h \in Handlers, RotateCommit(h)
    PROVE  AInv'
  <1> USE DEF AInv
  <1>1. PICK old \in Tokens, t \in Tokens :
          /\ old = stored[h]
          /\ Fresh(t)
          /\ rt' = [rt EXCEPT ![old].status = "revoked",
                              ![t] = [status |-> "active", family |-> rt[old].family,
                                      parent |-> old, expiresAt |-> now + RefreshTTL]]
    BY DEF RotateCommit, RequestInv
  <1>2. /\ pc[h] = "insert" /\ Return(h) /\ CreateToken
        /\ UNCHANGED <<now, users, deny, saved, loggedOut, lost, dead>>
        /\ raced' = IF \E r \in Handlers : pc[r] = "revoking" /\ rt[stored[r]].family = rt[old].family
                      THEN raced \cup {rt[old].family} ELSE raced
    BY <1>1 DEF RotateCommit, redis
  <1>3. /\ rt[old].status = "active" /\ rt[t].status = "absent" /\ t # old
        /\ rt[old].family \in Tokens /\ rt[rt[old].family].status # "absent"
    BY <1>1, <1>2 DEF RequestInv, TableInv, Fresh
  <1>4. /\ rt'[t] = [status |-> "active", family |-> rt[old].family,
                     parent |-> old, expiresAt |-> now + RefreshTTL]
        /\ rt'[old] = [rt[old] EXCEPT !.status = "revoked"]
        /\ \A u \in Tokens \ {old, t} : rt'[u] = rt[u]
    BY <1>1, <1>3 DEF TypeOK
  <1>5. rt' \in [Tokens -> RefreshToken]
    <2>1. now + RefreshTTL \in Nat
      BY AuthAssumption DEF TypeOK
    <2> QED
      BY <1>1, <1>3, <2>1 DEF TypeOK, RefreshToken
  <1>6. /\ rt'[t].status = "active" /\ rt'[t].family = rt[old].family /\ rt'[t].parent = old
        /\ rt'[old].status = "revoked" /\ rt'[old].family = rt[old].family
        /\ rt'[old].parent = rt[old].parent
    BY <1>4, <1>5 DEF TypeOK, RefreshToken
  <1>7. \A u \in Tokens : /\ rt[u].status # "absent" => rt'[u].status # "absent"
                          /\ rt[u].status # "absent" => rt'[u].family = rt[u].family
                          /\ rt'[u].status = "active" => u = t \/ (u # old /\ rt[u].status = "active")
    BY <1>3, <1>4, <1>6
  <1>8. Others(h) /\ pc'[h] = "idle"
    BY <1>2, ReturnType DEF Others
  <1>9. TypeOK'
    BY <1>2, <1>3, <1>5, ReturnType, CreateTokenType DEF TypeOK
  <1>10. TableInv'
    <2>1. /\ \A u \in Tokens : rt'[u].status = "absent" => rt'[u].family = None /\ rt'[u].parent = None
          /\ \A u \in Tokens : rt'[u].status # "absent" =>
               rt'[u].family \in Tokens /\ rt'[rt'[u].family].status # "absent"
      BY <1>3, <1>4, <1>6, <1>7 DEF TableInv
    <2>2. OneActivePerFamily'
      BY <1>3, <1>4, <1>6, <1>7 DEF TableInv, OneActivePerFamily
    <2>3. \A u \in Tokens : rt[u].parent # old
      BY <1>3, AuthAssumption DEF TableInv
    <2>4. RotatedOnce'
      <3>1. \A u \in Tokens \ {t} : rt'[u].parent = rt[u].parent
        BY <1>4, <1>6
      <3> QED
        BY <1>6, <2>3, <3>1 DEF TableInv, RotatedOnce
    <2>5. ASSUME NEW u \in Tokens, rt'[u].parent # None
          PROVE  rt'[rt'[u].parent].status = "revoked"
      <3>1. CASE u = t
        BY <1>6, <3>1
      <3>2. CASE u # t
        <4>1. PICK q \in Tokens : q = rt[u].parent /\ q = rt'[u].parent /\ rt[q].status = "revoked"
          BY <1>4, <1>6, <2>5, <3>2 DEF TableInv, TypeOK, RefreshToken
        <4> QED
          BY <1>3, <1>4, <4>1
      <3> QED
        BY <3>1, <3>2
    <2> QED
      BY <2>1, <2>2, <2>4, <2>5 DEF TableInv
  <1>11. RequestInv'
    <2>1. \A g \in Handlers : pc'[g] # "idle" =>
            g # h /\ pc'[g] = pc[g] /\ stored'[g] = stored[g] /\ email'[g] = email[g]
      BY <1>8 DEF Others
    <2>2. ASSUME NEW g \in Handlers, pc'[g] = "insert" PROVE rt'[stored'[g]].status = "active"
      <3>1. /\ stored[g] \in Tokens /\ stored[g] # old /\ stored[g] # t
            /\ rt[stored[g]].status = "active"
        BY <1>1, <1>2, <1>3, <2>1, <2>2 DEF RequestInv
      <3> QED
        BY <1>4, <2>1, <2>2, <3>1
    <2>3. \A g \in Handlers : pc'[g] \in {"rotate", "insert", "revoke", "revoking"} =>
            stored'[g] \in Tokens /\ rt'[stored'[g]].status # "absent"
      BY <1>7, <2>1 DEF RequestInv
    <2> QED
      BY <2>1, <2>2, <2>3 DEF RequestInv
  <1>12. FamilyInv'
    <2>1. raced \subseteq raced'
      BY <1>2
    <2>2. \A f \in dead : rt'[f].status # "absent"
      BY <1>7 DEF FamilyInv, TypeOK
    <2>3. RevokedFamilyStaysDead'
      BY <1>2, <1>3, <1>4, <1>6, <1>7, <2>1 DEF FamilyInv, RevokedFamilyStaysDead
    <2>4. ASSUME NEW g \in Handlers, pc'[g] = "revoking", NEW u \in Tokens,
                 rt'[u].status = "active", rt'[u].family = rt'[stored'[g]].family
          PROVE  u \in snap'[g] \/ rt'[u].family \in raced'
      <3>1. g # h /\ pc[g] = "revoking" /\ stored'[g] = stored[g] /\ snap'[g] = snap[g]
        BY <1>8, <2>4 DEF Others
      <3>2. rt'[stored[g]].family = rt[stored[g]].family
        BY <1>7, <3>1 DEF RequestInv
      <3>3. CASE u = t
        BY <1>2, <1>6, <2>4, <3>1, <3>2, <3>3
      <3>4. CASE u # t
        <4>1. rt'[u] = rt[u]
          BY <1>4, <1>7, <2>4, <3>4
        <4> QED
          BY <2>1, <2>4, <3>1, <3>2, <4>1 DEF FamilyInv
      <3> QED
        BY <3>3, <3>4
    <2> QED
      BY <1>2, <2>2, <2>3, <2>4 DEF FamilyInv
  <1>13. DenyInv'
    BY <1>2, <1>8, CreateTokenType DEF DenyInv, Others, TypeOK
  <1> QED
    BY <1>9, <1>10, <1>11, <1>12, <1>13

\* RevokeFamily: rows it waited for may have gone, but what is left of the family's active
\* rows is what a rotation added meanwhile.
LEMMA RevokeFamilyEndsInv ==
    ASSUME AInv, NEW h \in Handlers, RevokeFamilyEnds(h)
    PROVE  AInv'
  <1> USE DEF AInv
  <1>1. PICK s \in Tokens, f \in Tokens :
          s = stored[h] /\ f = rt[s].family /\ rt[s].status # "absent" /\ rt[f].status # "absent"
    BY DEF RevokeFamilyEnds, RequestInv, TableInv
  <1>2. /\ pc[h] = "revoking" /\ Return(h)
        /\ dead' = dead \cup {f}
        /\ raced' = IF ActiveRows(s) \subseteq snap[h] THEN raced \ {f} ELSE raced
        /\ UNCHANGED <<now, users, exp, deny, saved, loggedOut, lost>>
    BY <1>1 DEF RevokeFamilyEnds, redis
  <1>3. /\ rt' \in [Tokens -> RefreshToken]
        /\ \A t \in Tokens :
             /\ rt'[t].family = rt[t].family /\ rt'[t].parent = rt[t].parent
             /\ rt[t].status # "active" => rt'[t].status = rt[t].status
             /\ rt[t].status = "active" =>
                  rt'[t].status = IF t \in snap[h] THEN "revoked" ELSE "active"
    <2>1. \A t \in Tokens : rt'[t] = IF t \in snap[h] /\ rt[t].status = "active"
                                       THEN [rt[t] EXCEPT !.status = "revoked"] ELSE rt[t]
      BY DEF RevokeFamilyEnds
    <2>2. \A t \in Tokens : rt[t] \in RefreshToken
      BY DEF TypeOK
    <2>3. \A t \in Tokens : rt'[t] \in RefreshToken
      BY <2>1, <2>2 DEF RefreshToken
    <2>4. rt' \in [Tokens -> RefreshToken]
      BY <2>3 DEF RevokeFamilyEnds
    <2> QED
      BY <2>1, <2>2, <2>4 DEF RefreshToken
  <1>4. Others(h) /\ pc'[h] = "idle"
    BY <1>2, ReturnType DEF Others
  <1>5. TypeOK'
    BY <1>1, <1>2, <1>3, ReturnType DEF TypeOK
  <1>6. TableInv'
    <2>1. /\ \A t \in Tokens : rt'[t].status = "absent" => rt'[t].family = None /\ rt'[t].parent = None
          /\ \A t \in Tokens : rt'[t].status # "absent" =>
               rt'[t].family \in Tokens /\ rt'[rt'[t].family].status # "absent"
      BY <1>3 DEF TableInv
    <2>2. OneActivePerFamily' /\ RotatedOnce'
      BY <1>3 DEF TableInv, OneActivePerFamily, RotatedOnce
    <2>3. \A t \in Tokens : rt'[t].parent # None => rt'[rt'[t].parent].status = "revoked"
      BY <1>3 DEF TableInv, TypeOK, RefreshToken
    <2> QED
      BY <2>1, <2>2, <2>3 DEF TableInv
  <1>7. RequestInv'
    <2>1. \A g \in Handlers : pc'[g] # "idle" =>
            g # h /\ pc'[g] = pc[g] /\ stored'[g] = stored[g] /\ email'[g] = email[g]
      BY <1>4 DEF Others
    <2>2. ASSUME NEW g \in Handlers, pc'[g] = "insert" PROVE rt'[stored'[g]].status = "active"
      <3>1. stored[g] \in Locked /\ stored[g] \in Tokens /\ rt[stored[g]].status = "active"
        BY <2>1, <2>2 DEF RequestInv, Locked
      <3>2. stored[g] \notin snap[h]
        BY <3>1 DEF RevokeFamilyEnds
      <3> QED
        BY <1>3, <2>1, <2>2, <3>1, <3>2
    <2>3. \A g \in Handlers : pc'[g] \in {"rotate", "insert", "revoke", "revoking"} =>
            stored'[g] \in Tokens /\ rt'[stored'[g]].status # "absent"
      BY <1>3, <2>1 DEF RequestInv
    <2> QED
      BY <2>1, <2>2, <2>3 DEF RequestInv
  <1>8. ASSUME NEW t \in Tokens, rt'[t].status = "active", rt[t].family = f
        PROVE  f \in raced /\ f \in raced'
    <2>1. rt[t].status = "active" /\ t \notin snap[h]
      BY <1>3, <1>8
    <2>2. f \in raced
      BY <1>1, <1>2, <1>8, <2>1 DEF FamilyInv
    <2>3. ~(ActiveRows(s) \subseteq snap[h])
      BY <1>1, <1>8, <2>1 DEF ActiveRows
    <2> QED
      BY <1>2, <2>2, <2>3
  <1>9. \A g \in Tokens : g # f => (g \in raced <=> g \in raced')
    BY <1>2
  <1>10. FamilyInv'
    <2>1. \A g \in dead' : rt'[g].status # "absent"
      BY <1>1, <1>2, <1>3 DEF FamilyInv, TypeOK
    <2>2. RevokedFamilyStaysDead'
      <3> SUFFICES ASSUME NEW t \in Tokens, rt'[t].status = "active", rt'[t].family \in dead'
                   PROVE  rt'[t].family \in raced'
        BY DEF RevokedFamilyStaysDead
      <3>1. CASE rt[t].family = f
        BY <1>3, <1>8, <3>1
      <3>2. CASE rt[t].family # f
        BY <1>2, <1>3, <1>9, <3>2 DEF FamilyInv, RevokedFamilyStaysDead, TypeOK
      <3> QED
        BY <3>1, <3>2
    <2>3. ASSUME NEW g \in Handlers, pc'[g] = "revoking", NEW u \in Tokens,
                 rt'[u].status = "active", rt'[u].family = rt'[stored'[g]].family
          PROVE  u \in snap'[g] \/ rt'[u].family \in raced'
      <3>1. /\ g # h /\ pc[g] = "revoking" /\ stored'[g] = stored[g] /\ snap'[g] = snap[g]
            /\ stored[g] \in Tokens
        BY <1>4, <2>3 DEF Others, RequestInv
      <3>2. rt[u].status = "active" /\ rt[u].family = rt[stored[g]].family
        BY <1>3, <2>3, <3>1
      <3>3. CASE rt[u].family = f
        BY <1>3, <1>8, <2>3, <3>3
      <3>4. CASE rt[u].family # f
        <4>1. rt[u].family \in Tokens
          BY <3>2 DEF TableInv
        <4> QED
          BY <1>3, <1>9, <3>1, <3>2, <3>4, <4>1 DEF FamilyInv
      <3> QED
        BY <3>3, <3>4
    <2> QED
      BY <2>1, <2>2, <2>3 DEF FamilyInv
  <1>11. DenyInv'
    BY <1>2, <1>4 DEF DenyInv, Others
  <1> QED
    BY <1>5, <1>6, <1>7, <1>10, <1>11

\* The cleaner takes no row that is locked, and no link to a row that is gone remains.
LEMMA CleanInv ==
    ASSUME AInv, Clean
    PROVE  AInv'
  <1> USE DEF AInv
  <1> DEFINE gone == {t \in Tokens : Stored(t) /\ rt[t].expiresAt < now}
  <1>1. /\ gone \cap Locked = {}
        /\ rt' = [t \in Tokens |->
                   IF t \in gone
                     THEN [rt[t] EXCEPT !.status = "deleted", !.parent = None]
                     ELSE [rt[t] EXCEPT !.parent = IF @ \in gone THEN None ELSE @]]
        /\ UNCHANGED <<now, users, exp, deny, saved, pc, email, stored, snap, access, loggedOut,
                       lost, dead, raced>>
    BY DEF Clean, redis, request, ghosts
  <1>2. \A t \in Tokens : rt[t] \in RefreshToken
    BY DEF TypeOK
  <1>3. /\ rt' \in [Tokens -> RefreshToken]
        /\ \A t \in Tokens :
             /\ rt'[t].family = rt[t].family
             /\ t \in gone => /\ rt'[t].status = "deleted" /\ rt'[t].parent = None
                              /\ rt[t].status # "absent"
             /\ t \notin gone =>
                  /\ rt'[t].status = rt[t].status
                  /\ rt'[t].parent = IF rt[t].parent \in gone THEN None ELSE rt[t].parent
    <2> HIDE DEF gone
    <2>1. \A t \in gone : rt[t].status # "absent"
      BY DEF Stored, gone
    <2>2. \A t \in Tokens : rt'[t] \in RefreshToken
      BY <1>1, <1>2 DEF RefreshToken
    <2>3. rt' \in [Tokens -> RefreshToken]
      BY <1>1, <2>2
    <2>4. ASSUME NEW t \in Tokens, t \in gone
          PROVE  /\ rt'[t].family = rt[t].family /\ rt'[t].status = "deleted"
                 /\ rt'[t].parent = None
      BY <1>1, <1>2, <2>4 DEF RefreshToken
    <2>5. ASSUME NEW t \in Tokens, t \notin gone
          PROVE  /\ rt'[t].family = rt[t].family /\ rt'[t].status = rt[t].status
                 /\ rt'[t].parent = IF rt[t].parent \in gone THEN None ELSE rt[t].parent
      BY <1>1, <1>2, <2>5 DEF RefreshToken
    <2> QED
      BY <2>1, <2>3, <2>4, <2>5
  <1> HIDE DEF gone
  <1>4. TypeOK'
    BY <1>1, <1>3 DEF TypeOK
  <1>5. TableInv'
    <2>1. /\ \A t \in Tokens : rt'[t].status = "absent" => rt'[t].family = None /\ rt'[t].parent = None
          /\ \A t \in Tokens : rt'[t].status # "absent" =>
               rt'[t].family \in Tokens /\ rt'[rt'[t].family].status # "absent"
      BY <1>3 DEF TableInv
    <2>2. OneActivePerFamily' /\ RotatedOnce'
      BY <1>3 DEF TableInv, OneActivePerFamily, RotatedOnce
    <2>3. \A t \in Tokens : rt'[t].parent # None => rt'[rt'[t].parent].status = "revoked"
      BY <1>2, <1>3 DEF TableInv, RefreshToken
    <2> QED
      BY <2>1, <2>2, <2>3 DEF TableInv
  <1>6. RequestInv'
    <2>1. ASSUME NEW g \in Handlers, pc[g] = "insert" PROVE rt'[stored[g]].status = "active"
      <3>1. stored[g] \notin gone /\ stored[g] \in Tokens /\ rt[stored[g]].status = "active"
        BY <1>1, <2>1 DEF Locked, RequestInv
      <3> QED
        BY <1>3, <3>1
    <2>2. ASSUME NEW g \in Handlers, pc[g] \in {"rotate", "insert", "revoke", "revoking"}
          PROVE  stored[g] \in Tokens /\ rt'[stored[g]].status # "absent"
      BY <1>3, <2>2 DEF RequestInv
    <2> QED
      BY <1>1, <2>1, <2>2 DEF RequestInv
  <1>7. FamilyInv'
    <2>0. UNCHANGED <<pc, stored, snap, dead, raced>>
      BY <1>1
    <2>1. \A t \in Tokens : /\ rt'[t].status = "active" => rt[t].status = "active"
                            /\ rt'[t].family = rt[t].family
      BY <1>3
    <2>2. \A f \in dead : rt'[f].status # "absent"
      BY <1>3 DEF FamilyInv, TypeOK
    <2>3. RevokedFamilyStaysDead'
      BY <2>0, <2>1 DEF FamilyInv, RevokedFamilyStaysDead
    <2>4. ASSUME NEW g \in Handlers, pc'[g] = "revoking", NEW u \in Tokens,
                 rt'[u].status = "active", rt'[u].family = rt'[stored'[g]].family
          PROVE  u \in snap'[g] \/ rt'[u].family \in raced'
      <3>1. stored[g] \in Tokens /\ rt'[stored[g]].family = rt[stored[g]].family
        BY <2>0, <2>1, <2>4 DEF RequestInv
      <3> QED
        BY <2>0, <2>1, <2>4, <3>1 DEF FamilyInv
    <2> QED
      BY <2>0, <2>2, <2>3, <2>4 DEF FamilyInv
  <1>8. DenyInv'
    BY <1>1 DEF DenyInv
  <1> QED
    BY <1>4, <1>5, <1>6, <1>7, <1>8

LEMMA RedisAndClockInv ==
    ASSUME AInv, RedisSaves \/ RedisRestarts \/ Tick \/ UNCHANGED vars
    PROVE  AInv'
  <1> USE DEF AInv
  <1>1. UNCHANGED <<users, rt, exp, pc, email, stored, snap, access, loggedOut, dead, raced>>
    BY DEF RedisSaves, RedisRestarts, Tick, vars, tables, request, ghosts
  <1>2. TypeOK'
    BY <1>1, AuthAssumption DEF TypeOK, RedisSaves, RedisRestarts, Tick, vars, redis, ghosts
  <1>3. TableInv' /\ RequestInv' /\ FamilyInv'
    BY <1>1 DEF TableInv, OneActivePerFamily, RotatedOnce, RequestInv, FamilyInv,
                RevokedFamilyStaysDead
  <1>4. \A a \in loggedOut \ lost' : a \notin lost /\ (now' < exp[a] => exp[a] <= deny'[a])
    <2>1. CASE RedisRestarts
      BY <2>1 DEF RedisRestarts, DenyInv, TypeOK
    <2>2. CASE RedisSaves \/ Tick \/ UNCHANGED vars
      BY <2>2, AuthAssumption
      DEF RedisSaves, Tick, vars, redis, ghosts, DenyInv, TypeOK
    <2> QED
      BY <2>1, <2>2
  <1>5. DenyInv'
    BY <1>1, <1>4 DEF DenyInv
  <1> QED
    BY <1>2, <1>3, <1>5

LEMMA NextAInv == AInv /\ [Next]_vars => AInv'
  <1> SUFFICES ASSUME AInv, [Next]_vars PROVE AInv'
    OBVIOUS
  <1>1. ASSUME NEW h \in Handlers, Request(h) PROVE AInv'
    BY <1>1, CheckEmailExistsInv, CreateUserInv, LoginInv, RefreshAccessTokenInv,
       RotateUpdateInv, RotateCommitInv, RequireAuthInv, RevokeInv, FindForLogoutInv,
       RevokeFamilyStartsInv, RevokeFamilyEndsInv, RequestFailsInv DEF Request
  <1> QED
    BY <1>1, CleanInv, RedisAndClockInv DEF Next

\* The invariant of the whole session store.
THEOREM SessionInvariant == Spec => []AInv
  BY InitAInv, NextAInv, PTL DEF Spec

\* The session store stays well-formed for any number of users, tokens and requests.
THEOREM SessionTypes == Spec => []TypeOK
  <1>1. AInv => TypeOK
    BY DEF AInv
  <1> QED
    BY <1>1, SessionInvariant, PTL

\* Any number of concurrent refreshes leaves a family with one usable token at most.
THEOREM FamiliesLinear == Spec => []OneActivePerFamily
  <1>1. AInv => OneActivePerFamily
    BY DEF AInv, TableInv
  <1> QED
    BY <1>1, SessionInvariant, PTL

\* Any number of concurrent refreshes exchanges a token once at most.
THEOREM TokensRotatedOnce == Spec => []RotatedOnce
  <1>1. AInv => RotatedOnce
    BY DEF AInv, TableInv
  <1> QED
    BY <1>1, SessionInvariant, PTL

\* The one way for a token to survive RevokeFamily is a rotation that commits during it.
THEOREM FamiliesStayDead == Spec => []RevokedFamilyStaysDead
  <1>1. AInv => RevokedFamilyStaysDead
    BY DEF AInv, FamilyInv
  <1> QED
    BY <1>1, SessionInvariant, PTL

\* A logged-out access token is denied as long as it would be valid, for any lifetimes.
THEOREM LogoutsDenied == Spec => []LoggedOutDenied
  <1>1. AInv => LoggedOutDenied
    BY AuthAssumption
    DEF AInv, DenyInv, LoggedOutDenied, TypeOK, ParseAccessToken, IsRevoked
  <1> QED
    BY <1>1, SessionInvariant, PTL
--------------------------------------------------------------------------------
(* The session store implements SessionChain. *)

LEMMA TipIs ==
    ASSUME NEW f
    PROVE  /\ \A t : t \in Tip(f) <=> t \in Tokens /\ rt[t].status = "active" /\ rt[t].family = f
           /\ \A t : t \in Tip(f)' <=>
                 t \in Tokens /\ rt'[t].status = "active" /\ rt'[t].family = f
  BY DEF Tip

\* A family has one usable token at most, so losing one is the end of the chain.
LEMMA RowsLost ==
    ASSUME AInv,
           \A t \in Tokens : /\ rt'[t].family = rt[t].family
                             /\ rt'[t].status = "absent" <=> rt[t].status = "absent"
                             /\ rt'[t].status = "active" => rt[t].status = "active"
    PROVE  Chain!End
  <1> DEFINE tip == [f \in Tokens |-> Tip(f)]
             F == {f \in Tokens : Tip(f)' = {}}
  <1>1. ASSUME NEW f \in Tokens, Tip(f)' # {} PROVE Tip(f)' = Tip(f)
    <2>1. PICK t \in Tokens : t \in Tip(f)' /\ t \in Tip(f)
      BY <1>1, TipIs
    <2>2. Tip(f) = {t}
      BY <2>1, TipIs DEF AInv, TableInv, OneActivePerFamily
    <2>3. Tip(f)' \subseteq Tip(f)
      BY TipIs
    <2> QED
      BY <2>1, <2>2, <2>3
  <1>2. tip' = [f \in Tokens |-> IF f \in F THEN {} ELSE tip[f]]
    BY <1>1
  <1>3. {t \in Tokens : rt'[t].status # "absent"} = {t \in Tokens : rt[t].status # "absent"}
    OBVIOUS
  <1>4. F \in SUBSET Tokens
    OBVIOUS
  <1> HIDE DEF F
  <1> QED
    BY <1>2, <1>3, <1>4 DEF Chain!End

LEMMA FamilyStarts ==
    ASSUME AInv, NEW t \in Tokens, Fresh(t), rt' = [rt EXCEPT ![t] = NewFamily(t)]
    PROVE  Chain!Start(t)
  <1>1. /\ rt'[t].status = "active" /\ rt'[t].family = t /\ rt[t].status = "absent"
        /\ \A u \in Tokens \ {t} : rt'[u] = rt[u]
    BY DEF AInv, TypeOK, NewFamily, Fresh
  <1>2. \A u \in Tokens : rt[u].family # t
    BY <1>1, AuthAssumption DEF AInv, TableInv
  <1>3. Tip(t)' = {t}
    BY <1>1, <1>2, TipIs
  <1>4. ASSUME NEW f \in Tokens \ {t} PROVE Tip(f)' = Tip(f)
    <2>1. \A u \in Tokens : u \in Tip(f)' <=> u \in Tip(f)
      BY <1>1, <1>4, TipIs
    <2> QED
      BY <2>1 DEF Tip
  <1>5. {u \in Tokens : rt'[u].status # "absent"}
           = {u \in Tokens : rt[u].status # "absent"} \cup {t}
    BY <1>1
  <1> QED
    BY <1>1, <1>3, <1>4, <1>5 DEF Chain!Start

\* The row that the transaction has locked is the tip of its family.
LEMMA RotateCommitRotates ==
    ASSUME AInv, NEW h \in Handlers, RotateCommit(h)
    PROVE  \E f, t \in Tokens : Chain!Rotate(f, t)
  <1> USE DEF AInv
  <1>1. PICK old \in Tokens :
          old = stored[h] /\ rt[old].status = "active" /\ rt[old].family \in Tokens
    BY DEF RotateCommit, RequestInv, TableInv
  <1>2. PICK t \in Tokens :
          /\ Fresh(t)
          /\ rt' = [rt EXCEPT ![old].status = "revoked",
                              ![t] = [status |-> "active", family |-> rt[old].family,
                                      parent |-> old, expiresAt |-> now + RefreshTTL]]
    BY <1>1 DEF RotateCommit
  <1>f. PICK f \in Tokens : f = rt[old].family
    BY <1>1
  <1>3. /\ t # old /\ rt[t].status = "absent"
        /\ rt'[t].status = "active" /\ rt'[t].family = f
        /\ rt'[old].status = "revoked" /\ rt'[old].family = f
        /\ \A u \in Tokens \ {old, t} : rt'[u] = rt[u]
    BY <1>1, <1>2, <1>f DEF TypeOK, RefreshToken, Fresh
  <1>4. Tip(f) = {old}
    BY <1>1, <1>f, TipIs DEF TableInv, OneActivePerFamily
  <1>5. Tip(f)' = {t}
    BY <1>1, <1>f, <1>3, TipIs DEF TableInv, OneActivePerFamily
  <1>6. ASSUME NEW g \in Tokens \ {f} PROVE Tip(g)' = Tip(g)
    <2>1. \A u \in Tokens : u \in Tip(g)' <=> u \in Tip(g)
      BY <1>1, <1>f, <1>3, <1>6, TipIs
    <2> QED
      BY <2>1 DEF Tip
  <1>7. {u \in Tokens : rt'[u].status # "absent"}
           = {u \in Tokens : rt[u].status # "absent"} \cup {t}
    BY <1>1, <1>3
  <1>8. Chain!Rotate(f, t)
    BY <1>3, <1>4, <1>5, <1>6, <1>7 DEF Chain!Rotate
  <1> QED
    BY <1>8

LEMMA RevokeFamilyEndsChain ==
    ASSUME AInv, NEW h \in Handlers, RevokeFamilyEnds(h)
    PROVE  Chain!End
  <1>1. \A t \in Tokens : rt'[t] = IF t \in snap[h] /\ rt[t].status = "active"
                                     THEN [rt[t] EXCEPT !.status = "revoked"] ELSE rt[t]
    BY DEF RevokeFamilyEnds
  <1>2. \A t \in Tokens : rt[t] \in RefreshToken
    BY DEF AInv, TypeOK
  <1> QED
    BY <1>1, <1>2, RowsLost DEF RefreshToken

LEMMA CleanEndsChains == ASSUME AInv, Clean PROVE Chain!End
  <1> DEFINE gone == {t \in Tokens : Stored(t) /\ rt[t].expiresAt < now}
  <1>1. \A t \in Tokens :
          rt'[t] = IF t \in gone
                     THEN [rt[t] EXCEPT !.status = "deleted", !.parent = None]
                     ELSE [rt[t] EXCEPT !.parent = IF @ \in gone THEN None ELSE @]
    BY DEF Clean
  <1>2. \A t \in Tokens : rt[t] \in RefreshToken
    BY DEF AInv, TypeOK
  <1>3. \A t \in gone : rt[t].status # "absent"
    BY DEF Stored
  <1> HIDE DEF gone
  <1> QED
    BY <1>1, <1>2, <1>3, RowsLost DEF RefreshToken

LEMMA NextChain == AInv /\ [Next]_vars => [Chain!Next]_(Chain!vars)
  <1> SUFFICES ASSUME AInv, [Next]_vars PROVE [Chain!Next]_(Chain!vars)
    OBVIOUS
  <1>1. CASE rt' = rt
    BY <1>1 DEF Chain!vars, Tip
  <1>2. ASSUME NEW h \in Handlers, CreateUserWithRefreshToken(h) \/ LoginUserService(h)
        PROVE  rt' = rt \/ \E t \in Tokens : Fresh(t) /\ rt' = [rt EXCEPT ![t] = NewFamily(t)]
    BY <1>2 DEF CreateUserWithRefreshToken, LoginUserService, tables
  <1>3. \/ rt' = rt
        \/ Clean
        \/ \E h \in Handlers : \/ CreateUserWithRefreshToken(h) \/ LoginUserService(h)
                               \/ RotateCommit(h) \/ RevokeFamilyEnds(h)
    BY DEF Next, Request, CheckEmailExists, RefreshAccessToken, RotateUpdate, RequireAuth,
           Revoke, FindForLogout, RevokeFamilyStarts, RequestFails, RedisSaves,
           RedisRestarts, Tick, tables, vars
  <1> QED
    BY <1>1, <1>2, <1>3, FamilyStarts, RotateCommitRotates, RevokeFamilyEndsChain,
       CleanEndsChains DEF Chain!Next

\* The session store implements SessionChain: no interleaving of refreshes, logouts,
\* replays and the cleaner gives a family two usable tokens, exchanges one twice, or
\* brings a session back that has no usable token left.
THEOREM SessionsImplementChain == Spec => ImplementsChain
  <1>1. Init => Chain!Init
    BY DEF Init, AbsentToken, Chain!Init, Tip
  <1>2. AInv /\ [Next]_vars => [Chain!Next]_(Chain!vars)
    BY NextChain
  <1> QED
    BY <1>1, <1>2, SessionInvariant, PTL DEF Spec, ImplementsChain, Chain!Spec
================================================================================
