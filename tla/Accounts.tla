------------------------------ MODULE Accounts ------------------------------
(***************************************************************************)
(* Users, their roles and the credentials a request is authenticated by:   *)
(* JWTs of local accounts, with refresh and revocation, SSO sessions and   *)
(* API tokens.                                                             *)
(*                                                                         *)
(* A request is a process: the credential is checked and the user read in  *)
(* one step, and the handler goes on with that copy of the user, one       *)
(* database statement to a step.  Time is in seconds, the granularity of   *)
(* a JWT's iat and of tokens_revoked_at.                                   *)
(***************************************************************************)
EXTENDS Integers, FiniteSets

CONSTANTS Admins, Editors,  \* the local accounts at first, by role
          Newcomers,        \* accounts that are not there yet
          Slots,            \* requests under way at once
          Ops,              \* the requests that are made
          Bodies,           \* what an update of a user sets
          AccessTTL, RefreshTTL,
          MaxRequests,      \* bound: requests ever made
          MaxTime           \* bound: the clock

Users == Admins \cup Editors \cup Newcomers

ASSUME AccountsAssumption ==
    /\ Admins # {}   \* EnsureAdminUser
    /\ Admins \cap Editors = {} /\ (Admins \cup Editors) \cap Newcomers = {}
    /\ IsFiniteSet(Users)
    /\ AccessTTL \in Nat \ {0} /\ RefreshTTL \in Nat \ {0}
    /\ MaxRequests \in Nat /\ MaxTime \in Nat \ {0}
    /\ Bodies \subseteq {"admin", "editor", "viewer", "pending", "deactivate", "activate"}

VARIABLES
    user,       \* users: role, active, auth_type, tokens_revoked_at (0 for NULL)
    tokens,     \* the JWTs in existence
    sessions,   \* users with a live SSO session (oidc_sessions)
    apiTokens,  \* api_tokens: the active rows
    clock,
    made,       \* requests made so far
    req,        \* each request under way
    crossed     \* history: an admin was removed on a reading another removal
                \* had made stale

accountVars == <<user, tokens, sessions, apiTokens, clock, made, crossed>>

Roles == {"admin", "editor", "viewer", "pending"}
Scopes == {"read", "write"}

\* ended and raced are history: the token descends from a sign-in that a
\* revocation has ended; the refresh that minted it was under way then.
TokenType == [kind : {"access", "refresh"}, user : Users, iat : 1 .. MaxTime,
              ended : BOOLEAN, raced : BOOLEAN]
UserType == [role : Roles \cup {"none"}, active : BOOLEAN, auth : {"local", "sso"},
             revoked : 0 .. MaxTime]

Idle == [pc |-> "idle"]
Busy(s) == req[s].pc # "idle"

\* Every request carries the copy of its user that authentication made.
AccountRequest(r) ==
    \/ r = Idle
    \/ /\ r.pc \in {"mint", "revoke", "load", "count", "write", "create", "delete",
                    "newToken", "dropToken"}
       /\ r.who \in Users /\ r.role \in Roles

AccountsTypeOK ==
    /\ user \in [Users -> UserType]
    /\ tokens \subseteq TokenType
    /\ sessions \subseteq Users
    /\ apiTokens \subseteq [user : Users, scope : Scopes]
    /\ clock \in 1 .. MaxTime /\ made \in 0 .. MaxRequests
    /\ crossed \in BOOLEAN

Row(role) == [role |-> role, active |-> TRUE, auth |-> "local", revoked |-> 0]

AccountsInit ==
    /\ user = [u \in Users |-> Row(IF u \in Admins THEN "admin"
                                   ELSE IF u \in Editors THEN "editor" ELSE "none")]
    /\ tokens = [kind : {"access", "refresh"}, user : Admins \cup Editors, iat : {1},
                 ended : {FALSE}, raced : {FALSE}]
    /\ sessions = {} /\ apiTokens = {}
    /\ clock = 1 /\ made = 0 /\ crossed = FALSE
    /\ req = [s \in Slots |-> Idle]

-----------------------------------------------------------------------------
(* Credentials.                                                              *)

\* ValidateToken
Unexpired(t) == clock < t.iat + (IF t.kind = "access" THEN AccessTTL ELSE RefreshTTL)

\* Issued after the second of the revocation, if there was one.
IssuedAfter(t) == user[t.user].revoked = 0 \/ t.iat > user[t.user].revoked

\* validateLatticeToken
ValidAccess(t) ==
    /\ t.kind = "access" /\ Unexpired(t) /\ user[t.user].active
    /\ IssuedAfter(t) /\ user[t.user].auth = "local"

\* Mutant: a token of the very second of the revocation passes.
ValidRefreshSameSecond(t) ==
    /\ t.kind = "refresh" /\ Unexpired(t) /\ user[t.user].active
    /\ (user[t.user].revoked = 0 \/ t.iat >= user[t.user].revoked)
    /\ user[t.user].auth = "local"

\* The checks of HandleAuthRefresh.
ValidRefresh(t) ==
    /\ t.kind = "refresh" /\ Unexpired(t) /\ user[t.user].active
    /\ IssuedAfter(t) /\ user[t.user].auth = "local"

\* apiTokenScopeAllows, for a request that is not safe; a token without scopes
\* is as good as "write".
ScopeAllows(t) == t.scope = "write"

\* DualAuthMiddleware, for requests that change something.
Authenticates(u) ==
    /\ user[u].role # "none" /\ user[u].active
    /\ \/ \E t \in tokens : t.user = u /\ ValidAccess(t)
       \/ u \in sessions
       \/ \E t \in apiTokens : t.user = u /\ ScopeAllows(t)

\* RejectPending, RequireAdmin and RequireEditor.
NotPending == Roles \ {"pending"}
RequireAdmin == {"admin"}
RequireEditor == {"admin", "editor"}

\* Who can make a request that is authenticated.
Callers(s) ==
    {u \in Users : req[s] = Idle /\ made < MaxRequests /\ Authenticates(u)}

\* Such a request arrives, r is what its handler has.
Arrive(s, op, u, allowed, r) ==
    /\ op \in Ops /\ u \in Callers(s) /\ user[u].role \in allowed
    /\ made' = made + 1
    /\ req' = [req EXCEPT ![s] = r]

Return(s) == req' = [req EXCEPT ![s] = Idle]
Goto(s, pc) == req' = [req EXCEPT ![s].pc = pc]

Tick ==
    /\ clock < MaxTime /\ clock' = clock + 1
    /\ UNCHANGED <<user, tokens, sessions, apiTokens, made, crossed, req>>

-----------------------------------------------------------------------------
(* Signing in and out.                                                       *)

\* HandleLocalLogin up to the tokens, with the right password.
LocalLogin(s, u) ==
    /\ "login" \in Ops /\ req[s] = Idle /\ made < MaxRequests /\ made' = made + 1
    /\ user[u].role # "none" /\ user[u].auth = "local" /\ user[u].active
    /\ req' = [req EXCEPT ![s] = [pc |-> "mint", who |-> u, role |-> user[u].role,
                                  ended |-> FALSE, raced |-> FALSE]]
    /\ UNCHANGED <<user, tokens, sessions, apiTokens, clock, crossed>>

\* HandleAuthRefresh up to the tokens.
AuthRefresh(s, t) ==
    /\ "refresh" \in Ops /\ req[s] = Idle /\ made < MaxRequests /\ made' = made + 1
    /\ ValidRefresh(t)
    /\ req' = [req EXCEPT ![s] = [pc |-> "mint", who |-> t.user, role |-> user[t.user].role,
                                  ended |-> t.ended, raced |-> t.raced]]
    /\ UNCHANGED <<user, tokens, sessions, apiTokens, clock, crossed>>

\* NewAccessToken and NewRefreshToken.
Mint(s) ==
    /\ req[s].pc = "mint"
    /\ tokens' = tokens \cup [kind : {"access", "refresh"}, user : {req[s].who}, iat : {clock},
                              ended : {req[s].ended}, raced : {req[s].raced}]
    /\ Return(s)
    /\ UNCHANGED <<user, sessions, apiTokens, clock, made, crossed>>

\* HandleLogout ends the SSO session and goes on to RevokeUserTokens.
Logout(s, u) ==
    /\ Arrive(s, "logout", u, Roles, [pc |-> "revoke", who |-> u, role |-> user[u].role])
    /\ sessions' = sessions \ {u}
    /\ UNCHANGED <<user, tokens, apiTokens, clock, crossed>>

\* RevokeUserTokens.
Revoke(s) ==
    LET u == req[s].who IN
    /\ req[s].pc = "revoke"
    /\ user' = [user EXCEPT ![u].revoked = clock]
    /\ tokens' = {IF t.user = u THEN [t EXCEPT !.ended = TRUE] ELSE t : t \in tokens}
    /\ req' = [q \in Slots |->
                 IF q = s THEN Idle
                 ELSE IF req[q].pc = "mint" /\ req[q].who = u
                      THEN [req[q] EXCEPT !.ended = TRUE, !.raced = TRUE]
                      ELSE req[q]]
    /\ UNCHANGED <<sessions, apiTokens, clock, made, crossed>>

\* The callback of the provider, by ResolveUser: a user that is not known is
\* provisioned as pending, one that is deactivated is refused.
SSOLogin(u) ==
    /\ "sso" \in Ops /\ made < MaxRequests /\ made' = made + 1
    /\ \/ /\ user[u].role = "none" /\ sessions' = sessions \cup {u}
          /\ user' = [user EXCEPT ![u] = [Row("pending") EXCEPT !.auth = "sso"]]
       \/ /\ user[u].role # "none" /\ user[u].auth = "sso" /\ user[u].active
          /\ sessions' = sessions \cup {u} /\ UNCHANGED user
    /\ UNCHANGED <<tokens, apiTokens, clock, crossed, req>>

\* The provider ends a session, or its back-channel logout does.
SessionEnds(u) ==
    /\ u \in sessions /\ sessions' = sessions \ {u}
    /\ UNCHANGED <<user, tokens, apiTokens, clock, made, crossed, req>>

-----------------------------------------------------------------------------
(* Users.                                                                    *)

ActiveAdmins == {u \in Users : user[u].role = "admin" /\ user[u].active}

NewRole(body, row) == IF body \in Roles THEN body ELSE row.role
NewActive(body, row) ==
    CASE body = "activate" -> TRUE [] body = "deactivate" -> FALSE [] OTHER -> row.active

LosingAdmin(body, row) ==
    row.role = "admin" /\ (NewRole(body, row) # "admin" \/ ~NewActive(body, row))

UpdateUser(s, u, target, body) ==
    /\ Arrive(s, "updateUser", u, RequireAdmin,
              [pc |-> "load", who |-> u, role |-> user[u].role, target |-> target, body |-> body,
               overtaken |-> FALSE])
    /\ UNCHANGED <<user, tokens, sessions, apiTokens, clock, crossed>>

\* The target is read and the guard on oneself tested.
LoadTarget(s) ==
    LET row == user[req[s].target]
        losing == LosingAdmin(req[s].body, row)
    IN
    /\ req[s].pc = "load"
    /\ \/ row.role = "none" /\ Return(s)
       \/ losing /\ req[s].target = req[s].who /\ Return(s)
       \/ losing /\ req[s].target # req[s].who /\ Goto(s, "count")
       \/ row.role # "none" /\ ~losing /\ Goto(s, "write")
    /\ UNCHANGED accountVars

\* Mutant: the guard on the last admin is not tested.
CountAdminsUntested(s) ==
    /\ req[s].pc = "count" /\ Goto(s, "write") /\ UNCHANGED accountVars

\* CountActiveAdmins and the guard on the last admin.
CountAdmins(s) ==
    /\ req[s].pc = "count"
    /\ IF Cardinality(ActiveAdmins) <= 1 THEN Return(s) ELSE Goto(s, "write")
    /\ UNCHANGED accountVars

\* Another admin is gone: removals past their guards have been overtaken.
Overtake(s) ==
    req' = [q \in Slots |->
              IF q = s THEN Idle
              ELSE IF req[q].pc = "write" THEN [req[q] EXCEPT !.overtaken = TRUE] ELSE req[q]]

\* UpdateUser of package query.
WriteUser(s) ==
    LET target == req[s].target
        row == user[target]
        losing == row.active /\ LosingAdmin(req[s].body, row)
    IN
    /\ req[s].pc = "write"
    /\ user' = [user EXCEPT ![target].role = NewRole(req[s].body, row),
                            ![target].active = NewActive(req[s].body, row)]
    /\ IF losing THEN Overtake(s) ELSE Return(s)
    /\ crossed' = (crossed \/ (losing /\ req[s].overtaken))
    /\ UNCHANGED <<tokens, sessions, apiTokens, clock, made>>

\* HandleDeleteUser up to its statement: its one guard is on oneself.
DeleteUser(s, u, target) ==
    /\ target # u
    /\ Arrive(s, "deleteUser", u, RequireAdmin,
              [pc |-> "delete", who |-> u, role |-> user[u].role, target |-> target])
    /\ UNCHANGED <<user, tokens, sessions, apiTokens, clock, crossed>>

DeleteWrite(s) ==
    LET target == req[s].target IN
    /\ req[s].pc = "delete"
    /\ user' = [user EXCEPT ![target].active = FALSE]
    /\ IF target \in ActiveAdmins THEN Overtake(s) ELSE Return(s)
    /\ crossed' = (crossed \/ (target \in ActiveAdmins /\ req[s].who \notin ActiveAdmins))
    /\ UNCHANGED <<tokens, sessions, apiTokens, clock, made>>

CreateUser(s, u, role) ==
    /\ Arrive(s, "createUser", u, RequireAdmin,
              [pc |-> "create", who |-> u, role |-> user[u].role, newRole |-> role])
    /\ UNCHANGED <<user, tokens, sessions, apiTokens, clock, crossed>>

\* The insert; an address that is taken is refused by the table.
CreateWrite(s, target) ==
    /\ req[s].pc = "create" /\ user[target].role = "none"
    /\ user' = [user EXCEPT ![target] = Row(req[s].newRole)] /\ Return(s)
    /\ UNCHANGED <<tokens, sessions, apiTokens, clock, made, crossed>>

-----------------------------------------------------------------------------
(* API tokens.                                                               *)

CreateApiToken(s, u, scope) ==
    /\ Arrive(s, "apiToken", u, RequireEditor,
              [pc |-> "newToken", who |-> u, role |-> user[u].role, scope |-> scope])
    /\ UNCHANGED <<user, tokens, sessions, apiTokens, clock, crossed>>

\* HandleDeleteApiToken: one's own, or as an admin.
DeleteApiToken(s, u, t) ==
    /\ t.user = u \/ user[u].role = "admin"
    /\ Arrive(s, "apiToken", u, RequireEditor,
              [pc |-> "dropToken", who |-> u, role |-> user[u].role, token |-> t])
    /\ UNCHANGED <<user, tokens, sessions, apiTokens, clock, crossed>>

WriteApiToken(s) ==
    /\ \/ /\ req[s].pc = "newToken"
          /\ apiTokens' = apiTokens \cup {[user |-> req[s].who, scope |-> req[s].scope]}
       \/ req[s].pc = "dropToken" /\ apiTokens' = apiTokens \ {req[s].token}
    /\ Return(s)
    /\ UNCHANGED <<user, tokens, sessions, clock, made, crossed>>

AccountsNext ==
    \/ Tick
    \/ \E u \in Users : SSOLogin(u) \/ SessionEnds(u)
    \/ \E s \in Slots :
          \/ Mint(s) \/ Revoke(s) \/ LoadTarget(s) \/ CountAdmins(s) \/ WriteUser(s)
          \/ DeleteWrite(s) \/ WriteApiToken(s)
          \/ \E t \in tokens : AuthRefresh(s, t)
          \/ \E u \in Users : LocalLogin(s, u) \/ CreateWrite(s, u)
          \/ \E u \in Callers(s) :
                \/ Logout(s, u) \/ \E t \in apiTokens : DeleteApiToken(s, u, t)
                \/ \E v \in Users : \/ DeleteUser(s, u, v)
                                    \/ \E b \in Bodies : UpdateUser(s, u, v, b)
                \/ \E r \in Roles : CreateUser(s, u, r)
                \/ \E c \in Scopes : CreateApiToken(s, u, c)

-----------------------------------------------------------------------------
(* Properties                                                                *)

(***************************************************************************)
(* A session that was ended stays ended: no access token that descends     *)
(* from it is accepted, whatever was refreshed meanwhile ("undoing the     *)
(* revocation entirely", HandleAuthRefresh), unless the refresh had passed *)
(* its check when the revocation was written.                              *)
(***************************************************************************)
LogoutHolds == \A t \in tokens : t.ended /\ ValidAccess(t) => t.raced

(***************************************************************************)
(* "never demote/deactivate the final active admin" (HandleUpdateUser): an *)
(* active admin is left unless a removal was written on a count, or by an  *)
(* admin, that another removal had overtaken.                              *)
(***************************************************************************)
AdminRemains == ActiveAdmins # {} \/ crossed
=============================================================================
