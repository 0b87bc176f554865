------------------------ MODULE AutomationEditsProofs ------------------------
(***************************************************************************)
(* Proofs for Accounts and AutomationEdits, for any number of users, of    *)
(* requests under way and of requests made: a session that was ended stays *)
(* ended (LogoutHolds), an admin is left (AdminRemains), and an automation *)
(* neither runs with more rights than it was decided with (NoEscalation),  *)
(* nor outlives its deletion (DeletedIsDead), nor loses or keeps a token   *)
(* against its trigger (TokenFitsTrigger).                                 *)
(***************************************************************************)
EXTENDS AutomationEdits, FiniteSetTheorems, TLAPS

-----------------------------------------------------------------------------
(* The requests under way, by what their handlers have.                      *)

MintRequests == [pc : {"mint"}, who : Users, role : Roles \cup {"none"},
                 ended : BOOLEAN, raced : BOOLEAN]
UpdateRequests == [pc : {"load", "count", "write"}, who : Users, role : Roles,
                   target : Users, body : Bodies, overtaken : BOOLEAN]
DeleteRequests == [pc : {"delete"}, who : Users, role : Roles, target : Users]
CreateRequests == [pc : {"create"}, who : Users, role : Roles, newRole : Roles]
OtherRequests == [pc : {"revoke"}, who : Users, role : Roles]
            \cup [pc : {"newToken"}, who : Users, role : Roles, scope : Scopes]
            \cup [pc : {"dropToken"}, who : Users, role : Roles,
                  token : [user : Users, scope : Scopes]]

\* A row, whatever number its webhook's token has.
Definitions == [active : BOOLEAN, enabled : BOOLEAN, trigger : Triggers, level : Levels,
                runAs : Users, token : Nat, by : Levels, mixed : BOOLEAN]

EditRequests == {r \in [pc : {"edit"}, who : Users, role : RequireEditor,
                        op : {"create", "update", "enable", "disable", "rotate", "deleteAuto", "run"},
                        trigger : Triggers \cup {""}, level : Levels \cup {""},
                        enabled : {"", "enable", "disable"}] :
                    /\ r.op = "create" => r.trigger # "" /\ r.level # ""
                    /\ r.op \notin {"create", "update"} => r.trigger = "" /\ r.level = ""
                    /\ r.op \in {"disable", "deleteAuto"} => r.enabled # "enable"}

Pairs == {<< >>} \cup (Triggers \X Levels)

Updates == [read : Definitions, pair : Pairs, binds : BOOLEAN,
            enabled : {"", "enable", "disable"}, token : {"keep", "clear", "new"}]

WriteRequests == [pc : {"writeAuto"}, who : Users, role : RequireEditor,
                  op : {"update", "enable", "disable", "rotate", "deleteAuto"},
                  update : Updates]

RequestStates == {Idle} \cup MintRequests \cup UpdateRequests \cup DeleteRequests
            \cup CreateRequests \cup OtherRequests \cup EditRequests \cup WriteRequests

FiringTypes == {NoFiring} \cup [pc : {"fire"}, copy : Definitions]
               \cup [pc : {"acting"}, copy : Definitions, role : Roles \cup {"none"}]

Types ==
    /\ AccountsTypeOK /\ req \in [Slots -> RequestStates]
    /\ auto \in Definitions \cup {None} /\ minted \in Nat /\ firing \in FiringTypes

-----------------------------------------------------------------------------
(* What is inductive about sessions, about admins ...                        *)

\* A token is of a user there is, and dead if its sign-in was ended before it
\* was minted; a token about to be minted is of a sign-in that was not ended
\* when it was checked.
SessionInv ==
    /\ \A t \in tokens :
          /\ user[t.user].role # "none" /\ t.iat <= clock
          /\ t.ended /\ ~t.raced => user[t.user].revoked # 0 /\ t.iat <= user[t.user].revoked
    /\ \A s \in Slots : req[s].pc = "mint" =>
          user[req[s].who].role # "none" /\ (req[s].ended => req[s].raced)

\* A removal that is about to be written leaves another admin, unless a later
\* one has overtaken it; nobody deletes himself.
LeavesAdmin(r) ==
    r.pc = "write" /\ ~r.overtaken =>
        r.body \in {"admin", "activate"} \/ \E a \in ActiveAdmins : a # r.target

AdminInv ==
    /\ AdminRemains
    /\ crossed \/ \A s \in Slots : LeavesAdmin(req[s])
    /\ \A s \in Slots : req[s].pc = "delete" => req[s].target # req[s].who

(* ... and about the automation.                                             *)

Allows(role, trigger, level) ==
    roleAllows(role, triggerRole(trigger)) /\ roleAllows(role, level)

\* Whoever decided the definition d was allowed all of it.
Decided(d) == Allows(d.by, d.trigger, d.level)

\* An update that is about to be written sets what its user was allowed, and
\* with a trigger the token that goes with it.
UpdateFits(r) ==
    LET u == r.update IN
    /\ u.pair # << >> => Allows(r.role, u.pair[1], u.pair[2])
    /\ u.binds /\ u.pair = << >> => Allows(r.role, u.read.trigger, u.read.level)
    /\ u.token = "keep" => u.pair = << >> \/ u.pair[1] = u.read.trigger
    /\ u.token = "clear" => u.pair # << >> /\ u.pair[1] # "webhook"
    /\ u.token = "new" => \/ u.pair = << >> /\ u.read.trigger = "webhook"
                          \/ u.pair # << >> /\ u.pair[1] = "webhook"

EditInv ==
    /\ auto # None => Decided(auto)
    /\ firing.pc # "idle" => Decided(firing.copy)
    /\ \A s \in Slots : req[s].pc = "writeAuto" => auto # None /\ UpdateFits(req[s])
    /\ NoEscalation /\ DeletedIsDead /\ TokenFitsTrigger

-----------------------------------------------------------------------------
(* Requests, updates and types.                                              *)

\* A request's step tells what its handler has.
LEMMA RequestByStep ==
    ASSUME NEW r \in RequestStates
    PROVE /\ r.pc = "mint" => r \in MintRequests
          /\ r.pc \in {"load", "count", "write"} => r \in UpdateRequests
          /\ r.pc = "delete" => r \in DeleteRequests
          /\ r.pc = "create" => r \in CreateRequests
          /\ r.pc \in {"revoke", "newToken", "dropToken"} => r \in OtherRequests
          /\ r.pc = "edit" => r \in EditRequests
          /\ r.pc = "writeAuto" => r \in WriteRequests
          /\ r.pc = "idle" => r = Idle
  <1>1. Idle.pc = "idle"
    BY DEF Idle
  <1>2. /\ r \in MintRequests => r.pc = "mint"
        /\ r \in UpdateRequests => r.pc \in {"load", "count", "write"}
    BY DEF MintRequests, UpdateRequests
  <1>3. /\ r \in DeleteRequests => r.pc = "delete"
        /\ r \in CreateRequests => r.pc = "create"
    BY DEF DeleteRequests, CreateRequests
  <1>4. r \in OtherRequests => r.pc \in {"revoke", "newToken", "dropToken"}
    BY DEF OtherRequests
  <1>5. /\ r \in EditRequests => r.pc = "edit"
        /\ r \in WriteRequests => r.pc = "writeAuto"
    BY DEF EditRequests, WriteRequests
  <1> QED BY <1>1, <1>2, <1>3, <1>4, <1>5 DEF RequestStates

\* One of the requests becomes r.
LEMMA PutRequest ==
    ASSUME req \in [Slots -> RequestStates], NEW s \in Slots, NEW r \in RequestStates,
           req' = [req EXCEPT ![s] = r]
    PROVE /\ req' \in [Slots -> RequestStates] /\ req'[s] = r
          /\ \A q \in Slots \ {s} : req'[q] = req[q]
  OBVIOUS

\* A handler returns.
LEMMA ReturnTypes ==
    ASSUME req \in [Slots -> RequestStates], NEW s \in Slots, Return(s)
    PROVE /\ req' \in [Slots -> RequestStates] /\ req'[s] = Idle
          /\ \A q \in Slots \ {s} : req'[q] = req[q]
  BY PutRequest DEF Return, RequestStates

\* An update of a user goes on to its next step.
LEMMA GotoTypes ==
    ASSUME req \in [Slots -> RequestStates], NEW s \in Slots, req[s] \in UpdateRequests,
           NEW pc \in {"count", "write"}, Goto(s, pc)
    PROVE /\ req' \in [Slots -> RequestStates] /\ req'[s] \in UpdateRequests
          /\ req'[s].pc = pc /\ req'[s].target = req[s].target /\ req'[s].who = req[s].who
          /\ req'[s].body = req[s].body /\ req'[s].overtaken = req[s].overtaken
          /\ \A q \in Slots \ {s} : req'[q] = req[q]
  <1> DEFINE r == [req[s] EXCEPT !.pc = pc]
  <1>1. /\ r \in UpdateRequests /\ r.pc = pc /\ r.target = req[s].target /\ r.who = req[s].who
        /\ r.body = req[s].body /\ r.overtaken = req[s].overtaken
    BY DEF UpdateRequests
  <1>2. req' = [req EXCEPT ![s] = r]
    BY DEF Goto
  <1>3. r \in RequestStates
    BY <1>1 DEF RequestStates
  <1> HIDE DEF r
  <1> QED BY <1>1, <1>2, <1>3, PutRequest

\* Every removal past its guards is marked as overtaken, the rest is as before.
LEMMA OvertakeTypes ==
    ASSUME req \in [Slots -> RequestStates], NEW s \in Slots, Overtake(s)
    PROVE /\ req' \in [Slots -> RequestStates] /\ req'[s] = Idle
          /\ \A q \in Slots \ {s} :
                \/ req[q].pc # "write" /\ req'[q] = req[q]
                \/ /\ req[q].pc = "write" /\ req'[q].pc = "write" /\ req'[q].overtaken
                   /\ req'[q] \in UpdateRequests
  <1>1. ASSUME NEW q \in Slots, req[q].pc = "write"
        PROVE LET r == [req[q] EXCEPT !.overtaken = TRUE] IN
              r \in UpdateRequests /\ r.pc = "write" /\ r.overtaken
    <2>1. req[q] \in UpdateRequests
      BY <1>1, RequestByStep
    <2> QED BY <1>1, <2>1 DEF UpdateRequests
  <1>2. UpdateRequests \subseteq RequestStates /\ Idle \in RequestStates
    BY DEF RequestStates
  <1>3. /\ req' = [q \in Slots |-> req'[q]] /\ req'[s] = Idle
        /\ \A q \in Slots \ {s} : req'[q] = IF req[q].pc = "write"
                                            THEN [req[q] EXCEPT !.overtaken = TRUE] ELSE req[q]
    BY DEF Overtake
  <1>4. \A q \in Slots : req'[q] \in RequestStates
    BY <1>1, <1>2, <1>3
  <1>5. req' \in [Slots -> RequestStates]
    BY <1>3, <1>4
  <1> QED BY <1>1, <1>3, <1>5

\* A revocation marks the tokens that are about to be minted.
LEMMA RevokeTypes ==
    ASSUME req \in [Slots -> RequestStates], NEW s \in Slots, Revoke(s)
    PROVE /\ req' \in [Slots -> RequestStates] /\ req'[s] = Idle
          /\ \A q \in Slots \ {s} :
                \/ req'[q] = req[q]
                \/ /\ req[q].pc = "mint" /\ req'[q] \in MintRequests
                   /\ req'[q].who = req[q].who /\ req'[q].raced
  <1> DEFINE R(q) == [req[q] EXCEPT !.ended = TRUE, !.raced = TRUE]
  <1>1. ASSUME NEW q \in Slots, req[q].pc = "mint"
        PROVE R(q) \in MintRequests /\ R(q).who = req[q].who /\ R(q).raced
    <2>1. req[q] \in MintRequests
      BY <1>1, RequestByStep
    <2> QED BY <1>1, <2>1 DEF MintRequests
  <1>2. MintRequests \subseteq RequestStates /\ Idle \in RequestStates
    BY DEF RequestStates
  <1>3. /\ req' = [q \in Slots |-> req'[q]] /\ req'[s] = Idle
        /\ \A q \in Slots \ {s} : \/ req'[q] = req[q]
                                  \/ req[q].pc = "mint" /\ req'[q] = R(q)
    BY DEF Revoke
  <1> HIDE DEF R
  <1>4. \A q \in Slots : req'[q] \in RequestStates
    BY <1>1, <1>2, <1>3
  <1>5. req' \in [Slots -> RequestStates]
    BY <1>3, <1>4
  <1> QED BY <1>1, <1>3, <1>5

IInv == Types /\ SessionInv /\ AdminInv /\ EditInv

-----------------------------------------------------------------------------
(* Steps of requests that change neither users nor the automation.           *)

\* What is said of the automation stays true when it is left alone.
LEMMA EditsKept ==
    ASSUME Types, EditInv, UNCHANGED editVars,
           \A q \in Slots : req'[q].pc = "writeAuto" => req'[q] = req[q]
    PROVE EditInv'
  <1>1. \A q \in Slots : req'[q].pc = "writeAuto" => auto' # None /\ UpdateFits(req[q])'
    BY DEF EditInv, UpdateFits, editVars
  <1>2. /\ auto' = auto /\ firing' = firing
        /\ NoEscalation' /\ DeletedIsDead' /\ TokenFitsTrigger'
    BY DEF EditInv, editVars, NoEscalation, DeletedIsDead, TokenFitsTrigger
  <1> QED BY <1>1, <1>2 DEF EditInv, Decided, UpdateFits

\* A request moves on to r, which says nothing that is not so.
LEMMA RequestMoves ==
    ASSUME IInv, NEW s \in Slots, NEW r \in RequestStates, req' = [req EXCEPT ![s] = r],
           r.pc = "mint" => user[r.who].role # "none" /\ (r.ended => r.raced),
           LeavesAdmin(r) \/ crossed,
           r.pc = "delete" => r.target # r.who,
           r.pc = "writeAuto" => auto # None /\ UpdateFits(r),
           UNCHANGED <<user, tokens, clock, crossed, editVars>>,
           sessions' \subseteq Users, apiTokens' \subseteq [user : Users, scope : Scopes],
           made' \in 0 .. MaxRequests
    PROVE IInv'
  <1>0. Types /\ SessionInv /\ AdminInv /\ EditInv
    BY DEF IInv
  <1>1. /\ req' \in [Slots -> RequestStates] /\ req'[s] = r
        /\ \A q \in Slots \ {s} : req'[q] = req[q]
    BY <1>0, PutRequest DEF Types
  <1>2. Types'
    BY <1>0, <1>1 DEF Types, AccountsTypeOK, editVars
  <1>3. SessionInv'
    BY <1>0, <1>1 DEF SessionInv
  <1>4. AdminInv'
    <2>1. ActiveAdmins' = ActiveAdmins
      BY DEF ActiveAdmins
    <2> QED BY <1>0, <1>1, <2>1 DEF AdminInv, AdminRemains, LeavesAdmin
  <1>5. EditInv'
    <2>1. \A q \in Slots : req'[q].pc = "writeAuto" => auto' # None /\ UpdateFits(req'[q])
      BY <1>0, <1>1 DEF EditInv, editVars
    <2>2. NoEscalation' /\ DeletedIsDead' /\ TokenFitsTrigger'
      BY <1>0 DEF EditInv, editVars, NoEscalation, DeletedIsDead, TokenFitsTrigger
    <2>3. auto' = auto /\ firing' = firing
      BY DEF editVars
    <2> QED BY <1>0, <2>1, <2>2, <2>3 DEF EditInv, Decided, UpdateFits
  <1> QED BY <1>2, <1>3, <1>4, <1>5 DEF IInv

\* Requests that arrive authenticated.
LEMMA Arrivals ==
    ASSUME IInv, NEW s \in Slots, NEW u \in Callers(s), UNCHANGED editVars,
           \/ Logout(s, u) \/ \E t \in apiTokens : DeleteApiToken(s, u, t)
           \/ \E v \in Users : DeleteUser(s, u, v) \/ \E b \in Bodies : UpdateUser(s, u, v, b)
           \/ \E r \in Roles : CreateUser(s, u, r)
           \/ \E c \in Scopes : CreateApiToken(s, u, c)
           \/ \E e \in Edits : BeginEdit(s, u, e)
    PROVE IInv'
  <1>0. /\ Types /\ u \in Users /\ made + 1 \in 0 .. MaxRequests
        /\ sessions \subseteq Users /\ apiTokens \subseteq [user : Users, scope : Scopes]
    BY AccountsAssumption DEF IInv, Types, AccountsTypeOK, Callers
  <1> DEFINE Fits(r) == r.pc \notin {"mint", "write", "writeAuto"}
                        /\ (r.pc = "delete" => r.target # r.who)
  <1>1. ASSUME NEW r \in RequestStates, Fits(r), req' = [req EXCEPT ![s] = r], made' = made + 1,
               UNCHANGED <<user, tokens, clock, crossed, apiTokens>>, sessions' \subseteq Users
        PROVE IInv'
    <2>1. LeavesAdmin(r)
      BY <1>1 DEF LeavesAdmin
    <2> QED BY <1>0, <1>1, <2>1, RequestMoves
  <1>2. CASE Logout(s, u)
    <2> DEFINE r == [pc |-> "revoke", who |-> u, role |-> user[u].role]
    <2>1. r \in RequestStates /\ Fits(r)
      BY <1>0, <1>2 DEF Logout, Arrive, RequestStates, OtherRequests
    <2>2. /\ req' = [req EXCEPT ![s] = r] /\ made' = made + 1 /\ sessions' \subseteq Users
          /\ UNCHANGED <<user, tokens, clock, crossed, apiTokens>>
      BY <1>0, <1>2 DEF Logout, Arrive
    <2> HIDE DEF r, Fits
    <2> QED BY <1>1, <2>1, <2>2
  <1>3. ASSUME NEW t \in apiTokens, DeleteApiToken(s, u, t) PROVE IInv'
    <2> DEFINE r == [pc |-> "dropToken", who |-> u, role |-> user[u].role, token |-> t]
    <2>1. r \in RequestStates /\ Fits(r)
      BY <1>0, <1>3 DEF DeleteApiToken, Arrive, RequestStates, OtherRequests, RequireEditor, Roles
    <2>2. /\ req' = [req EXCEPT ![s] = r] /\ made' = made + 1 /\ sessions' \subseteq Users
          /\ UNCHANGED <<user, tokens, clock, crossed, apiTokens>>
      BY <1>0, <1>3 DEF DeleteApiToken, Arrive
    <2> HIDE DEF r, Fits
    <2> QED BY <1>1, <2>1, <2>2
  <1>4. ASSUME NEW v \in Users, DeleteUser(s, u, v) PROVE IInv'
    <2> DEFINE r == [pc |-> "delete", who |-> u, role |-> user[u].role, target |-> v]
    <2>1. r \in RequestStates /\ Fits(r)
      BY <1>0, <1>4 DEF DeleteUser, Arrive, RequestStates, DeleteRequests, RequireAdmin, Roles
    <2>2. /\ req' = [req EXCEPT ![s] = r] /\ made' = made + 1 /\ sessions' \subseteq Users
          /\ UNCHANGED <<user, tokens, clock, crossed, apiTokens>>
      BY <1>0, <1>4 DEF DeleteUser, Arrive
    <2> HIDE DEF r, Fits
    <2> QED BY <1>1, <2>1, <2>2
  <1>5. ASSUME NEW v \in Users, NEW b \in Bodies, UpdateUser(s, u, v, b) PROVE IInv'
    <2> DEFINE r == [pc |-> "load", who |-> u, role |-> user[u].role, target |-> v,
                     body |-> b, overtaken |-> FALSE]
    <2>1. r \in RequestStates /\ Fits(r)
      BY <1>0, <1>5 DEF UpdateUser, Arrive, RequestStates, UpdateRequests, RequireAdmin, Roles
    <2>2. /\ req' = [req EXCEPT ![s] = r] /\ made' = made + 1 /\ sessions' \subseteq Users
          /\ UNCHANGED <<user, tokens, clock, crossed, apiTokens>>
      BY <1>0, <1>5 DEF UpdateUser, Arrive
    <2> HIDE DEF r, Fits
    <2> QED BY <1>1, <2>1, <2>2
  <1>6. ASSUME NEW role \in Roles, CreateUser(s, u, role) PROVE IInv'
    <2> DEFINE r == [pc |-> "create", who |-> u, role |-> user[u].role, newRole |-> role]
    <2>1. r \in RequestStates /\ Fits(r)
      BY <1>0, <1>6 DEF CreateUser, Arrive, RequestStates, CreateRequests, RequireAdmin, Roles
    <2>2. /\ req' = [req EXCEPT ![s] = r] /\ made' = made + 1 /\ sessions' \subseteq Users
          /\ UNCHANGED <<user, tokens, clock, crossed, apiTokens>>
      BY <1>0, <1>6 DEF CreateUser, Arrive
    <2> HIDE DEF r, Fits
    <2> QED BY <1>1, <2>1, <2>2
  <1>7. ASSUME NEW c \in Scopes, CreateApiToken(s, u, c) PROVE IInv'
    <2> DEFINE r == [pc |-> "newToken", who |-> u, role |-> user[u].role, scope |-> c]
    <2>1. r \in RequestStates /\ Fits(r)
      BY <1>0, <1>7 DEF CreateApiToken, Arrive, RequestStates, OtherRequests, RequireEditor, Roles
    <2>2. /\ req' = [req EXCEPT ![s] = r] /\ made' = made + 1 /\ sessions' \subseteq Users
          /\ UNCHANGED <<user, tokens, clock, crossed, apiTokens>>
      BY <1>0, <1>7 DEF CreateApiToken, Arrive
    <2> HIDE DEF r, Fits
    <2> QED BY <1>1, <2>1, <2>2
  <1>8. ASSUME NEW e \in Edits, BeginEdit(s, u, e) PROVE IInv'
    <2> DEFINE r == [pc |-> "edit", who |-> u, role |-> user[u].role, op |-> e.op,
                     trigger |-> e.trigger, level |-> e.level, enabled |-> e.enabled]
    <2>1. user[u].role \in RequireEditor
      BY <1>8 DEF BeginEdit, Arrive
    <2>2. /\ e.op \in {"create", "update", "enable", "disable", "rotate", "deleteAuto", "run"}
          /\ e.trigger \in Triggers \cup {""} /\ e.level \in Levels \cup {""}
          /\ e.enabled \in {"", "enable", "disable"}
          /\ e.op = "create" => e.trigger # "" /\ e.level # ""
          /\ e.op \notin {"create", "update"} => e.trigger = "" /\ e.level = ""
          /\ e.op \in {"disable", "deleteAuto"} => e.enabled # "enable"
      BY DEF Edits, Triggers, Levels
    <2>3. r \in EditRequests /\ Fits(r)
      BY <1>0, <2>1, <2>2 DEF EditRequests
    <2>4. /\ req' = [req EXCEPT ![s] = r] /\ made' = made + 1 /\ sessions' \subseteq Users
          /\ UNCHANGED <<user, tokens, clock, crossed, apiTokens>>
      BY <1>0, <1>8 DEF BeginEdit, Arrive
    <2>5. r \in RequestStates
      BY <2>3 DEF RequestStates
    <2> HIDE DEF r, Fits
    <2> QED BY <1>1, <2>3, <2>4, <2>5
  <1> QED BY <1>2, <1>3, <1>4, <1>5, <1>6, <1>7, <1>8

\* A sign-in, or a refresh: one that was ended does not pass the check, unless
\* the token was raced.
LEMMA SignIns ==
    ASSUME IInv, NEW s \in Slots, UNCHANGED editVars,
           \/ \E u \in Users : LocalLogin(s, u)
           \/ \E t \in tokens : AuthRefresh(s, t)
    PROVE IInv'
  <1>0. /\ AccountsTypeOK /\ SessionInv /\ (made < MaxRequests => made + 1 \in 0 .. MaxRequests)
        /\ sessions \subseteq Users /\ apiTokens \subseteq [user : Users, scope : Scopes]
    BY AccountsAssumption DEF IInv, Types, AccountsTypeOK
  <1>1. ASSUME NEW r \in MintRequests, user[r.who].role # "none", r.ended => r.raced,
               req' = [req EXCEPT ![s] = r], made < MaxRequests, made' = made + 1,
               UNCHANGED <<user, tokens, sessions, apiTokens, clock, crossed>>
        PROVE IInv'
    <2>1. r \in RequestStates /\ r.pc = "mint"
      BY DEF RequestStates, MintRequests
    <2>2. LeavesAdmin(r)
      BY <2>1 DEF LeavesAdmin
    <2> QED BY <1>0, <1>1, <2>1, <2>2, RequestMoves
  <1>2. ASSUME NEW u \in Users, LocalLogin(s, u) PROVE IInv'
    <2> DEFINE r == [pc |-> "mint", who |-> u, role |-> user[u].role,
                     ended |-> FALSE, raced |-> FALSE]
    <2>1. r \in MintRequests /\ user[r.who].role # "none" /\ (r.ended => r.raced)
      BY <1>0, <1>2 DEF LocalLogin, MintRequests, AccountsTypeOK, UserType
    <2>2. /\ req' = [req EXCEPT ![s] = r] /\ made < MaxRequests /\ made' = made + 1
          /\ UNCHANGED <<user, tokens, sessions, apiTokens, clock, crossed>>
      BY <1>2 DEF LocalLogin
    <2> HIDE DEF r
    <2> QED BY <1>1, <2>1, <2>2
  <1>3. ASSUME NEW t \in tokens, AuthRefresh(s, t) PROVE IInv'
    <2> DEFINE r == [pc |-> "mint", who |-> t.user, role |-> user[t.user].role,
                     ended |-> t.ended, raced |-> t.raced]
    <2>1. /\ t.user \in Users /\ t.ended \in BOOLEAN /\ t.raced \in BOOLEAN /\ t.iat \in Nat
          /\ user[t.user] \in UserType
      BY <1>0 DEF AccountsTypeOK, TokenType
    <2>2. user[t.user].revoked \in Nat
      BY <2>1 DEF UserType
    <2>3. user[t.user].role # "none" /\ (t.ended => t.raced)
      BY <1>0, <1>3, <2>1, <2>2 DEF SessionInv, AuthRefresh, ValidRefresh, IssuedAfter
    <2>4. r \in MintRequests
      BY <2>1 DEF MintRequests, UserType
    <2>5. /\ req' = [req EXCEPT ![s] = r] /\ made < MaxRequests /\ made' = made + 1
          /\ UNCHANGED <<user, tokens, sessions, apiTokens, clock, crossed>>
      BY <1>3 DEF AuthRefresh
    <2>6. r.who = t.user /\ r.ended = t.ended /\ r.raced = t.raced
      OBVIOUS
    <2> HIDE DEF r
    <2> QED BY <1>1, <2>3, <2>4, <2>5, <2>6
  <1> QED BY <1>2, <1>3

\* The guards of HandleUpdateUser: past them another admin is left, or the user
\* is none when the row is read, or the update takes no admin away.
LEMMA Guards ==
    ASSUME IInv, NEW s \in Slots, UNCHANGED editVars, LoadTarget(s) \/ CountAdmins(s)
    PROVE IInv'
  <1>0. /\ AccountsTypeOK /\ AdminInv /\ req \in [Slots -> RequestStates] /\ made \in 0 .. MaxRequests
        /\ sessions \subseteq Users /\ apiTokens \subseteq [user : Users, scope : Scopes]
    BY DEF IInv, Types, AccountsTypeOK
  <1>1. req[s] \in UpdateRequests
    BY <1>0, RequestByStep DEF LoadTarget, CountAdmins
  <1>2. UNCHANGED <<user, tokens, sessions, apiTokens, clock, made, crossed>>
    BY DEF LoadTarget, CountAdmins, accountVars
  <1>3. CASE Return(s)
    <2>1. Idle \in RequestStates /\ Idle.pc = "idle" /\ LeavesAdmin(Idle)
      BY DEF RequestStates, Idle, LeavesAdmin
    <2> QED BY <1>0, <1>2, <1>3, <2>1, RequestMoves DEF Return
  <1>4. ASSUME NEW pc \in {"count", "write"}, Goto(s, pc),
               pc = "write" => \/ crossed \/ req[s].body \in {"admin", "activate"}
                               \/ \E a \in ActiveAdmins : a # req[s].target
        PROVE IInv'
    <2> DEFINE r == [req[s] EXCEPT !.pc = pc]
    <2>1. /\ r \in UpdateRequests /\ r.pc = pc /\ r.target = req[s].target
          /\ r.body = req[s].body
      BY <1>1 DEF UpdateRequests
    <2>2. req' = [req EXCEPT ![s] = r]
      BY <1>4 DEF Goto
    <2>3. r \in RequestStates
      BY <2>1 DEF RequestStates
    <2> HIDE DEF r
    <2>4. LeavesAdmin(r) \/ crossed
      BY <1>4, <2>1 DEF LeavesAdmin
    <2>5. r.pc \notin {"mint", "delete", "writeAuto"}
      BY <2>1
    <2> QED BY <1>0, <1>2, <2>2, <2>3, <2>4, <2>5, RequestMoves
  <1>5. CASE LoadTarget(s)
    <2> DEFINE row == user[req[s].target]
    <2>1. req[s].target \in Users /\ req[s].body \in Bodies
      BY <1>1 DEF UpdateRequests
    <2>2. row \in UserType
      BY <1>0, <2>1 DEF AccountsTypeOK
    <2>3. CASE ~LosingAdmin(req[s].body, row)
      <3>3. \/ crossed \/ req[s].body \in {"admin", "activate"}
            \/ \E a \in ActiveAdmins : a # req[s].target
        <4>1. CASE row.role # "admin"
          BY <1>0, <4>1 DEF AdminInv, AdminRemains, ActiveAdmins
        <4>2. CASE row.role = "admin"
          <5>1. NewRole(req[s].body, row) = "admin" /\ NewActive(req[s].body, row)
            BY <2>3, <4>2 DEF LosingAdmin
          <5>2. req[s].body \in {"admin", "activate", "editor", "viewer", "pending", "deactivate"}
            BY <2>1, AccountsAssumption
          <5> QED BY <5>1, <5>2 DEF NewRole, NewActive, Roles
        <4> QED BY <4>1, <4>2
      <3> HIDE DEF row
      <3>4. Goto(s, "write") \/ Return(s)
        BY <1>5, <2>3 DEF LoadTarget, row
      <3> QED BY <1>3, <1>4, <3>3, <3>4
    <2>4. CASE LosingAdmin(req[s].body, row)
      <3>1. Goto(s, "count") \/ Return(s)
        BY <1>5, <2>4 DEF LoadTarget
      <3> QED BY <1>3, <1>4, <3>1
    <2> QED BY <2>3, <2>4
  <1>6. CASE CountAdmins(s) /\ ~Return(s)
    <2>1. ~(Cardinality(ActiveAdmins) <= 1) /\ Goto(s, "write")
      BY <1>6 DEF CountAdmins
    <2>2. \E a \in ActiveAdmins : a # req[s].target
      <3> SUFFICES ASSUME ActiveAdmins \subseteq {req[s].target} PROVE FALSE
        OBVIOUS
      <3>1. IsFiniteSet({req[s].target}) /\ Cardinality({req[s].target}) = 1
        BY FS_Singleton
      <3>2. Cardinality(ActiveAdmins) <= 1
        BY <3>1, FS_Subset
      <3> QED BY <2>1, <3>2
    <2> QED BY <1>4, <2>1, <2>2
  <1> QED BY <1>3, <1>5, <1>6

\* The tables of API tokens.
LEMMA ApiTokenWrites ==
    ASSUME IInv, NEW s \in Slots, UNCHANGED editVars, WriteApiToken(s)
    PROVE IInv'
  <1>0. /\ req \in [Slots -> RequestStates] /\ made \in 0 .. MaxRequests /\ sessions \subseteq Users
        /\ apiTokens \subseteq [user : Users, scope : Scopes]
    BY DEF IInv, Types, AccountsTypeOK
  <1>1. req[s] \in OtherRequests
    BY <1>0, RequestByStep DEF WriteApiToken
  <1>2. req[s].pc = "newToken" => req[s].who \in Users /\ req[s].scope \in Scopes
    BY <1>1 DEF OtherRequests
  <1>3. apiTokens' \subseteq [user : Users, scope : Scopes]
    BY <1>0, <1>2 DEF WriteApiToken
  <1>4. Idle \in RequestStates /\ Idle.pc = "idle" /\ LeavesAdmin(Idle)
    BY DEF RequestStates, Idle, LeavesAdmin
  <1>5. /\ req' = [req EXCEPT ![s] = Idle]
        /\ UNCHANGED <<user, tokens, sessions, clock, made, crossed>>
    BY DEF WriteApiToken, Return
  <1> QED BY <1>0, <1>3, <1>4, <1>5, RequestMoves

\* The update a request makes of the row it has read sets what its user was
\* authorised for, and the token that goes with the trigger.
LEMMA UpdateIsFitting ==
    ASSUME NEW r \in EditRequests, NEW row \in Definitions, Authorised(r, row),
           r.op \notin {"create", "run"}, r.op = "rotate" => row.trigger = "webhook"
    PROVE LET q == [pc |-> "writeAuto", who |-> r.who, role |-> r.role, op |-> r.op,
                    update |-> Update(r, row)]
          IN q \in WriteRequests /\ UpdateFits(q)
  <1> DEFINE trigger == Or(r.trigger, row.trigger)
             level == Or(r.level, row.level)
             redefined == r.trigger # "" \/ r.level # ""
             u == Update(r, row)
             q == [pc |-> "writeAuto", who |-> r.who, role |-> r.role, op |-> r.op, update |-> u]
  <1>1. /\ row.trigger \in Triggers /\ row.level \in Levels /\ row.enabled \in BOOLEAN
        /\ r.trigger \in Triggers \cup {""} /\ r.level \in Levels \cup {""} /\ r.who \in Users
        /\ r.role \in RequireEditor /\ r.enabled \in {"", "enable", "disable"}
        /\ r.op \in {"update", "enable", "disable", "rotate", "deleteAuto"}
        /\ r.op \notin {"create", "update"} => r.trigger = "" /\ r.level = ""
        /\ r.op \in {"disable", "deleteAuto"} => r.enabled # "enable"
    BY DEF EditRequests, Definitions
  <1>2. /\ trigger \in Triggers /\ level \in Levels
        /\ ~redefined => trigger = row.trigger /\ level = row.level
    BY <1>1 DEF Or
  <1>3. /\ u.read = row /\ u.binds = (redefined \/ Enables(r, row)) /\ u.enabled = r.enabled
        /\ u.pair = (IF redefined THEN <<trigger, level>> ELSE << >>)
        /\ u.token = CASE r.op = "rotate" -> "new"
                       [] trigger = row.trigger -> "keep"
                       [] trigger # row.trigger -> IF trigger = "webhook" THEN "new" ELSE "clear"
    BY DEF Update
  <1>4. /\ <<trigger, level>> # << >> /\ <<trigger, level>>[1] = trigger
        /\ <<trigger, level>>[2] = level /\ <<trigger, level>> \in Triggers \X Levels
    BY <1>2
  <1>5. u \in Updates
    <2>1. u.pair \in Pairs
      BY <1>3, <1>4 DEF Pairs
    <2>2. u.token \in {"keep", "clear", "new"}
      BY <1>3
    <2>3. u.binds \in BOOLEAN
      BY <1>3
    <2>4. \E p, b, k : u = [read |-> row, pair |-> p, binds |-> b, enabled |-> r.enabled,
                            token |-> k]
      BY DEF Update
    <2> HIDE DEF u
    <2>5. PICK p, b, k : u = [read |-> row, pair |-> p, binds |-> b, enabled |-> r.enabled,
                              token |-> k]
      BY <2>4
    <2>6. p \in Pairs /\ b \in BOOLEAN /\ k \in {"keep", "clear", "new"}
      BY <2>1, <2>2, <2>3, <2>5
    <2> QED BY <1>1, <2>5, <2>6 DEF Updates
  <1>6. redefined \/ Enables(r, row) => Allows(r.role, trigger, level)
    BY <1>1 DEF Authorised, Authorise, Allows, Enables
  <1>7. u.pair # << >> <=> redefined
    BY <1>3, <1>4
  <1>8. r.op = "rotate" => ~redefined
    BY <1>1
  <1> HIDE DEF u, trigger, level
  <1>9. /\ u.pair # << >> => Allows(r.role, u.pair[1], u.pair[2])
        /\ u.binds /\ u.pair = << >> => Allows(r.role, u.read.trigger, u.read.level)
    BY <1>2, <1>3, <1>4, <1>6, <1>7
  <1>10. /\ u.token = "keep" => u.pair = << >> \/ u.pair[1] = u.read.trigger
         /\ u.token = "clear" => u.pair # << >> /\ u.pair[1] # "webhook"
         /\ u.token = "new" => \/ u.pair = << >> /\ u.read.trigger = "webhook"
                               \/ u.pair # << >> /\ u.pair[1] = "webhook"
    BY <1>2, <1>3, <1>4, <1>7, <1>8
  <1>11. q \in WriteRequests /\ q.update = u /\ q.role = r.role
    BY <1>1, <1>5 DEF WriteRequests
  <1>12. UpdateFits(q)
    BY <1>9, <1>10, <1>11 DEF UpdateFits
  <1> QED BY <1>11, <1>12 DEF u

\* loadAutomation and the checks.
LEMMA Loads ==
    ASSUME IInv, NEW s \in Slots, LoadAutomation(s)
    PROVE IInv'
  <1>0. /\ req \in [Slots -> RequestStates] /\ made \in 0 .. MaxRequests /\ sessions \subseteq Users
        /\ apiTokens \subseteq [user : Users, scope : Scopes] /\ auto \in Definitions \cup {None}
    BY DEF IInv, Types, AccountsTypeOK
  <1>1. /\ req[s] \in EditRequests /\ req[s].op \notin {"create", "run"}
        /\ UNCHANGED <<user, tokens, sessions, apiTokens, clock, made, crossed, editVars>>
    BY <1>0, RequestByStep DEF LoadAutomation, accountVars
  <1>2. CASE Return(s)
    <2>1. Idle \in RequestStates /\ Idle.pc = "idle" /\ LeavesAdmin(Idle)
      BY DEF RequestStates, Idle, LeavesAdmin
    <2> QED BY <1>0, <1>1, <1>2, <2>1, RequestMoves DEF Return
  <1>3. CASE ~Return(s)
    <2> DEFINE q == [pc |-> "writeAuto", who |-> req[s].who, role |-> req[s].role,
                     op |-> req[s].op, update |-> Update(req[s], auto)]
    <2>1. /\ auto.active /\ Authorised(req[s], auto) /\ req' = [req EXCEPT ![s] = q]
          /\ req[s].op = "rotate" => auto.trigger = "webhook"
      BY <1>3 DEF LoadAutomation
    <2>2. auto \in Definitions /\ auto # None
      BY <1>0, <2>1 DEF None
    <2>3. q \in WriteRequests /\ UpdateFits(q)
      BY <1>1, <2>1, <2>2, UpdateIsFitting
    <2>4. q.pc = "writeAuto"
      OBVIOUS
    <2> HIDE DEF q
    <2>5. q \in RequestStates /\ LeavesAdmin(q)
      BY <2>3, <2>4 DEF RequestStates, LeavesAdmin
    <2> QED BY <1>0, <1>1, <2>1, <2>2, <2>3, <2>4, <2>5, RequestMoves
  <1> QED BY <1>2, <1>3

-----------------------------------------------------------------------------
(* Steps that change users, sessions and tokens.                             *)

\* Sessions stay as they are said to be when nothing is minted or revoked and
\* users stay users.
LEMMA SessionsKept ==
    ASSUME Types, SessionInv, tokens' = tokens, clock' \in Nat, clock <= clock',
           \A u \in Users : user[u].role # "none" =>
               user'[u].role # "none" /\ user'[u].revoked = user[u].revoked,
           \A q \in Slots : req'[q].pc = "mint" => req'[q] = req[q]
    PROVE SessionInv'
  <1>1. \A t \in tokens : t.user \in Users /\ t.iat \in Nat /\ clock \in Nat
    BY DEF Types, AccountsTypeOK, TokenType
  <1>2. \A t \in tokens' :
          /\ user'[t.user].role # "none" /\ t.iat <= clock'
          /\ t.ended /\ ~t.raced => user'[t.user].revoked # 0 /\ t.iat <= user'[t.user].revoked
    BY <1>1 DEF SessionInv
  <1>3. \A q \in Slots : req'[q].pc = "mint" => req'[q].who \in Users
    BY RequestByStep DEF Types, MintRequests
  <1>4. \A q \in Slots : req'[q].pc = "mint" =>
          user'[req'[q].who].role # "none" /\ (req'[q].ended => req'[q].raced)
    BY <1>3 DEF SessionInv
  <1> QED BY <1>2, <1>4 DEF SessionInv

\* Admins are left when none is taken away.
LEMMA AdminsKept ==
    ASSUME AdminInv, ActiveAdmins \subseteq ActiveAdmins', crossed' = crossed,
           \A q \in Slots : req'[q].pc \in {"write", "delete"} => req'[q] = req[q]
    PROVE AdminInv'
  <1>1. AdminRemains'
    BY DEF AdminInv, AdminRemains
  <1>2. crossed' \/ \A q \in Slots : LeavesAdmin(req[q])'
    BY DEF AdminInv, LeavesAdmin
  <1> QED BY <1>1, <1>2 DEF AdminInv

\* Time, and what the provider does.
LEMMA Provider ==
    ASSUME IInv, UNCHANGED editVars,
           Tick \/ \E u \in Users : SSOLogin(u) \/ SessionEnds(u)
    PROVE IInv'
  <1>0. Types /\ SessionInv /\ AdminInv /\ EditInv
    BY DEF IInv
  <1>1. /\ req' = req /\ tokens' = tokens /\ crossed' = crossed /\ apiTokens' = apiTokens
        /\ sessions' \subseteq Users
    BY <1>0 DEF Tick, SSOLogin, SessionEnds, Types, AccountsTypeOK
  <1>2. clock' \in 1 .. MaxTime /\ clock <= clock' /\ made' \in 0 .. MaxRequests
    BY <1>0, AccountsAssumption DEF Tick, SSOLogin, SessionEnds, Types, AccountsTypeOK
  <1>3. /\ user' \in [Users -> UserType]
        /\ \A u \in Users : user[u].role # "none" => user'[u] = user[u]
    <2>1. CASE user' = user
      BY <1>0, <2>1 DEF Types, AccountsTypeOK
    <2>2. ASSUME NEW u \in Users, user[u].role = "none",
                 user' = [user EXCEPT ![u] = [Row("pending") EXCEPT !.auth = "sso"]]
          PROVE /\ user' \in [Users -> UserType]
                /\ \A v \in Users : user[v].role # "none" => user'[v] = user[v]
      <3>1. [Row("pending") EXCEPT !.auth = "sso"] \in UserType
        <4>1. 0 \in 0 .. MaxTime
          BY AccountsAssumption
        <4>2. Row("pending") \in UserType
          BY <4>1 DEF Row, UserType, Roles
        <4> QED BY <4>2 DEF UserType
      <3> QED BY <1>0, <2>2, <3>1 DEF Types, AccountsTypeOK
    <2> QED BY <2>1, <2>2 DEF Tick, SSOLogin, SessionEnds
  <1>4. Types'
    BY <1>0, <1>1, <1>2, <1>3 DEF Types, AccountsTypeOK, editVars
  <1>5. SessionInv'
    BY <1>0, <1>1, <1>2, <1>3, SessionsKept
  <1>6. AdminInv'
    BY <1>0, <1>1, <1>3, AdminsKept DEF ActiveAdmins
  <1>7. EditInv'
    BY <1>0, <1>1, EditsKept
  <1> QED BY <1>4, <1>5, <1>6, <1>7 DEF IInv

\* NewAccessToken and NewRefreshToken.
LEMMA Mints ==
    ASSUME IInv, UNCHANGED editVars, NEW s \in Slots, Mint(s)
    PROVE IInv'
  <1>0. Types /\ SessionInv /\ AdminInv /\ EditInv /\ req \in [Slots -> RequestStates]
    BY DEF IInv, Types
  <1>1. req[s] \in MintRequests
    BY <1>0, RequestByStep DEF Mint
  <1>2. /\ req' \in [Slots -> RequestStates] /\ req'[s] = Idle /\ Idle.pc = "idle"
        /\ \A q \in Slots \ {s} : req'[q] = req[q]
    BY <1>0, ReturnTypes DEF Mint, Idle
  <1>3. UNCHANGED <<user, sessions, apiTokens, clock, made, crossed>> /\ clock \in 1 .. MaxTime
    BY <1>0 DEF Mint, Types, AccountsTypeOK
  <1>4. \A t \in tokens' : t \in tokens \/
            /\ t \in TokenType /\ t.iat = clock /\ t.user = req[s].who
            /\ t.ended = req[s].ended /\ t.raced = req[s].raced
    BY <1>1, <1>3 DEF Mint, TokenType, MintRequests
  <1>5. Types'
    BY <1>0, <1>2, <1>3, <1>4 DEF Types, AccountsTypeOK, editVars
  <1>6. SessionInv'
    <2>1. \A t \in tokens' :
            /\ user'[t.user].role # "none" /\ t.iat <= clock'
            /\ t.ended /\ ~t.raced => user'[t.user].revoked # 0 /\ t.iat <= user'[t.user].revoked
      BY <1>0, <1>3, <1>4 DEF SessionInv, Mint
    <2>2. \A q \in Slots : req'[q].pc = "mint" =>
            user'[req'[q].who].role # "none" /\ (req'[q].ended => req'[q].raced)
      BY <1>0, <1>2, <1>3 DEF SessionInv
    <2> QED BY <2>1, <2>2 DEF SessionInv
  <1>7. AdminInv'
    BY <1>0, <1>2, <1>3, AdminsKept DEF ActiveAdmins
  <1>8. EditInv'
    BY <1>0, <1>2, EditsKept
  <1> QED BY <1>5, <1>6, <1>7, <1>8 DEF IInv

\* RevokeUserTokens.
LEMMA Revokes ==
    ASSUME IInv, UNCHANGED editVars, NEW s \in Slots, Revoke(s)
    PROVE IInv'
  <1> DEFINE u == req[s].who
  <1>0. Types /\ SessionInv /\ AdminInv /\ EditInv /\ req \in [Slots -> RequestStates]
    BY DEF IInv, Types
  <1>1. u \in Users
    <2>1. req[s] \in OtherRequests
      BY <1>0, RequestByStep DEF Revoke
    <2> QED BY <2>1 DEF OtherRequests
  <1>2. /\ req' \in [Slots -> RequestStates] /\ req'[s] = Idle /\ Idle.pc = "idle"
        /\ \A q \in Slots \ {s} :
              \/ req'[q] = req[q]
              \/ /\ req[q].pc = "mint" /\ req'[q] \in MintRequests
                 /\ req'[q].who = req[q].who /\ req'[q].raced
    BY <1>0, RevokeTypes DEF Idle
  <1>3. \A q \in Slots : req'[q].pc # "mint" => req'[q] = req[q] \/ req'[q].pc = "idle"
    BY <1>2 DEF MintRequests
  <1>4. /\ UNCHANGED <<sessions, apiTokens, clock, made, crossed>> /\ clock \in 1 .. MaxTime
        /\ user' = [user EXCEPT ![u] = [user[u] EXCEPT !.revoked = clock]]
        /\ tokens' = {IF t.user = u THEN [t EXCEPT !.ended = TRUE] ELSE t : t \in tokens}
    BY <1>0 DEF Revoke, Types, AccountsTypeOK
  <1>5. /\ user' \in [Users -> UserType] /\ user'[u].revoked = clock
        /\ \A v \in Users : /\ user'[v].role = user[v].role /\ user'[v].active = user[v].active
                            /\ v # u => user'[v] = user[v]
    BY <1>0, <1>1, <1>4 DEF Types, AccountsTypeOK, UserType
  <1>6. \A t \in tokens' : \E k \in tokens :
            /\ t \in TokenType /\ t.user = k.user /\ t.iat = k.iat /\ t.raced = k.raced
            /\ t.user # u => t.ended = k.ended
    BY <1>0, <1>4 DEF Types, AccountsTypeOK, TokenType
  <1>7. Types'
    BY <1>0, <1>2, <1>4, <1>5, <1>6 DEF Types, AccountsTypeOK, editVars
  <1>8. SessionInv'
    <2>1. ASSUME NEW t \in tokens'
          PROVE /\ user'[t.user].role # "none" /\ t.iat <= clock'
                /\ t.ended /\ ~t.raced => user'[t.user].revoked # 0
                                          /\ t.iat <= user'[t.user].revoked
      <3>1. PICK k \in tokens : /\ t \in TokenType /\ t.user = k.user /\ t.iat = k.iat
                                /\ t.raced = k.raced /\ (t.user # u => t.ended = k.ended)
        BY <1>6
      <3>2. t.user \in Users
        BY <3>1 DEF TokenType
      <3>3. user'[t.user].role # "none" /\ t.iat <= clock
        BY <1>0, <1>5, <3>1, <3>2 DEF SessionInv
      <3>4. t.ended /\ ~t.raced => user'[t.user].revoked # 0 /\ t.iat <= user'[t.user].revoked
        <4>1. CASE t.user = u
          BY <1>4, <1>5, <3>3, <4>1
        <4>2. CASE t.user # u
          BY <1>0, <1>5, <3>1, <3>2, <4>2 DEF SessionInv
        <4> QED BY <4>1, <4>2
      <3> QED BY <1>4, <3>3, <3>4
    <2>2. ASSUME NEW q \in Slots, req'[q].pc = "mint"
          PROVE user'[req'[q].who].role # "none" /\ (req'[q].ended => req'[q].raced)
      <3>1. req'[q] \in MintRequests
        BY <1>2, <2>2, RequestByStep
      <3>2. req'[q].who \in Users /\ req'[q].who = req[q].who /\ req[q].pc = "mint"
        BY <1>2, <2>2, <3>1 DEF MintRequests
      <3> QED BY <1>0, <1>2, <1>5, <2>2, <3>2 DEF SessionInv
    <2> QED BY <2>1, <2>2 DEF SessionInv
  <1>9. AdminInv'
    <2>1. ActiveAdmins' = ActiveAdmins
      BY <1>5 DEF ActiveAdmins
    <2> QED BY <1>0, <1>3, <1>4, <2>1, AdminsKept
  <1>10. EditInv'
    BY <1>0, <1>3, EditsKept
  <1> QED BY <1>7, <1>8, <1>9, <1>10 DEF IInv

\* A handler writes the users' table and returns.
LEMMA UserWrites ==
    ASSUME IInv, UNCHANGED editVars, NEW s \in Slots,
           \/ Return(s) /\ ActiveAdmins \subseteq ActiveAdmins' /\ crossed' = crossed
           \/ Overtake(s) /\ AdminRemains',
           user' \in [Users -> UserType], crossed' \in BOOLEAN,
           \A u \in Users : user[u].role # "none" =>
               user'[u].role # "none" /\ user'[u].revoked = user[u].revoked,
           UNCHANGED <<tokens, sessions, apiTokens, clock, made>>
    PROVE IInv'
  <1>0. Types /\ SessionInv /\ AdminInv /\ EditInv /\ req \in [Slots -> RequestStates]
    BY DEF IInv, Types
  <1>1. /\ req' \in [Slots -> RequestStates] /\ req'[s] = Idle /\ Idle.pc = "idle"
        /\ \A q \in Slots \ {s} :
              \/ req'[q] = req[q]
              \/ req'[q].pc = "write" /\ req'[q].overtaken
    BY <1>0, ReturnTypes, OvertakeTypes DEF Idle
  <1>2. Types'
    BY <1>0, <1>1 DEF Types, AccountsTypeOK, editVars
  <1>3. SessionInv'
    BY <1>0, <1>1, SessionsKept DEF Types, AccountsTypeOK
  <1>4. AdminInv'
    <2>1. CASE Return(s) /\ ActiveAdmins \subseteq ActiveAdmins' /\ crossed' = crossed
      BY <1>0, <1>1, <2>1, ReturnTypes, AdminsKept
    <2>2. CASE Overtake(s) /\ AdminRemains'
      <3>1. \A q \in Slots : LeavesAdmin(req[q])'
        BY <1>0, <1>1, <2>2, OvertakeTypes DEF LeavesAdmin
      <3>2. \A q \in Slots : req'[q].pc = "delete" => req'[q] = req[q]
        BY <1>1
      <3> QED BY <1>0, <2>2, <3>1, <3>2 DEF AdminInv
    <2> QED BY <2>1, <2>2
  <1>5. EditInv'
    BY <1>0, <1>1, EditsKept
  <1> QED BY <1>2, <1>3, <1>4, <1>5 DEF IInv

\* UpdateUser takes the last admin away only on a count that was overtaken.
LEMMA UpdatesUser ==
    ASSUME IInv, UNCHANGED editVars, NEW s \in Slots, WriteUser(s)
    PROVE IInv'
  <1> DEFINE target == req[s].target
             body == req[s].body
             row == user[target]
             losing == row.active /\ LosingAdmin(body, row)
  <1>0. /\ AdminInv /\ user \in [Users -> UserType] /\ crossed \in BOOLEAN
        /\ req[s] \in RequestStates /\ req[s].pc = "write"
    BY DEF IInv, Types, AccountsTypeOK, WriteUser
  <1>1. target \in Users /\ body \in Bodies /\ req[s].overtaken \in BOOLEAN
    BY <1>0, RequestByStep DEF UpdateRequests
  <1>2. row \in UserType
    BY <1>0, <1>1
  <1> DEFINE role == NewRole(body, row)
             active == NewActive(body, row)
  <1>3. /\ role \in Roles \cup {"none"} /\ active \in BOOLEAN
        /\ row.role # "none" => role # "none"
    BY <1>1, <1>2, AccountsAssumption DEF NewRole, NewActive, UserType, Roles
  <1>4. /\ user' = [user EXCEPT ![target].role = role, ![target].active = active]
        /\ crossed' = (crossed \/ (losing /\ req[s].overtaken))
        /\ UNCHANGED <<tokens, sessions, apiTokens, clock, made>>
        /\ losing => Overtake(s)
        /\ ~losing => Return(s)
    BY DEF WriteUser
  <1>5. ~losing /\ row.role = "admin" /\ row.active => role = "admin" /\ active
    BY DEF LosingAdmin
  <1>6. losing => row.role = "admin" /\ row.active /\ body \notin {"admin", "activate"}
    BY <1>1, <1>2, AccountsAssumption DEF LosingAdmin, NewRole, NewActive, Roles
  <1> HIDE DEF role, active, losing
  <1>7. /\ user' \in [Users -> UserType]
        /\ \A v \in Users : v # target => user'[v] = user[v]
        /\ user'[target].role = role /\ user'[target].active = active
        /\ user'[target].revoked = row.revoked
    BY <1>0, <1>1, <1>2, <1>3, <1>4 DEF UserType
  <1>8. \A u \in Users : user[u].role # "none" =>
            user'[u].role # "none" /\ user'[u].revoked = user[u].revoked
    BY <1>3, <1>7
  <1>9. ~losing => ActiveAdmins \subseteq ActiveAdmins' /\ crossed' = crossed
    <2>1. ~losing => ActiveAdmins \subseteq ActiveAdmins'
      BY <1>5, <1>7 DEF ActiveAdmins
    <2>2. ~losing => crossed' = crossed
      BY <1>0, <1>4
    <2> QED BY <2>1, <2>2
  <1>10. losing => AdminRemains'
    <2> SUFFICES ASSUME losing, ~crossed' PROVE ActiveAdmins' # {}
      BY DEF AdminRemains
    <2>1. ~crossed /\ ~req[s].overtaken
      BY <1>4
    <2>2. LeavesAdmin(req[s])
      BY <1>0, <2>1 DEF AdminInv
    <2>3. PICK a \in ActiveAdmins : a # target
      BY <1>0, <1>6, <2>1, <2>2 DEF LeavesAdmin
    <2>4. a \in ActiveAdmins'
      BY <1>7, <2>3 DEF ActiveAdmins
    <2> QED BY <2>4
  <1>11. crossed' \in BOOLEAN
    BY <1>4
  <1>12. CASE losing
    BY <1>4, <1>7, <1>8, <1>10, <1>11, <1>12, UserWrites
  <1>13. CASE ~losing
    BY <1>4, <1>7, <1>8, <1>9, <1>11, <1>13, UserWrites
  <1> QED BY <1>12, <1>13

\* HandleDeleteUser takes the last admin away only for an admin who is none now.
LEMMA DeletesUser ==
    ASSUME IInv, UNCHANGED editVars, NEW s \in Slots, DeleteWrite(s)
    PROVE IInv'
  <1> DEFINE target == req[s].target
             losing == target \in ActiveAdmins
  <1>0. /\ AdminInv /\ user \in [Users -> UserType] /\ crossed \in BOOLEAN
        /\ req[s] \in RequestStates /\ req[s].pc = "delete"
    BY DEF IInv, Types, AccountsTypeOK, DeleteWrite
  <1>1. target \in Users /\ req[s].who \in Users /\ target # req[s].who
    BY <1>0, RequestByStep DEF DeleteRequests, AdminInv
  <1>2. user[target] \in UserType
    BY <1>0, <1>1
  <1>3. /\ user' = [user EXCEPT ![target].active = FALSE]
        /\ crossed' = (crossed \/ (losing /\ req[s].who \notin ActiveAdmins))
        /\ UNCHANGED <<tokens, sessions, apiTokens, clock, made>>
        /\ losing => Overtake(s)
        /\ ~losing => Return(s)
    BY DEF DeleteWrite
  <1>4. /\ user' \in [Users -> UserType]
        /\ \A v \in Users : v # target => user'[v] = user[v]
        /\ user'[target].role = user[target].role
        /\ user'[target].revoked = user[target].revoked
    BY <1>0, <1>1, <1>2, <1>3 DEF UserType
  <1>5. \A u \in Users : user[u].role # "none" =>
            user'[u].role # "none" /\ user'[u].revoked = user[u].revoked
    BY <1>4
  <1>6. CASE ~losing
    <2>1. ActiveAdmins \subseteq ActiveAdmins'
      BY <1>4, <1>6 DEF ActiveAdmins
    <2>2. crossed' = crossed
      BY <1>0, <1>3, <1>6
    <2> QED BY <1>3, <1>4, <1>5, <1>6, <2>1, <2>2, <1>0, UserWrites
  <1>7. CASE losing
    <2>1. AdminRemains'
      <3> SUFFICES ASSUME ~crossed' PROVE ActiveAdmins' # {}
        BY DEF AdminRemains
      <3>1. req[s].who \in ActiveAdmins
        BY <1>3, <1>7
      <3>2. req[s].who \in {u \in Users : user'[u].role = "admin" /\ user'[u].active}
        BY <1>1, <1>4, <3>1 DEF ActiveAdmins
      <3> QED BY <3>2 DEF ActiveAdmins
    <2>2. crossed' \in BOOLEAN
      BY <1>3
    <2> QED BY <1>3, <1>4, <1>5, <1>7, <2>1, <2>2, UserWrites
  <1> QED BY <1>6, <1>7

\* An account is created where there is none.
LEMMA CreatesUser ==
    ASSUME IInv, UNCHANGED editVars, NEW s \in Slots, NEW target \in Users,
           CreateWrite(s, target)
    PROVE IInv'
  <1>0. /\ user \in [Users -> UserType] /\ crossed \in BOOLEAN
        /\ req[s] \in RequestStates /\ req[s].pc = "create"
    BY DEF IInv, Types, AccountsTypeOK, CreateWrite
  <1>1. req[s].newRole \in Roles
    BY <1>0, RequestByStep DEF CreateRequests
  <1>2. Row(req[s].newRole) \in UserType
    <2>1. 0 \in 0 .. MaxTime
      BY AccountsAssumption
    <2> QED BY <1>1, <2>1 DEF Row, UserType
  <1>3. /\ user[target].role = "none" /\ user' = [user EXCEPT ![target] = Row(req[s].newRole)]
        /\ Return(s) /\ UNCHANGED <<tokens, sessions, apiTokens, clock, made, crossed>>
    BY DEF CreateWrite
  <1>4. /\ user' \in [Users -> UserType]
        /\ \A u \in Users : user[u].role # "none" => user'[u] = user[u]
    BY <1>0, <1>2, <1>3
  <1>5. ActiveAdmins \subseteq ActiveAdmins'
    BY <1>4 DEF ActiveAdmins
  <1> QED BY <1>0, <1>3, <1>4, <1>5, UserWrites

-----------------------------------------------------------------------------
(* Steps that change the automation.                                         *)

\* The trigger and the token of a row fit.
Fits(row) == (row.trigger = "webhook" <=> row.token # 0) \/ row.mixed

\* They leave the accounts alone.
LEMMA AccountsKept ==
    ASSUME IInv, UNCHANGED accountVars, req' = req \/ \E s \in Slots : Return(s),
           auto' \in Definitions \cup {None}, minted' \in Nat, firing' \in FiringTypes,
           EditInv'
    PROVE IInv'
  <1>0. Types /\ SessionInv /\ AdminInv /\ req \in [Slots -> RequestStates]
    BY DEF IInv, Types
  <1>1. UNCHANGED <<user, tokens, sessions, apiTokens, clock, made, crossed>>
    BY DEF accountVars
  <1>2. /\ req' \in [Slots -> RequestStates]
        /\ \A q \in Slots : req'[q] = req[q] \/ req'[q].pc = "idle"
    BY <1>0, ReturnTypes DEF Idle
  <1>3. Types'
    BY <1>0, <1>1, <1>2 DEF Types, AccountsTypeOK
  <1>4. SessionInv'
    BY <1>0, <1>1, <1>2, SessionsKept DEF Types, AccountsTypeOK
  <1>5. AdminInv'
    BY <1>0, <1>1, <1>2, AdminsKept DEF ActiveAdmins
  <1> QED BY <1>3, <1>4, <1>5 DEF IInv

\* What is said of the requests that are about to write goes on to hold.
LEMMA WritersKept ==
    ASSUME IInv, req' = req \/ \E s \in Slots : Return(s), auto # None => auto' # None
    PROVE \A q \in Slots : req'[q].pc = "writeAuto" => auto' # None /\ UpdateFits(req'[q])
  <1>0. req \in [Slots -> RequestStates] /\ EditInv
    BY DEF IInv, Types
  <1>1. \A q \in Slots : req'[q] = req[q] \/ req'[q].pc = "idle"
    BY <1>0, ReturnTypes DEF Idle
  <1> QED BY <1>0, <1>1 DEF EditInv

\* HandleCreateAutomation.
LEMMA Creates ==
    ASSUME IInv, NEW s \in Slots, CreateAutomation(s)
    PROVE IInv'
  <1> DEFINE r == req[s]
  <1>0. /\ auto \in Definitions \cup {None} /\ minted \in Nat /\ firing \in FiringTypes
        /\ EditInv /\ r \in RequestStates /\ Return(s) /\ UNCHANGED <<accountVars, firing>>
    BY DEF IInv, Types, CreateAutomation
  <1>1. r \in EditRequests /\ r.op = "create"
    BY <1>0, RequestByStep DEF CreateAutomation
  <1>2. /\ r.who \in Users /\ r.role \in RequireEditor /\ r.trigger \in Triggers
        /\ r.level \in Levels
    BY <1>1 DEF EditRequests
  <1>3. NoEscalation'
    BY <1>0 DEF EditInv, NoEscalation
  <1>4. CASE UNCHANGED <<auto, minted>>
    BY <1>0, <1>3, <1>4, AccountsKept, WritersKept
       DEF EditInv, Decided, UpdateFits, DeletedIsDead, TokenFitsTrigger
  <1>5. CASE ~UNCHANGED <<auto, minted>>
    <2> DEFINE k == IF r.trigger = "webhook" THEN minted + 1 ELSE 0
               a == Saved(r.who, r.role, r.trigger, r.level, k)
    <2>1. /\ Authorise(TRUE, r.role, r.trigger, r.level) /\ auto = None /\ auto' = a
          /\ minted' = minted + (IF r.trigger = "webhook" THEN 1 ELSE 0)
      BY <1>5 DEF CreateAutomation
    <2>2. k \in Nat /\ minted' \in Nat /\ (k # 0 <=> r.trigger = "webhook")
      BY <1>0, <2>1
    <2> HIDE DEF k
    <2>3. /\ a \in Definitions /\ a.trigger = r.trigger /\ a.level = r.level /\ a.by = r.role
          /\ a.token = k /\ a.active
      BY <1>2, <2>2 DEF Saved, Definitions, Levels, RequireEditor
    <2> HIDE DEF a
    <2>4. a # None
      <3>1. "token" \in DOMAIN a /\ "token" \notin DOMAIN None
        BY <2>3 DEF None, Definitions
      <3> QED BY <3>1
    <2>5. Decided(a)
      BY <2>1, <2>3 DEF Authorise, Decided, Allows
    <2>6. DeletedIsDead' /\ TokenFitsTrigger'
      BY <2>1, <2>2, <2>3 DEF DeletedIsDead, TokenFitsTrigger
    <2>7. \A q \in Slots : req'[q].pc = "writeAuto" => auto' # None /\ UpdateFits(req'[q])
      BY <1>0, <2>1, <2>4, WritersKept
    <2>8. EditInv'
      BY <1>0, <1>3, <2>1, <2>5, <2>6, <2>7 DEF EditInv, Decided, UpdateFits
    <2> QED BY <1>0, <2>1, <2>2, <2>3, <2>8, AccountsKept
  <1> QED BY <1>4, <1>5

\* A row that is written is as its user was allowed, and its token fits.
LEMMA WrittenIsFitting ==
    ASSUME NEW row \in Definitions, NEW r \in WriteRequests, UpdateFits(r), Decided(row),
           Fits(row), minted \in Nat
    PROVE LET new == Written(row, r.who, r.role, r.update) IN
          new \in Definitions /\ Decided(new) /\ Fits(new) /\ new.active = row.active
  <1> DEFINE u == r.update
             new == Written(row, r.who, r.role, u)
             same == <<row.trigger, row.level>> = <<u.read.trigger, u.read.level>>
             trigger == IF u.pair = << >> THEN row.trigger ELSE u.pair[1]
             level == IF u.pair = << >> THEN row.level ELSE u.pair[2]
             by == IF u.pair # << >> \/ (u.binds /\ same) THEN r.role ELSE row.by
             token == CASE u.token = "keep" -> row.token [] u.token = "clear" -> 0
                        [] u.token = "new" -> minted + 1
             mixed == row.mixed \/ row.trigger # u.read.trigger
             enabled == IF u.enabled = "" THEN row.enabled ELSE u.enabled = "enable"
             runAs == IF u.binds THEN r.who ELSE row.runAs
  <1>1. u \in Updates /\ r.who \in Users /\ r.role \in Levels
    BY DEF WriteRequests, RequireEditor, Levels
  <1>2. /\ u.read \in Definitions /\ u.pair \in Pairs /\ u.token \in {"keep", "clear", "new"}
    BY <1>1 DEF Updates
  <1>3. /\ row.trigger \in Triggers /\ row.level \in Levels /\ row.by \in Levels
        /\ row.token \in Nat /\ row.mixed \in BOOLEAN /\ row.enabled \in BOOLEAN
        /\ row.runAs \in Users /\ row.active \in BOOLEAN
    BY DEF Definitions
  <1>4. u.pair # << >> => u.pair[1] \in Triggers /\ u.pair[2] \in Levels
    BY <1>2 DEF Pairs
  <1>5. /\ trigger \in Triggers /\ level \in Levels /\ by \in Levels
    BY <1>1, <1>3, <1>4
  <1>6. token \in Nat
    BY <1>2, <1>3
  <1>7. /\ mixed \in BOOLEAN /\ enabled \in BOOLEAN /\ runAs \in Users
    BY <1>1, <1>3
  <1>8. new = [row EXCEPT !.enabled = enabled, !.trigger = trigger, !.level = level,
                          !.runAs = runAs, !.token = token, !.by = by, !.mixed = mixed]
    BY DEF Written
  <1>9. Allows(by, trigger, level)
    <2>1. CASE u.pair # << >>
      BY <2>1 DEF UpdateFits
    <2>2. CASE u.pair = << >> /\ u.binds /\ same
      <3>1. row.trigger = u.read.trigger /\ row.level = u.read.level
        BY <2>2
      <3> QED BY <2>2, <3>1 DEF UpdateFits
    <2>3. CASE u.pair = << >> /\ ~(u.binds /\ same)
      BY <2>3 DEF Decided
    <2> QED BY <2>1, <2>2, <2>3
  <1>10. (trigger = "webhook" <=> token # 0) \/ mixed
    <2> SUFFICES ASSUME ~mixed PROVE trigger = "webhook" <=> token # 0
      OBVIOUS
    <2>1. row.trigger = u.read.trigger /\ (row.trigger = "webhook" <=> row.token # 0)
      BY DEF Fits
    <2>2. CASE u.token = "keep"
      BY <2>1, <2>2 DEF UpdateFits
    <2>3. CASE u.token = "clear"
      BY <2>3 DEF UpdateFits
    <2>4. CASE u.token = "new"
      <3>1. token # 0
        BY <2>4
      <3> QED BY <2>1, <2>4, <3>1 DEF UpdateFits
    <2> QED BY <1>2, <2>2, <2>3, <2>4
  <1> HIDE DEF new, trigger, level, by, token, mixed, enabled, runAs
  <1>11. /\ new \in Definitions /\ new.trigger = trigger /\ new.level = level /\ new.by = by
         /\ new.token = token /\ new.mixed = mixed /\ new.active = row.active
    BY <1>5, <1>6, <1>7, <1>8 DEF Definitions
  <1>12. Decided(new) /\ Fits(new)
    BY <1>9, <1>10, <1>11 DEF Decided, Fits
  <1> QED BY <1>11, <1>12 DEF new

\* UpdateAutomation.
LEMMA Writes ==
    ASSUME IInv, NEW s \in Slots, UpdateAutomation(s)
    PROVE IInv'
  <1> DEFINE r == req[s]
  <1>0. /\ auto \in Definitions \cup {None} /\ minted \in Nat /\ firing \in FiringTypes
        /\ EditInv /\ r \in RequestStates /\ Return(s) /\ UNCHANGED <<accountVars, firing>>
    BY DEF IInv, Types, UpdateAutomation
  <1>1. r \in WriteRequests /\ UpdateFits(r) /\ auto # None
    BY <1>0, RequestByStep DEF UpdateAutomation, EditInv
  <1>2. auto \in Definitions /\ Decided(auto)
    BY <1>0, <1>1 DEF EditInv
  <1>3. NoEscalation' /\ minted' \in Nat
    BY <1>0 DEF EditInv, NoEscalation, UpdateAutomation
  <1>4. \A a \in Definitions : a # None
    <2>1. \A a \in Definitions : "token" \in DOMAIN a /\ "token" \notin DOMAIN None
      BY DEF None, Definitions
    <2> QED BY <2>1
  <1>5. auto' \in Definitions /\ Decided(auto') /\ DeletedIsDead' /\ TokenFitsTrigger'
    <2>1. CASE auto.active
      <3>1. Fits(auto)
        BY <1>0, <2>1 DEF EditInv, TokenFitsTrigger, Fits
      <3>2. auto' = Written(auto, r.who, r.role, r.update)
        BY <2>1 DEF UpdateAutomation
      <3>3. auto' \in Definitions /\ Decided(auto') /\ Fits(auto') /\ auto'.active = auto.active
        BY <1>0, <1>1, <1>2, <3>1, <3>2, WrittenIsFitting
      <3> QED BY <2>1, <3>3 DEF DeletedIsDead, TokenFitsTrigger, Fits
    <2>2. CASE ~auto.active
      <3>1. auto' = auto
        BY <2>2 DEF UpdateAutomation
      <3> QED BY <1>0, <1>2, <3>1 DEF EditInv, DeletedIsDead, TokenFitsTrigger
    <2> QED BY <2>1, <2>2
  <1>6. \A q \in Slots : req'[q].pc = "writeAuto" => auto' # None /\ UpdateFits(req'[q])
    BY <1>0, <1>4, <1>5, WritersKept
  <1>7. EditInv'
    BY <1>0, <1>3, <1>5, <1>6 DEF EditInv, Decided, UpdateFits
  <1> QED BY <1>0, <1>3, <1>5, <1>7, AccountsKept

\* DeleteAutomation.
LEMMA Deletes ==
    ASSUME IInv, NEW s \in Slots, DeleteAutomation(s)
    PROVE IInv'
  <1>0. /\ auto \in Definitions \cup {None} /\ minted \in Nat /\ firing \in FiringTypes
        /\ EditInv /\ Return(s) /\ UNCHANGED <<accountVars, minted, firing>>
        /\ auto' = [auto EXCEPT !.active = FALSE, !.enabled = FALSE, !.token = 0]
    BY DEF IInv, Types, DeleteAutomation
  <1>1. auto \in Definitions /\ Decided(auto)
    BY <1>0 DEF DeleteAutomation, EditInv
  <1>2. NoEscalation'
    BY <1>0 DEF EditInv, NoEscalation
  <1>3. /\ auto' \in Definitions /\ ~auto'.active /\ ~auto'.enabled /\ auto'.token = 0
        /\ auto'.trigger = auto.trigger /\ auto'.level = auto.level /\ auto'.by = auto.by
    BY <1>0, <1>1 DEF Definitions
  <1>4. auto' # None
    <2>1. "token" \in DOMAIN auto' /\ "token" \notin DOMAIN None
      BY <1>3 DEF None, Definitions
    <2> QED BY <2>1
  <1>5. Decided(auto') /\ DeletedIsDead' /\ TokenFitsTrigger'
    BY <1>1, <1>3 DEF Decided, DeletedIsDead, TokenFitsTrigger
  <1>6. \A q \in Slots : req'[q].pc = "writeAuto" => auto' # None /\ UpdateFits(req'[q])
    BY <1>0, <1>4, WritersKept
  <1>7. EditInv'
    BY <1>0, <1>2, <1>5, <1>6 DEF EditInv, Decided, UpdateFits
  <1> QED BY <1>0, <1>3, <1>7, AccountsKept

\* Firings and their ends: what runs is a copy of the row, and acts only when
\* its identity still may.
LEMMA Fires ==
    ASSUME IInv,
           \/ FireScheduled \/ Execute \/ FiringEnds
           \/ \E k \in 1 .. minted : FireWebhook(k)
           \/ \E s \in Slots : RunAutomation(s)
    PROVE IInv'
  <1>0. /\ auto \in Definitions \cup {None} /\ minted \in Nat /\ firing \in FiringTypes
        /\ EditInv /\ user \in [Users -> UserType]
    BY DEF IInv, Types, AccountsTypeOK
  <1>1. UNCHANGED <<accountVars, auto, minted>> /\ (req' = req \/ \E s \in Slots : Return(s))
    BY DEF FireScheduled, Execute, FiringEnds, FireWebhook, RunAutomation
  <1>2. /\ auto' \in Definitions \cup {None} /\ minted' \in Nat
        /\ DeletedIsDead' /\ TokenFitsTrigger'
    BY <1>0, <1>1 DEF EditInv, DeletedIsDead, TokenFitsTrigger
  <1>3. \A q \in Slots : req'[q].pc = "writeAuto" => auto' # None /\ UpdateFits(req'[q])
    BY <1>1, WritersKept
  <1>4. firing' \in FiringTypes /\ NoEscalation' /\ (firing'.pc # "idle" => Decided(firing'.copy))
    <2>1. CASE auto.active /\ Fire(auto)
      <3>1. auto \in Definitions /\ Decided(auto)
        BY <1>0, <2>1 DEF None, EditInv
      <3>2. firing' = [pc |-> "fire", copy |-> auto]
        BY <2>1 DEF Fire
      <3> QED BY <3>1, <3>2 DEF FiringTypes, NoEscalation
    <2>2. CASE UNCHANGED firing
      BY <1>0, <2>2 DEF EditInv, NoEscalation
    <2>3. CASE firing' = NoFiring
      BY <2>3 DEF NoFiring, FiringTypes, NoEscalation
    <2>4. CASE Execute /\ firing' # NoFiring
      <3> DEFINE copy == firing.copy
                 as == user[copy.runAs]
      <3>1. /\ firing.pc = "fire" /\ firing' = [pc |-> "acting", copy |-> copy, role |-> as.role]
            /\ Authorise(as.active, as.role, copy.trigger, copy.level)
        BY <2>4 DEF Execute
      <3>2. copy \in Definitions
        BY <1>0, <3>1 DEF FiringTypes, NoFiring
      <3>3. as \in UserType
        BY <1>0, <3>2 DEF Definitions
      <3>4. as.role \in Roles \cup {"none"}
        BY <3>3 DEF UserType
      <3>5. Decided(copy)
        BY <1>0, <3>1 DEF EditInv
      <3> HIDE DEF as, copy
      <3>6. /\ firing'.pc = "acting" /\ firing'.copy = copy /\ firing'.role = as.role
            /\ firing' \in FiringTypes
        BY <3>1, <3>2, <3>4 DEF FiringTypes
      <3>7. NoEscalation'
        BY <3>1, <3>5, <3>6 DEF NoEscalation, Decided, Allows, Authorise
      <3> QED BY <3>5, <3>6, <3>7
    <2> QED BY <2>1, <2>2, <2>3, <2>4
            DEF FireScheduled, Execute, FiringEnds, FireWebhook, RunAutomation,
                GetAutomationByWebhookHash
  <1>5. EditInv'
    BY <1>0, <1>1, <1>2, <1>3, <1>4 DEF EditInv, Decided, UpdateFits
  <1> QED BY <1>1, <1>2, <1>4, <1>5, AccountsKept

-----------------------------------------------------------------------------
(* The theorems.                                                             *)

\* All that is inductive holds at first.
LEMMA InitInv == Init => IInv
  <1> SUFFICES ASSUME Init PROVE IInv
    OBVIOUS
  <1>0. AccountsInit /\ firing = NoFiring
    BY DEF Init
  <1>1. \A role \in Roles \cup {"none"} : Row(role) \in UserType /\ Row(role).role = role
                                          /\ Row(role).active
    <2>1. 0 \in 0 .. MaxTime
      BY AccountsAssumption
    <2> QED BY <2>1 DEF Row, UserType
  <1>2. /\ user \in [Users -> UserType]
        /\ \A u \in Users : user[u] = Row(IF u \in Admins THEN "admin"
                                          ELSE IF u \in Editors THEN "editor" ELSE "none")
    BY <1>0, <1>1 DEF AccountsInit, Roles
  <1>3. /\ tokens \subseteq TokenType
        /\ \A t \in tokens : t.user \in Admins \cup Editors /\ t.iat = 1 /\ ~t.ended
    <2>1. 1 \in 1 .. MaxTime
      BY AccountsAssumption
    <2> QED BY <1>0, <2>1 DEF AccountsInit, TokenType, Users
  <1>4. req \in [Slots -> RequestStates] /\ \A s \in Slots : req[s] = Idle /\ req[s].pc = "idle"
    BY <1>0 DEF AccountsInit, RequestStates, Idle
  <1>5. AccountsTypeOK
    <2>1. sessions = {} /\ apiTokens = {} /\ clock = 1 /\ made = 0 /\ crossed = FALSE
      BY <1>0 DEF AccountsInit
    <2>2. clock \in 1 .. MaxTime /\ made \in 0 .. MaxRequests
      BY <2>1, AccountsAssumption
    <2> QED BY <1>2, <1>3, <2>1, <2>2 DEF AccountsTypeOK
  <1>6. SessionInv
    <2>1. \A u \in Admins \cup Editors : u \in Users /\ user[u].role # "none"
      BY <1>1, <1>2 DEF Users, Roles
    <2>2. clock = 1
      BY <1>0 DEF AccountsInit
    <2> QED BY <1>3, <1>4, <2>1, <2>2 DEF SessionInv
  <1>7. AdminInv
    <2>1. PICK a \in Admins : TRUE
      BY AccountsAssumption
    <2>2. a \in ActiveAdmins
      BY <1>1, <1>2 DEF ActiveAdmins, Users, Roles
    <2> QED BY <1>4, <2>2 DEF AdminInv, AdminRemains, LeavesAdmin
  <1> DEFINE Good == /\ auto \in Definitions \cup {None} /\ minted \in Nat
                     /\ (auto # None => Decided(auto)) /\ DeletedIsDead /\ TokenFitsTrigger
  <1>8. Good
    <2>1. CASE auto = None /\ minted = 0
      BY <2>1 DEF DeletedIsDead, TokenFitsTrigger, None
    <2>2. ASSUME NEW u \in Editors, auto = Saved(u, "editor", "schedule", "editor", 0), minted = 0
          PROVE Good
      BY <2>2 DEF Saved, Definitions, Decided, Allows, roleAllows, triggerRole, Rank, Triggers,
                  Levels, Users, DeletedIsDead, TokenFitsTrigger
    <2>3. ASSUME NEW u \in Admins, auto = Saved(u, "admin", "webhook", "editor", 1), minted = 1
          PROVE Good
      BY <2>3 DEF Saved, Definitions, Decided, Allows, roleAllows, triggerRole, Rank, Triggers,
                  Levels, Users, DeletedIsDead, TokenFitsTrigger
    <2> QED BY <2>1, <2>2, <2>3 DEF Init
  <1>9. firing \in FiringTypes /\ firing.pc = "idle"
    BY <1>0 DEF FiringTypes, NoFiring
  <1>10. EditInv
    BY <1>4, <1>8, <1>9 DEF EditInv, NoEscalation
  <1> QED BY <1>4, <1>5, <1>6, <1>7, <1>8, <1>9, <1>10 DEF IInv, Types

\* Every step keeps it.
LEMMA NextInv == ASSUME IInv, [Next]_vars PROVE IInv'
  <1>1. CASE AccountsNext /\ UNCHANGED editVars
    BY <1>1, Provider, Mints, Revokes, Guards, UpdatesUser, DeletesUser, ApiTokenWrites, SignIns,
       CreatesUser, Arrivals DEF AccountsNext
  <1>2. CASE \/ FireScheduled \/ Execute \/ FiringEnds
             \/ \E k \in 1 .. minted : FireWebhook(k)
             \/ \E s \in Slots : RunAutomation(s)
    BY <1>2, Fires
  <1>3. ASSUME NEW s \in Slots,
               CreateAutomation(s) \/ LoadAutomation(s) \/ UpdateAutomation(s) \/ DeleteAutomation(s)
        PROVE IInv'
    BY <1>3, Creates, Loads, Writes, Deletes
  <1>4. ASSUME NEW s \in Slots, NEW u \in Callers(s), NEW e \in Edits, BeginEdit(s, u, e)
        PROVE IInv'
    <2>1. UNCHANGED editVars
      BY <1>4 DEF BeginEdit
    <2> QED BY <1>4, <2>1, Arrivals
  <1>5. CASE UNCHANGED vars
    <2>1. UNCHANGED accountVars /\ req' = req /\ UNCHANGED editVars /\ Types /\ EditInv
      BY <1>5 DEF vars, IInv
    <2>2. auto' \in Definitions \cup {None} /\ minted' \in Nat /\ firing' \in FiringTypes
      BY <2>1 DEF Types, editVars
    <2>3. EditInv'
      BY <2>1, EditsKept
    <2> QED BY <2>1, <2>2, <2>3, AccountsKept
  <1> QED BY <1>1, <1>2, <1>3, <1>4, <1>5 DEF Next

LEMMA Inductive == Spec => []IInv
  BY InitInv, NextInv, PTL DEF Spec

\* No access token of a sign-in that a revocation ended is accepted, unless the
\* refresh that minted it had passed its check before.
THEOREM LogoutIsFinal == Spec => []LogoutHolds
  <1>1. ASSUME IInv PROVE LogoutHolds
    <2> SUFFICES ASSUME NEW t \in tokens, t.ended, ValidAccess(t), ~t.raced PROVE FALSE
      BY DEF LogoutHolds
    <2>1. user[t.user].revoked # 0 /\ t.iat <= user[t.user].revoked
      BY <1>1 DEF IInv, SessionInv
    <2>2. t.iat \in Nat /\ t.user \in Users
      BY <1>1 DEF IInv, Types, AccountsTypeOK, TokenType
    <2>3. user[t.user].revoked \in Nat
      BY <1>1, <2>2 DEF IInv, Types, AccountsTypeOK, UserType
    <2> QED BY <2>1, <2>2, <2>3 DEF ValidAccess, IssuedAfter
  <1>2. IInv => LogoutHolds
    BY <1>1
  <1> QED BY <1>2, Inductive, PTL

\* The final active admin is demoted, deactivated or deleted only on a count,
\* or by an admin, that another removal had overtaken.
THEOREM AnAdminRemains == Spec => []AdminRemains
  <1>1. IInv => AdminRemains
    BY DEF IInv, AdminInv
  <1> QED BY <1>1, Inductive, PTL

\* Whatever edits, enables and role changes cross, an automation that acts was
\* decided by a role that may do all of it, and runs as one that may.
THEOREM NothingEscalates == Spec => []NoEscalation
  <1>1. IInv => NoEscalation
    BY DEF IInv, EditInv
  <1> QED BY <1>1, Inductive, PTL

\* An update that read the row before it was deleted does not revive it.
THEOREM DeletedStaysDead == Spec => []DeletedIsDead
  <1>1. IInv => DeletedIsDead
    BY DEF IInv, EditInv
  <1> QED BY <1>1, Inductive, PTL

\* Exactly the automations with a webhook have a token, as long as no write
\* meets another trigger than the one it had read.
THEOREM TokenAlwaysFits == Spec => []TokenFitsTrigger
  <1>1. IInv => TokenFitsTrigger
    BY DEF IInv, EditInv
  <1> QED BY <1>1, Inductive, PTL
=============================================================================
