--------------------------- MODULE AutomationEdits ---------------------------
(***************************************************************************)
(* The definition of one automation and who may decide it: the requests    *)
(* that create, edit, enable, rotate, run and delete it, each reading the  *)
(* row, authorising the user on what it read and writing in a statement of *)
(* its own, beside changes of the users themselves; and the firings that   *)
(* run it as the identity the row names.                                   *)
(*                                                                         *)
(* An automation's steps are abstracted to the highest role one of them    *)
(* requires: editor for redeploy_container, admin for http_request.        *)
(***************************************************************************)
EXTENDS Accounts

CONSTANTS Firings   \* how it is fired: "webhook", "schedule" and "run"

ASSUME FiringsAssumption == Firings \subseteq {"webhook", "schedule", "run"}

VARIABLES
    auto,     \* the automations row, with two histories: by, the role of the
              \* request that last decided the definition, and mixed, whether
              \* a write met another trigger than the one it had read
    minted,   \* webhook tokens generated so far
    firing    \* the firing under way

editVars == <<auto, minted, firing>>
vars == <<accountVars, req, editVars>>

Triggers == {"schedule", "webhook"}

\* requiredRole of redeploy_container and of http_request.
Levels == {"editor", "admin"}
Definition == [active : BOOLEAN, enabled : BOOLEAN, trigger : Triggers, level : Levels,
               runAs : Users, token : 0 .. MaxRequests + 1, by : Levels, mixed : BOOLEAN]

None == [active |-> FALSE]
NoFiring == [pc |-> "idle"]

(***************************************************************************)
(* Users, credentials, requests and the row keep to their vocabularies.    *)
(***************************************************************************)
TypeOK ==
    /\ AccountsTypeOK
    /\ \A s \in Slots : \/ AccountRequest(req[s])
                        \/ /\ req[s].pc \in {"edit", "writeAuto"} /\ req[s].role \in RequireEditor
    /\ auto \in Definition \cup {None}
    /\ minted \in 0 .. MaxRequests + 1
    /\ firing.pc \in {"idle", "fire", "acting"}
    /\ firing.pc # "idle" => firing.copy \in Definition

Saved(u, role, trigger, level, token) ==
    [active |-> TRUE, enabled |-> TRUE, trigger |-> trigger, level |-> level,
     runAs |-> u, token |-> token, by |-> role, mixed |-> FALSE]

\* At first there is none, an editor's scheduled redeployment or an admin's webhook.
Init ==
    /\ AccountsInit /\ firing = NoFiring
    /\ \/ auto = None /\ minted = 0
       \/ \E u \in Editors : auto = Saved(u, "editor", "schedule", "editor", 0) /\ minted = 0
       \/ \E u \in Admins : auto = Saved(u, "admin", "webhook", "editor", 1) /\ minted = 1

-----------------------------------------------------------------------------
(* Authorisation.                                                            *)

Rank(role) == CASE role = "admin" -> 3 [] role = "editor" -> 2 [] role = "viewer" -> 1
                [] OTHER -> 0

roleAllows(have, need) == Rank(have) > 0 /\ Rank(have) >= Rank(need)

triggerRole(trigger) == IF trigger = "webhook" THEN "admin" ELSE "editor"

Authorise(active, role, trigger, level) ==
    /\ active /\ Rank(role) > 0
    /\ roleAllows(role, triggerRole(trigger)) /\ roleAllows(role, level)

-----------------------------------------------------------------------------
(* Requests.  One that changes the row carries op and what its body sets: a  *)
(* trigger, a level, whether it is enabled, "" for what it leaves out.       *)

Edits == [op : {"create"}, trigger : Triggers, level : Levels, enabled : {""}]
    \cup [op : {"update"}, trigger : Triggers \cup {""},
          level : Levels \cup {""}, enabled : {""}]
    \cup [op : {"update"}, trigger : {""}, level : {""}, enabled : {"enable"}]
    \cup [op : {"enable"}, trigger : {""}, level : {""}, enabled : {"enable"}]
    \cup [op : {"disable"}, trigger : {""}, level : {""}, enabled : {"disable"}]
    \cup [op : {"rotate", "deleteAuto", "run"},
          trigger : {""}, level : {""}, enabled : {""}]

BeginEdit(s, u, edit) ==
    /\ Arrive(s, edit.op, u, RequireEditor,
              [pc |-> "edit", who |-> u, role |-> user[u].role, op |-> edit.op,
               trigger |-> edit.trigger, level |-> edit.level, enabled |-> edit.enabled])
    /\ UNCHANGED <<user, tokens, sessions, apiTokens, clock, crossed, editVars>>

\* HandleEnableAutomation, or an update that finds it disabled.
Enables(r, row) == r.op = "enable" \/ (r.enabled = "enable" /\ ~row.enabled)

Or(new, old) == IF new = "" THEN old ELSE new

\* HandleCreateAutomation: the insert, once authorised.
CreateAutomation(s) ==
    LET r == req[s] IN
    /\ r.pc = "edit" /\ r.op = "create"
    /\ IF Authorise(TRUE, r.role, r.trigger, r.level) /\ auto = None
       THEN /\ minted' = minted + (IF r.trigger = "webhook" THEN 1 ELSE 0)
            /\ auto' = Saved(r.who, r.role, r.trigger, r.level,
                             IF r.trigger = "webhook" THEN minted + 1 ELSE 0)
       ELSE UNCHANGED <<auto, minted>>
    /\ Return(s) /\ UNCHANGED <<accountVars, firing>>

\* Mutant: a trigger that stops being a webhook keeps its token.
UpdateKeepsToken(r, row) ==
    LET trigger == Or(r.trigger, row.trigger)
        redefined == r.trigger # "" \/ r.level # ""
    IN [read    |-> row,
        pair    |-> IF redefined THEN <<trigger, Or(r.level, row.level)>> ELSE <<>>,
        binds   |-> redefined \/ Enables(r, row),
        enabled |-> r.enabled,
        token   |-> IF r.op = "rotate" \/ (trigger # row.trigger /\ trigger = "webhook")
                    THEN "new" ELSE "keep"]

\* The update of a request whose handler has read the row as it is now.  A
\* redefinition writes the trigger and the actions together.
Update(r, row) ==
    LET trigger == Or(r.trigger, row.trigger)
        redefined == r.trigger # "" \/ r.level # ""
    IN [read    |-> row,
        pair    |-> IF redefined THEN <<trigger, Or(r.level, row.level)>> ELSE <<>>,
        binds   |-> redefined \/ Enables(r, row),
        enabled |-> r.enabled,
        token   |-> CASE r.op = "rotate" -> "new"
                      [] trigger = row.trigger -> "keep"
                      [] trigger # row.trigger -> IF trigger = "webhook" THEN "new" ELSE "clear"]

\* Mutant: an edit is left for the runs to refuse.
AuthorisedLater(r, row) ==
    \/ r.op \in {"update", "disable", "deleteAuto"}
    \/ Authorise(TRUE, r.role, row.trigger, row.level)

\* What the user has to be authorised for: everything but switching it off, and
\* an update that finds it switched on already.
Authorised(r, row) ==
    \/ r.op \in {"disable", "deleteAuto"}
    \/ r.op = "update" /\ r.trigger = "" /\ r.level = "" /\ ~Enables(r, row)
    \/ Authorise(TRUE, r.role, Or(r.trigger, row.trigger), Or(r.level, row.level))

\* loadAutomation and the checks on what it returned.
LoadAutomation(s) ==
    LET r == req[s] IN
    /\ r.pc = "edit" /\ r.op \notin {"create", "run"}
    /\ IF auto.active /\ Authorised(r, auto)
          /\ (r.op = "rotate" => auto.trigger = "webhook")
       THEN req' = [req EXCEPT ![s] = [pc |-> "writeAuto", who |-> r.who, role |-> r.role,
                                       op |-> r.op, update |-> Update(r, auto)]]
       ELSE Return(s)
    /\ UNCHANGED <<accountVars, editVars>>

\* The row after UpdateAutomation has written update for user u.
Written(row, u, role, update) ==
    LET same == <<row.trigger, row.level>> = <<update.read.trigger, update.read.level>> IN
    [row EXCEPT !.enabled = IF update.enabled = "" THEN @ ELSE update.enabled = "enable",
                !.trigger = IF update.pair = <<>> THEN @ ELSE update.pair[1],
                !.level = IF update.pair = <<>> THEN @ ELSE update.pair[2],
                !.runAs = IF update.binds THEN u ELSE @,
                !.token = CASE update.token = "keep" -> @ [] update.token = "clear" -> 0
                            [] update.token = "new" -> minted + 1,
                !.by = IF update.pair # <<>> \/ (update.binds /\ same) THEN role ELSE @,
                !.mixed = @ \/ row.trigger # update.read.trigger]

\* Mutant: the row is written although it has been retired.
UpdateAutomationAnyway(s) ==
    LET r == req[s] IN
    /\ r.pc = "writeAuto" /\ r.op # "deleteAuto"
    /\ auto' = Written(auto, r.who, r.role, r.update)
    /\ minted' = minted + (IF r.update.token = "new" THEN 1 ELSE 0)
    /\ Return(s) /\ UNCHANGED <<accountVars, firing>>

\* UpdateAutomation: the row, if it is still active.
UpdateAutomation(s) ==
    LET r == req[s] IN
    /\ r.pc = "writeAuto" /\ r.op # "deleteAuto"
    /\ auto' = IF auto.active THEN Written(auto, r.who, r.role, r.update) ELSE auto
    /\ minted' = minted + (IF r.update.token = "new" THEN 1 ELSE 0)
    /\ Return(s) /\ UNCHANGED <<accountVars, firing>>

DeleteAutomation(s) ==
    /\ req[s].pc = "writeAuto" /\ req[s].op = "deleteAuto"
    /\ auto' = [auto EXCEPT !.active = FALSE, !.enabled = FALSE, !.token = 0]
    /\ Return(s) /\ UNCHANGED <<accountVars, minted, firing>>

-----------------------------------------------------------------------------
(* Firings, which go on with the row they read.                              *)

Fire(copy) == firing = NoFiring /\ firing' = [pc |-> "fire", copy |-> copy]

GetAutomationByWebhookHash(token) == auto.active /\ auto.token = token

\* FireWebhook, with any token ever given out.
FireWebhook(token) ==
    /\ "webhook" \in Firings
    /\ GetAutomationByWebhookHash(token) /\ auto.trigger = "webhook" /\ Fire(auto)
    /\ UNCHANGED <<accountVars, req, auto, minted>>

\* ListScheduledAutomations and FireScheduled.
FireScheduled ==
    /\ "schedule" \in Firings
    /\ auto.active /\ auto.enabled /\ auto.trigger = "schedule" /\ Fire(auto)
    /\ UNCHANGED <<accountVars, req, auto, minted>>

\* HandleRunAutomation: the person pressing it is authorised too.
RunAutomation(s) ==
    LET r == req[s] IN
    /\ r.pc = "edit" /\ r.op = "run"
    /\ IF auto.active /\ Authorised(r, auto) THEN Fire(auto) ELSE UNCHANGED firing
    /\ Return(s) /\ UNCHANGED <<accountVars, auto, minted>>

\* execute, up to its first step: the identity of the copy, as it is now.
Execute ==
    LET copy == firing.copy
        as == user[copy.runAs]
    IN
    /\ firing.pc = "fire"
    /\ firing' = IF copy.enabled /\ Authorise(as.active, as.role, copy.trigger, copy.level)
                 THEN [pc |-> "acting", copy |-> copy, role |-> as.role]
                 ELSE NoFiring
    /\ UNCHANGED <<accountVars, req, auto, minted>>

FiringEnds ==
    /\ firing.pc = "acting" /\ firing' = NoFiring
    /\ UNCHANGED <<accountVars, req, auto, minted>>

-----------------------------------------------------------------------------
Next ==
    \/ AccountsNext /\ UNCHANGED editVars
    \/ FireScheduled \/ Execute \/ FiringEnds
    \/ \E k \in 1 .. minted : FireWebhook(k)
    \/ \E s \in Slots :
          \/ CreateAutomation(s) \/ LoadAutomation(s) \/ UpdateAutomation(s)
          \/ DeleteAutomation(s) \/ RunAutomation(s)
          \/ \E u \in Callers(s), e \in Edits : BeginEdit(s, u, e)

Spec == Init /\ [][Next]_vars
-----------------------------------------------------------------------------
(* Properties                                                                *)

(***************************************************************************)
(* "an automation can never do more than its identity can do TODAY", nor   *)
(* more than the person who last decided it could ("an editor could add an *)
(* admin-only step to an admin's automation and have it run with the       *)
(* admin's authority", authorize.go): whatever edits, enables and role     *)
(* changes crossed, what acts was decided and is run by a role that may.   *)
(***************************************************************************)
NoEscalation ==
    firing.pc = "acting" =>
        LET d == firing.copy IN
        \A need \in {triggerRole(d.trigger), d.level} :
            roleAllows(firing.role, need) /\ roleAllows(d.by, need)

(***************************************************************************)
(* "a leaked webhook URL is dead the moment the automation is"             *)
(* (DeleteAutomation): no edit, enable or rotation that read the row       *)
(* before gives a deleted automation a token or turns it on again.         *)
(***************************************************************************)
DeletedIsDead == auto # None /\ ~auto.active => auto.token = 0 /\ ~auto.enabled

(***************************************************************************)
(* A webhook automation has a token and a scheduled one none, through any  *)
(* sequence of edits (HandleUpdateAutomation), unless one of them wrote    *)
(* over a trigger it had not read.                                         *)
(***************************************************************************)
TokenFitsTrigger ==
    auto.active => (auto.trigger = "webhook" <=> auto.token # 0) \/ auto.mixed
=============================================================================
