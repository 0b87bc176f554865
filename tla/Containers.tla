------------------------------ MODULE Containers ------------------------------
(***************************************************************************)
(* The state of one container as its runner reports it and as the rows     *)
(* show it: the command to the worker, its answer, the health reports and  *)
(* the periodic sync, each handled by a goroutine that looks the row up    *)
(* through the name cache, and the requests and deployments that write the *)
(* same rows beside them.                                                  *)
(*                                                                         *)
(* The rows are those that have borne the container's name, in the order   *)
(* of their ids, be they of one stack or of two; one that has lost the     *)
(* name is no longer active here.  A step is one critical section of the   *)
(* cache or one database statement.  container_status is handled on the read pump,      *)
(* which reads nothing else meanwhile; the other reports take a place in   *)
(* the pool, and one that finds none holds the pump until there is one.    *)
(***************************************************************************)
EXTENDS Integers, FiniteSets, Bags

CONSTANTS MaxRows,      \* bound: rows that bear the name
          PoolSize,     \* the handlers under way at once, the pump's own included
          LiveStatus,   \* what the runner reports of the container
          Actions,      \* the commands sent
          MaxChanges    \* bound: commands, edits, deployments, deletions, restarts,
                        \* failed statements and changes on the host

Rows == 1 .. MaxRows

ASSUME ContainersAssumption ==
    /\ MaxRows \in Nat \ {0} /\ MaxChanges \in Nat
    /\ PoolSize \in Nat /\ {"running", "stopped"} \subseteq LiveStatus
    /\ LiveStatus \subseteq {"running", "stopped", "paused", "restarting"}
    /\ "remove" \in Actions
    /\ Actions \subseteq {"start", "restart", "recreate", "unpause", "stop", "kill", "remove",
                         "pause"}

VARIABLES
    row,        \* containers: active, status, health_status, health_check
    cache,      \* containerNameCache.entries for the name; an entry past
                \* cacheTTL is as good as none
    live,       \* the container on the worker's host: status, health, and
                \* whether it has a health check
    answer,     \* the container_status the runner has sent for a command
    handlers,   \* the reports being handled, a bag
    asked,      \* the rows whose deletion, and the number of creations, are
                \* past their first statement
    changes

vars == <<row, cache, live, answer, handlers, asked, changes>>

\* HasHealthCheck is true of "set" only: a cleared check is stored as "".
Checks == {"null", "set", "cleared"}
Status == LiveStatus \cup {"pending", "error"}
Health == {"none", "starting", "healthy", "unhealthy"}
RowType == [active : BOOLEAN, status : Status, health : Health, check : Checks]

Absent == [id |-> 0]
Copy(id) == [id |-> id, row |-> row[id]]
Copies == {Absent} \cup [id : Rows, row : RowType]
Kinds == {"status", "health", "sync", "name"}
Reports == [kind : {"status"}, action : Actions]
    \cup [kind : {"health"}, health : Health]
    \cup [kind : {"sync"}, status : LiveStatus, check : BOOLEAN]
    \cup [kind : {"name"}]
Handlers == [pc : {"lookup", "store", "apply", "invalidate"}, report : Reports, copy : Copies]

(***************************************************************************)
(* Rows, cache, handlers and messages keep to their kinds of value.        *)
(***************************************************************************)
TypeOK ==
    /\ row \in [Rows -> RowType] /\ cache \in Copies
    /\ live \in [status : LiveStatus, health : Health, check : BOOLEAN]
    /\ answer \in Actions \cup {"none"}
    /\ IsABag(handlers) /\ DOMAIN handlers \subseteq Handlers
    /\ BagCardinality(handlers) <= PoolSize
    /\ asked \in [delete : SUBSET Rows, create : 0 .. MaxChanges]
    /\ changes \in 0 .. MaxChanges

NewRow == [active |-> TRUE, status |-> "pending", health |-> "none", check |-> "set"]
NoRow == [NewRow EXCEPT !.active = FALSE]

NoneAsked == [delete |-> {}, create |-> 0]

Init ==
    /\ row = [r \in Rows |-> IF r = 1 THEN [NewRow EXCEPT !.status = "running"] ELSE NoRow]
    /\ cache = Absent
    /\ live = [status |-> "running", health |-> "healthy", check |-> TRUE]
    /\ answer = "none"
    /\ handlers = EmptyBag /\ asked = NoneAsked
    /\ changes = 0

Active == {r \in Rows : row[r].active}

\* GetContainerByName: the active row with the greatest id.
Current == CHOOSE r \in Active : \A q \in Active : q <= r

Change == changes < MaxChanges /\ changes' = changes + 1

-----------------------------------------------------------------------------
(* The worker's host.                                                        *)

\* What a container's health is when it has just started.
HealthAtStart(check) == IF check THEN "starting" ELSE "none"

HostChanges ==
    /\ Change
    /\ \E s \in LiveStatus \ {live.status} :
          live' = [live EXCEPT !.status = s,
                               !.health = IF s = "running" THEN HealthAtStart(live.check) ELSE @]
    /\ UNCHANGED <<row, cache, answer, handlers, asked>>

Probe ==
    /\ live.status = "running" /\ live.check
    /\ \/ live.health = "starting" /\ live' = [live EXCEPT !.health = "healthy"]
          /\ UNCHANGED changes
       \/ Change /\ live.health = "healthy" /\ live' = [live EXCEPT !.health = "unhealthy"]
    /\ UNCHANGED <<row, cache, answer, handlers, asked>>

StatusOf(action) ==
    CASE action \in {"stop", "remove", "kill"} -> "stopped"
      [] action \in {"start", "restart", "recreate", "unpause"} -> "running"
      [] action = "pause" -> "paused"

\* The runner carries out a command it was sent and answers.
Perform(action) ==
    /\ answer = "none" /\ answer' = action
    /\ live' = [live EXCEPT !.status = StatusOf(action),
                            !.health = IF action \in {"start", "restart", "recreate"}
                                       THEN HealthAtStart(live.check) ELSE @]

\* A deployment replaces the container by one with the check the row has.
Deploy ==
    /\ Change /\ Active # {}
    /\ LET check == row[Current].check = "set"
       IN live' = [status |-> "running", health |-> HealthAtStart(check), check |-> check]
    /\ UNCHANGED <<row, cache, answer, handlers, asked>>

-----------------------------------------------------------------------------
(* Requests and deployments: package routers cannot reach the cache.         *)

\* sendContainerAction and RecreateContainer.
SendContainerAction(action) ==
    /\ Change /\ Active # {} /\ Perform(action)
    /\ UNCHANGED <<row, cache, handlers, asked>>

\* The filters of HandleStartStack, HandleStopStack and HandleRestartStack.
BulkFilter(action) ==
    IF action = "start" THEN {"stopped", "error"} ELSE {"running"}

StackBulkAction(action) ==
    /\ action \in {"start", "stop", "restart"}
    /\ Change /\ Active # {} /\ row[Current].status \in BulkFilter(action)
    /\ Perform(action)
    /\ UNCHANGED <<row, cache, handlers, asked>>

\* What deployments and editors write: a status the host may have and one it
\* never has.
Written == {"running", "error"}

\* The stack's deployment has settled; the cache is not told.
DeploymentWrites(status) ==
    /\ Change /\ Active # {} /\ row' = [row EXCEPT ![Current].status = status]
    /\ UNCHANGED <<cache, live, answer, handlers, asked>>

\* HandleUpdateContainer, a column at a time.  Clearing the health check clears
\* its verdict.  A row loses the name when it is retired or renamed, and takes it
\* when it is brought back or renamed to it, which tests nothing.
UpdateContainer(r) ==
    /\ Change /\ row[r] # NoRow
    /\ \/ row' = [row EXCEPT ![r].active = ~@]
       \/ \E s \in Written : row' = [row EXCEPT ![r].status = s]
       \/ row' = [row EXCEPT ![r].check = "set"]
       \/ row' = [row EXCEPT ![r].check = "cleared", ![r].health = "none"]
    /\ UNCHANGED <<cache, live, answer, handlers, asked>>

\* HandleDeleteContainer: the remove command is sent if the worker is there, and
\* the row retired by the next statement.
DeleteContainer ==
    /\ Change /\ Active # {} /\ asked' = [asked EXCEPT !.delete = @ \cup {Current}]
    /\ Perform("remove") \/ UNCHANGED <<live, answer>>
    /\ UNCHANGED <<row, cache, handlers>>

RetireRow(r) ==
    /\ r \in asked.delete /\ asked' = [asked EXCEPT !.delete = @ \ {r}]
    /\ row' = [row EXCEPT ![r].active = FALSE]
    /\ UNCHANGED <<cache, live, answer, handlers, changes>>

\* HandleCreateContainer: the name is free, and the row is inserted by the next
\* statement; its deployment is another change.
CreateContainer ==
    /\ Change /\ Active = {} /\ asked' = [asked EXCEPT !.create = @ + 1]
    /\ UNCHANGED <<row, cache, live, answer, handlers>>

InsertRow(r) ==
    /\ asked.create > 0 /\ asked' = [asked EXCEPT !.create = @ - 1]
    /\ row[r] = NoRow /\ \A q \in 1 .. r - 1 : row[q] # NoRow
    /\ row' = [row EXCEPT ![r] = NewRow]
    /\ UNCHANGED <<cache, live, answer, handlers, changes>>

-----------------------------------------------------------------------------
(* The read pump and the pool.                                               *)

\* The reports the pump handles itself, reading nothing else meanwhile.
OnPump == {"status", "name"}

Begin(report) ==
    /\ BagCardinality(handlers) < PoolSize
    /\ \A h \in DOMAIN handlers : h.report.kind \notin OnPump
    /\ handlers' = handlers (+) SetToBag({[pc |-> "lookup", report |-> report, copy |-> Absent]})

ReceiveStatus ==
    /\ answer # "none" /\ answer' = "none"
    /\ Begin([kind |-> "status", action |-> answer])
    /\ UNCHANGED <<row, cache, live, asked, changes>>

\* A report made now, read now: what delays it is the pool.
ReceiveHealth ==
    /\ live.status = "running" /\ live.check
    /\ Begin([kind |-> "health", health |-> live.health])
    /\ UNCHANGED <<row, cache, live, answer, asked, changes>>

ReceiveSync ==
    /\ Begin([kind |-> "sync", status |-> live.status, check |-> live.check])
    /\ UNCHANGED <<row, cache, live, answer, asked, changes>>

\* Metrics and lifecycle lines, which only need the row's id.
ReceiveName ==
    /\ Begin([kind |-> "name"])
    /\ UNCHANGED <<row, cache, live, answer, asked, changes>>

\* A handler goes on, or returns.
Become(h, g) == handlers' = (handlers (-) SetToBag({h})) (+) SetToBag({g})
Continue(h, pc) == Become(h, [h EXCEPT !.pc = pc])
Return(h) == handlers' = handlers (-) SetToBag({h})

-----------------------------------------------------------------------------
(* The cache.                                                                *)

\* GetContainerByName of the cache: the entry, or the row, which is stored in
\* a critical section of its own.
Lookup(h) ==
    /\ h.pc = "lookup"
    /\ \/ cache # Absent /\ Become(h, [h EXCEPT !.pc = "apply", !.copy = cache])
       \/ /\ cache = Absent /\ Active # {}
          /\ Become(h, [h EXCEPT !.pc = "store", !.copy = Copy(Current)])
       \/ cache = Absent /\ Active = {} /\ Return(h)
    /\ UNCHANGED <<row, cache, live, answer, asked, changes>>

Store(h) ==
    /\ h.pc = "store" /\ cache' = h.copy /\ Continue(h, "apply")
    /\ UNCHANGED <<row, live, answer, asked, changes>>

Invalidate(h) ==
    /\ h.pc = "invalidate" /\ cache' = Absent /\ Return(h)
    /\ UNCHANGED <<row, live, answer, asked, changes>>

\* Mutant: an entry is good for ever.
ExpireNever == FALSE /\ UNCHANGED vars

\* cacheTTL passes since the entry was stored.
Expire ==
    /\ cache # Absent /\ cache' = Absent
    /\ UNCHANGED <<row, live, answer, handlers, asked, changes>>

-----------------------------------------------------------------------------
(* What a report writes, by the copy its handler has.                        *)

\* The columns a report changes: a status and a health, or nothing.
NoUpdate == [status |-> "", health |-> "", check |-> ""]

\* handleContainerStatus
StatusUpdate(action, c) ==
    [NoUpdate EXCEPT !.status = StatusOf(action),
                     !.health = IF /\ action \in {"start", "recreate", "restart"}
                                   /\ c.check = "set" THEN "starting" ELSE ""]

\* handleContainerHealthStatus
HealthUpdate(health, c) == [NoUpdate EXCEPT !.health = IF c.health = health THEN "" ELSE health]

\* Mutant: the health of a container that stopped is left as it was.
SyncUpdateKeepsHealth(status, check, c) ==
    [status |-> IF c.status = status THEN "" ELSE status, health |-> "",
     check |-> IF check /\ c.check = "null" THEN "set" ELSE ""]

\* handleContainerSync
SyncUpdate(status, check, c) ==
    [status |-> IF c.status = status THEN "" ELSE status,
     health |-> IF status \notin {"running", "paused"} /\ c.health # "none" THEN "none" ELSE "",
     check |-> IF check /\ c.check = "null" THEN "set" ELSE ""]

Update(report, c) ==
    CASE report.kind = "status" -> StatusUpdate(report.action, c)
      [] report.kind = "health" -> HealthUpdate(report.health, c)
      [] report.kind = "sync" -> SyncUpdate(report.status, report.check, c)
      [] report.kind = "name" -> NoUpdate

\* A column an update does not name keeps its value.
Or(new, old) == IF new = "" THEN old ELSE new

\* UpdateContainer, by id, whatever has become of the row; a write that fails
\* leaves the cache alone.
Apply(h) ==
    LET u == Update(h.report, h.copy.row) IN
    /\ h.pc = "apply"
    /\ \/ u = NoUpdate /\ Return(h) /\ UNCHANGED <<row, changes>>
       \/ /\ u # NoUpdate /\ UNCHANGED changes
          /\ Become(h, [h EXCEPT !.pc = "invalidate", !.copy = Absent])
          /\ row' = [row EXCEPT ![h.copy.id] =
                       [@ EXCEPT !.status = Or(u.status, @), !.health = Or(u.health, @),
                                 !.check = Or(u.check, @)]]
       \/ u # NoUpdate /\ Change /\ Return(h) /\ UNCHANGED row
    /\ UNCHANGED <<cache, live, answer, asked>>

\* The API restarts: its cache, its handlers and its requests are gone.
Restart ==
    /\ Change /\ cache' = Absent /\ handlers' = EmptyBag /\ asked' = NoneAsked
    /\ UNCHANGED <<row, live, answer>>

-----------------------------------------------------------------------------
HandlerStep(kind) ==
    \E h \in DOMAIN handlers :
        h.report.kind = kind /\ (Lookup(h) \/ Store(h) \/ Apply(h) \/ Invalidate(h))

Next ==
    \/ HostChanges \/ Probe \/ Deploy \/ DeleteContainer \/ CreateContainer
    \/ ReceiveStatus \/ ReceiveHealth \/ ReceiveSync \/ ReceiveName
    \/ Expire \/ Restart
    \/ \E k \in Kinds : HandlerStep(k)
    \/ \E a \in Actions : SendContainerAction(a) \/ StackBulkAction(a)
    \/ \E s \in Written : DeploymentWrites(s)
    \/ \E r \in Rows : UpdateContainer(r) \/ RetireRow(r) \/ InsertRow(r)

Spec == Init /\ [][Next]_vars

\* The runner syncs with every heartbeat and reports every probe, the pump
\* waits for a place in the pool as long as it takes, handlers run and time
\* passes.
Fairness ==
    /\ SF_vars(ReceiveSync) /\ SF_vars(ReceiveHealth) /\ SF_vars(ReceiveStatus)
    /\ WF_vars(Expire) /\ WF_vars(Probe /\ live.health = "starting") 
    /\ \A k \in Kinds : WF_vars(HandlerStep(k))

FairSpec == Spec /\ Fairness
-----------------------------------------------------------------------------
(* Properties                                                                *)

\* The container on the host is the one the newest active row describes.
Managed == Active # {}

(***************************************************************************)
(* "the next container_sync corrects the container"                        *)
(* (handleDeploymentProgress): when the host has come to rest, the row     *)
(* shows its status, although a sync compares with a copy from the cache   *)
(* that deployments, requests and other handlers have written past.        *)
(***************************************************************************)
SyncCorrects == <>[](Managed => row[Current].status = live.status)

(***************************************************************************)
(* The health shown is that of the last probe while the container runs,    *)
(* and none once it has stopped, whichever order the pool handled the      *)
(* reports in (handleContainerHealthStatus, handleContainerSync).          *)
(***************************************************************************)
HealthFollows ==
    <>[](Managed => /\ live.status = "running" /\ live.check => row[Current].health = live.health
                    /\ live.status = "stopped" => row[Current].health = "none")
=============================================================================
