------------------------- MODULE DatabaseLifecycle -------------------------
(***************************************************************************)
(* The life of one managed database: its row, the commands sent to its     *)
(* worker, the worker's replies and reports, and the loops that correct    *)
(* the row.                                                                *)
(*                                                                         *)
(* Each HTTP request, each worker message and each sweep runs on its own   *)
(* goroutine, here a hand.  A step is one database statement, one send, or *)
(* the taking of a message with the first read its handler makes, so what  *)
(* Transition has loaded may be stale when it writes.  Instances share     *)
(* nothing but their worker, so the module follows one of them.            *)
(***************************************************************************)
EXTENDS Integers, FiniteSets

CONSTANTS Hands,     \* goroutines that can work on the instance together
          Kinds,     \* bound: the requests, loops and failures that happen
          MaxWire,   \* bound: commands, snapshots and messages under way
                     \* when another request is made
          Born,      \* the row exists and its database runs at the start
          EditTo,    \* bound: the statuses an editor writes
          MaxFaults  \* bound: failed database writes

AllKinds == {"start", "stop", "remove", "delete", "final", "force", "snapshot",
             "sweep", "watchdog", "sync", "health", "edit", "protect", "crash",
             "restart", "loss", "oldRunner", "revive"}

Statuses == {"pending", "provisioning", "running", "stopped", "restarting",
             "degraded", "deleting", "error"}

ASSUME KindsAssumption ==
    /\ Kinds \subseteq AllKinds /\ Born \in BOOLEAN
    /\ EditTo \subseteq Statuses
    /\ MaxWire \in Nat /\ MaxFaults \in Nat

VARIABLES
    row,        \* whether the row exists, is active or has been retired
    status, lastError, health,  \* its columns
    pendingFinal, protected,    \* pending_final_snapshot, deletion_protection
    container,  \* the container on the worker, as a report would show it
    volume,     \* whether the data volume exists
    commands,   \* sent to the worker and not yet carried out
    inbox,      \* sent by the worker and not yet handled
    taking,     \* snapshots being taken, by what they are for
    copies,     \* snapshots recorded as completed
    job,        \* per hand, what it is doing
    faults,
    asked,      \* history: a delete command has been sent
    abandoned   \* history: the row was retired by force or by an edit, or the
                \* create command was sent after a delete

rowVars == <<row, status, lastError, health, pendingFinal, protected>>
workerVars == <<container, volume, commands, inbox, taking>>
history == <<asked, abandoned>>
vars == <<rowVars, workerVars, copies, job, faults, history>>

Transitional == {"pending", "provisioning", "restarting", "deleting"}
Codes == {"none", "create_failed", "remove_failed", "backup_stale", "other"}
States == {"absent", "running", "exited", "restarting", "looping"}
Commands == {"create", "start", "stop", "remove", "purge"}
Messages == {"create_ack", "create_done", "create_failed", "start_done",
             "start_failed", "stop_done", "stop_failed", "remove_done",
             "purge_done", "remove_failed", "remove_absent", "final_done",
             "other_done", "healthy"}
Purposes == {"final", "other"}

(* What a hand carries from step to step: where it is, what the worker     *)
(* reported (sync only), the Transition or warning it is making, what that *)
(* has decided when it loaded the row, and the health it sets at its end.  *)
Jobs ==
    [at : {"idle", "create", "list", "unhealth", "load", "write", "health",
           "retire", "purge", "snap", "flag", "clear", "clearWrite", "pending",
           "unflag", "finalSend", "warn", "warnWrite"},
     seen : States,
     to : Statuses,
     err : Codes,
     started : BOOLEAN, clear : BOOLEAN, wipe : BOOLEAN, snapshot : BOOLEAN,
     after : {"keep", "none", "up"}]

RowTypes ==
    /\ row \in {"unborn", "active", "retired"}
    /\ status \in Statuses
    /\ lastError \in Codes
    /\ health \in {"none", "up"}
    /\ pendingFinal \in BOOLEAN /\ protected \in BOOLEAN

WorkerTypes ==
    /\ container \in States
    /\ volume \in BOOLEAN
    /\ commands \in SUBSET Commands
    /\ inbox \in SUBSET Messages
    /\ taking \in SUBSET Purposes /\ copies \in SUBSET Purposes

(* The row keeps to the closed vocabulary of statuses, error codes and     *)
(* health values, whichever handlers wrote it.                             *)
TypeOK ==
    /\ RowTypes /\ WorkerTypes
    /\ job \in [Hands -> Jobs]
    /\ faults \in 0..MaxFaults
    /\ asked \in BOOLEAN /\ abandoned \in BOOLEAN

Idle == [at |-> "idle", seen |-> "absent", to |-> "pending", err |-> "none",
         started |-> FALSE, clear |-> FALSE, wipe |-> FALSE, snapshot |-> FALSE,
         after |-> "keep"]

Init ==
    /\ row = IF Born THEN "active" ELSE "unborn"
    /\ status = IF Born THEN "running" ELSE "pending"
    /\ lastError = "none" /\ health = "none"
    /\ pendingFinal = FALSE /\ protected = FALSE
    /\ container = IF Born THEN "running" ELSE "absent"
    /\ volume = Born
    /\ commands = {} /\ inbox = {} /\ taking = {} /\ copies = {}
    /\ job = [h \in Hands |-> Idle]
    /\ faults = 0
    /\ asked = FALSE /\ abandoned = FALSE

-----------------------------------------------------------------------------
(* The steps handlers are made of.                                         *)

Fault == faults < MaxFaults /\ faults' = faults + 1

At(h, step) == job[h].at = step
Goto(h, step) == job' = [job EXCEPT ![h].at = step]
Finish(h) == job' = [job EXCEPT ![h] = Idle]
Become(h, j) == job' = [job EXCEPT ![h] = j]

(* A call of Transition, and one of SetHealth at the end of a handler.     *)
Transition(to, err) == [Idle EXCEPT !.at = "load", !.to = to, !.err = err]
SettingHealth(hs) ==
    IF hs = "keep" THEN Idle ELSE [Idle EXCEPT !.at = "health", !.after = hs]

(* The worker accepts a command; a refused send leaves nothing behind.     *)
Send(c) == commands' = commands \cup {c}

(* Transition loads the row, which fails once it is retired.  It goes on   *)
(* only when the status, the error or the start time would change; an      *)
(* error of the same code may or may not carry the same message.           *)
TransitionLoad(h) ==
    LET j == job[h]
        clear == /\ j.err = "none" /\ lastError # "none"
                 /\ j.to \in {"running", "stopped"}
        skip == \/ row # "active"
                \/ /\ status = j.to /\ ~clear /\ ~j.started
                   /\ j.err \in {"none", lastError}
        go == /\ row = "active"
              /\ status # j.to \/ clear \/ j.started \/ j.err # "none"
    IN
    /\ At(h, "load")
    /\ \/ /\ go
          /\ Become(h, [j EXCEPT !.at = "write", !.clear = clear,
                           !.wipe = /\ j.to \notin {"running", "degraded"}
                                    /\ health # "none"])
       \/ /\ skip
          /\ Become(h, SettingHealth(j.after))
    /\ UNCHANGED <<rowVars, workerVars, copies, faults, history>>

(* UpdateDatabaseInstance writes whatever the row has become, then reads   *)
(* it back among the active ones; only if that succeeds is a stale health  *)
(* reset.                                                                  *)
TransitionWrite(h) ==
    LET j == job[h]
        done == IF j.wipe /\ row = "active" THEN "none" ELSE j.after
    IN
    /\ At(h, "write")
    /\ \/ /\ status' = j.to
          /\ lastError' = IF j.clear THEN "none"
                          ELSE IF j.err # "none" THEN j.err ELSE lastError
          /\ Become(h, SettingHealth(done))
          /\ UNCHANGED faults
       \/ /\ Fault
          /\ Become(h, SettingHealth(j.after))
          /\ UNCHANGED <<status, lastError>>
    /\ UNCHANGED <<row, health, pendingFinal, protected, workerVars, copies,
                   history>>

(* SetHealth compares and writes, which amounts to one write.              *)
SetHealth(h) ==
    /\ At(h, "health")
    /\ health' = IF row = "active" THEN job[h].after ELSE health
    /\ Finish(h)
    /\ UNCHANGED <<row, status, lastError, pendingFinal, protected, workerVars,
                   copies, faults, history>>

(* SetWarning loads the row: it does not replace a failure, nor repeat a   *)
(* warning.                                                                *)
WarningLoad(h) ==
    /\ At(h, "warn")
    /\ IF \/ row # "active"
          \/ /\ lastError # "none"
             /\ lastError = job[h].err \/ status = "error"
       THEN Finish(h) ELSE Goto(h, "warnWrite")
    /\ UNCHANGED <<rowVars, workerVars, copies, faults, history>>

WarningWrite(h) ==
    /\ At(h, "warnWrite")
    /\ \/ lastError' = job[h].err /\ UNCHANGED faults
       \/ Fault /\ UNCHANGED lastError
    /\ Finish(h)
    /\ UNCHANGED <<row, status, health, pendingFinal, protected, workerVars,
                   copies, history>>

(* ClearWarning of backup_stale; after it a completed snapshot's handler   *)
(* looks for a pending delete.                                             *)
ClearLoad(h) ==
    /\ At(h, "clear")
    /\ IF row = "active" /\ lastError = "backup_stale"
       THEN Goto(h, "clearWrite")
       ELSE IF job[h].snapshot THEN Goto(h, "pending") ELSE Finish(h)
    /\ UNCHANGED <<rowVars, workerVars, copies, faults, history>>

ClearWrite(h) ==
    /\ At(h, "clearWrite")
    /\ \/ lastError' = "none" /\ UNCHANGED faults
       \/ Fault /\ UNCHANGED lastError
    /\ IF job[h].snapshot THEN Goto(h, "pending") ELSE Finish(h)
    /\ UNCHANGED <<row, status, health, pendingFinal, protected, workerVars,
                   copies, history>>
-----------------------------------------------------------------------------
(* HTTP requests.                                                          *)

Wanted(k) == k \in Kinds

(* The bound on what is on the wire.                                       *)
Room == Cardinality(commands) + Cardinality(inbox) + Cardinality(taking)
            < MaxWire

(* HandleCreateDatabaseInstance inserts the row ...                        *)
CreateInstance(h) ==
    /\ At(h, "idle") /\ row = "unborn"
    /\ row' = "active"
    /\ Goto(h, "create")
    /\ UNCHANGED <<status, lastError, health, pendingFinal, protected,
                   workerVars, copies, faults, history>>

(* ... and sends db_create, or records that it could not.                  *)
SendCreate(h) ==
    /\ At(h, "create")
    /\ \/ /\ Send("create")
          /\ abandoned' = (abandoned \/ asked)
          /\ UNCHANGED <<status, lastError, faults>>
       \/ /\ status' = "error" /\ lastError' = "other"
          /\ UNCHANGED <<commands, faults, abandoned>>
       \/ /\ Fault
          /\ UNCHANGED <<commands, status, lastError, abandoned>>
    /\ Finish(h)
    /\ UNCHANGED <<row, health, pendingFinal, protected, container, volume,
                   inbox, taking, copies, asked>>

(* HandleDatabaseAction and HandleRestoreSnapshot read the row for its     *)
(* worker and send; nothing is written.  A restart and a restore end like  *)
(* a start.                                                                *)
RequestAction(c) ==
    /\ Wanted(c) /\ Room /\ row = "active"
    /\ Send(c)
    /\ UNCHANGED <<rowVars, container, volume, inbox, taking, copies, job,
                   faults, history>>

(* HandleDeleteDatabaseInstance with its worker connected: the row is read *)
(* and its protection tested, the purge is sent, then BeginDeleting.       *)
DeleteRead(h) ==
    /\ Wanted("delete") /\ Room
    /\ At(h, "idle") /\ row = "active" /\ ~protected
    /\ Goto(h, "purge")
    /\ UNCHANGED <<rowVars, workerVars, copies, faults, history>>

DeleteSend(h) ==
    /\ At(h, "purge")
    /\ \/ /\ Send("purge") /\ asked' = TRUE
          /\ Become(h, Transition("deleting", "none"))
       \/ Finish(h) /\ UNCHANGED <<commands, asked>>
    /\ UNCHANGED <<rowVars, container, volume, inbox, taking, copies, faults,
                   abandoned>>

(* The same with the worker offline and force=true.                        *)
DeleteForced ==
    /\ Wanted("force") /\ row = "active" /\ ~protected
    /\ row' = "retired"
    /\ abandoned' = TRUE
    /\ UNCHANGED <<status, lastError, health, pendingFinal, protected,
                   workerVars, copies, job, faults, asked>>

(* beginDeleteWithFinalSnapshot: only a running instance; the snapshot is  *)
(* started first and the pending delete recorded after it.                 *)
FinalRead(h) ==
    /\ Wanted("final") /\ Room
    /\ At(h, "idle") /\ row = "active" /\ ~protected /\ status = "running"
    /\ Goto(h, "snap")
    /\ UNCHANGED <<rowVars, workerVars, copies, faults, history>>

FinalStart(h) ==
    /\ At(h, "snap")
    /\ \/ taking' = taking \cup {"final"} /\ Goto(h, "flag")
       \/ Finish(h) /\ UNCHANGED taking
    /\ UNCHANGED <<rowVars, container, volume, commands, inbox, copies, faults,
                   history>>

FinalFlag(h) ==
    /\ At(h, "flag")
    /\ \/ pendingFinal' = TRUE /\ UNCHANGED faults
       \/ Fault /\ UNCHANGED pendingFinal
    /\ Finish(h)
    /\ UNCHANGED <<row, status, lastError, health, protected, workerVars,
                   copies, history>>

(* A manual or scheduled snapshot is started.                              *)
StartSnapshot ==
    /\ Wanted("snapshot") /\ Room /\ row = "active"
    /\ taking' = taking \cup {"other"}
    /\ UNCHANGED <<rowVars, container, volume, commands, inbox, copies, job,
                   faults, history>>

(* HandleUpdateDatabaseInstance writes the columns an editor sent.  It has *)
(* found the row active, but the write does not ask again, and the row may *)
(* have been retired in between.                                           *)
Editable == row \in {"active", "retired"}

EditStatus(st) ==
    /\ Wanted("edit") /\ Editable
    /\ status' = st
    /\ UNCHANGED <<row, lastError, health, pendingFinal, protected, workerVars,
                   copies, job, faults, history>>

EditHealth(hs) ==
    /\ Wanted("edit") /\ Editable
    /\ health' = hs
    /\ UNCHANGED <<row, status, lastError, pendingFinal, protected, workerVars,
                   copies, job, faults, history>>

EditInactive ==
    /\ Wanted("edit") /\ row = "active"
    /\ row' = "retired" /\ abandoned' = TRUE
    /\ UNCHANGED <<status, lastError, health, pendingFinal, protected,
                   workerVars, copies, job, faults, asked>>

(* Setting active then brings the row back.                                *)
EditActive ==
    /\ Wanted("revive") /\ row = "retired"
    /\ row' = "active"
    /\ UNCHANGED <<status, lastError, health, pendingFinal, protected,
                   workerVars, copies, job, faults, history>>

EditProtection ==
    /\ Wanted("protect") /\ Editable
    /\ protected' = ~protected
    /\ UNCHANGED <<row, status, lastError, health, pendingFinal, workerVars,
                   copies, job, faults, history>>

-----------------------------------------------------------------------------
(* The worker, known by the commands it is sent and the replies it makes.  *)

(* The worker carries out c: it leaves the container in state st and       *)
(* replies m.                                                              *)
Carries(c, st, m) ==
    /\ c \in commands
    /\ commands' = commands \ {c}
    /\ container' = st
    /\ inbox' = inbox \cup {m}

RunnerUntouched == UNCHANGED <<rowVars, taking, copies, job, faults, history>>

RunnerAcks ==
    /\ "create" \in commands
    /\ inbox' = inbox \cup {"create_ack"}
    /\ UNCHANGED <<container, volume, commands>>
    /\ RunnerUntouched

RunnerCreates ==
    /\ \/ Carries("create", "running", "create_done") /\ volume' = TRUE
       \/ Carries("create", container, "create_failed") /\ UNCHANGED volume
    /\ RunnerUntouched

RunnerStartsOrStops ==
    /\ \/ /\ container # "absent"
          /\ \/ Carries("start", "running", "start_done")
             \/ Carries("stop", "exited", "stop_done")
       \/ Carries("start", container, "start_failed")
       \/ Carries("stop", container, "stop_failed")
    /\ UNCHANGED volume
    /\ RunnerUntouched

(* A removal cancels a create that is still waiting.  A worker from before *)
(* volume purging removes the container only, and confirms no more.        *)
RunnerRemoves(c) ==
    /\ c \in commands
    /\ \/ /\ commands' = commands \ {c, "create"}
          /\ container' = "absent"
          /\ LET purges == c = "purge" IN
             \/ /\ volume' = (volume /\ ~purges)
                /\ inbox' = inbox \cup
                               {IF purges THEN "purge_done" ELSE "remove_done"}
             \/ /\ Wanted("oldRunner")
                /\ inbox' = inbox \cup {"remove_done"}
                /\ UNCHANGED volume
       \/ /\ commands' = commands \ {c}
          /\ \/ inbox' = inbox \cup {"remove_failed"}
             \/ /\ Wanted("oldRunner") /\ container = "absent"
                /\ inbox' = inbox \cup {"remove_absent"}
          /\ UNCHANGED <<container, volume>>
    /\ RunnerUntouched

(* The container dies, is started by Docker or keeps restarting.           *)
ContainerChanges(st) ==
    /\ Wanted("crash")
    /\ container # "absent" /\ st \notin {"absent", container}
    /\ container' = st
    /\ UNCHANGED <<volume, commands, inbox>>
    /\ RunnerUntouched

(* A snapshot ends; a failed one only reports itself.                      *)
SnapshotEnds(k) ==
    /\ k \in taking
    /\ taking' = taking \ {k}
    /\ \/ inbox' = inbox \cup {IF k = "final" THEN "final_done"
                               ELSE "other_done"}
       \/ UNCHANGED inbox
    /\ UNCHANGED <<rowVars, container, volume, commands, copies, job, faults,
                   history>>

(* db_health_status.                                                       *)
RunnerHealthy ==
    /\ Wanted("health") /\ Room /\ container = "running"
    /\ inbox' = inbox \cup {"healthy"}
    /\ UNCHANGED <<container, volume, commands>>
    /\ RunnerUntouched

(* A command or a message is lost with its connection.                     *)
Loses ==
    /\ Wanted("loss")
    /\ \/ \E c \in commands : commands' = commands \ {c} /\ UNCHANGED inbox
       \/ \E m \in inbox : inbox' = inbox \ {m} /\ UNCHANGED commands
    /\ UNCHANGED <<container, volume>>
    /\ RunnerUntouched
-----------------------------------------------------------------------------
(* handleDbStatus.                                                         *)

Take(h, m) == At(h, "idle") /\ m \in inbox /\ inbox' = inbox \ {m}

Deleting == row = "active" /\ status = "deleting"

HandlerUntouched ==
    UNCHANGED <<rowVars, container, volume, commands, taking, copies, faults,
                history>>

(* dbActionOutcome: what the instance is once the worker has done it.      *)
dbActionOutcome(m) ==
    IF m \in {"create_done", "start_done"} THEN "running" ELSE "stopped"

(* dbActionFailureCode; start, stop and restore failures need no telling   *)
(* apart here.                                                             *)
dbActionFailureCode(m) ==
    IF m = "create_failed" THEN "create_failed"
    ELSE IF m \in {"remove_failed", "remove_absent"} THEN "remove_failed"
    ELSE "other"

(* A reply to db_create is ignored while the instance is being deleted.    *)
ReplyIgnored(h, m) ==
    /\ Take(h, m)
    /\ m \in {"create_ack", "create_done", "create_failed"} /\ Deleting
    /\ UNCHANGED job
    /\ HandlerUntouched

ReplyAck(h) ==
    /\ Take(h, "create_ack")
    /\ ~Deleting
    /\ Become(h, Transition("provisioning", "none"))
    /\ HandlerUntouched

ReplyCompleted(h, m) ==
    /\ Take(h, m)
    /\ \/ m = "create_done" /\ ~Deleting
       \/ m \in {"start_done", "stop_done"}
       \/ m \in {"remove_done", "purge_done"} /\ ~Deleting
    /\ LET to == dbActionOutcome(m) IN
       Become(h, [Transition(to, "none") EXCEPT !.started = (to = "running")])
    /\ HandlerUntouched

(* Mutant: the row is retired without the volume's confirmation.           *)
FinalizeUnconfirmed(h, m) ==
    /\ Take(h, m)
    /\ m \in {"remove_done", "purge_done"} /\ Deleting
    /\ Become(h, [Idle EXCEPT !.at = "retire"])
    /\ HandlerUntouched

(* FinalizeDeletion: a completed removal of an instance being deleted      *)
(* retires the row if the worker confirmed the volume's removal.           *)
FinalizeDeletion(h, m) ==
    /\ Take(h, m)
    /\ m \in {"remove_done", "purge_done"} /\ Deleting
    /\ Become(h, IF m = "purge_done" THEN [Idle EXCEPT !.at = "retire"]
                 ELSE Transition("error", "remove_failed"))
    /\ HandlerUntouched

Retire(h) ==
    /\ At(h, "retire")
    /\ \/ row' = "retired" /\ Finish(h) /\ UNCHANGED faults
       \/ /\ Fault /\ Become(h, Transition("error", "remove_failed"))
          /\ UNCHANGED row
    /\ UNCHANGED <<status, lastError, health, pendingFinal, protected,
                   workerVars, copies, history>>

(* A container already absent is no failure of a plain removal.            *)
ReplyFailed(h, m) ==
    /\ Take(h, m)
    /\ \/ m = "create_failed" /\ ~Deleting
       \/ m \in {"start_failed", "stop_failed", "remove_failed",
                 "remove_absent"}
    /\ Become(h, IF m = "remove_absent" /\ ~Deleting
                 THEN Transition("stopped", "none")
                 ELSE Transition("error", dbActionFailureCode(m)))
    /\ HandlerUntouched

HandleHealth(h) ==
    /\ Take(h, "healthy")
    /\ Become(h, SettingHealth("up"))
    /\ HandlerUntouched

-----------------------------------------------------------------------------
(* A completed snapshot: it is recorded, a backup_stale warning cleared    *)
(* and a delete that waits for it carried on.  Closing its scheduled run,  *)
(* its mirror copy and retention touch other tables.                       *)

(* Mutant: the handler goes on although the snapshot was not recorded.     *)
SnapshotUnrecorded(h, k) ==
    /\ Take(h, IF k = "final" THEN "final_done" ELSE "other_done")
    /\ \/ copies' = copies \cup {k} /\ UNCHANGED faults
       \/ Fault /\ UNCHANGED copies
    /\ Become(h, [Idle EXCEPT !.at = "clear", !.snapshot = TRUE])
    /\ UNCHANGED <<rowVars, container, volume, commands, taking, history>>

(* The handler of db_snapshot_status.                                      *)
SnapshotCompleted(h, k) ==
    /\ Take(h, IF k = "final" THEN "final_done" ELSE "other_done")
    /\ \/ /\ copies' = copies \cup {k}
          /\ Become(h, [Idle EXCEPT !.at = "clear", !.snapshot = TRUE])
          /\ UNCHANGED faults
       \/ /\ Fault
          /\ UNCHANGED <<copies, job>>
    /\ UNCHANGED <<rowVars, container, volume, commands, taking, history>>

(* finaliseDeleteAfterSnapshot: any completed snapshot of an instance with *)
(* a pending delete, not only the final one, sets the delete off.          *)
PendingRead(h) ==
    /\ At(h, "pending")
    /\ IF row = "active" /\ pendingFinal THEN Goto(h, "unflag") ELSE Finish(h)
    /\ UNCHANGED <<rowVars, workerVars, copies, faults, history>>

PendingClear(h) ==
    /\ At(h, "unflag")
    /\ \/ pendingFinal' = FALSE /\ Goto(h, "finalSend") /\ UNCHANGED faults
       \/ Fault /\ Finish(h) /\ UNCHANGED pendingFinal
    /\ UNCHANGED <<row, status, lastError, health, protected, workerVars,
                   copies, history>>

(* The worker is gone (a warning), the send fails (a log line), or the     *)
(* purge is sent and BeginDeleting called.                                 *)
PendingSend(h) ==
    /\ At(h, "finalSend")
    /\ \/ /\ Become(h, [Idle EXCEPT !.at = "warn", !.err = "remove_failed"])
          /\ UNCHANGED <<commands, asked>>
       \/ Finish(h) /\ UNCHANGED <<commands, asked>>
       \/ /\ Send("purge") /\ asked' = TRUE
          /\ Become(h, Transition("deleting", "none"))
    /\ UNCHANGED <<rowVars, container, volume, inbox, taking, copies, faults,
                   abandoned>>

-----------------------------------------------------------------------------
(* handleDbSync: a worker's report of its containers.                      *)

SyncReport(h) ==
    /\ Wanted("sync")
    /\ At(h, "idle")
    /\ Become(h, [Idle EXCEPT !.at = "list", !.seen = container])
    /\ UNCHANGED <<rowVars, workerVars, copies, faults, history>>

(* Mutant: an instance in error is never taken out of it.                  *)
ReconcileRunningStuck(started) ==
    IF status = "error" THEN Idle
    ELSE IF status = "running" THEN SettingHealth("up")
    ELSE [Transition("running", "none") EXCEPT !.started = started,
                                               !.after = "up"]

(* reconcileDatabaseInstance, for the row as it was listed.  A running     *)
(* container brings the instance to running from any other status, except  *)
(* that a failed create stays one.                                         *)
ReconcileRunning(started) ==
    IF status = "error" /\ lastError = "create_failed" THEN Idle
    ELSE IF status = "running" THEN SettingHealth("up")
    ELSE [Transition("running", "none") EXCEPT !.started = started,
                                               !.after = "up"]

ReconcileExited ==
    IF status = "deleting" THEN Idle
    ELSE IF status \in {"stopped", "error"} THEN SettingHealth("none")
    ELSE [Transition("stopped", "none") EXCEPT !.after = "none"]

(* An absent container first resets the health.                            *)
ReconcileAbsent ==
    IF status \in Transitional \cup {"error", "stopped"}
    THEN SettingHealth("none")
    ELSE [Transition("error", "other") EXCEPT !.at = "unhealth"]

SyncList(h) ==
    LET seen == job[h].seen IN
    /\ At(h, "list")
    /\ \/ row # "active" /\ Finish(h)
       \/ /\ row = "active"
          /\ \/ seen = "absent" /\ Become(h, ReconcileAbsent)
             \/ seen = "looping" /\ Become(h, Transition("degraded", "other"))
             \/ /\ seen = "running"
                /\ \E started \in BOOLEAN : Become(h, ReconcileRunning(started))
             \/ seen = "exited" /\ Become(h, ReconcileExited)
             \/ seen = "restarting" /\ Become(h, SettingHealth("none"))
    /\ UNCHANGED <<rowVars, workerVars, copies, faults, history>>

SyncUnhealth(h) ==
    /\ At(h, "unhealth")
    /\ health' = IF row = "active" THEN "none" ELSE health
    /\ Goto(h, "load")
    /\ UNCHANGED <<row, status, lastError, pendingFinal, protected, workerVars,
                   copies, faults, history>>

-----------------------------------------------------------------------------
(* The loops, and restarts.                                                *)

(* Mutant: the watchdog leaves deletes alone.                              *)
StuckExceptDeletes == row = "active" /\ status \in Transitional \ {"deleting"}

(* ListStuckDatabaseInstances, ten minutes after the row was last written. *)
Stuck == row = "active" /\ status \in Transitional

(* failStuckInstances.                                                     *)
Watchdog(h) ==
    /\ Wanted("watchdog")
    /\ At(h, "idle") /\ Stuck
    /\ Become(h, Transition("error", IF status = "deleting" THEN "remove_failed"
                                     ELSE "other"))
    /\ UNCHANGED <<rowVars, workerVars, copies, faults, history>>

(* flagStaleBackups finds the last snapshot too old, or young enough.      *)
FreshnessSweep(h) ==
    /\ Wanted("sweep")
    /\ At(h, "idle") /\ row = "active"
    /\ \/ Become(h, [Idle EXCEPT !.at = "warn", !.err = "backup_stale"])
       \/ Become(h, [Idle EXCEPT !.at = "clear"])
    /\ UNCHANGED <<rowVars, workerVars, copies, faults, history>>

(* The API process restarts; what its connections carried is lost.         *)
Restart ==
    /\ Wanted("restart")
    /\ job' = [h \in Hands |-> Idle]
    /\ inbox' = {}
    /\ UNCHANGED <<rowVars, container, volume, commands, taking, copies, faults,
                   history>>

-----------------------------------------------------------------------------

TransitionStep(h) == TransitionLoad(h) \/ TransitionWrite(h) \/ SetHealth(h)

WarningStep(h) ==
    WarningLoad(h) \/ WarningWrite(h) \/ ClearLoad(h) \/ ClearWrite(h)

RequestStep(h) ==
    \/ CreateInstance(h) \/ SendCreate(h)
    \/ DeleteRead(h) \/ DeleteSend(h)
    \/ FinalRead(h) \/ FinalStart(h) \/ FinalFlag(h)

ReplyStep(h) ==
    \/ ReplyAck(h) \/ Retire(h) \/ HandleHealth(h)
    \/ \E m \in Messages :
          \/ ReplyIgnored(h, m) \/ ReplyCompleted(h, m)
          \/ FinalizeDeletion(h, m) \/ ReplyFailed(h, m)

SnapshotStep(h) ==
    \/ \E k \in Purposes : SnapshotCompleted(h, k)
    \/ PendingRead(h) \/ PendingClear(h) \/ PendingSend(h)

LoopStep(h) ==
    \/ SyncReport(h) \/ SyncList(h) \/ SyncUnhealth(h)
    \/ Watchdog(h) \/ FreshnessSweep(h)

OperatorStep ==
    \/ \E c \in {"start", "stop", "remove"} : RequestAction(c)
    \/ DeleteForced
    \/ StartSnapshot
    \/ \E st \in EditTo : EditStatus(st)
    \/ \E hs \in {"none", "up"} : EditHealth(hs)
    \/ EditInactive \/ EditActive
    \/ EditProtection

RunnerStep ==
    \/ RunnerAcks \/ RunnerCreates \/ RunnerStartsOrStops
    \/ \E c \in {"remove", "purge"} : RunnerRemoves(c)
    \/ \E st \in States : ContainerChanges(st)
    \/ \E k \in Purposes : SnapshotEnds(k)
    \/ RunnerHealthy
    \/ Loses

Next ==
    \/ \E h \in Hands :
          \/ TransitionStep(h) \/ WarningStep(h) \/ RequestStep(h)
          \/ ReplyStep(h) \/ SnapshotStep(h) \/ LoopStep(h)
    \/ OperatorStep
    \/ RunnerStep
    \/ Restart

Spec == Init /\ [][Next]_vars

(* A goroutine that has begun runs on; the watchdog's and the reconciler's *)
(* tickers keep firing, and a connected worker answers the reconciler, so  *)
(* a sweep that finds work again and again does it.                        *)
Began(h) ==
    /\ job[h] # Idle
    /\ TransitionStep(h) \/ WarningStep(h) \/ RequestStep(h) \/ ReplyStep(h)
          \/ SnapshotStep(h) \/ LoopStep(h)

Fairness ==
    /\ \A h \in Hands : WF_vars(Began(h))
    /\ SF_vars(\E h \in Hands : Watchdog(h))
    /\ SF_vars(\E h \in Hands : SyncReport(h))

FairSpec == Spec /\ Fairness

-----------------------------------------------------------------------------
(* Properties that hold.                                                   *)

(* A row is retired only when the worker has destroyed both the container  *)
(* and the data volume, unless it was retired by force or by an edit or    *)
(* the delete overtook the create.  FinalizeDeletion waits for the         *)
(* confirmation so that no volume is left with nothing pointing at it.     *)
RetiredIsGone ==
    row = "retired" /\ ~abandoned => container = "absent" /\ ~volume

(* A delete that asked for a final snapshot destroys nothing before some   *)
(* snapshot of the database is recorded as completed: the volume "may only *)
(* be destroyed once a restorable copy exists".  (For instances on which   *)
(* no plain delete is made.)                                               *)
CopyBeforePurge == "delete" \notin Kinds /\ asked => copies # {}

(* failStuckInstances makes "hung in pending forever" impossible: an       *)
(* instance leaves every transitional status, whatever was lost.           *)
StuckResolves ==
    row = "active" /\ status \in Transitional
        ~> row # "active" \/ status \notin Transitional

(* handleDbSync makes a dropped db_status self-correcting: while the       *)
(* container keeps running, the row comes back to running, unless its      *)
(* create failed.                                                          *)
SyncCorrects ==
    <>[](row = "active" /\ container = "running")
        => []<>(status = "running" \/ lastError = "create_failed")

-----------------------------------------------------------------------------
(* Promises of comments in the code that its steps can break.              *)

Quiet == commands = {} /\ inbox = {} /\ \A h \in Hands : job[h] = Idle

(* BeginDeleting marks the instance "so a concurrent reconcile does not    *)
(* read the still-present container as drift".                             *)
DeletingIsKept ==
    [][Deleting /\ row' = "active" => status' \in {"deleting", "error"}]_vars

(* DBStatusError "always carries a populated LastError".                   *)
ErrorHasReason == status = "error" => lastError # "none"

(* FinalizeDeletion tells a delete from a plain removal by the status, so  *)
(* that a destroyed database is not shown as stopped or running.           *)
DestroyedIsNotStopped ==
    Quiet /\ row = "active" /\ ~volume => status \notin {"running", "stopped"}

(* finaliseDeleteAfterSnapshot destroys a database "whose final snapshot   *)
(* has just completed"; if it failed "this is never reached".              *)
FinalSnapshotFirst == asked => "final" \in copies

(* beginDeleteWithFinalSnapshot: "the snapshot's completion is what        *)
(* triggers the actual removal".                                           *)
FinalSnapshotTriggers ==
    Quiet /\ "final" \in copies => ~pendingFinal
=============================================================================
