--------------------------- MODULE WorkerSessions ---------------------------
(***************************************************************************)
(* The worker hub: the WebSocket session each worker keeps with the API,   *)
(* the callbacks that run when one opens and ends, the worker's status in  *)
(* the database, the commands queued for it and the delayed alert that a   *)
(* worker has gone offline.                                                *)
(*                                                                         *)
(* Each connection is a process: ServeHTTP up to the start of its pumps,   *)
(* then the goroutine that waits for its end.  Its read pump and the alert *)
(* timers are processes too.  A step is one critical section of a mutex,   *)
(* one atomic load or one database statement.                              *)
(***************************************************************************)
EXTENDS Integers, Sequences, FiniteSets

CONSTANTS Workers,
          Commands,          \* messages the API sends to workers
          MaxConnects,       \* bound: connections ever made
          MaxTimers,         \* bound: alert timers ever started
          MaxWorkerSessions, \* limit on connected workers
          QueueSize,         \* sendBufferSize
          AlertModes,        \* the preferences an admin may have stored
          EditStatus,        \* bound: the statuses an operator writes
          MaxFaults,         \* bound: failed status writes
          MaxRestarts,       \* bound: restarts of the API process
          MaxEdits           \* bound: operator edits of a worker's status

ASSUME SessionBounds ==
    /\ IsFiniteSet(Workers) /\ Workers # {}
    /\ MaxConnects \in Nat /\ MaxTimers \in Nat
    /\ MaxWorkerSessions \in Nat /\ QueueSize \in Nat
    /\ AlertModes \subseteq {"disabled", "immediate", "delayed"}
    /\ EditStatus \subseteq {"online", "offline", "maintenance"}
    /\ MaxFaults \in Nat /\ MaxRestarts \in Nat /\ MaxEdits \in Nat

Sessions == 1..MaxConnects
Timers == 1..MaxTimers
Hello == "hello"   \* the acknowledgment queued for every new connection

VARIABLES
    hub,       \* WorkerHub.sessions: the worker's session, 0 if none
    workerOf,  \* WorkerSession.WorkerID
    phase,     \* where the connection's goroutine is
    closed,    \* sessions whose Close has run
    replaced,  \* WorkerSession.Replaced
    queue,     \* WorkerSession.Send
    beating,   \* sessions whose read pump is inside a heartbeat's handler
    fate,      \* what became of each command
    found,     \* the session a send has looked up, 0 if none
    status,    \* workers.status
    pending,   \* mailer.graceTimers: the worker's timer, 0 if none
    timer,     \* each alert timer's state
    alertFor,  \* the worker an alert timer is about
    cooling,   \* workers inside the alert's cooldown
    faults, restarts, edits,
    overlapped \* history: workers for which callbacks or alert timers
               \* overlapped, the status was written by hand or a write of
               \* it failed, or the process ended

hubVars == <<hub, workerOf, phase, closed, replaced, beating>>
sendVars == <<queue, fate, found>>
alertVars == <<pending, timer, alertFor, cooling>>
budgets == <<faults, restarts, edits>>
vars == <<hubVars, sendVars, alertVars, status, budgets, overlapped>>

HubTypes ==
    /\ hub \in [Workers -> 0..MaxConnects]
    /\ workerOf \in [Sessions -> Workers]
    /\ phase \in [Sessions -> {"unused", "registered", "online", "cancelled",
                               "open", "offline", "alert", "remove", "gone"}]
    /\ closed \in SUBSET Sessions
    /\ replaced \in SUBSET Sessions
    /\ beating \in SUBSET Sessions

SendTypes ==
    /\ queue \in [Sessions -> Seq(Commands \cup {Hello})]
    /\ \A s \in Sessions : Len(queue[s]) <= QueueSize
    /\ fate \in [Commands -> {"unsent", "accepted", "refused", "delivered"}]
    /\ found \in [Commands -> 0..MaxConnects]

AlertTypes ==
    /\ status \in [Workers -> {"online", "offline", "maintenance"}]
    /\ pending \in [Workers -> 0..MaxTimers]
    /\ timer \in [Timers -> {"unused", "armed", "stopped", "fired", "deleted",
                             "sent", "suppressed"}]
    /\ alertFor \in [Timers -> Workers]
    /\ cooling \in SUBSET Workers

CountTypes ==
    /\ faults \in 0..MaxFaults
    /\ restarts \in 0..MaxRestarts
    /\ edits \in 0..MaxEdits
    /\ overlapped \in SUBSET Workers

(* The hub's map, the queues and the alert timers keep the shape their Go  *)
(* types give them, and no queue outgrows its buffer.                      *)
TypeOK == HubTypes /\ SendTypes /\ AlertTypes /\ CountTypes

AnyWorker == CHOOSE w \in Workers : TRUE

Init ==
    /\ hub = [w \in Workers |-> 0]
    /\ workerOf = [s \in Sessions |-> AnyWorker]
    /\ phase = [s \in Sessions |-> "unused"]
    /\ closed = {} /\ replaced = {} /\ beating = {}
    /\ queue = [s \in Sessions |-> << >>]
    /\ fate = [c \in Commands |-> "unsent"]
    /\ found = [c \in Commands |-> 0]
    /\ status = [w \in Workers |-> "offline"]
    /\ pending = [w \in Workers |-> 0]
    /\ timer = [t \in Timers |-> "unused"]
    /\ alertFor = [t \in Timers |-> AnyWorker]
    /\ cooling = {}
    /\ faults = 0 /\ restarts = 0 /\ edits = 0
    /\ overlapped = {}

-----------------------------------------------------------------------------
(* The pieces the handlers are built from.                                 *)

SessionsOf(w) == {s \in Sessions : workerOf[s] = w /\ phase[s] # "unused"}

ConnectedWorkers == {w \in Workers : hub[w] # 0}

(* A session in the middle of a callback that writes shared state: its     *)
(* OnConnect, or its OnDisconnect past the test of Replaced.               *)
InCallback(s) == phase[s] \in {"registered", "online", "offline", "alert"}

(* UpdateWorkerHeartbeat; its failure is only logged.                      *)
UpdateWorkerHeartbeat(w, st) ==
    \/ status' = [status EXCEPT ![w] = st] /\ UNCHANGED <<faults, overlapped>>
    \/ /\ faults < MaxFaults /\ faults' = faults + 1
       /\ overlapped' = overlapped \cup {w}
       /\ UNCHANGED status

(* SendToWorker puts m on the queue of the session s it has looked up.     *)
(* The select picks at random when the queue has room and the session is   *)
(* already closed, so such a send may be accepted.                         *)
CanAccept(s) == Len(queue[s]) < QueueSize

CanRefuse(s) == s \in closed \/ Len(queue[s]) >= QueueSize

Enqueue(s, m) == queue' = [queue EXCEPT ![s] = Append(@, m)]

FreshTimer(t) ==
    timer[t] = "unused" /\ \A u \in Timers : u < t => timer[u] # "unused"

-----------------------------------------------------------------------------
(* ServeHTTP up to the start of the pumps.                                 *)

FreshSession(s) ==
    phase[s] = "unused" /\ \A r \in Sessions : r < s => phase[r] # "unused"

(* Mutant: the connection limit off by one.                                *)
RegisterOneMore(s, w) ==
    LET old == {hub[w]} \ {0} IN
    /\ FreshSession(s)
    /\ old # {} \/ Cardinality(ConnectedWorkers) <= MaxWorkerSessions
    /\ replaced' = replaced \cup old
    /\ closed' = closed \cup old
    /\ hub' = [hub EXCEPT ![w] = s]
    /\ workerOf' = [workerOf EXCEPT ![s] = w]
    /\ phase' = [phase EXCEPT ![s] = "registered"]
    /\ UNCHANGED <<beating, sendVars, alertVars, status, budgets, overlapped>>

(* Register: a new connection replaces and closes the worker's old one, or *)
(* takes a free place.                                                     *)
Register(s, w) ==
    LET old == {hub[w]} \ {0} IN
    /\ FreshSession(s)
    /\ old # {} \/ Cardinality(ConnectedWorkers) < MaxWorkerSessions
    /\ replaced' = replaced \cup old
    /\ closed' = closed \cup old
    /\ hub' = [hub EXCEPT ![w] = s]
    /\ workerOf' = [workerOf EXCEPT ![s] = w]
    /\ phase' = [phase EXCEPT ![s] = "registered"]
    /\ overlapped' = IF \E r \in SessionsOf(w) : InCallback(r)
                     THEN overlapped \cup {w} ELSE overlapped
    /\ UNCHANGED <<beating, sendVars, alertVars, status, budgets>>

(* ErrMaxConnections: the connection is closed again.                      *)
Reject(s, w) ==
    /\ FreshSession(s)
    /\ hub[w] = 0 /\ Cardinality(ConnectedWorkers) >= MaxWorkerSessions
    /\ workerOf' = [workerOf EXCEPT ![s] = w]
    /\ phase' = [phase EXCEPT ![s] = "gone"]
    /\ closed' = closed \cup {s}
    /\ UNCHANGED <<hub, replaced, beating, sendVars, alertVars, status, budgets,
                   overlapped>>

(* OnConnect, first the status ...                                         *)
OnConnectOnline(s) ==
    /\ phase[s] = "registered"
    /\ UpdateWorkerHeartbeat(workerOf[s], "online")
    /\ phase' = [phase EXCEPT ![s] = "online"]
    /\ UNCHANGED <<hub, workerOf, closed, replaced, beating, sendVars,
                   alertVars, restarts, edits>>

(* ... then CancelDisconnectAlert: Stop does nothing to a timer that has   *)
(* already fired.                                                          *)
OnConnectCancel(s) ==
    LET w == workerOf[s] IN
    /\ phase[s] = "online"
    /\ timer' = [t \in Timers |-> IF t = pending[w] /\ timer[t] = "armed"
                                  THEN "stopped" ELSE timer[t]]
    /\ pending' = [pending EXCEPT ![w] = 0]
    /\ phase' = [phase EXCEPT ![s] = "cancelled"]
    /\ UNCHANGED <<hub, workerOf, closed, replaced, beating, sendVars, alertFor,
                   cooling, status, budgets, overlapped>>

(* The acknowledgment goes through the hub, so to the session it lists by  *)
(* now; a full or missing one loses it, and so does one that was looked up *)
(* and has been replaced since.  The pumps start.                          *)
SendHello(s) ==
    LET r == hub[workerOf[s]] IN
    /\ phase[s] = "cancelled"
    /\ \/ r # 0 /\ CanAccept(r) /\ Enqueue(r, Hello)
       \/ (r = s => CanRefuse(s)) /\ UNCHANGED queue
    /\ phase' = [phase EXCEPT ![s] = "open"]
    /\ UNCHANGED <<hub, workerOf, closed, replaced, beating, fate, found, alertVars,
                   status, budgets, overlapped>>

-----------------------------------------------------------------------------
(* The pumps.                                                              *)

Pumping(s) == phase[s] = "open" /\ s \notin closed

(* SendToWorker on behalf of a request: the session is looked up under the *)
(* hub's lock ...                                                          *)
FindSession(c, w) ==
    /\ fate[c] = "unsent" /\ found[c] = 0
    /\ found' = [found EXCEPT ![c] = hub[w]]
    /\ fate' = IF hub[w] = 0 THEN [fate EXCEPT ![c] = "refused"] ELSE fate
    /\ UNCHANGED <<hubVars, queue, alertVars, status, budgets, overlapped>>

(* ... and sent to after it, whatever has become of it.                    *)
SendToWorker(c) ==
    LET s == found[c] IN
    /\ s # 0 /\ found' = [found EXCEPT ![c] = 0]
    /\ \/ /\ CanAccept(s)
          /\ Enqueue(s, c)
          /\ fate' = [fate EXCEPT ![c] = "accepted"]
       \/ /\ CanRefuse(s)
          /\ fate' = [fate EXCEPT ![c] = "refused"]
          /\ UNCHANGED queue
    /\ UNCHANGED <<hubVars, alertVars, status, budgets, overlapped>>

(* writePump hands the oldest message to the connection.                   *)
WriteMessage(s) ==
    /\ Pumping(s) /\ queue[s] # << >>
    /\ queue' = [queue EXCEPT ![s] = Tail(@)]
    /\ fate' = [c \in Commands |-> IF c = Head(queue[s]) THEN "delivered"
                                   ELSE fate[c]]
    /\ UNCHANGED <<hubVars, found, alertVars, status, budgets, overlapped>>

(* A read, a write or a ping fails, or the worker closes: the pump that    *)
(* sees it closes the session.                                             *)
ConnectionLost(s) ==
    /\ Pumping(s)
    /\ closed' = closed \cup {s}
    /\ UNCHANGED <<hub, workerOf, phase, replaced, beating, sendVars, alertVars,
                   status, budgets, overlapped>>

(* readPump has read a heartbeat.                                          *)
ReadHeartbeat(s) ==
    /\ Pumping(s) /\ s \notin beating
    /\ beating' = beating \cup {s}
    /\ UNCHANGED <<hub, workerOf, phase, closed, replaced, sendVars, alertVars,
                   status, budgets, overlapped>>

(* Mutant: a heartbeat lifts a worker out of offline only.                 *)
HeartbeatOnlyFromOffline(s) ==
    /\ s \in beating
    /\ beating' = beating \ {s}
    /\ status' = [status EXCEPT ![workerOf[s]] =
                     IF @ = "offline" THEN "online" ELSE @]
    /\ UNCHANGED <<hub, workerOf, phase, closed, replaced, sendVars, alertVars,
                   budgets, overlapped>>

(* Its handler writes the status, whatever has become of the session.      *)
HandleHeartbeat(s) ==
    /\ s \in beating
    /\ beating' = beating \ {s}
    /\ UpdateWorkerHeartbeat(workerOf[s], "online")
    /\ UNCHANGED <<hub, workerOf, phase, closed, replaced, sendVars, alertVars,
                   restarts, edits>>

-----------------------------------------------------------------------------
(* The goroutine that waits for the session's end.                         *)

(* Mutant: OnDisconnect without the test of Replaced.                      *)
OnDisconnectUntested(s) ==
    /\ phase[s] = "open" /\ s \in closed
    /\ phase' = [phase EXCEPT ![s] = "offline"]
    /\ UNCHANGED <<hub, workerOf, closed, replaced, beating, sendVars,
                   alertVars, status, budgets, overlapped>>

(* OnDisconnect tests Replaced; a replaced session changes nothing.        *)
OnDisconnect(s) ==
    /\ phase[s] = "open" /\ s \in closed
    /\ phase' = [phase EXCEPT ![s] = IF s \in replaced THEN "remove"
                                     ELSE "offline"]
    /\ UNCHANGED <<hub, workerOf, closed, replaced, beating, sendVars,
                   alertVars, status, budgets, overlapped>>

(* A heartbeat still being handled may write over the status.              *)
OnDisconnectOffline(s) ==
    LET w == workerOf[s] IN
    /\ phase[s] = "offline"
    /\ \/ /\ status' = [status EXCEPT ![w] = "offline"]
          /\ overlapped' = IF \E r \in SessionsOf(w) : r \in beating
                           THEN overlapped \cup {w} ELSE overlapped
          /\ UNCHANGED faults
       \/ /\ faults < MaxFaults /\ faults' = faults + 1
          /\ overlapped' = overlapped \cup {w}
          /\ UNCHANGED status
    /\ phase' = [phase EXCEPT ![s] = "alert"]
    /\ UNCHANGED <<hub, workerOf, closed, replaced, beating, sendVars,
                   alertVars, restarts, edits>>

(* ScheduleDisconnectAlert: nothing when the event is disabled, an alert   *)
(* at once without a grace period (and then the cooldown, if one is set,   *)
(* decides), else a timer in place of the worker's previous one.           *)
OnDisconnectAlert(s) ==
    LET w == workerOf[s] IN
    /\ phase[s] = "alert"
    /\ \/ "disabled" \in AlertModes /\ UNCHANGED alertVars
       \/ /\ "immediate" \in AlertModes
          /\ cooling' \in {cooling, cooling \cup {w}}
          /\ UNCHANGED <<pending, timer, alertFor>>
       \/ /\ "delayed" \in AlertModes
          /\ \E t \in Timers :
                /\ FreshTimer(t)
                /\ timer' = [u \in Timers |->
                                IF u = t THEN "armed"
                                ELSE IF u = pending[w] /\ timer[u] = "armed"
                                     THEN "stopped" ELSE timer[u]]
                /\ pending' = [pending EXCEPT ![w] = t]
                /\ alertFor' = [alertFor EXCEPT ![t] = w]
          /\ UNCHANGED cooling
    /\ phase' = [phase EXCEPT ![s] = "remove"]
    /\ UNCHANGED <<hub, workerOf, closed, replaced, beating, sendVars, status,
                   budgets, overlapped>>

(* Mutant: the hub forgets whichever session it lists.                     *)
RemoveAny(s) ==
    /\ phase[s] = "remove"
    /\ hub' = [hub EXCEPT ![workerOf[s]] = 0]
    /\ phase' = [phase EXCEPT ![s] = "gone"]
    /\ UNCHANGED <<workerOf, closed, replaced, beating, sendVars, alertVars,
                   status, budgets, overlapped>>

(* removeIfMatch: the hub forgets the session unless it lists another.     *)
RemoveIfMatch(s) ==
    LET w == workerOf[s] IN
    /\ phase[s] = "remove"
    /\ hub' = [hub EXCEPT ![w] = IF @ = s THEN 0 ELSE @]
    /\ phase' = [phase EXCEPT ![s] = "gone"]
    /\ UNCHANGED <<workerOf, closed, replaced, beating, sendVars, alertVars,
                   status, budgets, overlapped>>

-----------------------------------------------------------------------------
(* The alert timers, operators, time and restarts.                         *)

(* The grace period is over: the timer's function runs on its own          *)
(* goroutine ...                                                           *)
TimerFires(t) ==
    /\ timer[t] = "armed"
    /\ timer' = [timer EXCEPT ![t] = "fired"]
    /\ UNCHANGED <<hubVars, sendVars, pending, alertFor, cooling, status,
                   budgets, overlapped>>

(* ... takes the mutex and deletes the worker's entry, which is by now     *)
(* another timer's if the worker has come and gone again ...               *)
TimerDeletesEntry(t) ==
    LET w == alertFor[t] IN
    /\ timer[t] = "fired"
    /\ timer' = [timer EXCEPT ![t] = "deleted"]
    /\ pending' = [pending EXCEPT ![w] = 0]
    /\ overlapped' = IF pending[w] \in {0, t} THEN overlapped
                     ELSE overlapped \cup {w}
    /\ UNCHANGED <<hubVars, sendVars, alertFor, cooling, status, budgets>>

(* ... and asks ShouldAlert, which reads the preferences again: no alert   *)
(* when the event is disabled by now or its cooldown runs, else an alert,  *)
(* which starts the cooldown if one is set.                                *)
TimerAlerts(t) ==
    LET w == alertFor[t] IN
    /\ timer[t] = "deleted"
    /\ \/ /\ "disabled" \in AlertModes \/ w \in cooling
          /\ timer' = [timer EXCEPT ![t] = "suppressed"]
          /\ UNCHANGED cooling
       \/ /\ timer' = [timer EXCEPT ![t] = "sent"]
          /\ \/ UNCHANGED cooling
             \/ w \notin cooling /\ cooling' = cooling \cup {w}
    /\ UNCHANGED <<hubVars, sendVars, pending, alertFor, status, budgets,
                   overlapped>>

CooldownExpires(w) ==
    /\ w \in cooling
    /\ cooling' = cooling \ {w}
    /\ UNCHANGED <<hubVars, sendVars, pending, timer, alertFor, status, budgets,
                   overlapped>>

(* HandleUpdateWorker lets an operator write the status.                   *)
UpdateWorkerStatus(w, st) ==
    /\ edits < MaxEdits /\ edits' = edits + 1
    /\ status' = [status EXCEPT ![w] = st]
    /\ overlapped' = overlapped \cup {w}
    /\ UNCHANGED <<hubVars, sendVars, alertVars, faults, restarts>>

(* The API process restarts: the table is all that is left.                *)
Restart ==
    /\ restarts < MaxRestarts /\ restarts' = restarts + 1
    /\ hub' = [w \in Workers |-> 0]
    /\ phase' = [s \in Sessions |->
                    IF phase[s] = "unused" THEN "unused" ELSE "gone"]
    /\ closed' = {s \in Sessions : phase[s] # "unused"}
    /\ beating' = {}
    /\ pending' = [w \in Workers |-> 0]
    /\ timer' = [t \in Timers |-> IF timer[t] \in {"armed", "fired", "deleted"}
                                  THEN "stopped" ELSE timer[t]]
    /\ cooling' = {}
    /\ overlapped' = Workers
    /\ found' = [c \in Commands |-> 0]
    /\ fate' = [c \in Commands |-> IF found[c] # 0 THEN "refused" ELSE fate[c]]
    /\ UNCHANGED <<workerOf, replaced, queue, alertFor, status, faults,
                   edits>>

Connect == \E s \in Sessions, w \in Workers : Register(s, w) \/ Reject(s, w)

OnConnectStep(s) == OnConnectOnline(s) \/ OnConnectCancel(s) \/ SendHello(s)

PumpStep(s) ==
    \/ WriteMessage(s)
    \/ ConnectionLost(s)
    \/ ReadHeartbeat(s)
    \/ HandleHeartbeat(s)

OnDisconnectStep(s) ==
    \/ OnDisconnect(s)
    \/ OnDisconnectOffline(s)
    \/ OnDisconnectAlert(s)
    \/ RemoveIfMatch(s)

TimerStep(t) == TimerFires(t) \/ TimerDeletesEntry(t) \/ TimerAlerts(t)

Next ==
    \/ Connect
    \/ \E s \in Sessions :
          OnConnectStep(s) \/ PumpStep(s) \/ OnDisconnectStep(s)
    \/ \E c \in Commands : SendToWorker(c) \/ \E w \in Workers : FindSession(c, w)
    \/ \E t \in Timers : TimerStep(t)
    \/ \E w \in Workers : CooldownExpires(w)
    \/ \E w \in Workers, st \in EditStatus : UpdateWorkerStatus(w, st)
    \/ Restart

Spec == Init /\ [][Next]_vars

(* Goroutines run, a worker sends heartbeats for as long as it is          *)
(* connected, and a write pump whose select is ready again and again takes *)
(* the queue's case.  Connections need neither be made nor be lost.        *)
Fairness ==
    \A s \in Sessions :
        /\ WF_vars(OnConnectStep(s))
        /\ WF_vars(OnDisconnectStep(s))
        /\ WF_vars(WriteMessage(s))
        /\ WF_vars(ReadHeartbeat(s))
        /\ WF_vars(HandleHeartbeat(s))

FairSpec == Spec /\ Fairness

-----------------------------------------------------------------------------
(* Properties that hold.                                                   *)

(* Every session that is still open is the one the hub lists for its       *)
(* worker, whatever its predecessors' goroutines are still doing, so a     *)
(* worker has one open session at most and commands reach it.              *)
HubListsOpenSession ==
    \A s \in Sessions : phase[s] # "unused" /\ s \notin closed
        => hub[workerOf[s]] = s

(* The hub never lists more workers than MaxWorkerSessions, nor a session  *)
(* that has been replaced or is gone.                                      *)
HubIsCurrent ==
    /\ Cardinality(ConnectedWorkers) <= MaxWorkerSessions
    /\ \A w \in ConnectedWorkers :
          /\ hub[w] \notin replaced
          /\ phase[hub[w]] # "gone"
          /\ workerOf[hub[w]] = w

Settled(w) ==
    \A s \in SessionsOf(w) :
        s \notin beating /\ (Pumping(s) \/ phase[s] = "gone")

(* Unless callbacks of two of its sessions overlapped, a status write      *)
(* failed or somebody else wrote it, a worker whose callbacks have all run *)
(* is online exactly when it is connected, and no alert is waiting to say  *)
(* that a connected worker has gone.                                       *)
StatusAgrees ==
    \A w \in Workers \ overlapped : Settled(w) =>
        /\ status[w] = "online" <=> hub[w] # 0
        /\ hub[w] # 0 =>
              \A t \in Timers : timer[t] = "armed" => alertFor[t] # w

(* Whatever was lost or overwritten, a connected worker's heartbeats set   *)
(* its status right again.                                                 *)
StatusHeals ==
    \A s \in Sessions :
        Pumping(s) ~> status[workerOf[s]] = "online" \/ s \in closed

-----------------------------------------------------------------------------
(* Promises of comments in the code that its steps can break.              *)

(* OnDisconnect tests Replaced so that no alert is scheduled for a worker  *)
(* that has reconnected, since "nothing would cancel the alert".           *)
NoAlertWhileConnected ==
    \A w \in Workers : Settled(w) /\ hub[w] # 0
        => \A t \in Timers : timer[t] = "armed" => alertFor[t] # w

(* CancelDisconnectAlert "cancels a pending disconnect alert": the timer   *)
(* that is waiting is the one graceTimers holds.                           *)
PendingAlertIsKnown ==
    \A t \in Timers : timer[t] = "armed" => pending[alertFor[t]] = t
=============================================================================
