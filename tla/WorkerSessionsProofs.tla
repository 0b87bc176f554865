------------------------ MODULE WorkerSessionsProofs ------------------------
(***************************************************************************)
(* Proofs for WorkerSessions, for any number of workers, connections,      *)
(* commands and alert timers: types, that the hub lists the one session of *)
(* a worker that is open (HubListsOpenSession, HubIsCurrent), and that the *)
(* status and the alerts of a worker agree with its connection once its    *)
(* callbacks have run (StatusAgrees).                                      *)
(***************************************************************************)
EXTENDS WorkerSessions, FiniteSetTheorems, SequenceTheorems, TLAPS

-----------------------------------------------------------------------------
(* What is inductive about the hub ...                                       *)

\* The goroutine that waits for a session's end goes on when it is closed.
EndedIsClosed ==
    \A s \in Sessions : phase[s] \in {"offline", "alert", "remove", "gone"} => s \in closed

\* A connection that has not been made is neither replaced nor read from.
UnusedIsFresh ==
    \A s \in Sessions : phase[s] = "unused" => s \notin replaced /\ s \notin beating

\* The hub lists connections that have been made.
HubIsUsed == \A w \in Workers : hub[w] # 0 => phase[hub[w]] # "unused"

\* A session leaves the hub only when it is replaced or when it is gone.
LiveIsListed ==
    \A s \in Sessions : phase[s] \notin {"unused", "gone"} /\ s \notin replaced
        => hub[workerOf[s]] = s

HubInv == /\ HubListsOpenSession /\ HubIsCurrent /\ EndedIsClosed /\ UnusedIsFresh
          /\ HubIsUsed /\ LiveIsListed

(* ... and about a worker that nothing has disturbed.                        *)

\* The session the hub lists for w is in one of these phases.
ListedIn(w, phases) == hub[w] # 0 /\ phase[hub[w]] \in phases

\* A session that was replaced is in no callback.
OwnCallback(w) == \A s \in SessionsOf(w) : InCallback(s) => s \notin replaced

\* Once the end of the last session is recorded, nothing writes over it.
OfflineStays(w) ==
    hub[w] = 0 \/ ListedIn(w, {"alert", "remove"}) =>
        status[w] = "offline" /\ \A s \in SessionsOf(w) : s \notin beating

\* From OnConnect to OnDisconnect the worker is online.
OnlineStays(w) ==
    ListedIn(w, {"online", "cancelled", "open", "offline"}) => status[w] = "online"

\* An alert that waits is the one graceTimers has.
AlertIsKnown(w) ==
    \A t \in Timers : timer[t] = "armed" /\ alertFor[t] = w => pending[w] = t

\* None waits between OnConnect and OnDisconnect.
NoAlertWaits(w) ==
    ListedIn(w, {"cancelled", "open", "offline", "alert"}) =>
        \A t \in Timers : timer[t] = "armed" => alertFor[t] # w

Calm(w) == OwnCallback(w) /\ OfflineStays(w) /\ OnlineStays(w) /\ AlertIsKnown(w)
           /\ NoAlertWaits(w)

CalmInv == \A w \in Workers \ overlapped : Calm(w)

-----------------------------------------------------------------------------
(* Types.                                                                    *)

\* Sessions and timers are positive, and the first worker is one.
LEMMA Numbers ==
    /\ \A s \in Sessions : s \in Nat \ {0} /\ s \in 0 .. MaxConnects
    /\ \A t \in Timers : t \in Nat \ {0} /\ t \in 0 .. MaxTimers
    /\ 0 \in 0 .. MaxConnects /\ 0 \in 0 .. MaxTimers
    /\ AnyWorker \in Workers
  BY SessionBounds DEF Sessions, Timers, AnyWorker

\* The session the hub lists is a session.
LEMMA ListedIsSession ==
    ASSUME HubTypes, NEW w \in Workers, hub[w] # 0
    PROVE hub[w] \in Sessions
  BY SessionBounds DEF HubTypes, Sessions

\* The types hold at first.
LEMMA InitTypes == Init => TypeOK
  <1> SUFFICES ASSUME Init PROVE TypeOK
    OBVIOUS
  <1>1. HubTypes
    BY Numbers DEF Init, HubTypes
  <1>2. SendTypes
    BY SessionBounds DEF Init, SendTypes
  <1>3. AlertTypes
    BY Numbers DEF Init, AlertTypes
  <1>4. CountTypes
    BY SessionBounds DEF Init, CountTypes
  <1> QED BY <1>1, <1>2, <1>3, <1>4 DEF TypeOK

\* A status write keeps the types of what it touches.
LEMMA HeartbeatTypes ==
    ASSUME AlertTypes, CountTypes, NEW w \in Workers, NEW st \in {"online", "offline", "maintenance"},
           UpdateWorkerHeartbeat(w, st)
    PROVE /\ status' \in [Workers -> {"online", "offline", "maintenance"}]
          /\ faults' \in 0 .. MaxFaults /\ overlapped' \in SUBSET Workers
  <1>1. CASE status' = [status EXCEPT ![w] = st] /\ UNCHANGED <<faults, overlapped>>
    BY <1>1 DEF AlertTypes, CountTypes
  <1>2. CASE /\ faults < MaxFaults /\ faults' = faults + 1
             /\ overlapped' = overlapped \cup {w} /\ UNCHANGED status
    BY <1>2, SessionBounds DEF AlertTypes, CountTypes
  <1> QED BY <1>1, <1>2 DEF UpdateWorkerHeartbeat

\* So does a send.
LEMMA EnqueueTypes ==
    ASSUME SendTypes, NEW h \in Sessions, NEW m \in Commands \cup {Hello},
           CanAccept(h), Enqueue(h, m)
    PROVE /\ queue' \in [Sessions -> Seq(Commands \cup {Hello})]
          /\ \A s \in Sessions : Len(queue'[s]) <= QueueSize
  <1>1. queue[h] \in Seq(Commands \cup {Hello}) /\ Len(queue[h]) \in Nat
    BY DEF SendTypes
  <1>2. /\ Append(queue[h], m) \in Seq(Commands \cup {Hello})
        /\ Len(Append(queue[h], m)) = Len(queue[h]) + 1
    BY <1>1
  <1>3. Len(Append(queue[h], m)) <= QueueSize
    BY <1>1, <1>2, SessionBounds DEF CanAccept
  <1>4. queue' = [queue EXCEPT ![h] = Append(queue[h], m)]
    BY DEF Enqueue
  <1> QED BY <1>2, <1>3, <1>4 DEF SendTypes

\* The steps that leave the queues and the alerts alone.
LEMMA HubStepTypes ==
    ASSUME TypeOK, NEW s \in Sessions, NEW w \in Workers,
           \/ Register(s, w) \/ Reject(s, w) \/ ConnectionLost(s) \/ ReadHeartbeat(s)
           \/ OnDisconnect(s) \/ RemoveIfMatch(s)
    PROVE TypeOK'
  <1> USE DEF HubTypes
  <1>0. HubTypes /\ CountTypes /\ s \in 0 .. MaxConnects
    BY Numbers DEF TypeOK
  <1>1. SendTypes'
    BY DEF TypeOK, SendTypes, Register, Reject, ConnectionLost, ReadHeartbeat, OnDisconnect,
           RemoveIfMatch, sendVars
  <1>2. AlertTypes'
    BY DEF TypeOK, AlertTypes, Register, Reject, ConnectionLost, ReadHeartbeat, OnDisconnect,
           RemoveIfMatch, alertVars
  <1>3. CountTypes'
    BY <1>0 DEF CountTypes, Register, Reject, ConnectionLost, ReadHeartbeat, OnDisconnect,
           RemoveIfMatch, budgets
  <1>4. HubTypes'
    <2>1. CASE Register(s, w)
      <3>1. {hub[w]} \ {0} \subseteq Sessions
        BY <1>0, ListedIsSession
      <3> QED BY <1>0, <2>1, <3>1 DEF Register
    <2>2. CASE Reject(s, w)
      BY <1>0, <2>2 DEF Reject
    <2>3. CASE ConnectionLost(s) \/ ReadHeartbeat(s) \/ OnDisconnect(s)
      BY <1>0, <2>3 DEF ConnectionLost, ReadHeartbeat, OnDisconnect
    <2>4. CASE RemoveIfMatch(s)
      BY <1>0, <2>4, Numbers DEF RemoveIfMatch
    <2> QED BY <2>1, <2>2, <2>3, <2>4
  <1> QED BY <1>1, <1>2, <1>3, <1>4 DEF TypeOK

\* The steps of the callbacks that write the status.
LEMMA StatusStepTypes ==
    ASSUME TypeOK, NEW s \in Sessions,
           OnConnectOnline(s) \/ HandleHeartbeat(s) \/ OnDisconnectOffline(s)
    PROVE TypeOK'
  <1>0. HubTypes /\ SendTypes /\ AlertTypes /\ CountTypes /\ workerOf[s] \in Workers
    BY DEF TypeOK, HubTypes
  <1>1. HubTypes'
    BY <1>0 DEF HubTypes, OnConnectOnline, HandleHeartbeat, OnDisconnectOffline
  <1>2. SendTypes'
    BY <1>0 DEF SendTypes, OnConnectOnline, HandleHeartbeat, OnDisconnectOffline, sendVars
  <1>3. /\ status' \in [Workers -> {"online", "offline", "maintenance"}]
        /\ faults' \in 0 .. MaxFaults /\ overlapped' \in SUBSET Workers
    <2>1. CASE OnConnectOnline(s) \/ HandleHeartbeat(s)
      BY <1>0, <2>1, HeartbeatTypes DEF OnConnectOnline, HandleHeartbeat
    <2>2. CASE OnDisconnectOffline(s) /\ UNCHANGED faults
      BY <1>0, <2>2 DEF OnDisconnectOffline, AlertTypes, CountTypes
    <2>3. CASE OnDisconnectOffline(s) /\ faults < MaxFaults /\ faults' = faults + 1
      <3>1. faults' \in 0 .. MaxFaults
        BY <1>0, <2>3, SessionBounds DEF CountTypes
      <3> QED BY <1>0, <2>3, <3>1 DEF OnDisconnectOffline, AlertTypes, CountTypes
    <2> QED BY <2>1, <2>2, <2>3 DEF OnDisconnectOffline
  <1>4. AlertTypes'
    BY <1>0, <1>3 DEF AlertTypes, OnConnectOnline, HandleHeartbeat, OnDisconnectOffline, alertVars
  <1>5. CountTypes'
    BY <1>0, <1>3 DEF CountTypes, OnConnectOnline, HandleHeartbeat, OnDisconnectOffline
  <1> QED BY <1>1, <1>2, <1>4, <1>5 DEF TypeOK

\* The steps on the queues.
LEMMA SendStepTypes ==
    ASSUME TypeOK,
           \/ \E s \in Sessions : SendHello(s) \/ WriteMessage(s)
           \/ \E c \in Commands : SendToWorker(c) \/ \E w \in Workers : FindSession(c, w)
    PROVE TypeOK'
  <1>0. HubTypes /\ SendTypes /\ AlertTypes /\ CountTypes
    BY DEF TypeOK
  <1>1. HubTypes'
    BY <1>0 DEF HubTypes, SendHello, WriteMessage, FindSession, SendToWorker, hubVars
  <1>2. AlertTypes' /\ CountTypes'
    BY <1>0 DEF AlertTypes, CountTypes, SendHello, WriteMessage, FindSession, SendToWorker,
                alertVars, budgets
  <1>3. ASSUME NEW s \in Sessions, SendHello(s) PROVE SendTypes'
    <2>1. workerOf[s] \in Workers /\ Hello \in Commands \cup {Hello}
      BY <1>0 DEF HubTypes
    <2>2. CASE UNCHANGED queue
      BY <1>0, <1>3, <2>2 DEF SendTypes, SendHello
    <2>3. CASE /\ hub[workerOf[s]] # 0 /\ CanAccept(hub[workerOf[s]])
               /\ Enqueue(hub[workerOf[s]], Hello)
      <3>1. hub[workerOf[s]] \in Sessions
        BY <1>0, <2>1, <2>3, ListedIsSession
      <3> QED BY <1>0, <1>3, <2>1, <2>3, <3>1, EnqueueTypes DEF SendTypes, SendHello
    <2> QED BY <1>3, <2>2, <2>3 DEF SendHello
  <1>4. ASSUME NEW s \in Sessions, WriteMessage(s) PROVE SendTypes'
    <2>1. queue[s] \in Seq(Commands \cup {Hello}) /\ queue[s] # << >>
      BY <1>0, <1>4 DEF SendTypes, WriteMessage
    <2>2. /\ Tail(queue[s]) \in Seq(Commands \cup {Hello})
          /\ Len(Tail(queue[s])) = Len(queue[s]) - 1 /\ Len(queue[s]) \in Nat
      BY <2>1
    <2>3. Len(Tail(queue[s])) <= QueueSize
      BY <1>0, <2>2, SessionBounds DEF SendTypes
    <2>4. queue' = [queue EXCEPT ![s] = Tail(queue[s])]
      BY <1>4 DEF WriteMessage
    <2>5. /\ queue' \in [Sessions -> Seq(Commands \cup {Hello})]
          /\ \A r \in Sessions : Len(queue'[r]) <= QueueSize
      BY <1>0, <2>2, <2>3, <2>4 DEF SendTypes
    <2>6. /\ fate' \in [Commands -> {"unsent", "accepted", "refused", "delivered"}]
          /\ found' \in [Commands -> 0 .. MaxConnects]
      BY <1>0, <1>4 DEF SendTypes, WriteMessage
    <2> QED BY <2>5, <2>6 DEF SendTypes
  <1>5. ASSUME NEW c \in Commands, NEW w \in Workers, FindSession(c, w) PROVE SendTypes'
    BY <1>0, <1>5 DEF HubTypes, SendTypes, FindSession
  <1>6. ASSUME NEW c \in Commands, SendToWorker(c) PROVE SendTypes'
    <2>1. /\ fate' \in [Commands -> {"unsent", "accepted", "refused", "delivered"}]
          /\ found' \in [Commands -> 0 .. MaxConnects]
      BY <1>0, <1>6, Numbers DEF SendTypes, SendToWorker
    <2>2. CASE UNCHANGED queue
      BY <1>0, <2>1, <2>2 DEF SendTypes
    <2>3. CASE CanAccept(found[c]) /\ Enqueue(found[c], c)
      <3>1. found[c] \in Sessions
        BY <1>0, <1>6, SessionBounds DEF SendTypes, SendToWorker, Sessions
      <3> QED BY <1>0, <2>1, <2>3, <3>1, EnqueueTypes DEF SendTypes
    <2> QED BY <1>6, <2>2, <2>3 DEF SendToWorker
  <1> QED BY <1>0, <1>1, <1>2, <1>3, <1>4, <1>5, <1>6 DEF TypeOK

\* The steps on the alerts.
LEMMA AlertStepTypes ==
    ASSUME TypeOK,
           \/ \E s \in Sessions : OnConnectCancel(s) \/ OnDisconnectAlert(s)
           \/ \E t \in Timers : TimerStep(t)
           \/ \E w \in Workers : CooldownExpires(w)
           \/ \E w \in Workers, st \in EditStatus : UpdateWorkerStatus(w, st)
    PROVE TypeOK'
  <1>0. HubTypes /\ SendTypes /\ AlertTypes /\ CountTypes
    BY DEF TypeOK
  <1> USE DEF TimerStep
  <1>1. HubTypes'
    BY <1>0 DEF HubTypes, OnConnectCancel, OnDisconnectAlert, TimerFires, TimerDeletesEntry,
           TimerAlerts, CooldownExpires, UpdateWorkerStatus, hubVars
  <1>2. SendTypes'
    BY <1>0 DEF SendTypes, OnConnectCancel, OnDisconnectAlert, TimerFires, TimerDeletesEntry,
           TimerAlerts, CooldownExpires, UpdateWorkerStatus, sendVars
  <1>3. CountTypes'
    <2>1. CASE \E w \in Workers, st \in EditStatus : UpdateWorkerStatus(w, st)
      BY <1>0, <2>1, SessionBounds DEF CountTypes, UpdateWorkerStatus
    <2>2. CASE \E t \in Timers : TimerDeletesEntry(t)
      BY <1>0, <2>2 DEF CountTypes, AlertTypes, TimerDeletesEntry, budgets
    <2>3. CASE UNCHANGED <<budgets, overlapped>>
      BY <1>0, <2>3 DEF CountTypes, budgets
    <2> QED BY <2>1, <2>2, <2>3 DEF OnConnectCancel, OnDisconnectAlert, TimerFires,
               TimerAlerts, CooldownExpires
  <1>4. ASSUME NEW s \in Sessions, OnConnectCancel(s) PROVE AlertTypes'
    BY <1>0, <1>4, Numbers DEF AlertTypes, OnConnectCancel
  <1>5. ASSUME NEW s \in Sessions, OnDisconnectAlert(s) PROVE AlertTypes'
    <2>1. workerOf[s] \in Workers
      BY <1>0 DEF HubTypes
    <2>2. CASE UNCHANGED <<pending, timer, alertFor>>
      BY <1>0, <1>5, <2>1, <2>2 DEF AlertTypes, OnDisconnectAlert, alertVars
    <2>3. ASSUME NEW t \in Timers,
                 timer' = [u \in Timers |-> IF u = t THEN "armed"
                                ELSE IF u = pending[workerOf[s]] /\ timer[u] = "armed"
                                     THEN "stopped" ELSE timer[u]],
                 pending' = [pending EXCEPT ![workerOf[s]] = t],
                 alertFor' = [alertFor EXCEPT ![t] = workerOf[s]], UNCHANGED cooling
          PROVE AlertTypes'
      BY <1>0, <1>5, <2>1, <2>3, Numbers DEF AlertTypes, OnDisconnectAlert
    <2> QED BY <1>5, <2>2, <2>3 DEF OnDisconnectAlert, alertVars
  <1>6. ASSUME NEW t \in Timers, TimerStep(t) PROVE AlertTypes'
    <2>1. alertFor[t] \in Workers
      BY <1>0 DEF AlertTypes
    <2> QED BY <1>0, <1>6, <2>1, Numbers
            DEF AlertTypes, TimerFires, TimerDeletesEntry, TimerAlerts
  <1>7. ASSUME NEW w \in Workers, CooldownExpires(w) PROVE AlertTypes'
    BY <1>0, <1>7 DEF AlertTypes, CooldownExpires
  <1>8. ASSUME NEW w \in Workers, NEW st \in EditStatus, UpdateWorkerStatus(w, st)
        PROVE AlertTypes'
    BY <1>0, <1>8, SessionBounds DEF AlertTypes, UpdateWorkerStatus, alertVars
  <1> QED BY <1>1, <1>2, <1>3, <1>4, <1>5, <1>6, <1>7, <1>8 DEF TypeOK

\* And a restart.
LEMMA RestartTypes == ASSUME TypeOK, Restart PROVE TypeOK'
  <1>0. HubTypes /\ SendTypes /\ AlertTypes /\ CountTypes
    BY DEF TypeOK
  <1>1. HubTypes'
    BY <1>0, Numbers DEF HubTypes, Restart
  <1>2. SendTypes'
    BY <1>0, Numbers DEF SendTypes, Restart
  <1>3. AlertTypes'
    BY <1>0, Numbers DEF AlertTypes, Restart
  <1>4. CountTypes'
    BY <1>0, SessionBounds DEF CountTypes, Restart
  <1> QED BY <1>1, <1>2, <1>3, <1>4 DEF TypeOK

\* Every step keeps the types.
LEMMA NextTypes == ASSUME TypeOK, [Next]_vars PROVE TypeOK'
  <1>1. CASE Next
    BY <1>1, HubStepTypes, StatusStepTypes, SendStepTypes, AlertStepTypes, RestartTypes, Numbers
       DEF Next, Connect, OnConnectStep, PumpStep, OnDisconnectStep
  <1>2. CASE UNCHANGED vars
    BY <1>2 DEF TypeOK, HubTypes, SendTypes, AlertTypes, CountTypes, vars, hubVars, sendVars,
                alertVars, budgets
  <1> QED BY <1>1, <1>2

-----------------------------------------------------------------------------
(* The hub.                                                                  *)

\* The workers with a session are finitely many.
LEMMA ConnectedFinite ==
    IsFiniteSet(ConnectedWorkers) /\ Cardinality(ConnectedWorkers) \in Nat
  <1>1. IsFiniteSet(ConnectedWorkers)
    BY SessionBounds, FS_Subset DEF ConnectedWorkers
  <1> QED BY <1>1, FS_CardinalityType

\* A hub that lists no further worker stays within its limit.
LEMMA FewerConnected ==
    ASSUME Cardinality(ConnectedWorkers) <= MaxWorkerSessions,
           \A w \in Workers : hub'[w] # 0 => hub[w] # 0
    PROVE Cardinality(ConnectedWorkers') <= MaxWorkerSessions
  <1>1. ConnectedWorkers' \subseteq ConnectedWorkers
    BY DEF ConnectedWorkers
  <1>2. Cardinality(ConnectedWorkers') <= Cardinality(ConnectedWorkers)
        /\ Cardinality(ConnectedWorkers') \in Nat
    BY <1>1, ConnectedFinite, FS_Subset, FS_CardinalityType
  <1> QED BY <1>2, ConnectedFinite, SessionBounds

\* Register puts the new session in the place of the old one, or in a free one.
LEMMA RegisterHub ==
    ASSUME TypeOK, HubInv, NEW s \in Sessions, NEW w \in Workers, Register(s, w)
    PROVE HubInv'
  <1> DEFINE old == {hub[w]} \ {0}
  <1> USE DEF HubInv
  <1>0. HubTypes /\ HubTypes' /\ s \in Nat \ {0} /\ phase[s] = "unused"
    BY HubStepTypes, Numbers DEF TypeOK, Register, FreshSession
  <1>1. /\ hub' = [hub EXCEPT ![w] = s] /\ workerOf' = [workerOf EXCEPT ![s] = w]
        /\ phase' = [phase EXCEPT ![s] = "registered"]
        /\ closed' = closed \cup old /\ replaced' = replaced \cup old /\ beating' = beating
    BY DEF Register
  <1>2. \A v \in Workers : hub[v] # s
    BY <1>0 DEF HubIsUsed
  <1>3. Cardinality(ConnectedWorkers') <= MaxWorkerSessions
    <2>1. CASE old # {}
      BY <1>0, <1>1, <2>1, FewerConnected DEF HubIsCurrent, HubTypes
    <2>2. CASE old = {}
      <3>1. hub[w] = 0 /\ Cardinality(ConnectedWorkers) < MaxWorkerSessions
        BY <2>2 DEF Register
      <3>2. ConnectedWorkers' = ConnectedWorkers \cup {w} /\ w \notin ConnectedWorkers
        BY <1>0, <1>1, <3>1 DEF ConnectedWorkers, HubTypes
      <3>3. Cardinality(ConnectedWorkers') = Cardinality(ConnectedWorkers) + 1
        BY <3>2, ConnectedFinite, FS_AddElement
      <3> QED BY <3>1, <3>3, ConnectedFinite, SessionBounds
    <2> QED BY <2>1, <2>2
  <1>4. \A v \in Workers \ {w} : hub[v] # 0 => hub[v] # hub[w]
    BY DEF HubIsCurrent, ConnectedWorkers
  <1>5. HubIsCurrent'
    <2> SUFFICES ASSUME NEW v \in Workers, hub'[v] # 0
                 PROVE /\ hub'[v] \notin replaced' /\ phase'[hub'[v]] # "gone"
                       /\ workerOf'[hub'[v]] = v
      BY <1>3 DEF HubIsCurrent, ConnectedWorkers
    <2>1. CASE v = w
      BY <1>0, <1>1, <1>2, <2>1 DEF UnusedIsFresh, HubTypes
    <2>2. CASE v # w
      <3>1. hub'[v] = hub[v] /\ hub[v] # s /\ hub[v] \in Sessions
        BY <1>0, <1>1, <1>2, <2>2, ListedIsSession DEF HubTypes
      <3> QED BY <1>0, <1>1, <1>4, <2>2, <3>1 DEF HubIsCurrent, ConnectedWorkers, HubTypes
    <2> QED BY <2>1, <2>2
  <1>6. HubListsOpenSession'
    BY <1>0, <1>1, Numbers DEF HubListsOpenSession, HubTypes
  <1>7. EndedIsClosed' /\ UnusedIsFresh'
    BY <1>0, <1>1 DEF EndedIsClosed, UnusedIsFresh, HubIsUsed, HubTypes
  <1>8. HubIsUsed'
    BY <1>0, <1>1, <1>2 DEF HubIsUsed, HubTypes
  <1>9. LiveIsListed'
    BY <1>0, <1>1, Numbers DEF LiveIsListed, HubTypes
  <1> QED BY <1>5, <1>6, <1>7, <1>8, <1>9

\* removeIfMatch forgets a session that has ended.
LEMMA RemoveHub ==
    ASSUME TypeOK, HubInv, NEW s \in Sessions, RemoveIfMatch(s)
    PROVE HubInv'
  <1> DEFINE w == workerOf[s]
  <1> USE DEF HubInv
  <1>0. HubTypes /\ w \in Workers /\ s \in Nat \ {0} /\ s \in closed
    BY Numbers DEF TypeOK, HubTypes, RemoveIfMatch, EndedIsClosed
  <1>1. /\ hub' = [hub EXCEPT ![w] = IF @ = s THEN 0 ELSE @]
        /\ phase' = [phase EXCEPT ![s] = "gone"] /\ phase[s] = "remove"
        /\ UNCHANGED <<workerOf, closed, replaced, beating>>
    BY DEF RemoveIfMatch
  <1> HIDE DEF w
  <1>2. \A v \in Workers : hub'[v] # 0 => hub'[v] = hub[v] /\ hub[v] # s
    BY <1>0, <1>1 DEF HubIsCurrent, ConnectedWorkers, HubTypes, w
  <1>3. Cardinality(ConnectedWorkers') <= MaxWorkerSessions
    BY <1>2, FewerConnected DEF HubIsCurrent
  <1>4. HubIsCurrent'
    BY <1>0, <1>1, <1>2, <1>3, ListedIsSession DEF HubIsCurrent, ConnectedWorkers, HubTypes
  <1>5. HubListsOpenSession' /\ LiveIsListed'
    BY <1>0, <1>1 DEF HubListsOpenSession, LiveIsListed, HubTypes, w
  <1>6. EndedIsClosed' /\ UnusedIsFresh'
    BY <1>0, <1>1 DEF EndedIsClosed, UnusedIsFresh, HubTypes
  <1>7. HubIsUsed'
    BY <1>0, <1>1, <1>2, ListedIsSession DEF HubIsUsed, HubTypes
  <1> QED BY <1>4, <1>5, <1>6, <1>7

\* A connection that was rejected never was in the hub.
LEMMA RejectHub ==
    ASSUME TypeOK, HubInv, NEW s \in Sessions, NEW w \in Workers, Reject(s, w)
    PROVE HubInv'
  <1> USE DEF HubInv
  <1>0. HubTypes /\ phase[s] = "unused"
    BY DEF TypeOK, Reject, FreshSession
  <1>1. /\ phase' = [phase EXCEPT ![s] = "gone"] /\ workerOf' = [workerOf EXCEPT ![s] = w]
        /\ closed' = closed \cup {s} /\ UNCHANGED <<hub, replaced, beating>>
    BY DEF Reject
  <1>2. \A v \in Workers : hub[v] # s
    BY <1>0, Numbers DEF HubIsUsed, HubTypes
  <1>3. ConnectedWorkers' = ConnectedWorkers
    BY <1>1 DEF ConnectedWorkers
  <1>4. HubIsCurrent' /\ HubIsUsed'
    BY <1>0, <1>1, <1>2, <1>3, ListedIsSession DEF HubIsCurrent, HubIsUsed, ConnectedWorkers, HubTypes
  <1>5. HubListsOpenSession' /\ LiveIsListed'
    BY <1>0, <1>1 DEF HubListsOpenSession, LiveIsListed, HubTypes
  <1>6. EndedIsClosed' /\ UnusedIsFresh'
    BY <1>0, <1>1 DEF EndedIsClosed, UnusedIsFresh, HubTypes
  <1> QED BY <1>4, <1>5, <1>6

\* The session s goes on to another phase while the hub stays as it is; it is
\* closed before it comes to its end.
LEMMA PhaseHub ==
    ASSUME TypeOK, HubInv, NEW s \in Sessions, NEW p,
           phase' = [phase EXCEPT ![s] = p], phase[s] \notin {"unused", "gone"},
           p \in {"online", "cancelled", "open", "offline", "alert", "remove"},
           p \in {"offline", "alert", "remove"} => s \in closed,
           UNCHANGED <<hub, workerOf, closed, replaced, beating>>
    PROVE HubInv'
  <1> USE DEF HubInv
  <1>0. HubTypes /\ ConnectedWorkers' = ConnectedWorkers
    BY DEF TypeOK, ConnectedWorkers
  <1>1. HubIsCurrent' /\ HubIsUsed'
    BY <1>0, ListedIsSession DEF HubIsCurrent, HubIsUsed, ConnectedWorkers, HubTypes
  <1>2. HubListsOpenSession' /\ LiveIsListed'
    BY <1>0 DEF HubListsOpenSession, LiveIsListed, HubTypes
  <1>3. EndedIsClosed' /\ UnusedIsFresh'
    BY <1>0 DEF EndedIsClosed, UnusedIsFresh, HubTypes
  <1> QED BY <1>1, <1>2, <1>3

\* Every step keeps what is said of the hub.
LEMMA HubStep == ASSUME TypeOK, HubInv, [Next]_vars PROVE HubInv'
  <1>0. HubTypes
    BY DEF TypeOK
  <1>1. CASE UNCHANGED hubVars
    BY <1>1 DEF HubInv, HubListsOpenSession, HubIsCurrent, EndedIsClosed, UnusedIsFresh,
                HubIsUsed, LiveIsListed, ConnectedWorkers, hubVars
  <1>2. ASSUME NEW s \in Sessions, NEW w \in Workers, Register(s, w) \/ Reject(s, w)
        PROVE HubInv'
    BY <1>2, RegisterHub, RejectHub
  <1>3. ASSUME NEW s \in Sessions, OnConnectStep(s) PROVE HubInv'
    BY <1>3, PhaseHub DEF OnConnectStep, OnConnectOnline, OnConnectCancel, SendHello
  <1>4. ASSUME NEW s \in Sessions, ConnectionLost(s) PROVE HubInv'
    <2>1. closed' = closed \cup {s} /\ UNCHANGED <<hub, workerOf, phase, replaced, beating>>
      BY <1>4 DEF ConnectionLost
    <2> QED BY <2>1 DEF HubInv, HubListsOpenSession, HubIsCurrent, EndedIsClosed,
                UnusedIsFresh, HubIsUsed, LiveIsListed, ConnectedWorkers
  <1>5. ASSUME NEW s \in Sessions, ReadHeartbeat(s) \/ HandleHeartbeat(s) PROVE HubInv'
    <2>1. /\ UNCHANGED <<hub, workerOf, phase, closed, replaced>>
          /\ \A r \in beating' : r \in beating \/ phase[r] = "open"
      BY <1>5 DEF ReadHeartbeat, HandleHeartbeat, Pumping
    <2> QED BY <2>1 DEF HubInv, HubListsOpenSession, HubIsCurrent, EndedIsClosed,
                UnusedIsFresh, HubIsUsed, LiveIsListed, ConnectedWorkers
  <1>6. ASSUME NEW s \in Sessions, OnDisconnect(s) PROVE HubInv'
    BY <1>6, PhaseHub DEF OnDisconnect
  <1>7. ASSUME NEW s \in Sessions, OnDisconnectOffline(s) \/ OnDisconnectAlert(s) PROVE HubInv'
    <2>1. s \in closed
      BY <1>7 DEF OnDisconnectOffline, OnDisconnectAlert, HubInv, EndedIsClosed
    <2> QED BY <1>7, <2>1, PhaseHub DEF OnDisconnectOffline, OnDisconnectAlert
  <1>8. ASSUME NEW s \in Sessions, RemoveIfMatch(s) PROVE HubInv'
    BY <1>8, RemoveHub
  <1>9. CASE Restart
    <2>1. \A w \in Workers : hub'[w] = 0
      BY <1>9 DEF Restart
    <2>2. Cardinality(ConnectedWorkers') <= MaxWorkerSessions
      BY <2>1, FewerConnected DEF HubInv, HubIsCurrent
    <2> QED BY <1>0, <1>9, <2>1, <2>2 DEF Restart, HubInv, HubListsOpenSession, HubIsCurrent,
                EndedIsClosed, UnusedIsFresh, HubIsUsed, LiveIsListed, ConnectedWorkers, HubTypes
  <1>10. CASE UNCHANGED vars
    BY <1>1, <1>10 DEF vars
  <1>11. ASSUME NEW s \in Sessions, WriteMessage(s) PROVE HubInv'
    BY <1>1, <1>11 DEF WriteMessage
  <1>12. CASE \/ \E c \in Commands : SendToWorker(c) \/ \E w \in Workers : FindSession(c, w)
              \/ \E t \in Timers : TimerStep(t)
              \/ \E w \in Workers : CooldownExpires(w)
              \/ \E w \in Workers, st \in EditStatus : UpdateWorkerStatus(w, st)
    BY <1>1, <1>12 DEF FindSession, SendToWorker, TimerStep, TimerFires, TimerDeletesEntry, TimerAlerts,
                       CooldownExpires, UpdateWorkerStatus
  <1> QED BY <1>2, <1>3, <1>4, <1>5, <1>6, <1>7, <1>8, <1>9, <1>10, <1>11, <1>12
          DEF Next, Connect, PumpStep, OnDisconnectStep

-----------------------------------------------------------------------------
(* The status and the alerts of a worker that nothing has disturbed.         *)

\* A worker stays calm when its own session in the hub, its status and its
\* alerts stay as they are, and no session of it comes to write again.
LEMMA CalmFrame ==
    ASSUME NEW v \in Workers, Calm(v),
           hub'[v] = hub[v], status'[v] = status[v], pending'[v] = pending[v],
           hub[v] # 0 => phase'[hub[v]] = phase[hub[v]],
           \A s \in Sessions : workerOf'[s] = v /\ phase'[s] # "unused" =>
               /\ s \in replaced' => phase'[s] \notin {"registered", "online", "offline", "alert"}
               /\ s \in beating' => s \in beating /\ workerOf[s] = v /\ phase[s] # "unused",
           \A t \in Timers : timer'[t] = "armed" /\ alertFor'[t] = v
                             => timer[t] = "armed" /\ alertFor[t] = v
    PROVE Calm(v)'
  <1> USE DEF Calm
  <1>1. OwnCallback(v)'
    BY DEF OwnCallback, SessionsOf, InCallback
  <1>2. OfflineStays(v)'
    BY DEF OfflineStays, SessionsOf, ListedIn
  <1>3. OnlineStays(v)'
    BY DEF OnlineStays, ListedIn
  <1>4. AlertIsKnown(v)' /\ NoAlertWaits(v)'
    BY DEF AlertIsKnown, NoAlertWaits, ListedIn
  <1> QED BY <1>1, <1>2, <1>3, <1>4

\* In particular when the step is about another worker.
LEMMA CalmOther ==
    ASSUME TypeOK, HubInv, NEW v \in Workers, Calm(v),
           hub'[v] = hub[v], status'[v] = status[v], pending'[v] = pending[v],
           \A s \in Sessions : workerOf[s] = v /\ phase[s] # "unused" => phase'[s] = phase[s],
           \A s \in Sessions : workerOf'[s] = v /\ phase'[s] # "unused" =>
               /\ workerOf[s] = v /\ phase'[s] = phase[s]
               /\ s \in replaced' => s \in replaced
               /\ s \in beating' => s \in beating,
           \A t \in Timers : timer'[t] = "armed" /\ alertFor'[t] = v
                             => timer[t] = "armed" /\ alertFor[t] = v
    PROVE Calm(v)'
  <1>1. hub[v] # 0 => hub[v] \in Sessions /\ workerOf[hub[v]] = v /\ phase[hub[v]] # "unused"
    BY ListedIsSession DEF TypeOK, HubInv, HubIsCurrent, HubIsUsed, ConnectedWorkers
  <1>2. hub[v] # 0 => phase'[hub[v]] = phase[hub[v]]
    BY <1>1
  <1>3. \A s \in Sessions : workerOf'[s] = v /\ phase'[s] # "unused" =>
            /\ s \in replaced' => phase'[s] \notin {"registered", "online", "offline", "alert"}
            /\ s \in beating' => s \in beating /\ workerOf[s] = v /\ phase[s] # "unused"
    BY DEF Calm, OwnCallback, SessionsOf, InCallback
  <1> QED BY <1>2, <1>3, CalmFrame

\* A session of a calm worker that is in a callback is the one the hub lists.
LEMMA CallbackIsListed ==
    ASSUME TypeOK, HubInv, NEW s \in Sessions, Calm(workerOf[s]), InCallback(s)
    PROVE hub[workerOf[s]] = s /\ s \notin replaced /\ workerOf[s] \in Workers /\ s # 0
  <1>1. s \notin replaced
    BY DEF Calm, OwnCallback, SessionsOf, InCallback
  <1> QED BY <1>1, Numbers DEF HubInv, LiveIsListed, InCallback, TypeOK, HubTypes

\* Register.
LEMMA CalmRegister ==
    ASSUME TypeOK, HubInv, NEW v \in Workers \ overlapped', Calm(v),
           NEW s \in Sessions, NEW w \in Workers, Register(s, w)
    PROVE Calm(v)'
  <1> USE DEF HubInv
  <1>0. HubTypes /\ s \in Nat \ {0} /\ phase[s] = "unused" /\ s \notin replaced /\ s \notin beating
    BY Numbers DEF TypeOK, Register, FreshSession, UnusedIsFresh
  <1>1. /\ hub' = [hub EXCEPT ![w] = s] /\ workerOf' = [workerOf EXCEPT ![s] = w]
        /\ phase' = [phase EXCEPT ![s] = "registered"]
        /\ replaced' = replaced \cup ({hub[w]} \ {0}) /\ beating' = beating
        /\ UNCHANGED <<status, pending, timer, alertFor>>
    BY DEF Register, alertVars
  <1>2. CASE v # w
    <2>1. \A r \in Sessions : workerOf[r] = v => r # hub[w]
      BY <1>2, Numbers DEF HubIsCurrent, ConnectedWorkers
    <2> QED BY <1>0, <1>1, <1>2, <2>1, CalmOther DEF HubTypes
  <1>3. CASE v = w
    <2>1. \A r \in SessionsOf(w) : ~InCallback(r)
      BY <1>3 DEF Register
    <2>2. s # hub[w] /\ s \notin replaced'
      BY <1>0, <1>1, Numbers DEF HubIsUsed
    <2>3. hub'[w] = s /\ phase'[s] = "registered"
      BY <1>0, <1>1 DEF HubTypes
    <2>4. OwnCallback(w)'
      BY <1>0, <1>1, <2>1, <2>2 DEF OwnCallback, SessionsOf, InCallback, HubTypes
    <2>5. AlertIsKnown(w)'
      BY <1>1, <1>3 DEF AlertIsKnown, Calm
    <2> QED BY <1>0, <1>3, <2>3, <2>4, <2>5
            DEF Calm, OfflineStays, OnlineStays, NoAlertWaits, ListedIn
  <1> QED BY <1>2, <1>3

\* ErrMaxConnections.
LEMMA CalmReject ==
    ASSUME TypeOK, HubInv, NEW v \in Workers, Calm(v),
           NEW s \in Sessions, NEW w \in Workers, Reject(s, w)
    PROVE Calm(v)'
  <1> USE DEF HubInv
  <1>0. HubTypes /\ s # 0 /\ phase[s] = "unused" /\ s \notin replaced /\ s \notin beating
    BY Numbers DEF TypeOK, Reject, FreshSession, UnusedIsFresh
  <1>1. /\ workerOf' = [workerOf EXCEPT ![s] = w] /\ phase' = [phase EXCEPT ![s] = "gone"]
        /\ UNCHANGED <<hub, replaced, beating, status, pending, timer, alertFor>>
    BY DEF Reject, alertVars
  <1>2. hub[v] # 0 => phase'[hub[v]] = phase[hub[v]]
    BY <1>0, <1>1, ListedIsSession DEF HubIsUsed, HubTypes
  <1>3. \A r \in Sessions : workerOf'[r] = v /\ phase'[r] # "unused" =>
            /\ r \in replaced' => phase'[r] \notin {"registered", "online", "offline", "alert"}
            /\ r \in beating' => r \in beating /\ workerOf[r] = v /\ phase[r] # "unused"
    BY <1>0, <1>1 DEF Calm, OwnCallback, SessionsOf, InCallback, HubTypes
  <1> QED BY <1>1, <1>2, <1>3, CalmFrame

\* OnConnect writes the status and cancels the alert that waits.
LEMMA CalmOnConnect ==
    ASSUME TypeOK, HubInv, NEW v \in Workers \ overlapped', Calm(v),
           NEW s \in Sessions, OnConnectOnline(s) \/ OnConnectCancel(s)
    PROVE Calm(v)'
  <1> DEFINE w == workerOf[s]
  <1>0. HubTypes /\ AlertTypes /\ w \in Workers
    BY DEF TypeOK, HubTypes
  <1>1. UNCHANGED <<hub, workerOf, replaced, beating, alertFor>>
        /\ phase' = [phase EXCEPT ![s] = phase'[s]] /\ InCallback(s)
    BY <1>0 DEF OnConnectOnline, OnConnectCancel, alertVars, HubTypes, InCallback
  <1>2. CASE v # w
    <2>1. status'[v] = status[v] /\ pending'[v] = pending[v]
      BY <1>0, <1>2 DEF OnConnectOnline, OnConnectCancel, UpdateWorkerHeartbeat, AlertTypes,
                        alertVars
    <2>2. \A t \in Timers : timer'[t] = "armed" => timer[t] = "armed"
      BY DEF OnConnectOnline, OnConnectCancel, alertVars
    <2> QED BY <1>0, <1>1, <1>2, <2>1, <2>2, CalmOther DEF HubTypes
  <1>3. CASE v = w
    <2>0. hub[w] = s /\ s \notin replaced /\ s # 0
      BY <1>1, <1>3, CallbackIsListed
    <2>1. OwnCallback(v)'
      BY <1>0, <1>1, <1>3, <2>0 DEF Calm, OwnCallback, SessionsOf, InCallback, HubTypes
    <2>2. CASE OnConnectOnline(s)
      <3>1. status'[v] = "online" /\ phase'[s] = "online" /\ hub'[v] = s
        BY <1>0, <1>3, <2>0, <2>2 DEF OnConnectOnline, UpdateWorkerHeartbeat, HubTypes, AlertTypes
      <3>2. AlertIsKnown(v)'
        BY <1>3, <2>2 DEF OnConnectOnline, Calm, AlertIsKnown, alertVars
      <3> QED BY <1>3, <2>0, <2>1, <3>1, <3>2
              DEF Calm, OfflineStays, OnlineStays, NoAlertWaits, ListedIn
    <2>3. CASE OnConnectCancel(s)
      <3>1. status'[v] = "online" /\ phase'[s] = "cancelled" /\ hub'[v] = s
        BY <1>0, <1>3, <2>0, <2>3 DEF OnConnectCancel, Calm, OnlineStays, ListedIn, HubTypes
      <3>2. \A t \in Timers : timer'[t] = "armed" => alertFor'[t] # v
        BY <1>3, <2>3 DEF OnConnectCancel, Calm, AlertIsKnown
      <3> QED BY <1>3, <2>0, <2>1, <3>1, <3>2
              DEF Calm, OfflineStays, OnlineStays, NoAlertWaits, ListedIn, AlertIsKnown
    <2> QED BY <2>2, <2>3
  <1> QED BY <1>2, <1>3

\* A session that is not, or no longer, in a callback moves on.
LEMMA CalmMoves ==
    ASSUME TypeOK, HubInv, NEW v \in Workers, Calm(v), NEW s \in Sessions, NEW p,
           phase[s] # "unused", p \in {"open", "remove", "gone"}, p = "open" => phase[s] = "cancelled",
           phase' = [phase EXCEPT ![s] = p],
           p \in {"remove", "gone"} => hub[workerOf[s]] # s,
           UNCHANGED <<hub, workerOf, replaced, beating, status, pending, timer, alertFor>>
    PROVE Calm(v)'
  <1>0. HubTypes
    BY DEF TypeOK
  <1>1. \A r \in Sessions : workerOf'[r] = v /\ phase'[r] # "unused" =>
            /\ r \in replaced' => phase'[r] \notin {"registered", "online", "offline", "alert"}
            /\ r \in beating' => r \in beating /\ workerOf[r] = v /\ phase[r] # "unused"
    BY <1>0 DEF Calm, OwnCallback, SessionsOf, InCallback, HubTypes
  <1>2. hub[v] # 0 => hub[v] \in Sessions /\ workerOf[hub[v]] = v
    BY <1>0, ListedIsSession DEF HubInv, HubIsCurrent, ConnectedWorkers
  <1>3. CASE hub[v] # s \/ hub[v] = 0
    <2>1. hub[v] # 0 => phase'[hub[v]] = phase[hub[v]]
      BY <1>0, <1>2, <1>3 DEF HubTypes
    <2> QED BY <1>1, <2>1, CalmFrame
  <1>4. CASE hub[v] = s /\ hub[v] # 0
    <2>1. phase[s] = "cancelled" /\ phase'[s] = "open"
      BY <1>0, <1>2, <1>4 DEF HubTypes
    <2>2. OwnCallback(v)'
      BY <1>1 DEF OwnCallback, SessionsOf, InCallback
    <2>3. OfflineStays(v)'
      BY <1>4, <2>1 DEF OfflineStays, ListedIn
    <2>4. OnlineStays(v)'
      BY <1>4, <2>1 DEF Calm, OnlineStays, ListedIn
    <2>5. AlertIsKnown(v)' /\ NoAlertWaits(v)'
      BY <1>4, <2>1 DEF Calm, AlertIsKnown, NoAlertWaits, ListedIn
    <2> QED BY <2>2, <2>3, <2>4, <2>5 DEF Calm
  <1> QED BY <1>3, <1>4

\* A heartbeat: only a session the hub lists as open begins one, and none is
\* left when the worker's end has been recorded.
LEMMA CalmHeartbeat ==
    ASSUME TypeOK, HubInv, NEW v \in Workers \ overlapped', Calm(v),
           NEW s \in Sessions, ReadHeartbeat(s) \/ HandleHeartbeat(s)
    PROVE Calm(v)'
  <1> DEFINE w == workerOf[s]
  <1>0. HubTypes /\ AlertTypes /\ w \in Workers /\ s # 0
    BY Numbers DEF TypeOK, HubTypes
  <1>1. /\ UNCHANGED <<hub, workerOf, phase, replaced, pending, timer, alertFor>>
        /\ \A r \in Sessions \ {s} : r \in beating' => r \in beating
    BY DEF ReadHeartbeat, HandleHeartbeat, alertVars
  <1>2. CASE v # w
    <2>1. status'[v] = status[v]
      BY <1>0, <1>2 DEF ReadHeartbeat, HandleHeartbeat, UpdateWorkerHeartbeat, AlertTypes
    <2> QED BY <1>0, <1>1, <1>2, <2>1, CalmOther
  <1>3. CASE v = w
    <2>1. OwnCallback(v)' /\ AlertIsKnown(v)' /\ NoAlertWaits(v)'
      BY <1>1, <1>3 DEF Calm, OwnCallback, AlertIsKnown, NoAlertWaits, SessionsOf, InCallback,
                        ListedIn
    <2>2. ~(hub[w] = 0 \/ ListedIn(w, {"alert", "remove"}))
      <3>1. CASE ReadHeartbeat(s)
        <4>1. phase[s] = "open" /\ hub[w] = s
          BY <3>1 DEF ReadHeartbeat, Pumping, HubInv, HubListsOpenSession
        <4> QED BY <1>0, <4>1 DEF ListedIn
      <3>2. CASE HandleHeartbeat(s)
        <4>1. s \in SessionsOf(w) /\ s \in beating
          BY <3>2 DEF HandleHeartbeat, SessionsOf, HubInv, UnusedIsFresh
        <4> QED BY <1>3, <4>1 DEF Calm, OfflineStays
      <3> QED BY <3>1, <3>2
    <2>3. OfflineStays(v)'
      BY <1>1, <1>3, <2>2 DEF OfflineStays, ListedIn
    <2>4. status'[v] = status[w] \/ status'[v] = "online"
      BY <1>0, <1>3 DEF ReadHeartbeat, HandleHeartbeat, UpdateWorkerHeartbeat, AlertTypes
    <2>5. OnlineStays(v)'
      BY <1>1, <1>3, <2>4 DEF Calm, OnlineStays, ListedIn
    <2> QED BY <1>3, <2>1, <2>3, <2>5 DEF Calm
  <1> QED BY <1>2, <1>3

\* OnDisconnect up to the status: the worker's session in the hub has ended.
LEMMA CalmOnDisconnect ==
    ASSUME TypeOK, HubInv, NEW v \in Workers \ overlapped', Calm(v),
           NEW s \in Sessions, \/ OnDisconnect(s) /\ s \notin replaced
                               \/ OnDisconnectOffline(s)
    PROVE Calm(v)'
  <1> DEFINE w == workerOf[s]
  <1>0. HubTypes /\ AlertTypes /\ w \in Workers /\ s # 0
    BY Numbers DEF TypeOK, HubTypes
  <1>1. /\ UNCHANGED <<hub, workerOf, replaced, beating, pending, timer, alertFor>>
        /\ phase' = [phase EXCEPT ![s] = phase'[s]] /\ phase[s] \in {"open", "offline"}
    BY <1>0 DEF OnDisconnect, OnDisconnectOffline, alertVars, HubTypes
  <1>2. CASE v # w
    <2>1. status'[v] = status[v]
      BY <1>0, <1>2 DEF OnDisconnect, OnDisconnectOffline, AlertTypes
    <2> QED BY <1>0, <1>1, <1>2, <2>1, CalmOther DEF HubTypes
  <1>3. CASE v = w
    <2>0. hub[v] = s /\ s \notin replaced
      BY <1>1, <1>3, CallbackIsListed
         DEF HubInv, LiveIsListed, OnDisconnect, OnDisconnectOffline, InCallback
    <2>1. OwnCallback(v)'
      BY <1>0, <1>1, <1>3, <2>0 DEF Calm, OwnCallback, SessionsOf, InCallback, HubTypes
    <2>2. AlertIsKnown(v)'
      BY <1>1 DEF Calm, AlertIsKnown
    <2>3. \A t \in Timers : timer'[t] = "armed" => alertFor'[t] # v
      BY <1>0, <1>1, <2>0 DEF Calm, NoAlertWaits, ListedIn
    <2>4. CASE OnDisconnect(s)
      <3>1. status'[v] = "online" /\ phase'[s] = "offline"
        BY <1>0, <2>0, <2>4 DEF OnDisconnect, Calm, OnlineStays, ListedIn, HubTypes
      <3> QED BY <1>0, <1>1, <2>0, <2>1, <2>2, <2>3, <3>1
              DEF Calm, OfflineStays, OnlineStays, NoAlertWaits, ListedIn
    <2>5. CASE OnDisconnectOffline(s)
      <3>1. status'[v] = "offline" /\ phase'[s] = "alert"
            /\ \A r \in SessionsOf(v) : r \notin beating
        BY <1>0, <1>3, <2>5 DEF OnDisconnectOffline, HubTypes, AlertTypes
      <3>2. \A r \in SessionsOf(v)' : r \notin beating'
        BY <1>0, <1>1, <3>1 DEF SessionsOf, HubTypes
      <3> QED BY <1>0, <1>1, <2>0, <2>1, <2>2, <2>3, <3>1, <3>2
              DEF Calm, OfflineStays, OnlineStays, NoAlertWaits, ListedIn
    <2> QED BY <2>4, <2>5
  <1> QED BY <1>2, <1>3

\* ScheduleDisconnectAlert: the one alert that waits for the worker is new.
LEMMA CalmSchedule ==
    ASSUME TypeOK, HubInv, NEW v \in Workers, Calm(v),
           NEW s \in Sessions, OnDisconnectAlert(s)
    PROVE Calm(v)'
  <1> DEFINE w == workerOf[s]
  <1>0. HubTypes /\ AlertTypes /\ w \in Workers /\ s # 0
    BY Numbers DEF TypeOK, HubTypes
  <1>1. /\ UNCHANGED <<hub, workerOf, replaced, beating, status>>
        /\ phase' = [phase EXCEPT ![s] = "remove"] /\ phase[s] = "alert"
    BY DEF OnDisconnectAlert
  <1>2. CASE v # w
    <2>1. pending'[v] = pending[v]
      BY <1>0, <1>2 DEF OnDisconnectAlert, AlertTypes, alertVars
    <2>2. \A t \in Timers : timer'[t] = "armed" /\ alertFor'[t] = v
                            => timer[t] = "armed" /\ alertFor[t] = v
      BY <1>0, <1>2 DEF OnDisconnectAlert, AlertTypes, alertVars
    <2> QED BY <1>0, <1>1, <1>2, <2>1, <2>2, CalmOther DEF HubTypes
  <1>3. CASE v = w
    <2>0. hub[v] = s /\ s \notin replaced
      BY <1>1, <1>3, CallbackIsListed DEF InCallback
    <2>1. OwnCallback(v)'
      BY <1>0, <1>1 DEF Calm, OwnCallback, SessionsOf, InCallback, HubTypes
    <2>2. \A t \in Timers : timer[t] = "armed" => alertFor[t] # v
      BY <1>0, <1>1, <2>0 DEF Calm, NoAlertWaits, ListedIn
    <2>3. AlertIsKnown(v)'
      <3>1. CASE UNCHANGED <<pending, timer, alertFor>>
        BY <2>2, <3>1 DEF AlertIsKnown
      <3>2. ASSUME NEW t \in Timers,
                   timer' = [u \in Timers |-> IF u = t THEN "armed"
                                ELSE IF u = pending[w] /\ timer[u] = "armed"
                                     THEN "stopped" ELSE timer[u]],
                   pending' = [pending EXCEPT ![w] = t],
                   alertFor' = [alertFor EXCEPT ![t] = w]
            PROVE AlertIsKnown(v)'
        BY <1>0, <1>3, <2>2, <3>2 DEF AlertIsKnown, AlertTypes
      <3> QED BY <3>1, <3>2 DEF OnDisconnectAlert, alertVars
    <2>4. OfflineStays(v)'
      <3>1. status[v] = "offline" /\ \A r \in SessionsOf(v) : r \notin beating
        BY <1>0, <1>1, <2>0 DEF Calm, OfflineStays, ListedIn
      <3> QED BY <1>0, <1>1, <3>1 DEF OfflineStays, SessionsOf, HubTypes
    <2> QED BY <1>0, <1>1, <2>0, <2>1, <2>3, <2>4
            DEF Calm, OnlineStays, NoAlertWaits, ListedIn, HubTypes
  <1> QED BY <1>2, <1>3

\* removeIfMatch.
LEMMA CalmRemove ==
    ASSUME TypeOK, HubInv, NEW v \in Workers, Calm(v),
           NEW s \in Sessions, RemoveIfMatch(s)
    PROVE Calm(v)'
  <1> DEFINE w == workerOf[s]
  <1>0. HubTypes /\ AlertTypes /\ w \in Workers /\ s # 0
    BY Numbers DEF TypeOK, HubTypes
  <1>1. /\ phase' = [phase EXCEPT ![s] = "gone"] /\ phase[s] = "remove"
        /\ hub' = [hub EXCEPT ![w] = IF @ = s THEN 0 ELSE @]
        /\ UNCHANGED <<workerOf, replaced, beating, status, pending, timer, alertFor>>
    BY DEF RemoveIfMatch, alertVars
  <1>2. CASE hub[w] # s
    <2>1. hub' = hub
      BY <1>0, <1>1, <1>2 DEF HubTypes
    <2> QED BY <1>1, <1>2, <2>1, CalmMoves
  <1>3. CASE hub[w] = s /\ v # w
    <2>1. hub'[v] = hub[v]
      BY <1>0, <1>1, <1>3 DEF HubTypes
    <2> QED BY <1>0, <1>1, <1>3, <2>1, CalmOther DEF HubTypes
  <1>4. CASE hub[w] = s /\ v = w
    <2>1. hub'[v] = 0
      BY <1>0, <1>1, <1>4 DEF HubTypes
    <2>2. status[v] = "offline" /\ \A r \in SessionsOf(v) : r \notin beating
      BY <1>0, <1>1, <1>4 DEF Calm, OfflineStays, ListedIn
    <2>3. OfflineStays(v)'
      BY <1>0, <1>1, <2>2 DEF OfflineStays, SessionsOf, HubTypes
    <2>4. OwnCallback(v)'
      BY <1>0, <1>1 DEF Calm, OwnCallback, SessionsOf, InCallback, HubTypes
    <2>5. AlertIsKnown(v)'
      BY <1>1 DEF Calm, AlertIsKnown
    <2> QED BY <2>1, <2>3, <2>4, <2>5 DEF Calm, OnlineStays, NoAlertWaits, ListedIn
  <1> QED BY <1>2, <1>3, <1>4

\* The alert timers: one that fired deletes its own entry, or none is left.
LEMMA CalmTimer ==
    ASSUME TypeOK, HubInv, NEW v \in Workers \ overlapped', Calm(v),
           NEW t \in Timers, TimerStep(t)
    PROVE Calm(v)'
  <1>0. AlertTypes /\ t # 0
    BY Numbers DEF TypeOK
  <1>1. UNCHANGED <<hubVars, status, alertFor>>
        /\ \A u \in Timers : timer'[u] = "armed" => timer[u] = "armed"
    BY <1>0 DEF TimerStep, TimerFires, TimerDeletesEntry, TimerAlerts, AlertTypes
  <1>2. CASE pending'[v] = pending[v]
    BY <1>1, <1>2, CalmOther DEF hubVars
  <1>3. CASE pending'[v] # pending[v]
    <2>1. TimerDeletesEntry(t) /\ alertFor[t] = v /\ pending[v] = t
      BY <1>0, <1>3 DEF TimerStep, TimerFires, TimerDeletesEntry, TimerAlerts, AlertTypes
    <2>2. \A u \in Timers : timer'[u] = "armed" => alertFor'[u] # v
      BY <1>0, <1>1, <2>1 DEF TimerDeletesEntry, Calm, AlertIsKnown, AlertTypes
    <2>3. OwnCallback(v)' /\ OfflineStays(v)' /\ OnlineStays(v)'
      BY <1>1 DEF hubVars, Calm, OwnCallback, OfflineStays, OnlineStays, SessionsOf, InCallback,
                  ListedIn
    <2> QED BY <2>2, <2>3 DEF Calm, AlertIsKnown, NoAlertWaits
  <1> QED BY <1>2, <1>3

\* A worker that nothing disturbs stays calm.
LEMMA CalmStep == ASSUME TypeOK, HubInv, CalmInv, [Next]_vars PROVE CalmInv'
  <1> SUFFICES ASSUME NEW v \in Workers \ overlapped' PROVE Calm(v)'
    BY DEF CalmInv
  <1>0. overlapped \subseteq overlapped' /\ HubTypes
    BY DEF TypeOK, CountTypes, Next, vars, Connect, OnConnectStep, PumpStep, OnDisconnectStep, TimerStep,
           Register, Reject, OnConnectOnline, OnConnectCancel, SendHello, FindSession, SendToWorker,
           WriteMessage, ConnectionLost, ReadHeartbeat, HandleHeartbeat, OnDisconnect,
           OnDisconnectOffline, OnDisconnectAlert, RemoveIfMatch, TimerFires, TimerDeletesEntry,
           TimerAlerts, CooldownExpires, UpdateWorkerStatus, Restart, UpdateWorkerHeartbeat
  <1>1. Calm(v)
    BY <1>0 DEF CalmInv
  <1>2. ASSUME NEW s \in Sessions, NEW w \in Workers, Register(s, w) \/ Reject(s, w)
        PROVE Calm(v)'
    BY <1>1, <1>2, CalmRegister, CalmReject
  <1>3. ASSUME NEW s \in Sessions, OnConnectStep(s) PROVE Calm(v)'
    <2>1. CASE SendHello(s)
      BY <1>1, <2>1, CalmMoves DEF SendHello, alertVars
    <2> QED BY <1>1, <1>3, <2>1, CalmOnConnect DEF OnConnectStep
  <1>4. CASE UNCHANGED <<hub, workerOf, phase, replaced, beating, status, alertVars>>
    BY <1>1, <1>4, CalmOther DEF alertVars
  <1>5. ASSUME NEW s \in Sessions, PumpStep(s) PROVE Calm(v)'
    <2>1. CASE WriteMessage(s) \/ ConnectionLost(s)
      BY <1>4, <2>1 DEF WriteMessage, ConnectionLost, hubVars
    <2> QED BY <1>1, <1>5, <2>1, CalmHeartbeat DEF PumpStep
  <1>6. ASSUME NEW s \in Sessions, OnDisconnectStep(s) PROVE Calm(v)'
    <2>1. CASE OnDisconnect(s) /\ s \in replaced
      <3>1. hub[workerOf[s]] # s
        BY <1>0, <2>1, Numbers DEF HubInv, HubIsCurrent, ConnectedWorkers, HubTypes
      <3> QED BY <1>1, <2>1, <3>1, CalmMoves DEF OnDisconnect, alertVars
    <2> QED BY <1>1, <1>6, <2>1, CalmOnDisconnect, CalmSchedule, CalmRemove DEF OnDisconnectStep
  <1>7. ASSUME NEW c \in Commands, SendToWorker(c) \/ \E w \in Workers : FindSession(c, w)
        PROVE Calm(v)'
    BY <1>4, <1>7 DEF FindSession, SendToWorker, hubVars
  <1>8. ASSUME NEW t \in Timers, TimerStep(t) PROVE Calm(v)'
    BY <1>1, <1>8, CalmTimer
  <1>9. ASSUME NEW w \in Workers, CooldownExpires(w) PROVE Calm(v)'
    BY <1>1, <1>9, CalmOther DEF CooldownExpires, hubVars
  <1>10. ASSUME NEW w \in Workers, NEW st \in EditStatus, UpdateWorkerStatus(w, st)
         PROVE Calm(v)'
    <2>1. v # w /\ status'[v] = status[v]
      BY <1>10 DEF UpdateWorkerStatus, TypeOK, AlertTypes
    <2> QED BY <1>1, <1>10, <2>1, CalmOther DEF UpdateWorkerStatus, hubVars, alertVars
  <1>11. ~Restart
    BY DEF Restart
  <1>12. CASE UNCHANGED vars
    BY <1>4, <1>12 DEF vars, hubVars
  <1> QED BY <1>2, <1>3, <1>5, <1>6, <1>7, <1>8, <1>9, <1>10, <1>11, <1>12 DEF Next, Connect

-----------------------------------------------------------------------------
(* The theorems.                                                             *)

\* All that is inductive holds at first.
LEMMA InitInv == Init => HubInv /\ CalmInv
  <1> SUFFICES ASSUME Init PROVE HubInv /\ CalmInv
    OBVIOUS
  <1>1. ConnectedWorkers = {}
    BY DEF Init, ConnectedWorkers
  <1>2. HubIsCurrent
    BY <1>1, FS_EmptySet, SessionBounds DEF HubIsCurrent
  <1>3. HubInv
    BY <1>2 DEF Init, HubInv, HubListsOpenSession, EndedIsClosed, UnusedIsFresh, HubIsUsed,
                LiveIsListed
  <1>4. CalmInv
    BY DEF Init, CalmInv, Calm, OwnCallback, OfflineStays, OnlineStays, AlertIsKnown,
           NoAlertWaits, ListedIn, SessionsOf
  <1> QED BY <1>3, <1>4

\* The hub, the queues, the statuses and the alert timers keep their types, and
\* no session's queue outgrows sendBufferSize, whatever sessions come and go.
THEOREM TypeCorrect == Spec => []TypeOK
  <1>1. Init => TypeOK
    BY InitTypes
  <1>2. TypeOK /\ [Next]_vars => TypeOK'
    BY NextTypes
  <1> QED BY <1>1, <1>2, PTL DEF Spec

\* What is inductive about the hub and the calm workers is invariant.
LEMMA Inductive == Spec => [](TypeOK /\ HubInv /\ CalmInv)
  <1>1. Init => TypeOK /\ HubInv /\ CalmInv
    BY InitTypes, InitInv
  <1>2. (TypeOK /\ HubInv /\ CalmInv) /\ [Next]_vars => (TypeOK /\ HubInv /\ CalmInv)'
    BY NextTypes, HubStep, CalmStep
  <1> QED BY <1>1, <1>2, PTL DEF Spec

\* Whatever the goroutines of its earlier sessions still do, the session of a
\* worker that is open is the one the hub lists.
THEOREM HubListsTheOpenSession == Spec => []HubListsOpenSession
  <1>1. HubInv => HubListsOpenSession
    BY DEF HubInv
  <1> QED BY <1>1, Inductive, PTL

\* removeIfMatch and Register keep the hub within MaxWorkerSessions and free of
\* sessions that were replaced or are gone.
THEOREM HubStaysCurrent == Spec => []HubIsCurrent
  <1>1. HubInv => HubIsCurrent
    BY DEF HubInv
  <1> QED BY <1>1, Inductive, PTL

\* A worker whose callbacks have run one after the other is online exactly when
\* the hub lists it, and no alert waits to say that it has gone when it has not.
THEOREM StatusAgreesWithHub == Spec => []StatusAgrees
  <1>1. ASSUME TypeOK, HubInv, CalmInv PROVE StatusAgrees
    <2> SUFFICES ASSUME NEW w \in Workers \ overlapped, Settled(w)
                 PROVE /\ status[w] = "online" <=> hub[w] # 0
                       /\ hub[w] # 0 => \A t \in Timers : timer[t] = "armed" => alertFor[t] # w
      BY DEF StatusAgrees
    <2>1. Calm(w)
      BY <1>1 DEF CalmInv
    <2>2. CASE hub[w] = 0
      BY <2>1, <2>2 DEF Calm, OfflineStays
    <2>3. CASE hub[w] # 0
      <3>1. hub[w] \in SessionsOf(w) /\ phase[hub[w]] # "gone"
        BY <1>1, <2>3, ListedIsSession
           DEF TypeOK, HubInv, HubIsCurrent, HubIsUsed, ConnectedWorkers, SessionsOf
      <3>2. phase[hub[w]] = "open"
        BY <3>1 DEF Settled, Pumping
      <3> QED BY <2>1, <2>3, <3>2 DEF Calm, OnlineStays, NoAlertWaits, ListedIn
    <2> QED BY <2>2, <2>3
  <1>2. TypeOK /\ HubInv /\ CalmInv => StatusAgrees
    BY <1>1
  <1> QED BY <1>2, Inductive, PTL
=============================================================================
