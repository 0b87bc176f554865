------------------------------ MODULE AdminFeed ------------------------------
(***************************************************************************)
(* What dashboards are told over their sockets: the hub of admin sessions, *)
(* each with a bounded queue, a pump that empties it and subscriptions;    *)
(* and the health scan, which compares what workers report with the rows   *)
(* and broadcasts its anomalies when they have changed.                    *)
(*                                                                         *)
(* A step is one critical section of the hub or of a session, one write to *)
(* a socket, or one part of a scan.  One worker is modelled, no two rows   *)
(* of which have one container name: creation tests that, renaming does    *)
(* not, and two anomalies with one id are as one in the scan's comparison. *)
(***************************************************************************)
EXTENDS Integers, Sequences, FiniteSets

CONSTANTS AdminClients,           \* admin sessions
          MaxAdminSessions,
          SendBuffer,         \* sendBufferSize
          Topics,
          StackNames,         \* names of containers of stacks
          RetiredNames,       \* names a failed deployment leaves behind
          DatabaseNames,      \* names of containers of databases
          NoList,
          MaxNews,            \* bound: changes of what the scan reads
          MaxScans, MaxTopicEdits, MaxOther   \* bounds

ASSUME AdminFeedAssumption ==
    /\ MaxAdminSessions \in Nat /\ SendBuffer \in Nat \ {0} /\ MaxNews \in Nat
    /\ MaxScans \in Nat /\ MaxTopicEdits \in Nat /\ MaxOther \in Nat
    /\ IsFiniteSet(StackNames) /\ IsFiniteSet(RetiredNames) /\ IsFiniteSet(DatabaseNames)

ContainerNames == StackNames \cup RetiredNames \cup DatabaseNames

VARIABLES session,    \* AdminSession: open, closed, topics and Send; and what
                      \* was last queued of anomalies, and whether one was lost
          hub,        \* AdminHub.sessions
          world,      \* what a scan reads: whether the worker is connected, its
                      \* fresh heartbeat and db_sync (orphaned containers and
                      \* volumes), the containers table and the instances
          anomalies,  \* Scanner.anomalies
          scanning,   \* whether a changed list is about to be broadcast
          news, scans, topicEdits, others

feedVars == <<session, hub, world, anomalies, scanning, news, scans, topicEdits, others>>

NewSession == [state |-> "new", topics |-> {}, send |-> << >>, told |-> NoList, lost |-> FALSE]

NoReport == [fresh |-> FALSE, names |-> {}]

FeedInit ==
    /\ session = [c \in AdminClients |-> NewSession] /\ hub = {}
    /\ world = [connected |-> TRUE, heartbeat |-> NoReport, orphans |-> {}, volumes |-> {},
                expected |-> [n \in StackNames |-> "none"], managed |-> {}]
    /\ anomalies = {} /\ scanning = FALSE
    /\ news = 0 /\ scans = 0 /\ topicEdits = 0 /\ others = 0
-----------------------------------------------------------------------------
(* Sessions.                                                                 *)

\* ServeHTTP, Register: a session too many is turned away.
RegisterAdmin(c) ==
    /\ session[c].state = "new"
    /\ IF Cardinality(hub) >= MaxAdminSessions
       THEN session' = [session EXCEPT ![c].state = "gone"] /\ UNCHANGED hub
       ELSE session' = [session EXCEPT ![c].state = "open"] /\ hub' = hub \cup {c}
    /\ UNCHANGED <<world, anomalies, scanning, news, scans, topicEdits, others>>

\* A pump ends on an error of its socket and closes the session.
CloseAdmin(c) ==
    /\ session[c].state = "open" /\ session' = [session EXCEPT ![c].state = "closed"]
    /\ UNCHANGED <<hub, world, anomalies, scanning, news, scans, topicEdits, others>>

\* The goroutine of ServeHTTP that waits for the end of the session.
removeIfMatch(c) ==
    /\ session[c].state = "closed" /\ c \in hub /\ hub' = hub \ {c}
    /\ session' = [session EXCEPT ![c] = [NewSession EXCEPT !.state = "gone"]]
    /\ UNCHANGED <<world, anomalies, scanning, news, scans, topicEdits, others>>

\* writePump
WriteAdmin(c) ==
    /\ session[c].state = "open" /\ session[c].send # << >>
    /\ session' = [session EXCEPT ![c].send = Tail(@)]
    /\ UNCHANGED <<hub, world, anomalies, scanning, news, scans, topicEdits, others>>

\* OnMessage: Subscribe adds, Unsubscribe removes, and without topics clears.
EditTopics(c, topics) ==
    /\ session[c].state = "open" /\ topicEdits < MaxTopicEdits /\ topicEdits' = topicEdits + 1
    /\ \E new \in {session[c].topics \cup topics, session[c].topics \ topics, {}} :
          session' = [session EXCEPT ![c].topics = new]
    /\ UNCHANGED <<hub, world, anomalies, scanning, news, scans, others>>

\* A session without subscriptions receives everything.
matchesTopic(c, topics) == session[c].topics = {} \/ session[c].topics \cap topics # {}

Room(c) == Len(session[c].send) < SendBuffer

Sent(s, msg) == [s EXCEPT !.send = Append(@, msg),
                          !.told = IF msg.kind = "anomalies" THEN msg.list ELSE @,
                          !.lost = @ /\ msg.kind # "anomalies"]

Dropped(s, msg) == [s EXCEPT !.lost = @ \/ msg.kind = "anomalies"]

\* The select for each session: the message is queued, or dropped because the
\* queue is full or the session has been closed.
Broadcast(msg, to) ==
    \E dropped \in SUBSET to :
        /\ \A c \in to : IF c \in dropped THEN ~Room(c) \/ session[c].state = "closed"
                                         ELSE Room(c)
        /\ session' = [c \in AdminClients |->
              IF c \in dropped THEN Dropped(session[c], msg)
              ELSE IF c \in to THEN Sent(session[c], msg) ELSE session[c]]

\* Broadcasts of worker messages, to everyone or by topic.
BroadcastFiltered(topics) ==
    /\ others < MaxOther /\ others' = others + 1
    /\ Broadcast([kind |-> "other"], {c \in hub : topics = {} \/ matchesTopic(c, topics)})
    /\ UNCHANGED <<hub, world, anomalies, scanning, news, scans, topicEdits>>
-----------------------------------------------------------------------------
(* The health scan.                                                          *)

\* checkStaleWorker
checkStaleWorker ==
    {<<"stale_state", n>> : n \in {m \in StackNames : world.expected[m] = "running"}}

\* What a fresh db_sync found: containers, and volumes, that no instance owns.
databaseOrphanAnomalies ==
    {<<"orphaned_database", n>> : n \in world.orphans}
    \cup {<<"orphaned_database_volume", n>> : n \in world.volumes}

\* Without the list, databases are taken for unmanaged.
managedDatabaseNames == {world.managed, {}}

Unmanaged(managed) ==
    {<<IF n \in RetiredNames THEN "orphaned_container" ELSE "unmanaged_container", n>> :
        n \in {m \in world.heartbeat.names :
                  /\ m \notin managed \cup world.orphans
                  /\ m \in StackNames => world.expected[m] = "none"}}

Missing ==
    {<<"missing_container", n>> : n \in {m \in StackNames :
        world.expected[m] = "running" /\ m \notin world.heartbeat.names}}

\* What a scan finds; a list that cannot be read leaves its part out.
Found ==
    IF ~world.connected THEN {checkStaleWorker, {}}
    ELSE {databaseOrphanAnomalies}
         \cup IF world.heartbeat.fresh
              THEN {databaseOrphanAnomalies \cup Unmanaged(managed) \cup Missing :
                       managed \in managedDatabaseNames}
              ELSE {}

\* Mutant: only anomalies that were not there before count as a change.
ChangedByNew(found) == ~(found \subseteq anomalies)

\* Not as many as before, or one of them new.
Changed(found) == Cardinality(found) # Cardinality(anomalies) \/ ~(found \subseteq anomalies)

\* scan, up to the unlock.
Scan ==
    /\ ~scanning /\ scans < MaxScans /\ scans' = scans + 1
    /\ \E found \in Found : anomalies' = found /\ scanning' = Changed(found)
    /\ UNCHANGED <<session, hub, world, news, topicEdits, others>>

BroadcastAnomalies ==
    /\ scanning /\ scanning' = FALSE
    /\ Broadcast([kind |-> "anomalies", list |-> anomalies], hub)
    /\ UNCHANGED <<hub, world, anomalies, news, scans, topicEdits, others>>

-----------------------------------------------------------------------------
(* What a scan reads changes.                                                *)

News(new) ==
    /\ news < MaxNews /\ news' = news + 1 /\ new # world /\ world' = new
    /\ UNCHANGED <<session, hub, anomalies, scanning, scans, topicEdits, others>>

\* From the handler of a heartbeat.
UpdateWorkerContainers(names) ==
    News([world EXCEPT !.heartbeat = [fresh |-> TRUE, names |-> names]])

\* From the handler of a db_sync.
UpdateWorkerDatabaseOrphans(names, volumes) ==
    News([world EXCEPT !.orphans = names, !.volumes = volumes])

\* Reports grow too old for the scan.
HeartbeatAges == News([world EXCEPT !.heartbeat = NoReport])
OrphansAge == News([world EXCEPT !.orphans = {}, !.volumes = {}])

\* The worker connects or disconnects.
ConnectionChanges == News([world EXCEPT !.connected = ~@])

\* Rows of containers and instances are written.
ContainersChange(n, status) == News([world EXCEPT !.expected[n] = status])
InstancesChange(names) == News([world EXCEPT !.managed = names])

WorldChanges ==
    \/ HeartbeatAges \/ OrphansAge \/ ConnectionChanges
    \/ \E names \in SUBSET ContainerNames : UpdateWorkerContainers(names)
    \/ \E names \in SUBSET DatabaseNames :
          \/ InstancesChange(names)
          \/ \E volumes \in SUBSET DatabaseNames : UpdateWorkerDatabaseOrphans(names, volumes)
    \/ \E n \in StackNames, status \in {"none", "running", "stopped"} :
          ContainersChange(n, status)

FeedNext ==
    \/ Scan \/ BroadcastAnomalies \/ WorldChanges
    \/ \E topics \in SUBSET Topics : BroadcastFiltered(topics)
    \/ \E c \in AdminClients :
          \/ RegisterAdmin(c) \/ CloseAdmin(c) \/ removeIfMatch(c) \/ WriteAdmin(c)
          \/ \E topics \in SUBSET Topics : EditTopics(c, topics)

FeedSpec == FeedInit /\ [][FeedNext]_feedVars

(***************************************************************************)
(* Between scans, an open session has last been sent the anomalies that    *)
(* the scanner lists, or none since it connected, whatever else filled its *)
(* queue and whatever it subscribed to ("broadcast if changed", scan),     *)
(* unless the last change found its queue full.                            *)
(***************************************************************************)
AnomaliesReachClients ==
    ~scanning => \A c \in hub : session[c].state = "open" =>
        session[c].told \in {NoList, anomalies} \/ session[c].lost
=============================================================================
