---------------------------- MODULE DatabaseLedger ----------------------------
(***************************************************************************)
(* The names, host ports and data volumes that managed databases claim on  *)
(* a worker: the checks made by the requests that create and edit them,    *)
(* the inserts and updates made later, and the unique indices behind both. *)
(*                                                                         *)
(* The checks of a request are one step and its write another; other       *)
(* requests, deletions and containers of stacks come in between.  One      *)
(* worker is modelled: the claims of different workers do not meet.        *)
(***************************************************************************)
EXTENDS Integers, Sequences, FiniteSets

CONSTANTS DbNames,
          PortMin, PortMax,   \* DB_PORT_RANGE_MIN, DB_PORT_RANGE_MAX
          OtherPorts,         \* ports outside the range, which a request may name
          Asks,               \* bound: requests under way
          StackPorts,         \* ports that containers of stacks publish
          MaxInstances        \* bound: rows

Ports == PortMin .. PortMax \cup OtherPorts

ASSUME DatabaseLedgerAssumption ==
    /\ PortMin \in Nat /\ PortMax \in Nat /\ OtherPorts \subseteq Nat
    /\ StackPorts \subseteq Nat /\ MaxInstances \in Nat

VARIABLES instances,   \* database_instances
          published,   \* the host ports of active containers of stacks
          asks,        \* what each request has checked and is about to write
          unchecked    \* history: ports that a container published over a claim,
                       \* or that came back with a row revived

ledgerVars == <<instances, published, asks, unchecked>>

NoAsk == [op |-> "none"]

LedgerInit ==
    /\ instances = << >> /\ published = {} /\ unchecked = {}
    /\ asks = [a \in Asks |-> NoAsk]

Active == {i \in DOMAIN instances : instances[i].active}

ClaimedPortsOnWorker == {instances[i].port : i \in Active} \cup published

\* The port the request asks for, if it is free, or the lowest free one.
AllocateDatabasePort(port) ==
    \/ \E wanted \in Ports \ ClaimedPortsOnWorker : port = wanted
    \/ /\ port \in PortMin .. PortMax \ ClaimedPortsOnWorker
       /\ \A p \in PortMin .. PortMax \ ClaimedPortsOnWorker : port <= p

FindPortConflict(port, i) ==
    \/ \E j \in Active \ {i} : instances[j].port = port
    \/ port \in published

\* Mutant: only the name is claimed, and the port's index is missing.
NameClaimFree(i, row) ==
    row.active => \A j \in Active \ {i} : instances[j].name # row.name

\* idx_db_instance_name_claim, idx_db_instance_worker_port: a write that would
\* have two active rows share a name or a port fails.
ClaimFree(i, row) ==
    row.active => \A j \in Active \ {i} :
        instances[j].name # row.name /\ instances[j].port # row.port

Done(a) == asks' = [asks EXCEPT ![a] = NoAsk]

\* HandleCreateDatabaseInstance up to the insert.
CheckCreate(a, name, port) ==
    /\ asks[a] = NoAsk /\ AllocateDatabasePort(port)
    /\ \A i \in Active : instances[i].name # name
    /\ asks' = [asks EXCEPT ![a] = [op |-> "create", name |-> name, port |-> port]]
    /\ UNCHANGED <<instances, published, unchecked>>

\* CreateDatabaseInstance: the volume is named for the name of that moment.
CreateDatabaseInstance(a) ==
    LET row == [name |-> asks[a].name, volume |-> asks[a].name, port |-> asks[a].port,
                active |-> TRUE]
    IN
    /\ asks[a].op = "create" /\ Len(instances) < MaxInstances
    /\ instances' = IF ClaimFree(0, row) THEN Append(instances, row) ELSE instances
    /\ Done(a) /\ UNCHANGED <<published, unchecked>>

\* HandleUpdateDatabaseInstance up to the update: the fields the body leaves out
\* are kept, a port that it gives is checked, and a name is not.
CheckUpdate(a, i, fields) ==
    /\ asks[a] = NoAsk /\ i \in Active
    /\ "port" \in DOMAIN fields => ~FindPortConflict(fields.port, i)
    /\ asks' = [asks EXCEPT ![a] = [op |-> "update", id |-> i, fields |-> fields]]
    /\ UNCHANGED <<instances, published, unchecked>>

\* UpdateDatabaseInstance, whatever has become of the row since.
UpdateDatabaseInstance(a) ==
    LET i == asks[a].id
        f == asks[a].fields
        row == [k \in DOMAIN instances[i] |-> IF k \in DOMAIN f THEN f[k] ELSE instances[i][k]]
        written == ClaimFree(i, row)
    IN
    /\ asks[a].op = "update"
    /\ instances' = IF written THEN [instances EXCEPT ![i] = row] ELSE instances
    /\ unchecked' = IF written /\ row.active /\ ~instances[i].active
                    THEN unchecked \cup {row.port} ELSE unchecked
    /\ Done(a) /\ UNCHANGED published

\* FinalizeDeletion retires the row.
RetireInstance(i) ==
    /\ i \in Active /\ instances' = [instances EXCEPT ![i].active = FALSE]
    /\ UNCHANGED <<published, asks, unchecked>>

Pending ==
    {asks[a].port : a \in {b \in Asks : asks[b].op = "create"}} \cup
    {asks[a].fields.port : a \in {b \in Asks : asks[b].op = "update"
                                            /\ "port" \in DOMAIN asks[b].fields}}

\* Containers of stacks publish and give up ports without looking at the ledger.
PublishPort(p) ==
    /\ p \notin published /\ published' = published \cup {p}
    /\ unchecked' = IF p \in Pending \/ \E i \in Active : instances[i].port = p
                    THEN unchecked \cup {p} ELSE unchecked
    /\ UNCHANGED <<instances, asks>>

WithdrawPort(p) ==
    /\ p \in published /\ published' = published \ {p} /\ unchecked' = unchecked \ {p}
    /\ UNCHANGED <<instances, asks>>

\* What a body may change, one field at a time; one that retires the row does
\* what RetireInstance does.
Fields == [port : Ports] \cup [name : DbNames] \cup [active : {TRUE}]

LedgerNext ==
    \/ \E a \in Asks :
          \/ CreateDatabaseInstance(a) \/ UpdateDatabaseInstance(a)
          \/ \E n \in DbNames, p \in Ports : CheckCreate(a, n, p)
          \/ \E i \in DOMAIN instances, f \in Fields : CheckUpdate(a, i, f)
    \/ \E i \in DOMAIN instances : RetireInstance(i)
    \/ \E p \in StackPorts : PublishPort(p) \/ WithdrawPort(p)

LedgerSpec == LedgerInit /\ [][LedgerNext]_ledgerVars

(***************************************************************************)
(* Active databases of a worker never share a name or a host port, however *)
(* the checks of requests and their writes interleave and whatever rows    *)
(* are retired or revived in between; they share a data volume only when   *)
(* one of them has been renamed, which frees the name and not the volume;  *)
(* and a database has the port of a container only if the container took   *)
(* it over a claim, or the row was revived ("still enforcing that no two   *)
(* active instances share a name", "A host port may only be claimed once   *)
(* per worker by an active instance", db.go).                              *)
(***************************************************************************)
ClaimsHold ==
    \A i \in Active :
        /\ instances[i].port \in published => instances[i].port \in unchecked
        /\ \A j \in Active \ {i} :
              LET x == instances[i] y == instances[j] IN
              /\ x.name # y.name /\ x.port # y.port
              /\ x.volume = y.volume => x.name # x.volume \/ y.name # y.volume
=============================================================================
