---------------------------- MODULE RequestsProofs ----------------------------
(***************************************************************************)
(* Proofs for the components that requests and start-up meet one at a      *)
(* time: the claims of databases (DatabaseLedger), the migrations and      *)
(* migrate-encrypt (Schema), self update (SelfUpdate), what dashboards are *)
(* told (AdminFeed), the limiter (RateLimit) and the batcher of log lines  *)
(* (LogBatch).  Each has a specification and an inductive invariant of its *)
(* own; with those of AutomationEdits they make up Requests.               *)
(***************************************************************************)
EXTENDS Requests, AutomationEditsProofs, FiniteSetTheorems, SequenceTheorems, TLAPS

-----------------------------------------------------------------------------
(* The claims of databases.                                                  *)

InstanceRows == [name : DbNames, volume : DbNames, port : Ports, active : BOOLEAN]

LedgerAsks == {NoAsk} \cup [op : {"create"}, name : DbNames, port : Ports]
              \cup [op : {"update"}, id : Nat, fields : Fields]

LedgerTypes ==
    /\ instances \in Seq(InstanceRows) /\ asks \in [Asks -> LedgerAsks]
    /\ \A a \in Asks : asks[a].op = "update" => asks[a].id \in DOMAIN instances

\* A port that was checked is published since only if that is known.
Noted(p) == p \in published => p \in unchecked

\* A port a request has checked and is about to write.
AsksNoted ==
    \A a \in Asks : /\ asks[a].op = "create" => Noted(asks[a].port)
                    /\ asks[a].op = "update" /\ "port" \in DOMAIN asks[a].fields
                          => Noted(asks[a].fields.port)

LedgerInv == LedgerTypes /\ ClaimsHold /\ AsksNoted

\* A write that passes the unique indices leaves the claims apart.
LEMMA WriteKeepsClaims ==
    ASSUME LedgerInv, NEW k, NEW row \in InstanceRows,
           row.active => \A j \in Active \ {k} :
               instances[j].name # row.name /\ instances[j].port # row.port,
           \A j \in DOMAIN instances' :
               \/ j = k /\ instances'[j] = row
               \/ j # k /\ j \in DOMAIN instances /\ instances'[j] = instances[j],
           row.active /\ row.port \in published => row.port \in unchecked',
           published' = published, unchecked \subseteq unchecked'
    PROVE ClaimsHold'
  <1>1. \A j \in Active' : \/ j = k /\ instances'[j] = row /\ row.active
                           \/ j # k /\ j \in Active /\ instances'[j] = instances[j]
    BY DEF Active
  <1>2. ASSUME NEW x \in Active'
        PROVE instances'[x].port \in published' => instances'[x].port \in unchecked'
    BY <1>1 DEF LedgerInv, ClaimsHold
  <1>3. ASSUME NEW x \in Active', NEW y \in Active' \ {x}
        PROVE instances'[x].name # instances'[y].name /\ instances'[x].port # instances'[y].port
    BY <1>1 DEF LedgerInv, ClaimsHold
  <1> QED BY <1>2, <1>3 DEF ClaimsHold

\* A request's next step is known, the rest are as they were.
LEMMA DoneTypes ==
    ASSUME LedgerInv, NEW a \in Asks, Done(a)
    PROVE /\ asks' \in [Asks -> LedgerAsks]
          /\ \A b \in Asks : asks'[b] = asks[b] \/ (asks'[b] = NoAsk /\ asks'[b].op = "none")
  BY DEF LedgerInv, LedgerTypes, Done, LedgerAsks, NoAsk

\* CreateDatabaseInstance.
LEMMA CreateLedger ==
    ASSUME LedgerInv, NEW a \in Asks, CreateDatabaseInstance(a)
    PROVE LedgerInv'
  <1> DEFINE row == [name |-> asks[a].name, volume |-> asks[a].name, port |-> asks[a].port,
                     active |-> TRUE]
             k == Len(instances) + 1
  <1>0. /\ instances \in Seq(InstanceRows) /\ Done(a) /\ UNCHANGED <<published, unchecked>>
        /\ asks[a] \in LedgerAsks /\ asks[a].op = "create"
        /\ instances' = IF ClaimFree(0, row) THEN Append(instances, row) ELSE instances
    BY DEF LedgerInv, LedgerTypes, CreateDatabaseInstance
  <1>1. asks[a].name \in DbNames /\ asks[a].port \in Ports
    BY <1>0 DEF LedgerAsks, NoAsk
  <1>2. row \in InstanceRows /\ Noted(row.port)
    BY <1>0, <1>1 DEF InstanceRows, LedgerInv, AsksNoted
  <1> HIDE DEF row
  <1>3. /\ asks' \in [Asks -> LedgerAsks]
        /\ \A b \in Asks : asks'[b] = asks[b] \/ (asks'[b] = NoAsk /\ asks'[b].op = "none")
    BY <1>0, DoneTypes
  <1>4. AsksNoted'
    BY <1>0, <1>3 DEF LedgerInv, AsksNoted, Noted
  <1>5. CASE ~ClaimFree(0, row)
    BY <1>0, <1>3, <1>4, <1>5 DEF LedgerInv, LedgerTypes, ClaimsHold, Active
  <1>6. CASE ClaimFree(0, row)
    <2>1. instances' = Append(instances, row)
      BY <1>0, <1>6
    <2>2. /\ instances' \in Seq(InstanceRows) /\ DOMAIN instances \subseteq DOMAIN instances'
          /\ \A j \in DOMAIN instances' :
               \/ j = k /\ instances'[j] = row
               \/ j # k /\ j \in DOMAIN instances /\ instances'[j] = instances[j]
      <3>1. /\ instances' \in Seq(InstanceRows) /\ Len(instances') = Len(instances) + 1
            /\ \A j \in 1 .. Len(instances) : instances'[j] = instances[j]
            /\ instances'[Len(instances) + 1] = row
        BY <1>0, <1>2, <2>1, AppendProperties
      <3>2. /\ Len(instances) \in Nat /\ DOMAIN instances = 1 .. Len(instances)
            /\ DOMAIN instances' = 1 .. Len(instances')
        BY <1>0, <3>1, LenProperties
      <3> QED BY <3>1, <3>2
    <2>3. row.active => \A j \in Active \ {k} :
              instances[j].name # row.name /\ instances[j].port # row.port
      <3>1. \A j \in Active : j # 0
        BY <1>0 DEF Active
      <3> QED BY <1>6, <3>1 DEF ClaimFree
    <2>4. /\ row.active /\ row.port \in published => row.port \in unchecked'
          /\ published' = published /\ unchecked \subseteq unchecked'
      BY <1>0, <1>2 DEF Noted
    <2>5. ClaimsHold'
      <3> HIDE DEF k
      <3> QED BY <1>2, <2>2, <2>3, <2>4, WriteKeepsClaims
    <2> QED BY <1>3, <1>4, <2>2, <2>5 DEF LedgerInv, LedgerTypes, NoAsk
  <1> QED BY <1>5, <1>6

\* The fields of a body replace the row's.
LEMMA FieldsReplace ==
    ASSUME NEW old \in InstanceRows, NEW f \in Fields, NEW row,
           row = [k \in DOMAIN old |-> IF k \in DOMAIN f THEN f[k] ELSE old[k]]
    PROVE /\ row \in InstanceRows /\ row.volume = old.volume
          /\ IF "port" \in DOMAIN f THEN row.port = f.port ELSE row.port = old.port
  <1>1. CASE f \in [port : Ports]
    <2>1. row = [old EXCEPT !.port = f.port] /\ DOMAIN f = {"port"}
      BY <1>1 DEF InstanceRows
    <2> QED BY <1>1, <2>1 DEF InstanceRows
  <1>2. CASE f \in [name : DbNames]
    <2>1. row = [old EXCEPT !.name = f.name] /\ DOMAIN f = {"name"}
      BY <1>2 DEF InstanceRows
    <2> QED BY <1>2, <2>1 DEF InstanceRows
  <1>3. CASE f \in [active : {TRUE}]
    <2>1. row = [old EXCEPT !.active = f.active] /\ DOMAIN f = {"active"}
      BY <1>3 DEF InstanceRows
    <2> QED BY <1>3, <2>1 DEF InstanceRows
  <1> QED BY <1>1, <1>2, <1>3 DEF Fields

\* UpdateDatabaseInstance.
LEMMA UpdateLedger ==
    ASSUME LedgerInv, NEW a \in Asks, UpdateDatabaseInstance(a)
    PROVE LedgerInv'
  <1> DEFINE i == asks[a].id
             f == asks[a].fields
             row == [k \in DOMAIN instances[i] |-> IF k \in DOMAIN f THEN f[k] ELSE instances[i][k]]
             revived == row.active /\ ~instances[i].active
  <1>0. /\ instances \in Seq(InstanceRows) /\ Done(a) /\ UNCHANGED published
        /\ asks[a] \in LedgerAsks /\ asks[a].op = "update" /\ i \in DOMAIN instances
        /\ instances' = IF ClaimFree(i, row) THEN [instances EXCEPT ![i] = row] ELSE instances
        /\ unchecked' = IF ClaimFree(i, row) /\ revived THEN unchecked \cup {row.port}
                        ELSE unchecked
    BY DEF LedgerInv, LedgerTypes, UpdateDatabaseInstance
  <1>1. f \in Fields /\ instances[i] \in InstanceRows
    BY <1>0 DEF LedgerAsks, NoAsk
  <1>2. /\ row \in InstanceRows
        /\ IF "port" \in DOMAIN f THEN row.port = f.port ELSE row.port = instances[i].port
    BY <1>1, FieldsReplace
  <1>3. /\ asks' \in [Asks -> LedgerAsks]
        /\ \A b \in Asks : asks'[b] = asks[b] \/ (asks'[b] = NoAsk /\ asks'[b].op = "none")
    BY <1>0, DoneTypes
  <1>4. "port" \in DOMAIN f => Noted(f.port)
    BY <1>0 DEF LedgerInv, AsksNoted
  <1> HIDE DEF row, f, i
  <1>5. unchecked \subseteq unchecked' /\ DOMAIN instances' = DOMAIN instances
        /\ instances' \in Seq(InstanceRows)
    BY <1>0, <1>2
  <1>6. AsksNoted'
    BY <1>0, <1>3, <1>5 DEF LedgerInv, AsksNoted, Noted
  <1>7. ClaimsHold'
    <2>1. CASE ~ClaimFree(i, row)
      BY <1>0, <2>1 DEF LedgerInv, ClaimsHold, Active
    <2>2. CASE ClaimFree(i, row)
      <3>1. row.active /\ row.port \in published => row.port \in unchecked'
        <4>1. CASE row.active /\ ~instances[i].active
          BY <1>0, <2>2, <4>1
        <4>2. CASE instances[i].active /\ "port" \notin DOMAIN f
          BY <1>0, <1>2, <1>5, <4>2 DEF LedgerInv, ClaimsHold, Active
        <4>3. CASE instances[i].active /\ "port" \in DOMAIN f
          BY <1>2, <1>4, <1>5, <4>3 DEF Noted
        <4> QED BY <4>1, <4>2, <4>3
      <3>2. \A j \in DOMAIN instances' :
              \/ j = i /\ instances'[j] = row
              \/ j # i /\ j \in DOMAIN instances /\ instances'[j] = instances[j]
        BY <1>0, <2>2
      <3> QED BY <1>0, <1>2, <1>5, <2>2, <3>1, <3>2, WriteKeepsClaims DEF ClaimFree
    <2> QED BY <2>1, <2>2
  <1> QED BY <1>3, <1>5, <1>6, <1>7 DEF LedgerInv, LedgerTypes, NoAsk

\* The checks of requests.
LEMMA CheckLedger ==
    ASSUME LedgerInv, NEW a \in Asks,
           \/ \E n \in DbNames, p \in Ports : CheckCreate(a, n, p)
           \/ \E i \in DOMAIN instances, f \in Fields : CheckUpdate(a, i, f)
    PROVE LedgerInv'
  <1>0. /\ instances \in Seq(InstanceRows) /\ asks \in [Asks -> LedgerAsks]
        /\ UNCHANGED <<instances, published, unchecked>>
    BY DEF LedgerInv, LedgerTypes, CheckCreate, CheckUpdate
  <1>1. ClaimsHold'
    BY <1>0 DEF LedgerInv, ClaimsHold, Active
  <1>2. ASSUME NEW n \in DbNames, NEW p \in Ports, CheckCreate(a, n, p) PROVE LedgerInv'
    <2> DEFINE r == [op |-> "create", name |-> n, port |-> p]
    <2>1. asks' = [asks EXCEPT ![a] = r] /\ r \in LedgerAsks /\ r.op = "create" /\ r.port = p
      BY <1>2 DEF CheckCreate, LedgerAsks
    <2>2. p \notin published
      BY <1>2 DEF CheckCreate, AllocateDatabasePort, ClaimedPortsOnWorker
    <2> HIDE DEF r
    <2>3. AsksNoted' /\ asks' \in [Asks -> LedgerAsks]
      BY <1>0, <2>1, <2>2 DEF LedgerInv, AsksNoted, Noted
    <2> QED BY <1>0, <1>1, <2>1, <2>3 DEF LedgerInv, LedgerTypes
  <1>3. ASSUME NEW i \in DOMAIN instances, NEW f \in Fields, CheckUpdate(a, i, f) PROVE LedgerInv'
    <2> DEFINE r == [op |-> "update", id |-> i, fields |-> f]
    <2>0. i \in Nat
      BY <1>0
    <2>1. asks' = [asks EXCEPT ![a] = r] /\ r \in LedgerAsks /\ r.op = "update" /\ r.id = i
          /\ r.fields = f
      BY <1>3, <2>0 DEF CheckUpdate, LedgerAsks
    <2>2. "port" \in DOMAIN f => f.port \notin published
      BY <1>3 DEF CheckUpdate, FindPortConflict
    <2> HIDE DEF r
    <2>3. AsksNoted' /\ asks' \in [Asks -> LedgerAsks]
      BY <1>0, <2>1, <2>2 DEF LedgerInv, AsksNoted, Noted
    <2> QED BY <1>0, <1>1, <2>1, <2>3 DEF LedgerInv, LedgerTypes
  <1> QED BY <1>2, <1>3

\* Rows retired, and containers that publish and give up ports.
LEMMA OthersLedger ==
    ASSUME LedgerInv, \/ \E i \in DOMAIN instances : RetireInstance(i)
                      \/ \E p \in StackPorts : PublishPort(p) \/ WithdrawPort(p)
    PROVE LedgerInv'
  <1>0. instances \in Seq(InstanceRows) /\ asks \in [Asks -> LedgerAsks] /\ ClaimsHold /\ AsksNoted
    BY DEF LedgerInv, LedgerTypes
  <1>1. ASSUME NEW i \in DOMAIN instances, RetireInstance(i) PROVE LedgerInv'
    <2>1. instances[i] \in InstanceRows
      BY <1>0
    <2>2. /\ instances' = [instances EXCEPT ![i] = [instances[i] EXCEPT !.active = FALSE]]
          /\ UNCHANGED <<published, asks, unchecked>>
      BY <1>1 DEF RetireInstance
    <2>3. [instances[i] EXCEPT !.active = FALSE] \in InstanceRows
          /\ ~[instances[i] EXCEPT !.active = FALSE].active
      BY <2>1 DEF InstanceRows
    <2>4. /\ instances' \in Seq(InstanceRows) /\ DOMAIN instances' = DOMAIN instances
          /\ \A j \in Active' : j \in Active /\ instances'[j] = instances[j]
      BY <1>0, <2>2, <2>3 DEF Active
    <2> QED BY <1>0, <2>2, <2>4 DEF LedgerInv, LedgerTypes, ClaimsHold, AsksNoted, Noted
  <1>2. ASSUME NEW p \in StackPorts, PublishPort(p) PROVE LedgerInv'
    <2>1. /\ published' = published \cup {p} /\ UNCHANGED <<instances, asks>>
          /\ unchecked \subseteq unchecked'
          /\ p \in Pending \/ (\E i \in Active : instances[i].port = p) => p \in unchecked'
      BY <1>2 DEF PublishPort
    <2>2. AsksNoted'
      BY <1>0, <2>1 DEF AsksNoted, Noted, Pending
    <2>3. ClaimsHold'
      BY <1>0, <2>1 DEF ClaimsHold, Active
    <2> QED BY <2>1, <2>2, <2>3 DEF LedgerInv, LedgerTypes
  <1>3. ASSUME NEW p \in StackPorts, WithdrawPort(p) PROVE LedgerInv'
    <2>1. /\ published' = published \ {p} /\ unchecked' = unchecked \ {p}
          /\ UNCHANGED <<instances, asks>>
      BY <1>3 DEF WithdrawPort
    <2>2. AsksNoted'
      BY <1>0, <2>1 DEF AsksNoted, Noted
    <2>3. ClaimsHold'
      BY <1>0, <2>1 DEF ClaimsHold, Active
    <2> QED BY <2>1, <2>2, <2>3 DEF LedgerInv, LedgerTypes
  <1> QED BY <1>1, <1>2, <1>3

\* Active databases share neither a name nor a port, nor a port with a container
\* that did not take it over a claim, however checks and writes interleave.
THEOREM ClaimsAlwaysHold == LedgerSpec => []ClaimsHold
  <1>1. LedgerInit => LedgerInv
    BY DEF LedgerInit, LedgerInv, LedgerTypes, ClaimsHold, AsksNoted, Active, NoAsk, LedgerAsks
  <1>2. LedgerInv /\ [LedgerNext]_ledgerVars => LedgerInv'
    <2> SUFFICES ASSUME LedgerInv, [LedgerNext]_ledgerVars PROVE LedgerInv'
      OBVIOUS
    <2>1. CASE UNCHANGED ledgerVars
      BY <2>1 DEF ledgerVars, LedgerInv, LedgerTypes, ClaimsHold, AsksNoted, Noted, Active
    <2> QED BY <2>1, CreateLedger, UpdateLedger, CheckLedger, OthersLedger DEF LedgerNext
  <1>3. LedgerInv => ClaimsHold
    BY DEF LedgerInv
  <1> QED BY <1>1, <1>2, <1>3, PTL DEF LedgerSpec

-----------------------------------------------------------------------------
(* The migrations.                                                           *)

Places == [at : {"stopped", "check", "exec", "record"}, file : 1 .. NumFiles + 1,
           next : 1 .. NumStatements]

Complete(g) == applied[g] = NumStatements

MigrationTypes ==
    /\ applied \in [Files -> 0 .. NumStatements] /\ recorded \subseteq Files
    /\ runner \in [Runners -> Places]

\* Where a process is says what has been applied.
RunnersKnow ==
    \A r \in Runners :
        /\ runner[r].at # "stopped" => \A g \in 1 .. runner[r].file - 1 : Complete(g)
        /\ runner[r].at = "exec" =>
              runner[r].file \in Files /\ applied[runner[r].file] >= runner[r].next - 1
        /\ runner[r].at = "record" => runner[r].file \in Files /\ Complete(runner[r].file)

MigrationInv == MigrationTypes /\ RunnersKnow /\ MigrationsInOrder

\* The place that a step takes its process to is enough.
LEMMA PlaceMoves ==
    ASSUME MigrationInv, NEW r \in Runners, NEW p \in Places,
           runner' = [runner EXCEPT ![r] = p], applied' \in [Files -> 0 .. NumStatements],
           \A f \in Files : applied'[f] >= applied[f],
           p.at # "stopped" => \A g \in 1 .. p.file - 1 : applied'[g] = NumStatements,
           p.at = "exec" => p.file \in Files /\ applied'[p.file] >= p.next - 1,
           p.at = "record" => p.file \in Files /\ applied'[p.file] = NumStatements
    PROVE runner' \in [Runners -> Places] /\ RunnersKnow'
  <1>1. runner \in [Runners -> Places] /\ applied \in [Files -> 0 .. NumStatements] /\ RunnersKnow
    BY DEF MigrationInv, MigrationTypes
  <1>2. runner' \in [Runners -> Places]
    BY <1>1
  <1>3. NumFiles \in Nat /\ NumStatements \in Nat
    BY SchemaAssumption
  <1>4. \A f \in Files : Complete(f) => applied'[f] = NumStatements
    BY <1>1, <1>3 DEF Complete
  <1>5. ASSUME NEW q \in Runners
        PROVE /\ runner'[q].at # "stopped" =>
                    \A g \in 1 .. runner'[q].file - 1 : applied'[g] = NumStatements
              /\ runner'[q].at = "exec" =>
                    runner'[q].file \in Files /\ applied'[runner'[q].file] >= runner'[q].next - 1
              /\ runner'[q].at = "record" =>
                    runner'[q].file \in Files /\ applied'[runner'[q].file] = NumStatements
    <2>1. CASE q = r
      BY <1>1, <2>1 DEF Complete
    <2>2. CASE q # r
      <3>1. runner'[q] = runner[q] /\ runner[q] \in Places
        BY <1>1, <2>2
      <3>2. ASSUME runner[q].at # "stopped", NEW g \in 1 .. runner[q].file - 1
            PROVE applied'[g] = NumStatements
        <4>1. g \in Files
          BY <1>3, <3>1 DEF Files, Places
        <4> QED BY <1>1, <1>4, <3>2, <4>1 DEF RunnersKnow, Complete
      <3>3. ASSUME runner[q].at = "exec"
            PROVE runner[q].file \in Files /\ applied'[runner[q].file] >= runner[q].next - 1
        <4>1. runner[q].file \in Files /\ applied[runner[q].file] >= runner[q].next - 1
          BY <1>1, <3>3 DEF RunnersKnow
        <4>2. runner[q].next \in Nat /\ applied[runner[q].file] \in Nat
              /\ applied'[runner[q].file] \in Nat
          BY <1>1, <1>3, <3>1, <4>1 DEF Places
        <4> QED BY <4>1, <4>2
      <3>4. ASSUME runner[q].at = "record"
            PROVE runner[q].file \in Files /\ applied'[runner[q].file] = NumStatements
        BY <1>1, <1>4, <3>4 DEF RunnersKnow, Complete
      <3> QED BY <3>1, <3>2, <3>3, <3>4
    <2> QED BY <2>1, <2>2
  <1> QED BY <1>2, <1>5 DEF RunnersKnow, Complete

\* RunMigrations and MigrationsCut.
LEMMA StartsAndCuts ==
    ASSUME MigrationInv, NEW r \in Runners, RunMigrations(r) \/ MigrationsCut(r)
    PROVE MigrationInv'
  <1> DEFINE start == [at |-> "check", file |-> 1, next |-> 1]
  <1>1. UNCHANGED <<applied, recorded>> /\ (runner' = [runner EXCEPT ![r] = start]
                                            \/ runner' = [runner EXCEPT ![r] = Stopped])
    BY DEF RunMigrations, MigrationsCut
  <1>2. start \in Places /\ Stopped \in Places
    BY SchemaAssumption DEF Places, Stopped
  <1>3. /\ Stopped.at = "stopped"
        /\ start.at = "check" /\ start.file = 1 /\ 1 .. start.file - 1 = {}
    BY DEF Stopped
  <1>4. applied' \in [Files -> 0 .. NumStatements] /\ \A f \in Files : applied'[f] >= applied[f]
    BY <1>1, SchemaAssumption DEF MigrationInv, MigrationTypes
  <1> HIDE DEF start
  <1>5. runner' \in [Runners -> Places] /\ RunnersKnow'
    <2>1. CASE runner' = [runner EXCEPT ![r] = start]
      BY <1>2, <1>3, <1>4, <2>1, PlaceMoves
    <2>2. CASE runner' = [runner EXCEPT ![r] = Stopped]
      BY <1>2, <1>3, <1>4, <2>2, PlaceMoves
    <2> QED BY <1>1, <2>1, <2>2
  <1> QED BY <1>1, <1>4, <1>5 DEF MigrationInv, MigrationTypes, MigrationsInOrder

\* CheckFile.
LEMMA CheckFileOrder ==
    ASSUME MigrationInv, NEW r \in Runners, CheckFile(r)
    PROVE MigrationInv'
  <1> DEFINE f == runner[r].file
             p == IF f > NumFiles THEN Stopped
                  ELSE IF MigrationApplied(f) THEN [at |-> "check", file |-> f + 1, next |-> 1]
                  ELSE [at |-> "exec", file |-> f, next |-> 1]
  <1>0. NumFiles \in Nat /\ NumStatements \in Nat \ {0}
    BY SchemaAssumption
  <1>1. /\ UNCHANGED <<applied, recorded>> /\ runner' = [runner EXCEPT ![r] = p]
        /\ runner[r].at = "check" /\ runner[r] \in Places
    BY DEF CheckFile, MigrationInv, MigrationTypes
  <1>2. applied' \in [Files -> 0 .. NumStatements] /\ \A g \in Files : applied'[g] >= applied[g]
    BY <1>1, <1>0 DEF MigrationInv, MigrationTypes
  <1>3. f \in 1 .. NumFiles + 1 /\ \A g \in 1 .. f - 1 : Complete(g)
    BY <1>1 DEF MigrationInv, RunnersKnow, Places
  <1>4. /\ p \in Places
        /\ p.at # "stopped" => \A g \in 1 .. p.file - 1 : Complete(g)
        /\ p.at = "exec" => p.file \in Files /\ applied[p.file] >= p.next - 1
        /\ p.at # "record"
    <2>1. CASE f > NumFiles
      BY <1>0, <2>1 DEF Stopped, Places
    <2>2. CASE f <= NumFiles /\ MigrationApplied(f)
      <3>1. p = [at |-> "check", file |-> f + 1, next |-> 1]
        BY <1>0, <1>3, <2>2
      <3>2. Complete(f)
        BY <2>2 DEF MigrationApplied, MigrationInv, MigrationTypes, MigrationsInOrder, Complete
      <3>3. \A g \in 1 .. f : Complete(g)
        BY <1>0, <1>3, <3>2
      <3> HIDE DEF f
      <3> QED BY <1>0, <1>3, <2>2, <3>1, <3>3 DEF Places
    <2>3. CASE f <= NumFiles /\ ~MigrationApplied(f)
      <3>1. p = [at |-> "exec", file |-> f, next |-> 1]
        BY <1>0, <1>3, <2>3
      <3>2. f \in Files /\ applied[f] \in Nat
        BY <1>0, <1>3, <2>3 DEF Files, MigrationInv, MigrationTypes
      <3> HIDE DEF f
      <3> QED BY <1>0, <1>3, <3>1, <3>2 DEF Places
    <2> QED BY <1>0, <1>3, <2>1, <2>2, <2>3
  <1> HIDE DEF p, f
  <1>5. runner' \in [Runners -> Places] /\ RunnersKnow'
    BY <1>1, <1>2, <1>4, PlaceMoves DEF Complete
  <1> QED BY <1>1, <1>2, <1>5 DEF MigrationInv, MigrationTypes, MigrationsInOrder

\* ExecStatement.
LEMMA ExecOrder ==
    ASSUME MigrationInv, NEW r \in Runners, ExecStatement(r)
    PROVE MigrationInv'
  <1> DEFINE f == runner[r].file
             n == runner[r].next
             p == IF n = NumStatements THEN [runner[r] EXCEPT !.at = "record"]
                  ELSE [runner[r] EXCEPT !.next = n + 1]
             now == IF n > applied[f] THEN n ELSE applied[f]
  <1>0. NumFiles \in Nat /\ NumStatements \in Nat \ {0}
    BY SchemaAssumption
  <1>1. /\ recorded' = recorded /\ runner' = [runner EXCEPT ![r] = p]
        /\ applied' = [applied EXCEPT ![f] = now]
        /\ runner[r].at = "exec" /\ runner[r] \in Places
        /\ applied \in [Files -> 0 .. NumStatements]
    BY DEF ExecStatement, MigrationInv, MigrationTypes
  <1>2. /\ f \in Files /\ n \in 1 .. NumStatements /\ applied[f] >= n - 1
        /\ \A g \in 1 .. f - 1 : Complete(g)
    BY <1>1 DEF MigrationInv, RunnersKnow, Places
  <1>3. applied[f] \in 0 .. NumStatements
    BY <1>1, <1>2
  <1>4. now \in 0 .. NumStatements /\ now >= applied[f] /\ now >= n
    BY <1>0, <1>2, <1>3
  <1>5. f \in 1 .. NumFiles
    BY <1>2 DEF Files
  <1>6. /\ p \in Places /\ p.file = f
        /\ p.at = "exec" => n >= p.next - 1
        /\ p.at = "record" => n = NumStatements
        /\ p.at # "stopped"
    <2>1. CASE n = NumStatements
      BY <1>1, <2>1 DEF Places
    <2>2. CASE n # NumStatements
      <3>1. n + 1 \in 1 .. NumStatements /\ n >= n + 1 - 1
        BY <1>0, <1>2, <2>2
      <3> QED BY <1>1, <2>2, <3>1 DEF Places
    <2> QED BY <2>1, <2>2
  <1> HIDE DEF p, f, n, now
  <1>7. /\ applied' \in [Files -> 0 .. NumStatements] /\ \A g \in Files : applied'[g] >= applied[g]
        /\ \A g \in Files : g # f => applied'[g] = applied[g]
        /\ applied'[f] = now
    BY <1>0, <1>1, <1>2, <1>4
  <1>8. \A g \in 1 .. f - 1 : applied'[g] = NumStatements
    <2>1. \A g \in 1 .. f - 1 : g \in Files /\ g # f
      BY <1>0, <1>5 DEF Files
    <2> QED BY <1>2, <1>7, <2>1 DEF Complete
  <1>9. runner' \in [Runners -> Places] /\ RunnersKnow'
    <2>1. p.at = "exec" => applied'[f] >= p.next - 1
      BY <1>0, <1>2, <1>4, <1>6, <1>7 DEF Places
    <2>2. p.at = "record" => applied'[f] = NumStatements
      BY <1>0, <1>4, <1>6, <1>7
    <2> QED BY <1>1, <1>2, <1>6, <1>7, <1>8, <2>1, <2>2, PlaceMoves
  <1>10. MigrationsInOrder'
    <2>1. \A g \in Files : applied[g] = NumStatements => applied'[g] = NumStatements
      BY <1>0, <1>1, <1>7
    <2>2. ASSUME NEW g \in Files, g \in recorded' PROVE applied'[g] = NumStatements
      BY <1>1, <2>1, <2>2 DEF MigrationInv, MigrationsInOrder
    <2>3. ASSUME NEW g \in Files, applied'[g] > 0, NEW h \in 1 .. g - 1
          PROVE applied'[h] = NumStatements
      <3>1. CASE g = f
        BY <1>8, <2>3, <3>1
      <3>2. CASE g # f
        <4>1. h \in Files
          BY <1>0, <2>3 DEF Files
        <4>2. applied[h] = NumStatements
          BY <1>7, <2>3, <3>2 DEF MigrationInv, MigrationsInOrder
        <4> QED BY <2>1, <4>1, <4>2
      <3> QED BY <3>1, <3>2
    <2> QED BY <2>2, <2>3 DEF MigrationsInOrder
  <1> QED BY <1>1, <1>7, <1>9, <1>10 DEF MigrationInv, MigrationTypes

\* RecordMigration.
LEMMA RecordOrder ==
    ASSUME MigrationInv, NEW r \in Runners, RecordMigration(r)
    PROVE MigrationInv'
  <1> DEFINE f == runner[r].file
             p == IF f \in recorded THEN Stopped ELSE [at |-> "check", file |-> f + 1, next |-> 1]
  <1>0. NumFiles \in Nat /\ NumStatements \in Nat \ {0}
    BY SchemaAssumption
  <1>1. /\ applied' = applied /\ runner' = [runner EXCEPT ![r] = p]
        /\ recorded' = recorded \cup {f}
        /\ runner[r].at = "record" /\ runner[r] \in Places
    BY DEF RecordMigration, MigrationInv, MigrationTypes
  <1>2. f \in Files /\ Complete(f) /\ \A g \in 1 .. f - 1 : Complete(g)
    BY <1>1 DEF MigrationInv, RunnersKnow
  <1>3. f \in 1 .. NumFiles /\ \A g \in 1 .. f : Complete(g)
    BY <1>0, <1>2 DEF Files
  <1>4. p \in Places /\ (p.at = "stopped" \/ (p.at = "check" /\ p.file = f + 1))
    <2>1. CASE f \in recorded
      BY <1>0, <2>1 DEF Stopped, Places
    <2>2. CASE f \notin recorded
      <3>1. p = [at |-> "check", file |-> f + 1, next |-> 1]
        BY <2>2
      <3> HIDE DEF f
      <3> QED BY <1>0, <1>3, <3>1 DEF Places
    <2> QED BY <2>1, <2>2
  <1>5. applied' \in [Files -> 0 .. NumStatements] /\ \A g \in Files : applied'[g] >= applied[g]
    BY <1>1, <1>0 DEF MigrationInv, MigrationTypes
  <1> HIDE DEF p, f
  <1>6. p.at # "stopped" => \A g \in 1 .. p.file - 1 : applied'[g] = NumStatements
    <2>1. f + 1 - 1 = f
      BY <1>3
    <2> QED BY <1>1, <1>3, <1>4, <2>1 DEF Complete
  <1>7. runner' \in [Runners -> Places] /\ RunnersKnow'
    BY <1>1, <1>4, <1>5, <1>6, PlaceMoves
  <1>8. MigrationsInOrder'
    BY <1>1, <1>2 DEF MigrationInv, MigrationsInOrder, Complete
  <1> QED BY <1>1, <1>2, <1>5, <1>7, <1>8 DEF MigrationInv, MigrationTypes

\* No migration is recorded before all of it is applied, nor begun before the
\* earlier ones are complete, whichever processes run them and wherever they end.
THEOREM MigrationsStayInOrder == SchemaSpec => []MigrationsInOrder
  <1>1. SchemaInit => MigrationInv
    <2> SUFFICES ASSUME SchemaInit PROVE MigrationInv
      OBVIOUS
    <2>0. NumFiles \in Nat /\ NumStatements \in Nat \ {0}
      BY SchemaAssumption
    <2>1. /\ applied = [f \in Files |-> 0] /\ recorded = {}
          /\ runner = [r \in Runners |-> Stopped]
      BY DEF SchemaInit
    <2>2. Stopped \in Places /\ Stopped.at = "stopped"
      BY <2>0 DEF Stopped, Places
    <2>3. MigrationTypes
      BY <2>0, <2>1, <2>2 DEF MigrationTypes
    <2>4. RunnersKnow
      BY <2>1, <2>2 DEF RunnersKnow
    <2>5. MigrationsInOrder
      BY <2>1 DEF MigrationsInOrder
    <2> QED BY <2>3, <2>4, <2>5 DEF MigrationInv
  <1>2. MigrationInv /\ [MigrationsNext \/ EncryptNext]_schemaVars => MigrationInv'
    <2> SUFFICES ASSUME MigrationInv, [MigrationsNext \/ EncryptNext]_schemaVars
                 PROVE MigrationInv'
      OBVIOUS
    <2>1. CASE MigrationsNext
      BY <2>1, StartsAndCuts, CheckFileOrder, ExecOrder, RecordOrder DEF MigrationsNext
    <2>2. ASSUME UNCHANGED migrationVars PROVE MigrationInv'
      BY <2>2 DEF migrationVars, MigrationInv, MigrationTypes, RunnersKnow, MigrationsInOrder,
                  Complete
    <2>3. EncryptNext => UNCHANGED migrationVars
      BY DEF EncryptNext, CommitEncrypt, RollbackEncrypt, KeySet, BeginEncrypt, migrateColumn,
             migrateSettings, UpdateSecret, SetSecret, ReadSecret, WriteBack
    <2> QED BY <2>1, <2>2, <2>3 DEF schemaVars
  <1>3. MigrationInv => MigrationsInOrder
    BY DEF MigrationInv
  <1> QED BY <1>1, <1>2, <1>3, PTL DEF SchemaSpec

-----------------------------------------------------------------------------
(* migrate-encrypt.                                                          *)

Stored == [value : SecretValues, layers : 0 .. 1]

OpenTx == [open : {TRUE}, dry : BOOLEAN, read : [Secrets -> Stored], locked : SUBSET Secrets,
           todo : SUBSET Secrets]

SecretTypes ==
    /\ columns \in [Secrets -> Stored] /\ latest \in [Secrets -> SecretValues]
    /\ tx \in {NoTx} \cup OpenTx
    /\ rewrite \in {NoneKept} \cup [row : {{x} : x \in Columns}, read : Stored]

\* What the transaction writes, or is about to, was not encrypted when it read it.
TxReadPlain ==
    tx.open => \A x \in tx.locked \cup tx.todo : needsEncryption(tx.read[x])

SecretInv == SecretTypes /\ TxReadPlain /\ SecretsKept

\* BeginEncrypt, and one secret after another.
LEMMA TxSteps ==
    ASSUME SecretInv,
           \/ \E dryRun \in BOOLEAN : BeginEncrypt(dryRun)
           \/ \E x \in Secrets : UpdateSecret(x)
           \/ RollbackEncrypt
    PROVE SecretInv'
  <1>1. UNCHANGED <<columns, latest, overtaken, rewrite>> /\ SecretTypes /\ TxReadPlain
    BY DEF BeginEncrypt, UpdateSecret, RollbackEncrypt, SecretInv
  <1>2. SecretsKept'
    BY <1>1 DEF SecretInv, SecretsKept
  <1>3. ASSUME NEW d \in BOOLEAN, BeginEncrypt(d) PROVE SecretTypes' /\ TxReadPlain'
    <2>1. tx' = [open |-> TRUE, dry |-> d, read |-> columns, locked |-> {},
                 todo |-> {x \in Secrets : needsEncryption(columns[x])}]
      BY <1>3 DEF BeginEncrypt
    <2>2. tx' \in OpenTx
      BY <1>1, <2>1 DEF OpenTx, SecretTypes
    <2>3. tx'.read = columns /\ \A x \in tx'.locked \cup tx'.todo : needsEncryption(columns[x])
      BY <2>1
    <2> QED BY <1>1, <2>2, <2>3 DEF SecretTypes, TxReadPlain, needsEncryption
  <1>4. ASSUME NEW x \in Secrets, UpdateSecret(x) PROVE SecretTypes' /\ TxReadPlain'
    <2>1. /\ tx.open /\ x \in tx.todo
          /\ tx' = [tx EXCEPT !.todo = tx.todo \ {x},
                              !.locked = IF tx.dry THEN tx.locked ELSE tx.locked \cup {x}]
      BY <1>4 DEF UpdateSecret
    <2>2. tx \in OpenTx
      BY <1>1, <2>1 DEF SecretTypes, NoTx
    <2>3. tx' \in OpenTx /\ tx'.read = tx.read
          /\ tx'.locked \cup tx'.todo \subseteq tx.locked \cup tx.todo
      BY <2>1, <2>2 DEF OpenTx
    <2> QED BY <1>1, <2>1, <2>3 DEF SecretTypes, TxReadPlain, needsEncryption
  <1>5. ASSUME RollbackEncrypt PROVE SecretTypes' /\ TxReadPlain'
    BY <1>1, <1>5 DEF RollbackEncrypt, NoTx, SecretTypes, TxReadPlain
  <1> QED BY <1>2, <1>3, <1>4, <1>5 DEF SecretInv

\* CommitEncrypt.
LEMMA CommitSecrets ==
    ASSUME SecretInv, CommitEncrypt
    PROVE SecretInv'
  <1>1. /\ tx.open /\ tx' = NoTx /\ latest' = latest /\ rewrite' = rewrite
        /\ columns' = [x \in Secrets |-> IF x \in tx.locked THEN Encrypt(tx.read[x]) ELSE columns[x]]
        /\ overtaken' = overtaken \cup {x \in tx.locked : columns[x] # tx.read[x]}
    BY DEF CommitEncrypt
  <1>2. tx \in OpenTx /\ columns \in [Secrets -> Stored] /\ latest \in [Secrets -> SecretValues]
    BY <1>1 DEF SecretInv, SecretTypes, NoTx
  <1>3. \A x \in tx.locked : /\ tx.read[x] \in Stored /\ tx.read[x].layers = 0
                             /\ Encrypt(tx.read[x]) \in Stored
                             /\ Encrypt(tx.read[x]).layers = 1
                             /\ Encrypt(tx.read[x]).value = tx.read[x].value
    <2> SUFFICES ASSUME NEW x \in tx.locked
                 PROVE /\ tx.read[x] \in Stored /\ tx.read[x].layers = 0
                       /\ Encrypt(tx.read[x]) \in Stored /\ Encrypt(tx.read[x]).layers = 1
                       /\ Encrypt(tx.read[x]).value = tx.read[x].value
      OBVIOUS
    <2>1. tx.read[x] \in Stored
      BY <1>2 DEF OpenTx
    <2>2. needsEncryption(tx.read[x])
      BY <1>1 DEF SecretInv, TxReadPlain
    <2> QED BY <2>1, <2>2 DEF needsEncryption, Encrypt, Stored
  <1>4. SecretTypes' /\ TxReadPlain'
    BY <1>1, <1>2, <1>3 DEF SecretInv, SecretTypes, TxReadPlain, NoTx
  <1>5. SecretsKept'
    <2> SUFFICES ASSUME NEW x \in Secrets, x \notin overtaken'
                 PROVE columns'[x].layers <= 1 /\ columns'[x].value = latest[x]
      BY <1>1 DEF SecretsKept
    <2>1. x \notin overtaken /\ columns[x].layers <= 1 /\ columns[x].value = latest[x]
      BY <1>1 DEF SecretInv, SecretsKept
    <2>2. CASE x \in tx.locked
      BY <1>1, <1>3, <2>1, <2>2
    <2>3. CASE x \notin tx.locked
      BY <1>1, <2>1, <2>3
    <2> QED BY <2>2, <2>3
  <1> QED BY <1>4, <1>5 DEF SecretInv

\* SetSecret.
LEMMA SetSecrets ==
    ASSUME SecretInv, NEW x \in Secrets, NEW v \in SecretValues, SetSecret(x, v)
    PROVE SecretInv'
  <1>1. PICK new \in {Encrypt(Plain(v)), Plain(v)} : columns' = [columns EXCEPT ![x] = new]
    BY DEF SetSecret
  <1>a. /\ latest' = [latest EXCEPT ![x] = v]
        /\ overtaken' = overtaken \ {x} /\ tx' = tx /\ rewrite' = rewrite
    BY DEF SetSecret
  <1>2. new \in Stored /\ new.layers <= 1 /\ new.value = v
    <2>1. Plain(v) \in Stored /\ Plain(v).layers = 0 /\ Plain(v).value = v
      BY DEF Plain, Stored
    <2>2. Encrypt(Plain(v)) \in Stored /\ Encrypt(Plain(v)).layers = 1 /\ Encrypt(Plain(v)).value = v
      BY DEF Plain, Encrypt, Stored
    <2> QED BY <2>1, <2>2
  <1>3. SecretTypes'
    BY <1>1, <1>a, <1>2 DEF SecretInv, SecretTypes
  <1>4. TxReadPlain'
    BY <1>a DEF SecretInv, TxReadPlain
  <1>5. SecretsKept'
    BY <1>1, <1>a, <1>2 DEF SecretInv, SecretTypes, SecretsKept
  <1> QED BY <1>3, <1>4, <1>5 DEF SecretInv

\* An update that keeps the secret: what it writes back is the last value, or the
\* write is one that overtook another.
LEMMA KeepsSecret ==
    ASSUME SecretInv, NEW x \in Columns, ReadSecret(x) \/ WriteBack(x)
    PROVE SecretInv'
  <1>0. x \in Secrets /\ SecretTypes /\ TxReadPlain /\ SecretsKept
    BY DEF Secrets, SecretInv
  <1>1. CASE ReadSecret(x)
    <2>1. /\ UNCHANGED <<columns, latest, overtaken, tx>>
          /\ rewrite' = [row |-> {x}, read |-> columns[x]]
      BY <1>1 DEF ReadSecret
    <2>2. columns[x] \in Stored
      BY <1>0 DEF SecretTypes
    <2>3. SecretTypes'
      BY <1>0, <2>1, <2>2 DEF SecretTypes
    <2> QED BY <1>0, <2>1, <2>3 DEF SecretInv, TxReadPlain, SecretsKept
  <1>2. CASE WriteBack(x)
    <2>1. /\ x \in rewrite.row /\ rewrite' = NoneKept /\ UNCHANGED <<latest, tx>>
          /\ columns' = [columns EXCEPT ![x] = rewrite.read]
          /\ overtaken' = IF rewrite.read.value = latest[x] THEN overtaken ELSE overtaken \cup {x}
      BY <1>2 DEF WriteBack
    <2>2. rewrite.read \in Stored
      BY <1>0, <2>1 DEF SecretTypes, NoneKept
    <2>3. SecretTypes'
      BY <1>0, <2>1, <2>2 DEF SecretTypes
    <2>4. SecretsKept'
      <3> SUFFICES ASSUME NEW y \in Secrets, y \notin overtaken'
                   PROVE columns'[y].layers <= 1 /\ columns'[y].value = latest[y]
        BY <2>1 DEF SecretsKept
      <3>1. CASE y = x
        BY <1>0, <2>1, <2>2, <3>1 DEF SecretTypes, Stored
      <3>2. CASE y # x
        BY <1>0, <2>1, <3>2 DEF SecretTypes, SecretsKept
      <3> QED BY <3>1, <3>2
    <2> QED BY <1>0, <2>1, <2>3, <2>4 DEF SecretInv, TxReadPlain
  <1> QED BY <1>1, <1>2

\* A stored secret decrypts, once, to the value last given to it, through dry,
\* abandoned and repeated runs of migrate-encrypt, unless the run overtook a write.
THEOREM SecretsAreKept == SchemaSpec => []SecretsKept
  <1>1. SchemaInit => SecretInv
    <2> SUFFICES ASSUME SchemaInit PROVE SecretInv
      OBVIOUS
    <2>1. /\ columns = [x \in Secrets |-> Plain(EmptyValue)]
          /\ latest = [x \in Secrets |-> EmptyValue] /\ tx = NoTx /\ rewrite = NoneKept
      BY DEF SchemaInit
    <2>2. Plain(EmptyValue) \in Stored /\ Plain(EmptyValue).layers = 0
          /\ Plain(EmptyValue).value = EmptyValue
      BY SchemaAssumption DEF Plain, Stored
    <2> QED BY <2>1, <2>2, SchemaAssumption DEF SecretInv, SecretTypes, TxReadPlain, SecretsKept, NoTx
  <1>2. SecretInv /\ [MigrationsNext \/ EncryptNext]_schemaVars => SecretInv'
    <2> SUFFICES ASSUME SecretInv, [MigrationsNext \/ EncryptNext]_schemaVars PROVE SecretInv'
      OBVIOUS
    <2>1. CASE UNCHANGED <<columns, latest, overtaken, tx, rewrite>>
      BY <2>1 DEF SecretInv, SecretTypes, TxReadPlain, SecretsKept
    <2>2. CASE MigrationsNext
      BY <2>1, <2>2 DEF MigrationsNext, RunMigrations, CheckFile, ExecStatement, RecordMigration,
                        MigrationsCut, secretVars
    <2>3. CASE EncryptNext
      BY <2>1, <2>3, TxSteps, CommitSecrets, SetSecrets, KeepsSecret
         DEF EncryptNext, migrateColumn, migrateSettings, KeySet
    <2> QED BY <2>1, <2>2, <2>3 DEF schemaVars, secretVars
  <1>3. SecretInv => SecretsKept
    BY DEF SecretInv
  <1> QED BY <1>1, <1>2, <1>3, PTL DEF SchemaSpec

-----------------------------------------------------------------------------
(* Self update.                                                              *)

Phases == {"pin", "rename", "auth", "creds", "resolve", "prev", "pull", "decide", "up", "clean",
           "cleanThenUp", "helper"}

Configs == {"host", "api", "cut", "none"}

UpdateRecs ==
    [pc : Phases, svc : Services, pin : Tags \cup {NoPin}, force : BOOLEAN,
     seen : {NoPin} \cup [Services -> Tags], backup : Configs \cup {"nothing"},
     ref : Tags \cup {NoPin}, prev : Nat, alone : BOOLEAN]

UpdateTypes ==
    /\ setup \in [cfg : {"host", "none"}, configured : BOOLEAN]
    /\ envTag \in [Services -> Tags] /\ dockerCfg \in Configs
    /\ registry \in [Services -> [Tags -> Nat]] /\ local \in [Services -> [Tags -> Nat]]
    /\ running \in [Services -> Nat]
    /\ updates \in [Updaters -> {NoUpdate} \cup UpdateRecs]

\* The phases of a request whose cleanup is due.
Holding == {"resolve", "prev", "pull", "decide", "up", "clean", "cleanThenUp"}

\* The variables of a request at its phases.
PhasesFit ==
    \A u \in Updaters :
        /\ updates[u].pc = "rename" => updates[u].seen \in [Services -> Tags]
        /\ updates[u].pc \in {"pin", "rename"} => updates[u].pin \in Tags
        /\ updates[u].pc \in {"pin", "rename", "auth"} => updates[u].backup = "nothing"
        /\ updates[u].pc = "creds" => setup.configured
        /\ updates[u].pc = "up" => updates[u].svc = "web"
        /\ updates[u].pc \in {"cleanThenUp", "helper"} => updates[u].svc = "api"

\* What a request backs up when nothing goes wrong.
Backed == IF setup.configured THEN setup.cfg ELSE "nothing"

\* Every backup is what the host had, which is there, or the API's credentials
\* are and so is a request that will put it back.
BackupsHeld ==
    ~tainted =>
        /\ \A u \in Updaters : updates[u].pc \in Holding \cup {"creds"} => updates[u].backup = Backed
        /\ \/ dockerCfg = setup.cfg
           \/ setup.configured /\ dockerCfg = "api" /\ \E u \in Updaters : updates[u].pc \in Holding

\* A service that is not owed an update runs what it should, and what is left of
\* its updates is a cleanup.
Settled ==
    \A s \in Services \ owed :
        /\ running[s] = local[s][envTag[s]]
        /\ \A u \in Updaters : updates[u].pc # "idle" /\ updates[u].svc = s => updates[u].pc = "clean"

\* An update that nothing crossed still compares what there is.
AloneIsCurrent ==
    \A u \in Updaters : updates[u].pc # "idle" /\ updates[u].alone =>
        /\ \A v \in Updaters \ {u} : updates[v].pc # "idle" => updates[v].svc # updates[u].svc
        /\ updates[u].pc \in {"prev", "pull", "decide"} => updates[u].ref = envTag[updates[u].svc]
        /\ updates[u].pc \in {"pull", "decide"} => updates[u].prev \in {running[updates[u].svc], 0}

UpdateInv == UpdateTypes /\ PhasesFit /\ BackupsHeld /\ Settled /\ AloneIsCurrent

AnyUpdate == {NoUpdate} \cup UpdateRecs

\* A step leaves the request v as it was, but that it may no longer run alone.
Kept(v) ==
    /\ updates'[v].pc = updates[v].pc
    /\ updates[v].pc # "idle" =>
          /\ updates'[v].svc = updates[v].svc /\ updates'[v].pin = updates[v].pin
          /\ updates'[v].seen = updates[v].seen /\ updates'[v].backup = updates[v].backup
          /\ updates'[v].ref = updates[v].ref /\ updates'[v].prev = updates[v].prev
          /\ updates'[v].alone => updates[v].alone

\* A request under way has all its variables.
LEMMA UnderWay ==
    ASSUME UpdateTypes, NEW u \in Updaters, updates[u].pc # "idle"
    PROVE updates[u] \in UpdateRecs
  BY DEF UpdateTypes, NoUpdate

\* Crossed takes from requests that they run alone, and nothing else.
LEMMA CrossedKeeps ==
    ASSUME UpdateTypes, NEW svcs, NEW v \in Updaters, NEW y, y = Crossed(updates, svcs)[v]
    PROVE /\ y \in AnyUpdate /\ y.pc = updates[v].pc
          /\ updates[v].pc # "idle" =>
               /\ y.svc = updates[v].svc /\ y.pin = updates[v].pin /\ y.seen = updates[v].seen
               /\ y.backup = updates[v].backup /\ y.ref = updates[v].ref
               /\ y.prev = updates[v].prev /\ (y.alone => updates[v].alone)
               /\ updates[v].svc \in svcs => ~y.alone
  <1>1. updates[v] \in AnyUpdate
    BY DEF UpdateTypes, AnyUpdate
  <1>2. y = IF updates[v].pc # "idle" /\ updates[v].svc \in svcs
            THEN [updates[v] EXCEPT !.alone = FALSE] ELSE updates[v]
    BY DEF Crossed
  <1>3. CASE updates[v].pc = "idle"
    BY <1>1, <1>2, <1>3
  <1>4. CASE updates[v].pc # "idle"
    <2>1. updates[v] \in UpdateRecs
      BY <1>4, UnderWay
    <2>2. CASE updates[v].svc \in svcs
      <3>1. y = [updates[v] EXCEPT !.alone = FALSE]
        BY <1>2, <1>4, <2>2
      <3>2. /\ y.pc = updates[v].pc /\ y.svc = updates[v].svc /\ y.pin = updates[v].pin
            /\ y.seen = updates[v].seen /\ y.backup = updates[v].backup
            /\ y.ref = updates[v].ref /\ y.prev = updates[v].prev /\ ~y.alone
        BY <2>1, <3>1 DEF UpdateRecs
      <3>3. y \in AnyUpdate
        BY <2>1, <3>1 DEF UpdateRecs, AnyUpdate
      <3> QED BY <3>2, <3>3
    <2>3. CASE updates[v].svc \notin svcs
      BY <1>1, <1>2, <2>3
    <2> QED BY <2>2, <2>3
  <1> QED BY <1>3, <1>4

\* The other services keep what they have, or are owed an update and nobody of
\* theirs runs alone.
OthersKeep(svc) ==
    \A s \in Services \ {svc} :
        \/ /\ envTag'[s] = envTag[s] /\ running'[s] = running[s] /\ local'[s] = local[s]
           /\ s \in owed => s \in owed'
        \/ /\ s \in owed'
           /\ \A v \in Updaters : updates'[v].pc # "idle" /\ updates'[v].svc = s
                                     => ~updates'[v].alone

\* After a step of u, at pc then, the host's file is back or will be put back.
Restorable(u, pc) ==
    \/ dockerCfg' = setup.cfg
    \/ dockerCfg' = "api" /\ setup.configured /\ pc \in Holding
    \/ dockerCfg' = dockerCfg /\ (updates[u].pc \in Holding => pc \in Holding)

\* A request takes a step: what its variables become decides, the other requests
\* being kept.
LEMMA Advance ==
    ASSUME UpdateInv, UpdateTypes', setup' = setup, NEW u \in Updaters, updates[u].pc # "idle",
           NEW x \in AnyUpdate, updates'[u] = x, \A v \in Updaters \ {u} : Kept(v),
           x.pc = "rename" => x.seen \in [Services -> Tags],
           x.pc \in {"pin", "rename"} => x.pin \in Tags,
           x.pc \in {"pin", "rename", "auth"} => x.backup = "nothing",
           x.pc = "creds" => setup.configured,
           x.pc = "up" => x.svc = "web",
           x.pc \in {"cleanThenUp", "helper"} => x.svc = "api",
           ~tainted' => /\ ~tainted
                        /\ x.pc \in Holding \cup {"creds"} => x.backup = Backed
                        /\ Restorable(u, x.pc),
           OthersKeep(updates[u].svc),
           x.pc # "idle" => x.svc = updates[u].svc /\ (x.alone => updates[u].alone),
           x.pc # "idle" /\ x.alone =>
               /\ x.pc \in {"prev", "pull", "decide"} => x.ref = envTag'[x.svc]
               /\ x.pc \in {"pull", "decide"} => x.prev \in {running'[x.svc], 0},
           updates[u].svc \notin owed' =>
               /\ running'[updates[u].svc] = local'[updates[u].svc][envTag'[updates[u].svc]]
               /\ x.pc \in {"idle", "clean"}
               /\ updates[u].svc \in owed => updates[u].alone
    PROVE UpdateInv'
  <1>0. /\ UpdateTypes /\ PhasesFit /\ BackupsHeld /\ Settled /\ AloneIsCurrent
        /\ updates[u] \in UpdateRecs
    BY UnderWay DEF UpdateInv
  <1>1. PhasesFit'
    <2> SUFFICES ASSUME NEW v \in Updaters
                 PROVE /\ updates'[v].pc = "rename" => updates'[v].seen \in [Services -> Tags]
                       /\ updates'[v].pc \in {"pin", "rename"} => updates'[v].pin \in Tags
                       /\ updates'[v].pc \in {"pin", "rename", "auth"} =>
                             updates'[v].backup = "nothing"
                       /\ updates'[v].pc = "creds" => setup'.configured
                       /\ updates'[v].pc = "up" => updates'[v].svc = "web"
                       /\ updates'[v].pc \in {"cleanThenUp", "helper"} => updates'[v].svc = "api"
      BY DEF PhasesFit
    <2>1. CASE v = u
      BY <2>1
    <2>2. CASE v # u
      <3>1. Kept(v)
        BY <2>2
      <3> QED BY <1>0, <3>1 DEF PhasesFit, Kept
    <2> QED BY <2>1, <2>2
  <1>2. BackupsHeld'
    <2> SUFFICES ASSUME ~tainted'
                 PROVE /\ \A v \in Updaters : updates'[v].pc \in Holding \cup {"creds"} =>
                             updates'[v].backup = Backed
                       /\ \/ dockerCfg' = setup.cfg
                          \/ /\ setup.configured /\ dockerCfg' = "api"
                             /\ \E v \in Updaters : updates'[v].pc \in Holding
      BY DEF BackupsHeld, Backed
    <2>1. ASSUME NEW v \in Updaters, updates'[v].pc \in Holding \cup {"creds"}
          PROVE updates'[v].backup = Backed
      <3>1. CASE v = u
        BY <2>1, <3>1
      <3>2. CASE v # u
        <4>1. Kept(v)
          BY <3>2
        <4>2. updates'[v].pc # "idle"
          BY <2>1 DEF Holding
        <4> QED BY <1>0, <2>1, <4>1, <4>2 DEF BackupsHeld, Kept
      <3> QED BY <3>1, <3>2
    <2>2. CASE dockerCfg' = setup.cfg
      BY <2>1, <2>2
    <2>3. CASE dockerCfg' = "api" /\ setup.configured /\ x.pc \in Holding
      BY <2>1, <2>3
    <2>4. CASE /\ dockerCfg' = dockerCfg /\ (updates[u].pc \in Holding => x.pc \in Holding)
               /\ dockerCfg # setup.cfg
      <3>1. setup.configured /\ dockerCfg = "api"
        BY <1>0, <2>4 DEF BackupsHeld
      <3>2. PICK v \in Updaters : updates[v].pc \in Holding
        BY <1>0, <2>4 DEF BackupsHeld
      <3>3. CASE v = u
        BY <2>1, <2>4, <3>1, <3>2, <3>3
      <3>4. CASE v # u
        <4>1. Kept(v)
          BY <3>4
        <4> QED BY <2>1, <2>4, <3>1, <3>2, <4>1 DEF Kept
      <3> QED BY <3>3, <3>4
    <2> QED BY <2>2, <2>3, <2>4 DEF Restorable
  <1>3. Settled'
    <2> SUFFICES ASSUME NEW s \in Services, s \notin owed'
                 PROVE /\ running'[s] = local'[s][envTag'[s]]
                       /\ \A v \in Updaters : updates'[v].pc # "idle" /\ updates'[v].svc = s
                                                 => updates'[v].pc = "clean"
      BY DEF Settled
    <2>1. CASE s # updates[u].svc
      <3>1. /\ envTag'[s] = envTag[s] /\ running'[s] = running[s] /\ local'[s] = local[s]
            /\ s \notin owed
        BY <2>1 DEF OthersKeep
      <3>2. /\ running[s] = local[s][envTag[s]]
            /\ \A v \in Updaters : updates[v].pc # "idle" /\ updates[v].svc = s
                                      => updates[v].pc = "clean"
        BY <1>0, <3>1 DEF Settled
      <3>3. \A v \in Updaters \ {u} : updates'[v].pc # "idle" /\ updates'[v].svc = s
                                          => updates'[v].pc = "clean"
        BY <3>2 DEF Kept
      <3> QED BY <2>1, <3>1, <3>2, <3>3
    <2>2. CASE s = updates[u].svc
      <3>1. ASSUME NEW v \in Updaters \ {u}, updates'[v].pc # "idle", updates'[v].svc = s
            PROVE updates'[v].pc = "clean"
        <4>1. Kept(v)
          OBVIOUS
        <4>2. updates[v].pc # "idle" /\ updates[v].svc = s /\ updates'[v].pc = updates[v].pc
          BY <3>1, <4>1 DEF Kept
        <4>3. ~updates[u].alone
          BY <1>0, <2>2, <4>2 DEF AloneIsCurrent
        <4>4. s \notin owed
          BY <2>2, <4>3
        <4> QED BY <1>0, <4>2, <4>4 DEF Settled
      <3> QED BY <2>2, <3>1
    <2> QED BY <2>1, <2>2
  <1>4. AloneIsCurrent'
    <2> SUFFICES ASSUME NEW v \in Updaters, updates'[v].pc # "idle", updates'[v].alone
                 PROVE /\ \A w \in Updaters \ {v} : updates'[w].pc # "idle"
                                                       => updates'[w].svc # updates'[v].svc
                       /\ updates'[v].pc \in {"prev", "pull", "decide"} =>
                             updates'[v].ref = envTag'[updates'[v].svc]
                       /\ updates'[v].pc \in {"pull", "decide"} =>
                             updates'[v].prev \in {running'[updates'[v].svc], 0}
      BY DEF AloneIsCurrent
    <2>1. \A w \in Updaters : updates'[w].pc # "idle" =>
             updates[w].pc # "idle" /\ updates'[w].svc = updates[w].svc
                /\ (updates'[w].alone => updates[w].alone)
      BY DEF Kept
    <2>2. /\ updates[v].pc # "idle" /\ updates[v].alone /\ updates'[v].svc = updates[v].svc
          /\ \A w \in Updaters \ {v} : updates[w].pc # "idle" => updates[w].svc # updates[v].svc
      BY <1>0, <2>1 DEF AloneIsCurrent
    <2>3. CASE v = u
      BY <2>1, <2>2, <2>3
    <2>4. CASE v # u
      <3>1. Kept(v) /\ updates[v].svc # updates[u].svc
        BY <2>2, <2>4
      <3>2. updates[v].svc \in Services
        BY <1>0, <2>2, UnderWay DEF UpdateRecs
      <3>3. envTag'[updates[v].svc] = envTag[updates[v].svc]
            /\ running'[updates[v].svc] = running[updates[v].svc]
        BY <2>2, <3>1, <3>2 DEF OthersKeep
      <3>4. /\ updates[v].pc \in {"prev", "pull", "decide"} =>
                 updates[v].ref = envTag[updates[v].svc]
            /\ updates[v].pc \in {"pull", "decide"} => updates[v].prev \in {running[updates[v].svc], 0}
        BY <1>0, <2>2 DEF AloneIsCurrent
      <3> QED BY <2>1, <2>2, <3>1, <3>3, <3>4 DEF Kept
    <2> QED BY <2>3, <2>4
  <1> QED BY <1>1, <1>2, <1>3, <1>4 DEF UpdateInv

\* The same for a step that changes neither tags nor images, nor what is owed.
LEMMA Moves ==
    ASSUME UpdateInv, NEW u \in Updaters, updates[u].pc # "idle", NEW x \in AnyUpdate,
           updates' = [updates EXCEPT ![u] = x],
           UNCHANGED <<envTag, setup, registry, local, running, owed>>, dockerCfg' \in Configs,
           x.pc = "rename" => x.seen \in [Services -> Tags],
           x.pc \in {"pin", "rename"} => x.pin \in Tags,
           x.pc \in {"pin", "rename", "auth"} => x.backup = "nothing",
           x.pc = "creds" => setup.configured,
           x.pc = "up" => x.svc = "web",
           x.pc \in {"cleanThenUp", "helper"} => x.svc = "api",
           ~tainted' => /\ ~tainted
                        /\ x.pc \in Holding \cup {"creds"} => x.backup = Backed
                        /\ Restorable(u, x.pc),
           x.pc # "idle" => x.svc = updates[u].svc /\ x.alone = updates[u].alone,
           x.pc # "idle" /\ x.alone =>
               /\ x.pc \in {"prev", "pull", "decide"} => x.ref = envTag[x.svc]
               /\ x.pc \in {"pull", "decide"} => x.prev \in {running[x.svc], 0},
           updates[u].pc = "clean" => x.pc \in {"idle", "clean"}
    PROVE UpdateInv'
  <1>0. UpdateTypes /\ Settled /\ updates[u] \in UpdateRecs
    BY UnderWay DEF UpdateInv
  <1>1. UpdateTypes' /\ updates'[u] = x
    BY <1>0 DEF UpdateTypes, AnyUpdate
  <1>2. \A v \in Updaters \ {u} : Kept(v)
    BY <1>0 DEF UpdateTypes, Kept
  <1>3. OthersKeep(updates[u].svc)
    BY DEF OthersKeep
  <1>4. updates[u].svc \notin owed =>
           /\ running[updates[u].svc] = local[updates[u].svc][envTag[updates[u].svc]]
           /\ updates[u].pc = "clean"
    BY <1>0 DEF Settled, UpdateRecs
  <1> QED BY <1>1, <1>2, <1>3, <1>4, Advance

\* What a request is when it goes on, and after its answer.
Gone(r, pc) == [r EXCEPT !.pc = pc]
Answered(r, pc) ==
    [r EXCEPT !.pc = pc, !.pin = NoPin, !.force = FALSE, !.ref = NoPin, !.prev = 0]

\* The record of a request that goes on, ends, or has answered.
LEMMA NextRecord ==
    ASSUME NEW r \in UpdateRecs, NEW pc \in Phases
    PROVE /\ Gone(r, pc) \in AnyUpdate /\ Gone(r, pc).pc = pc
          /\ Gone(r, pc).svc = r.svc /\ Gone(r, pc).alone = r.alone
          /\ Gone(r, pc).backup = r.backup /\ Gone(r, pc).ref = r.ref
          /\ Gone(r, pc).prev = r.prev
          /\ Answered(r, pc) \in AnyUpdate /\ Answered(r, pc).pc = pc
          /\ Answered(r, pc).svc = r.svc /\ Answered(r, pc).alone = r.alone
          /\ Answered(r, pc).backup = r.backup
          /\ NoUpdate \in AnyUpdate /\ NoUpdate.pc = "idle"
  BY DEF UpdateRecs, AnyUpdate, Gone, Answered, NoUpdate

\* A request ends, or fails and has still to clean up.
LEMMA EndSteps ==
    ASSUME UpdateInv, NEW u \in Updaters, updates[u].pc # "idle", tainted' = tainted,
           UNCHANGED <<envTag, setup, registry, local, running, owed, dockerCfg>>,
           \/ End(u) /\ updates[u].pc \notin Holding
           \/ failUpdate(u) /\ updates[u].pc \in Holding
    PROVE UpdateInv'
  <1>0. /\ UpdateTypes /\ updates[u] \in UpdateRecs /\ dockerCfg' \in Configs
        /\ ~tainted /\ updates[u].pc \in Holding => updates[u].backup = Backed
    BY UnderWay DEF UpdateInv, UpdateTypes, BackupsHeld
  <1>1. CASE End(u) /\ updates[u].pc \notin Holding
    <2>1. /\ updates' = [updates EXCEPT ![u] = NoUpdate] /\ NoUpdate \in AnyUpdate
          /\ NoUpdate.pc = "idle" /\ "idle" \notin Holding
      BY <1>1 DEF End, NoUpdate, AnyUpdate, Holding
    <2> QED BY <1>0, <1>1, <2>1, Moves DEF Restorable
  <1>2. CASE failUpdate(u) /\ updates[u].pc \in Holding
    <2> DEFINE x == Answered(updates[u], "clean")
    <2>1. updates' = [updates EXCEPT ![u] = x]
      BY <1>2 DEF failUpdate, Reply, Answered
    <2>2. /\ x \in AnyUpdate /\ x.pc = "clean" /\ x.svc = updates[u].svc
          /\ x.alone = updates[u].alone /\ x.backup = updates[u].backup
      BY <1>0, NextRecord DEF Phases
    <2>3. "clean" \in Holding
      BY DEF Holding
    <2> HIDE DEF x
    <2> QED BY <1>0, <1>2, <2>1, <2>2, <2>3, Moves DEF Restorable
  <1> QED BY <1>1, <1>2

\* ReadEnv and Backup.
LEMMA ReadSteps ==
    ASSUME UpdateInv, NEW u \in Updaters, ReadEnv(u) \/ Backup(u)
    PROVE UpdateInv'
  <1> DEFINE r == updates[u]
  <1>0. UpdateTypes /\ PhasesFit
    BY DEF UpdateInv
  <1>1. CASE ReadEnv(u)
    <2> DEFINE x == [r EXCEPT !.pc = "rename", !.seen = envTag]
    <2>1. r \in UpdateRecs /\ r.pc = "pin" /\ r.pc # "idle" /\ r.pin \in Tags /\ r.backup = "nothing"
      BY <1>0, <1>1, UnderWay DEF ReadEnv, At, PhasesFit
    <2>2. /\ updates' = [updates EXCEPT ![u] = x]
          /\ UNCHANGED <<envTag, setup, registry, local, running, owed, dockerCfg, tainted>>
      BY <1>1 DEF ReadEnv
    <2>3. /\ x \in AnyUpdate /\ x.pc = "rename" /\ x.seen \in [Services -> Tags]
          /\ x.pin \in Tags /\ x.svc = r.svc /\ x.alone = r.alone /\ x.backup = "nothing"
      BY <1>0, <2>1 DEF UpdateRecs, Phases, UpdateTypes, AnyUpdate
    <2>4. r.pc \notin Holding /\ x.pc \notin Holding /\ dockerCfg' \in Configs
      BY <1>0, <2>1, <2>2, <2>3 DEF Holding, UpdateTypes
    <2> HIDE DEF x
    <2> QED BY <2>1, <2>2, <2>3, <2>4, Moves DEF Restorable
  <1>2. CASE Backup(u)
    <2>1. /\ r \in UpdateRecs /\ r.pc = "auth" /\ r.pc # "idle" /\ r.backup = "nothing"
          /\ UNCHANGED <<envTag, setup, registry, local, running, owed, dockerCfg>>
          /\ r.pc \notin Holding /\ dockerCfg' \in Configs
      BY <1>0, <1>2, UnderWay DEF Backup, At, PhasesFit, Holding, UpdateTypes
    <2>2. CASE setup.configured /\ End(u) /\ UNCHANGED tainted
      BY <2>1, <2>2, EndSteps
    <2>3. CASE ~setup.configured /\ Go(u, "resolve") /\ UNCHANGED tainted
      <3> DEFINE x == Gone(r, "resolve")
      <3>1. updates' = [updates EXCEPT ![u] = x]
        BY <2>3 DEF Go, Gone
      <3>2. /\ x \in AnyUpdate /\ x.pc = "resolve" /\ x.svc = r.svc /\ x.alone = r.alone
            /\ x.backup = Backed
        BY <2>1, <2>3, NextRecord DEF Phases, Backed
      <3>3. Restorable(u, "resolve")
        BY <2>1 DEF Restorable
      <3> HIDE DEF x
      <3> QED BY <2>1, <2>3, <3>1, <3>2, <3>3, Moves
    <2>4. ASSUME setup.configured, NEW b \in {dockerCfg, "none"},
                 updates' = [updates EXCEPT ![u].pc = "creds", ![u].backup = b],
                 tainted' = (tainted \/ b # setup.cfg)
          PROVE UpdateInv'
      <3> DEFINE x == [r EXCEPT !.pc = "creds", !.backup = b]
      <3>1. updates' = [updates EXCEPT ![u] = x]
        BY <2>4
      <3>2. b \in Configs
        BY <1>0 DEF UpdateTypes, Configs
      <3>3. /\ x \in AnyUpdate /\ x.pc = "creds" /\ x.backup = b
            /\ x.svc = r.svc /\ x.alone = r.alone
        BY <2>1, <3>2 DEF UpdateRecs, Phases, AnyUpdate
      <3>4. ~tainted' => ~tainted /\ x.backup = Backed
        BY <2>4, <3>3 DEF Backed
      <3>5. Restorable(u, "creds")
        BY <2>1 DEF Restorable
      <3> HIDE DEF x
      <3> QED BY <2>1, <2>4, <3>1, <3>3, <3>4, <3>5, Moves
    <2> QED BY <1>2, <2>2, <2>3, <2>4 DEF Backup
  <1> QED BY <1>1, <1>2

\* registryAuthEnv.
LEMMA AuthStep ==
    ASSUME UpdateInv, NEW u \in Updaters, registryAuthEnv(u)
    PROVE UpdateInv'
  <1> DEFINE x == Gone(updates[u], "resolve")
  <1>0. /\ updates[u] \in UpdateRecs /\ updates[u].pc = "creds" /\ updates[u].pc # "idle"
        /\ UNCHANGED <<envTag, setup, registry, local, running, owed>>
        /\ ~tainted => updates[u].backup = Backed
        /\ setup.configured /\ updates[u].pc \notin Holding /\ dockerCfg \in Configs
    BY UnderWay DEF registryAuthEnv, At, UpdateInv, UpdateTypes, BackupsHeld, PhasesFit, Holding
  <1>1. CASE /\ dockerCfg' \in {dockerCfg, "cut"} /\ End(u)
             /\ tainted' = (tainted \/ dockerCfg' # dockerCfg)
    <2>1. /\ updates' = [updates EXCEPT ![u] = NoUpdate] /\ NoUpdate \in AnyUpdate
          /\ NoUpdate.pc = "idle" /\ "idle" \notin Holding \cup {"creds"}
      BY <1>1 DEF End, NoUpdate, AnyUpdate, Holding
    <2>2. dockerCfg' \in Configs
      BY <1>0, <1>1 DEF Configs
    <2>3. ~tainted' => ~tainted /\ Restorable(u, "idle")
      BY <1>0, <1>1 DEF Restorable
    <2> QED BY <1>0, <2>1, <2>2, <2>3, Moves DEF Restorable
  <1>2. CASE dockerCfg' = "api" /\ Go(u, "resolve") /\ UNCHANGED tainted
    <2>1. updates' = [updates EXCEPT ![u] = x]
      BY <1>2 DEF Go, Gone
    <2>2. /\ x \in AnyUpdate /\ x.pc = "resolve" /\ x.svc = updates[u].svc
          /\ x.alone = updates[u].alone /\ x.backup = updates[u].backup
      BY <1>0, NextRecord DEF Phases
    <2>3. Restorable(u, "resolve") /\ dockerCfg' \in Configs
      BY <1>0, <1>2 DEF Holding, Restorable, Configs
    <2> HIDE DEF x
    <2> QED BY <1>0, <1>2, <2>1, <2>2, <2>3, Moves DEF Restorable
  <1> QED BY <1>1, <1>2 DEF registryAuthEnv

\* serviceImageRef and runningImageID.
LEMMA CompareSteps ==
    ASSUME UpdateInv, NEW u \in Updaters, serviceImageRef(u) \/ runningImageID(u)
    PROVE UpdateInv'
  <1> DEFINE r == updates[u]
  <1>0. /\ UpdateTypes /\ UNCHANGED <<envTag, setup, registry, local, running, owed, dockerCfg, tainted>>
        /\ AloneIsCurrent /\ BackupsHeld /\ dockerCfg' \in Configs
    BY DEF serviceImageRef, runningImageID, UpdateInv, UpdateTypes
  <1>1. CASE serviceImageRef(u)
    <2> DEFINE x == [r EXCEPT !.pc = "prev", !.ref = envTag[r.svc]]
    <2>1. r \in UpdateRecs /\ r.pc = "resolve" /\ r.pc # "idle" /\ r.pc \in Holding
          /\ "prev" \in Holding
      BY <1>0, <1>1, UnderWay DEF serviceImageRef, At, Holding
    <2>2. CASE failUpdate(u)
      BY <1>0, <2>1, <2>2, EndSteps
    <2>3. CASE updates' = [updates EXCEPT ![u] = x]
      <3>1. /\ x \in AnyUpdate /\ x.pc = "prev" /\ x.svc = r.svc /\ x.alone = r.alone
            /\ x.backup = r.backup /\ x.ref = envTag[x.svc]
        BY <1>0, <2>1 DEF UpdateRecs, Phases, UpdateTypes, AnyUpdate
      <3>2. ~tainted => r.backup = Backed
        BY <1>0, <2>1 DEF BackupsHeld
      <3> HIDE DEF x
      <3> QED BY <1>0, <2>1, <2>3, <3>1, <3>2, Moves DEF Restorable
    <2> QED BY <1>1, <2>2, <2>3 DEF serviceImageRef
  <1>2. CASE runningImageID(u)
    <2>0. PICK id \in {running[r.svc], 0} : updates' = [updates EXCEPT ![u].pc = "pull", ![u].prev = id]
      BY <1>2 DEF runningImageID
    <2> DEFINE x == [r EXCEPT !.pc = "pull", !.prev = id]
    <2>1. r \in UpdateRecs /\ r.pc = "prev" /\ r.pc # "idle" /\ r.pc \in Holding
          /\ "pull" \in Holding /\ id \in Nat
      <3>1. r \in UpdateRecs /\ r.pc = "prev" /\ r.pc # "idle" /\ r.pc \in Holding /\ "pull" \in Holding
        BY <1>0, <1>2, UnderWay DEF runningImageID, At, Holding
      <3>2. running[r.svc] \in Nat
        BY <1>0, <3>1 DEF UpdateRecs, UpdateTypes
      <3> QED BY <2>0, <3>1, <3>2
    <2>2. updates' = [updates EXCEPT ![u] = x]
      BY <2>0
    <2>3. /\ x \in AnyUpdate /\ x.pc = "pull" /\ x.svc = r.svc /\ x.alone = r.alone
          /\ x.backup = r.backup /\ x.prev \in {running[x.svc], 0} /\ x.ref = r.ref
      BY <1>0, <2>1 DEF UpdateRecs, Phases, UpdateTypes, AnyUpdate
    <2>4. (~tainted => r.backup = Backed) /\ (r.alone => r.ref = envTag[r.svc])
      BY <1>0, <2>1 DEF BackupsHeld, AloneIsCurrent
    <2> HIDE DEF x
    <2> QED BY <1>0, <2>1, <2>2, <2>3, <2>4, Moves DEF Restorable
  <1> QED BY <1>1, <1>2

\* A request that has not answered is of a service that is owed an update.
LEMMA UnansweredOwed ==
    ASSUME UpdateInv, NEW u \in Updaters, updates[u].pc \notin {"idle", "clean"}
    PROVE updates[u] \in UpdateRecs /\ updates[u].svc \in Services /\ updates[u].svc \in owed
  BY UnderWay DEF UpdateInv, Settled, UpdateRecs

\* Pull.
LEMMA PullStep ==
    ASSUME UpdateInv, NEW u \in Updaters, Pull(u)
    PROVE UpdateInv'
  <1> DEFINE r == updates[u]
             x == Gone(r, "decide")
  <1>0. /\ r.pc = "pull" /\ r.pc # "idle" /\ r.pc \in Holding /\ "decide" \in Holding
        /\ UNCHANGED <<envTag, setup, dockerCfg, registry, running, owed, tainted>>
    BY DEF Pull, At, Holding
  <1>1. r \in UpdateRecs /\ r.svc \in Services /\ r.svc \in owed
    BY <1>0, UnansweredOwed
  <1>2. CASE failUpdate(u) /\ UNCHANGED local
    BY <1>0, <1>2, EndSteps
  <1>3. CASE /\ Go(u, "decide")
             /\ local' = [local EXCEPT ![r.svc][envTag[r.svc]] = registry[r.svc][envTag[r.svc]]]
    <2>1. updates' = [updates EXCEPT ![u] = x]
      BY <1>3 DEF Go, Gone
    <2>2. /\ x \in AnyUpdate /\ x.pc = "decide" /\ x.svc = r.svc /\ x.alone = r.alone
          /\ x.backup = r.backup /\ x.ref = r.ref /\ x.prev = r.prev
      BY <1>1, NextRecord DEF Phases
    <2>3. UpdateTypes' /\ updates'[u] = x
      <3> HIDE DEF x
      <3>1. envTag[r.svc] \in Tags /\ registry[r.svc][envTag[r.svc]] \in Nat
        BY <1>1 DEF UpdateInv, UpdateTypes
      <3>2. local' \in [Services -> [Tags -> Nat]]
        BY <1>1, <1>3, <3>1 DEF UpdateInv, UpdateTypes
      <3> QED BY <1>0, <2>1, <2>2, <3>2 DEF UpdateInv, UpdateTypes, AnyUpdate
    <2>4. \A v \in Updaters \ {u} : Kept(v)
      BY <2>1 DEF UpdateInv, UpdateTypes, Kept
    <2>5. OthersKeep(r.svc)
      BY <1>0, <1>3 DEF OthersKeep, UpdateInv, UpdateTypes
    <2>6. /\ ~tainted => r.backup = Backed
          /\ r.alone => r.ref = envTag[r.svc] /\ r.prev \in {running[r.svc], 0}
      BY <1>0 DEF UpdateInv, BackupsHeld, AloneIsCurrent
    <2> HIDE DEF x
    <2> QED BY <1>0, <1>1, <2>2, <2>3, <2>4, <2>5, <2>6, Advance DEF Restorable
  <1> QED BY <1>2, <1>3 DEF Pull

\* A request answers that its update succeeded, and the service it is of runs
\* what it should if nothing crossed it.
LEMMA SuccessStep ==
    ASSUME UpdateInv, NEW u \in Updaters, updates[u].pc \in {"decide", "up"},
           Succeeded(u), Reply(u, "clean"), UNCHANGED <<envTag, setup, dockerCfg, registry, tainted>>,
           local' \in [Services -> [Tags -> Nat]], running' \in [Services -> Nat],
           \A s \in Services \ {updates[u].svc} : running'[s] = running[s] /\ local'[s] = local[s],
           updates[u].alone => running'[updates[u].svc] = local'[updates[u].svc][envTag[updates[u].svc]]
    PROVE UpdateInv'
  <1> DEFINE r == updates[u]
             x == Answered(r, "clean")
  <1>0. /\ r.pc \notin {"idle", "clean"} /\ r.pc \in Holding /\ "clean" \in Holding
    BY DEF Holding
  <1>1. r \in UpdateRecs /\ r.svc \in Services /\ r.svc \in owed
    BY <1>0, UnansweredOwed
  <1>2. updates' = [updates EXCEPT ![u] = x]
    BY DEF Reply, Answered
  <1>3. /\ x \in AnyUpdate /\ x.pc = "clean" /\ x.svc = r.svc /\ x.alone = r.alone
        /\ x.backup = r.backup
    BY <1>1, NextRecord DEF Phases
  <1> HIDE DEF x
  <1>4. UpdateTypes' /\ updates'[u] = x /\ \A v \in Updaters \ {u} : Kept(v)
    BY <1>2, <1>3 DEF UpdateInv, UpdateTypes, AnyUpdate, Kept
  <1>5. owed' = IF r.alone THEN owed \ {r.svc} ELSE owed
    BY DEF Succeeded
  <1>6. OthersKeep(r.svc)
    BY <1>5 DEF OthersKeep
  <1>7. r.svc \notin owed' => r.alone
    BY <1>1, <1>5
  <1>8. ~tainted => r.backup = Backed
    BY <1>0 DEF UpdateInv, BackupsHeld
  <1> QED BY <1>0, <1>1, <1>3, <1>4, <1>6, <1>7, <1>8, Advance DEF Restorable

\* Decide.
LEMMA DecideStep ==
    ASSUME UpdateInv, NEW u \in Updaters, Decide(u)
    PROVE UpdateInv'
  <1> DEFINE r == updates[u]
  <1>0. /\ r.pc = "decide" /\ r.pc \notin {"idle", "clean"} /\ r.pc \in Holding
        /\ UNCHANGED <<envTag, setup, dockerCfg, registry, local, running, tainted>>
    BY DEF Decide, At, Holding
  <1>1. /\ r \in UpdateRecs /\ r.svc \in Services /\ r.svc \in owed
        /\ ~tainted => r.backup = Backed
        /\ r.alone => r.ref = envTag[r.svc] /\ r.prev \in {running[r.svc], 0}
        /\ UpdateTypes /\ dockerCfg \in Configs
    BY <1>0, UnansweredOwed DEF UpdateInv, BackupsHeld, AloneIsCurrent, UpdateTypes
  <1>2. CASE UpToDate(u) /\ Succeeded(u) /\ Reply(u, "clean")
    <2>1. r.alone => running[r.svc] = local[r.svc][envTag[r.svc]]
      BY <1>1, <1>2 DEF UpToDate
    <2> QED BY <1>0, <1>1, <1>2, <2>1, SuccessStep DEF UpdateTypes
  <1>3. CASE UNCHANGED owed /\ failUpdate(u)
    BY <1>0, <1>3, EndSteps
  <1>4. CASE UNCHANGED owed /\ r.svc = "web" /\ Go(u, "up")
    <2> DEFINE x == Gone(r, "up")
    <2>1. updates' = [updates EXCEPT ![u] = x]
      BY <1>4 DEF Go, Gone
    <2>2. /\ x \in AnyUpdate /\ x.pc = "up" /\ x.svc = r.svc /\ x.alone = r.alone
          /\ x.backup = r.backup
      BY <1>1, NextRecord DEF Phases
    <2>3. "up" \in Holding
      BY DEF Holding
    <2> HIDE DEF x
    <2> QED BY <1>0, <1>1, <1>4, <2>1, <2>2, <2>3, Moves DEF Restorable
  <1>5. CASE UNCHANGED owed /\ r.svc = "api" /\ Reply(u, "cleanThenUp")
    <2> DEFINE x == Answered(r, "cleanThenUp")
    <2>1. updates' = [updates EXCEPT ![u] = x]
      BY <1>5 DEF Reply, Answered
    <2>2. /\ x \in AnyUpdate /\ x.pc = "cleanThenUp" /\ x.svc = r.svc /\ x.alone = r.alone
          /\ x.backup = r.backup
      BY <1>1, NextRecord DEF Phases
    <2>3. "cleanThenUp" \in Holding
      BY DEF Holding
    <2> HIDE DEF x
    <2> QED BY <1>0, <1>1, <1>5, <2>1, <2>2, <2>3, Moves DEF Restorable
  <1> QED BY <1>2, <1>3, <1>4, <1>5 DEF Decide

\* UpWeb.
LEMMA UpWebStep ==
    ASSUME UpdateInv, NEW u \in Updaters, UpWeb(u)
    PROVE UpdateInv'
  <1> DEFINE r == updates[u]
             t == envTag["web"]
  <1>0. /\ r.pc = "up" /\ r.pc # "idle" /\ r.pc \in Holding /\ UpdateTypes /\ r.svc = "web"
        /\ UNCHANGED <<envTag, setup, dockerCfg, registry, tainted>>
    BY DEF UpWeb, At, Holding, UpdateInv, PhasesFit
  <1>1. /\ "web" \in Services /\ t \in Tags /\ local["web"][t] \in Nat /\ registry["web"][t] \in Nat
        /\ local \in [Services -> [Tags -> Nat]] /\ running \in [Services -> Nat]
    BY <1>0 DEF UpdateTypes, Services
  <1>2. CASE Recreated("web") /\ Succeeded(u) /\ Reply(u, "clean") /\ UNCHANGED local
    <2>1. running' = [running EXCEPT !["web"] = local["web"][t]]
      BY <1>2 DEF Recreated
    <2>2. /\ running' \in [Services -> Nat] /\ running'["web"] = local["web"][t]
          /\ \A s \in Services \ {"web"} : running'[s] = running[s]
      BY <1>1, <2>1
    <2> QED BY <1>0, <1>1, <1>2, <2>2, SuccessStep
  <1>3. CASE /\ local' = [local EXCEPT !["web"][t] = registry["web"][t]]
             /\ running' = [running EXCEPT !["web"] = registry["web"][t]]
             /\ Succeeded(u) /\ Reply(u, "clean")
    <2>1. /\ running' \in [Services -> Nat] /\ local' \in [Services -> [Tags -> Nat]]
          /\ running'["web"] = local'["web"][t]
          /\ \A s \in Services \ {"web"} : running'[s] = running[s] /\ local'[s] = local[s]
      BY <1>1, <1>3
    <2> QED BY <1>0, <1>1, <1>3, <2>1, SuccessStep
  <1>4. CASE failUpdate(u) /\ UNCHANGED <<running, owed, local>>
    BY <1>0, <1>4, EndSteps
  <1> QED BY <1>2, <1>3, <1>4 DEF UpWeb

\* cleanup.
LEMMA CleanupStep ==
    ASSUME UpdateInv, NEW u \in Updaters, cleanup(u)
    PROVE UpdateInv'
  <1> DEFINE r == updates[u]
             x == Gone(r, "helper")
  <1>0. /\ r.pc \in {"clean", "cleanThenUp"} /\ r.pc # "idle" /\ r.pc \in Holding
        /\ UNCHANGED <<envTag, setup, registry, local, running, owed>>
    BY DEF cleanup, Holding
  <1>1. /\ r \in UpdateRecs /\ r.backup \in Configs \cup {"nothing"} /\ (~tainted => r.backup = Backed)
        /\ r.pc = "cleanThenUp" => r.svc = "api"
        /\ dockerCfg \in Configs /\ setup.cfg \in {"host", "none"}
    BY <1>0, UnderWay DEF UpdateInv, UpdateTypes, BackupsHeld, PhasesFit, UpdateRecs
  <1>2. dockerCfg' \in Configs
    BY <1>1 DEF cleanup, Configs
  <1>3. ~tainted' => ~tainted /\ dockerCfg' = setup.cfg
    <2>1. CASE r.backup = "nothing"
      <3>1. dockerCfg' = dockerCfg /\ tainted' = tainted
        BY <2>1 DEF cleanup
      <3>2. ~tainted => ~setup.configured
        BY <1>1, <2>1 DEF Backed
      <3> QED BY <3>1, <3>2 DEF UpdateInv, BackupsHeld
    <2>2. CASE r.backup # "nothing"
      <3>1. tainted' = (tainted \/ dockerCfg' # r.backup)
        BY <2>2 DEF cleanup
      <3>2. ~tainted => r.backup = setup.cfg
        BY <1>1, <2>2 DEF Backed
      <3> QED BY <3>1, <3>2
    <2> QED BY <2>1, <2>2
  <1>4. CASE End(u)
    <2>1. /\ updates' = [updates EXCEPT ![u] = NoUpdate] /\ NoUpdate \in AnyUpdate
          /\ NoUpdate.pc = "idle" /\ "idle" \notin Holding
      BY <1>4 DEF End, NoUpdate, AnyUpdate, Holding
    <2> QED BY <1>0, <1>1, <1>2, <1>3, <2>1, Moves DEF Restorable
  <1>5. CASE ~At(u, "clean") /\ Go(u, "helper")
    <2>1. updates' = [updates EXCEPT ![u] = x]
      BY <1>5 DEF Go, Gone
    <2>2. /\ x \in AnyUpdate /\ x.pc = "helper" /\ x.svc = r.svc /\ x.alone = r.alone
      BY <1>1, NextRecord DEF Phases
    <2>3. "helper" \notin Holding \cup {"creds"} /\ r.pc = "cleanThenUp"
      BY <1>0, <1>5 DEF Holding, At
    <2> HIDE DEF x
    <2> QED BY <1>0, <1>1, <1>2, <1>3, <2>1, <2>2, <2>3, Moves DEF Restorable
  <1> QED BY <1>4, <1>5 DEF cleanup

\* writeComposeTag.
LEMMA WriteTagStep ==
    ASSUME UpdateInv, NEW u \in Updaters, writeComposeTag(u)
    PROVE UpdateInv'
  <1> DEFINE r == updates[u]
             tags == upsertEnvVar(r.seen, r.svc, r.pin)
             undone == {s \in Services \ {r.svc} : tags[s] # envTag[s]}
             outpaced == Crossed(updates, undone)
             x == [r EXCEPT !.pc = "auth", !.seen = NoPin]
  <1>0. /\ r.pc = "rename" /\ r.pc \notin {"idle", "clean"} /\ r.pc \notin Holding /\ UpdateTypes
        /\ UNCHANGED <<dockerCfg, setup, registry, local, running, tainted>>
    BY DEF writeComposeTag, At, Holding, UpdateInv
  <1>1. /\ r \in UpdateRecs /\ r.svc \in Services /\ r.svc \in owed
        /\ r.backup = "nothing"
    <2>1. r.backup = "nothing"
      BY <1>0 DEF UpdateInv, PhasesFit
    <2> QED BY <1>0, <2>1, UnansweredOwed
  <1>2. r.seen \in [Services -> Tags] /\ r.pin \in Tags
    BY <1>0 DEF UpdateInv, PhasesFit
  <1>3. tags \in [Services -> Tags]
    BY <1>1, <1>2 DEF upsertEnvVar
  <1>4. CASE End(u) /\ UNCHANGED <<envTag, setup, owed>>
    BY <1>0, <1>4, EndSteps
  <1>5. CASE /\ envTag' = tags /\ owed' = owed \cup undone
             /\ updates' = [outpaced EXCEPT ![u].pc = "auth", ![u].seen = NoPin]
    <2>1. outpaced[u] = r /\ r.svc \notin undone
      BY DEF Crossed
    <2>2. DOMAIN outpaced = Updaters
      BY DEF Crossed
    <2>3. /\ x \in AnyUpdate /\ x.pc = "auth" /\ x.svc = r.svc /\ x.alone = r.alone
          /\ x.backup = "nothing"
      BY <1>0, <1>1 DEF UpdateRecs, AnyUpdate, Phases
    <2> HIDE DEF undone, tags
    <2>4. /\ updates'[u] = x /\ DOMAIN updates' = Updaters /\ updates' = [v \in Updaters |-> updates'[v]]
          /\ \A v \in Updaters \ {u} : updates'[v] = outpaced[v]
      <3> HIDE DEF outpaced
      <3> QED BY <1>5, <2>1, <2>2
    <2> HIDE DEF x
    <2>5. ASSUME NEW v \in Updaters \ {u}
          PROVE /\ Kept(v) /\ updates'[v] \in AnyUpdate
                /\ updates'[v].pc # "idle" /\ updates'[v].svc \in undone => ~updates'[v].alone
      BY <1>0, <2>4, CrossedKeeps DEF Kept
    <2>6. updates' \in [Updaters -> AnyUpdate]
      BY <2>3, <2>4, <2>5
    <2>7. UpdateTypes'
      BY <1>0, <1>3, <1>5, <2>6 DEF UpdateTypes, AnyUpdate
    <2>8. OthersKeep(r.svc)
      <3> SUFFICES ASSUME NEW s \in Services \ {r.svc}
                   PROVE \/ /\ envTag'[s] = envTag[s] /\ running'[s] = running[s]
                            /\ local'[s] = local[s] /\ (s \in owed => s \in owed')
                         \/ /\ s \in owed'
                            /\ \A v \in Updaters : updates'[v].pc # "idle" /\ updates'[v].svc = s
                                                      => ~updates'[v].alone
        BY DEF OthersKeep
      <3>1. CASE s \in undone
        <4>1. s \in owed'
          BY <1>5, <3>1
        <4>2. ASSUME NEW v \in Updaters, updates'[v].pc # "idle", updates'[v].svc = s
              PROVE ~updates'[v].alone
          <5>1. v # u
            BY <2>3, <2>4, <4>2
          <5> QED BY <2>5, <3>1, <4>2, <5>1
        <4> QED BY <4>1, <4>2
      <3>2. CASE s \notin undone
        BY <1>0, <1>5, <3>2 DEF undone
      <3> QED BY <3>1, <3>2
    <2>9. "auth" \notin Holding \cup {"creds", "idle"} /\ r.svc \in owed' /\ Restorable(u, "auth")
      BY <1>0, <1>1, <1>5 DEF Holding, Restorable
    <2> QED BY <1>0, <2>3, <2>4, <2>5, <2>7, <2>8, <2>9, Advance
  <1> QED BY <1>4, <1>5 DEF writeComposeTag

\* HelperUp: the new process knows none of the requests.
LEMMA HelperStep ==
    ASSUME UpdateInv, NEW u \in Updaters, HelperUp(u)
    PROVE UpdateInv'
  <1>0. /\ updates[u].pc = "helper" /\ updates[u].pc # "idle" /\ updates[u].pc \notin Holding
        /\ UpdateTypes /\ UNCHANGED <<envTag, setup, dockerCfg, registry, local>>
        /\ updates[u].svc = "api"
    BY DEF HelperUp, At, Holding, UpdateInv, PhasesFit
  <1>1. CASE End(u) /\ UNCHANGED <<running, owed, tainted>>
    BY <1>0, <1>1, EndSteps
  <1>2. CASE /\ Recreated("api") /\ Succeeded(u) /\ updates' = [v \in Updaters |-> NoUpdate]
             /\ tainted' = (tainted \/ dockerCfg # setup.cfg)
    <2>1. \A v \in Updaters : updates'[v] = NoUpdate /\ updates'[v].pc = "idle"
      BY <1>2 DEF NoUpdate
    <2>2. /\ running' = [running EXCEPT !["api"] = local["api"][envTag["api"]]]
          /\ running' \in [Services -> Nat]
      BY <1>0, <1>2 DEF Recreated, UpdateTypes, Services
    <2>3. UpdateTypes'
      BY <1>0, <1>2, <2>2 DEF UpdateTypes
    <2>4. PhasesFit' /\ AloneIsCurrent'
      BY <2>1 DEF PhasesFit, AloneIsCurrent
    <2>5. BackupsHeld'
      BY <1>0, <1>2, <2>1 DEF BackupsHeld, Holding
    <2>6. Settled'
      <3> SUFFICES ASSUME NEW s \in Services, s \notin owed'
                   PROVE running'[s] = local'[s][envTag'[s]]
        BY <2>1 DEF Settled
      <3>1. CASE s = "api"
        BY <1>0, <2>2, <3>1 DEF UpdateTypes
      <3>2. CASE s # "api"
        <4>1. s \notin owed /\ running'[s] = running[s]
          BY <1>0, <1>2, <2>2, <3>2 DEF Succeeded, UpdateTypes
        <4> QED BY <1>0, <4>1 DEF UpdateInv, Settled
      <3> QED BY <3>1, <3>2
    <2> QED BY <2>3, <2>4, <2>5, <2>6 DEF UpdateInv
  <1> QED BY <1>1, <1>2 DEF HelperUp

\* BeginUpdate.
LEMMA BeginStep ==
    ASSUME UpdateInv, NEW u \in Updaters, NEW s \in Services, NEW pin \in Tags \cup {NoPin},
           NEW force \in BOOLEAN, BeginUpdate(u, s, pin, force)
    PROVE UpdateInv'
  <1> DEFINE first == IF pin = NoPin THEN "auth" ELSE "pin"
             x == [pc |-> first, svc |-> s, pin |-> pin, force |-> force, seen |-> NoPin,
                   backup |-> "nothing", ref |-> NoPin, prev |-> 0, alone |-> Of(s) = {}]
             outpaced == Crossed(updates, {s})
  <1>0. /\ UpdateTypes /\ updates[u].pc = "idle" /\ owed' = owed \cup {s}
        /\ updates' = [outpaced EXCEPT ![u] = x]
        /\ UNCHANGED <<envTag, setup, dockerCfg, registry, local, running, tainted>>
    BY DEF BeginUpdate, At, UpdateInv
  <1>1. /\ x \in AnyUpdate /\ x.pc \in {"auth", "pin"} /\ x.svc = s /\ x.alone = (Of(s) = {})
        /\ x.pc = "pin" => x.pin \in Tags
        /\ x.backup = "nothing"
    BY DEF UpdateRecs, AnyUpdate, Phases
  <1> HIDE DEF x
  <1>2. /\ updates'[u] = x /\ updates' = [v \in Updaters |-> updates'[v]]
        /\ \A v \in Updaters \ {u} : updates'[v] = outpaced[v]
    <2>1. DOMAIN outpaced = Updaters
      BY DEF Crossed
    <2> HIDE DEF outpaced
    <2> QED BY <1>0, <2>1
  <1>3. ASSUME NEW v \in Updaters \ {u}
        PROVE /\ Kept(v) /\ updates'[v] \in AnyUpdate
              /\ updates'[v].pc # "idle" /\ updates'[v].svc = s => ~updates'[v].alone
    BY <1>0, <1>2, CrossedKeeps DEF Kept
  <1>4. UpdateTypes'
    <2>1. updates' \in [Updaters -> AnyUpdate]
      BY <1>1, <1>2, <1>3
    <2> QED BY <1>0, <2>1 DEF UpdateTypes, AnyUpdate
  <1>5. PhasesFit'
    <2> SUFFICES ASSUME NEW v \in Updaters
                 PROVE /\ updates'[v].pc = "rename" => updates'[v].seen \in [Services -> Tags]
                       /\ updates'[v].pc \in {"pin", "rename"} => updates'[v].pin \in Tags
                       /\ updates'[v].pc \in {"pin", "rename", "auth"} =>
                             updates'[v].backup = "nothing"
                       /\ updates'[v].pc = "creds" => setup.configured
                       /\ updates'[v].pc = "up" => updates'[v].svc = "web"
                       /\ updates'[v].pc \in {"cleanThenUp", "helper"} => updates'[v].svc = "api"
      <3> HIDE DEF x, outpaced
      <3> QED BY <1>0 DEF PhasesFit
    <2>1. CASE v = u
      BY <1>1, <1>2, <2>1
    <2>2. CASE v # u
      <3>1. Kept(v)
        BY <1>3, <2>2
      <3> QED BY <3>1 DEF UpdateInv, PhasesFit, Kept
    <2> QED BY <2>1, <2>2
  <1>6. BackupsHeld'
    <2>1. x.pc \notin Holding \cup {"creds"} /\ updates[u].pc \notin Holding
          /\ "idle" \notin Holding \cup {"creds"}
      BY <1>0, <1>1 DEF Holding
    <2>2. ASSUME ~tainted, NEW v \in Updaters, updates'[v].pc \in Holding \cup {"creds"}
          PROVE updates'[v].backup = Backed
      <3>1. v # u
        BY <1>2, <2>1, <2>2
      <3> QED BY <1>3, <2>1, <2>2, <3>1 DEF UpdateInv, BackupsHeld, Kept
    <2>3. ASSUME ~tainted, dockerCfg # setup.cfg
          PROVE /\ setup.configured /\ dockerCfg = "api"
                /\ \E v \in Updaters : updates'[v].pc \in Holding
      <3>1. setup.configured /\ dockerCfg = "api"
        BY <2>3 DEF UpdateInv, BackupsHeld
      <3>2. PICK v \in Updaters : updates[v].pc \in Holding
        BY <2>3 DEF UpdateInv, BackupsHeld
      <3> QED BY <1>3, <2>1, <3>1, <3>2 DEF Kept
    <2> HIDE DEF x, outpaced
    <2> QED BY <1>0, <2>2, <2>3 DEF BackupsHeld, Backed
  <1>7. Settled'
    <2> SUFFICES ASSUME NEW q \in Services, q \notin owed'
                 PROVE /\ running[q] = local[q][envTag[q]]
                       /\ \A v \in Updaters : updates'[v].pc # "idle" /\ updates'[v].svc = q
                                                 => updates'[v].pc = "clean"
      BY <1>0 DEF Settled
    <2>1. q # s /\ q \notin owed
      BY <1>0
    <2> QED BY <1>1, <1>2, <1>3, <2>1 DEF UpdateInv, Settled, Kept
  <1>8. AloneIsCurrent'
    <2> SUFFICES ASSUME NEW v \in Updaters, updates'[v].pc # "idle", updates'[v].alone
                 PROVE /\ \A w \in Updaters \ {v} : updates'[w].pc # "idle"
                                                       => updates'[w].svc # updates'[v].svc
                       /\ updates'[v].pc \in {"prev", "pull", "decide"} =>
                             updates'[v].ref = envTag[updates'[v].svc]
                       /\ updates'[v].pc \in {"pull", "decide"} =>
                             updates'[v].prev \in {running[updates'[v].svc], 0}
      <3> HIDE DEF x, outpaced
      <3> QED BY <1>0 DEF AloneIsCurrent
    <2>1. CASE v = u
      <3>1. Of(s) = {} /\ updates'[v].svc = s /\ updates'[v].pc \in {"auth", "pin"}
        BY <1>1, <1>2, <2>1
      <3> QED BY <1>3, <2>1, <3>1 DEF Of, Kept
    <2>2. CASE v # u
      <3>1. Kept(v) /\ updates'[v].svc # s
        BY <1>3, <2>2
      <3>2. updates[v].pc # "idle" /\ updates[v].alone
        BY <3>1 DEF Kept
      <3>3. /\ \A w \in Updaters \ {v} : updates[w].pc # "idle" => updates[w].svc # updates[v].svc
            /\ updates[v].pc \in {"prev", "pull", "decide"} => updates[v].ref = envTag[updates[v].svc]
            /\ updates[v].pc \in {"pull", "decide"} => updates[v].prev \in {running[updates[v].svc], 0}
        BY <3>2 DEF UpdateInv, AloneIsCurrent
      <3>4. \A w \in Updaters \ {v} : updates'[w].pc # "idle" => updates'[w].svc # updates'[v].svc
        BY <1>1, <1>2, <1>3, <3>1, <3>2, <3>3 DEF Kept
      <3> QED BY <3>1, <3>2, <3>3, <3>4 DEF Kept
    <2> QED BY <2>1, <2>2
  <1> QED BY <1>4, <1>5, <1>6, <1>7, <1>8 DEF UpdateInv

LEMMA UpdateInductive == UpdateSpec => []UpdateInv
  <1>1. UpdateInit => UpdateInv
    <2> SUFFICES ASSUME UpdateInit PROVE UpdateInv
      OBVIOUS
    <2>0. FirstTag \in Tags
      BY SelfUpdateAssumption
    <2>1. UpdateTypes
      BY <2>0 DEF UpdateInit, UpdateTypes, Configs, Services
    <2>2. \A u \in Updaters : updates[u].pc = "idle"
      BY DEF UpdateInit, NoUpdate
    <2>3. PhasesFit /\ BackupsHeld /\ AloneIsCurrent
      BY <2>2 DEF UpdateInit, PhasesFit, BackupsHeld, AloneIsCurrent, Holding
    <2>4. Settled
      BY <2>0, <2>2 DEF UpdateInit, Settled
    <2> QED BY <2>1, <2>3, <2>4 DEF UpdateInv
  <1>2. UpdateInv /\ [UpdateNext]_updateVars => UpdateInv'
    <2> SUFFICES ASSUME UpdateInv, [UpdateNext]_updateVars PROVE UpdateInv'
      OBVIOUS
    <2>1. ASSUME UNCHANGED <<envTag, setup, dockerCfg, local, running, updates, owed, tainted>>,
                 registry' \in [Services -> [Tags -> Nat]]
          PROVE UpdateInv'
      BY <2>1 DEF UpdateInv, UpdateTypes, PhasesFit, BackupsHeld, Backed, Settled, AloneIsCurrent
    <2>2. CASE UNCHANGED updateVars
      BY <2>1, <2>2 DEF updateVars, UpdateInv, UpdateTypes
    <2>3. ASSUME NEW s \in Services, NEW t \in Tags, NEW b \in Builds, Push(s, t, b)
          PROVE UpdateInv'
      <3>1. b \in Nat
        BY SelfUpdateAssumption
      <3>2. registry' \in [Services -> [Tags -> Nat]]
        BY <2>3, <3>1 DEF Push, UpdateInv, UpdateTypes
      <3> QED BY <2>1, <2>3, <3>2 DEF Push
    <2> QED BY <2>2, <2>3, BeginStep, ReadSteps, WriteTagStep, AuthStep, CompareSteps, PullStep,
               DecideStep, UpWebStep, CleanupStep, HelperStep DEF UpdateNext
  <1> QED BY <1>1, <1>2, PTL DEF UpdateSpec

\* A service whose last update answered that it had succeeded, and that nothing
\* crossed, runs the image that its tag names.
THEOREM RetriesMend == UpdateSpec => []RetryMends
  <1>1. UpdateInv => RetryMends
    BY DEF UpdateInv, Settled, RetryMends
  <1> QED BY <1>1, UpdateInductive, PTL

\* When no request is under way Docker's configuration is again what the host had,
\* whatever failed but the operations on the file itself, if no backup took
\* another request's credentials and no cleanup was cut off.
THEOREM ConfigIsRestored == UpdateSpec => []ConfigRestored
  <1>1. UpdateInv => ConfigRestored
    BY DEF UpdateInv, UpdateTypes, BackupsHeld, ConfigRestored, Holding
  <1> QED BY <1>1, UpdateInductive, PTL

-----------------------------------------------------------------------------
(* What dashboards are told.                                                 *)

AnomalyKinds == {"stale_state", "orphaned_database", "orphaned_container",
                 "unmanaged_container", "missing_container", "orphaned_database_volume"}

Anomalies == AnomalyKinds \X ContainerNames

FeedMessages == [kind : {"other"}] \cup [kind : {"anomalies"}, list : SUBSET Anomalies]

Sessions == [state : {"new", "open", "closed", "gone"}, topics : SUBSET Topics,
             send : Seq(FeedMessages), told : {NoList} \cup SUBSET Anomalies, lost : BOOLEAN]

Worlds == [connected : BOOLEAN, heartbeat : [fresh : BOOLEAN, names : SUBSET ContainerNames],
           orphans : SUBSET DatabaseNames, volumes : SUBSET DatabaseNames,
           expected : [StackNames -> {"none", "running", "stopped"}],
           managed : SUBSET DatabaseNames]

FeedTypes ==
    /\ session \in [AdminClients -> Sessions] /\ hub \subseteq AdminClients
    /\ world \in Worlds /\ anomalies \subseteq Anomalies /\ scanning \in BOOLEAN

\* A session that has not been registered has been told nothing, nor will be.
NewKnowsNothing ==
    \A c \in AdminClients : session[c].state = "new" => session[c].told = NoList /\ c \notin hub

FeedInv == FeedTypes /\ NewKnowsNothing /\ AnomaliesReachClients

LEMMA AnomaliesFinite == IsFiniteSet(Anomalies)
  <1>1. IsFiniteSet(ContainerNames)
    <2>1. IsFiniteSet(StackNames \cup RetiredNames)
      BY AdminFeedAssumption, FS_Union
    <2> QED BY <2>1, AdminFeedAssumption, FS_Union DEF ContainerNames
  <1>2. IsFiniteSet(AnomalyKinds)
    <2> DEFINE A == {"stale_state"}
               B == A \cup {"orphaned_database"}
               C == B \cup {"orphaned_container"}
               D == C \cup {"unmanaged_container"}
               E == D \cup {"missing_container"}
    <2>1. AnomalyKinds = E \cup {"orphaned_database_volume"}
      BY DEF AnomalyKinds
    <2>2. IsFiniteSet(A)
      BY FS_Singleton
    <2> HIDE DEF A
    <2>3. IsFiniteSet(B)
      BY <2>2, FS_AddElement
    <2> HIDE DEF B
    <2>4. IsFiniteSet(C)
      BY <2>3, FS_AddElement
    <2> HIDE DEF C
    <2>5. IsFiniteSet(D)
      BY <2>4, FS_AddElement
    <2> HIDE DEF D
    <2>6. IsFiniteSet(E)
      BY <2>5, FS_AddElement
    <2> HIDE DEF E
    <2> QED BY <2>1, <2>6, FS_AddElement
  <1> QED BY <1>1, <1>2, FS_Product DEF Anomalies

\* A scan that finds no change has found what the scanner lists: as many, and
\* all of them known.
LEMMA UnchangedIsSame ==
    ASSUME NEW found \in SUBSET Anomalies, FeedInv, ~Changed(found)
    PROVE found = anomalies
  <1>1. anomalies \subseteq Anomalies /\ found \subseteq anomalies
        /\ Cardinality(found) = Cardinality(anomalies)
    BY DEF FeedInv, FeedTypes, Changed
  <1>2. IsFiniteSet(anomalies)
    BY <1>1, AnomaliesFinite, FS_Subset
  <1> QED BY <1>1, <1>2, FS_Subset

\* What a scan finds is about containers that there are.
LEMMA FoundTypes ==
    ASSUME FeedInv, NEW found \in Found
    PROVE found \in SUBSET Anomalies
  <1>0. world \in Worlds
    BY DEF FeedInv, FeedTypes
  <1>1. checkStaleWorker \subseteq Anomalies /\ Missing \subseteq Anomalies
    BY DEF checkStaleWorker, Missing, Anomalies, AnomalyKinds, ContainerNames
  <1>2. databaseOrphanAnomalies \subseteq Anomalies
    BY <1>0 DEF databaseOrphanAnomalies, Worlds, Anomalies, AnomalyKinds, ContainerNames
  <1>3. ASSUME NEW managed PROVE Unmanaged(managed) \subseteq Anomalies
    <2>1. world.heartbeat.names \subseteq ContainerNames
      BY <1>0 DEF Worlds
    <2> QED BY <2>1 DEF Unmanaged, Anomalies, AnomalyKinds
  <1> QED BY <1>1, <1>2, <1>3 DEF Found

\* scan.
LEMMA ScanFeed ==
    ASSUME FeedInv, Scan
    PROVE FeedInv'
  <1>1. PICK found \in Found : anomalies' = found /\ scanning' = Changed(found)
    BY DEF Scan
  <1>2. found \in SUBSET Anomalies /\ UNCHANGED <<session, hub, world>> /\ ~scanning
    BY FoundTypes DEF Scan
  <1>3. Changed(found) \in BOOLEAN
    BY DEF Changed
  <1>4. FeedTypes' /\ NewKnowsNothing'
    BY <1>1, <1>2, <1>3 DEF FeedInv, FeedTypes, NewKnowsNothing
  <1>5. AnomaliesReachClients'
    <2> SUFFICES ASSUME ~scanning', NEW c \in hub', session'[c].state = "open"
                 PROVE session'[c].told \in {NoList, anomalies'} \/ session'[c].lost
      BY DEF AnomaliesReachClients
    <2>1. anomalies' = anomalies
      BY <1>1, <1>2, UnchangedIsSame
    <2> QED BY <1>2, <2>1 DEF FeedInv, AnomaliesReachClients
  <1> QED BY <1>4, <1>5 DEF FeedInv

\* A message queued, or dropped.
LEMMA SentAndDropped ==
    ASSUME NEW s \in Sessions, NEW m \in FeedMessages
    PROVE /\ Sent(s, m) \in Sessions /\ Sent(s, m).state = s.state
          /\ IF m.kind = "anomalies" THEN Sent(s, m).told = m.list
                                     ELSE Sent(s, m).told = s.told /\ Sent(s, m).lost = s.lost
          /\ Dropped(s, m) \in Sessions /\ Dropped(s, m).state = s.state
          /\ Dropped(s, m).told = s.told
          /\ IF m.kind = "anomalies" THEN Dropped(s, m).lost ELSE Dropped(s, m).lost = s.lost
  <1>1. s.send \in Seq(FeedMessages) /\ s.told \in {NoList} \cup SUBSET Anomalies
        /\ s.lost \in BOOLEAN
    BY DEF Sessions
  <1>2. Append(s.send, m) \in Seq(FeedMessages)
    BY <1>1, AppendProperties
  <1>3. (IF m.kind = "anomalies" THEN m.list ELSE s.told) \in {NoList} \cup SUBSET Anomalies
    BY <1>1 DEF FeedMessages
  <1>4. (s.lost /\ m.kind # "anomalies") \in BOOLEAN /\ (s.lost \/ m.kind = "anomalies") \in BOOLEAN
    OBVIOUS
  <1>5. Sent(s, m) \in Sessions /\ Dropped(s, m) \in Sessions
    BY <1>2, <1>3, <1>4 DEF Sent, Dropped, Sessions
  <1>6. /\ Sent(s, m).state = s.state
        /\ Sent(s, m).told = IF m.kind = "anomalies" THEN m.list ELSE s.told
        /\ Sent(s, m).lost = (s.lost /\ m.kind # "anomalies")
    BY DEF Sent, Sessions
  <1>7. /\ Dropped(s, m).state = s.state /\ Dropped(s, m).told = s.told
        /\ Dropped(s, m).lost = (s.lost \/ m.kind = "anomalies")
    BY DEF Dropped, Sessions
  <1> QED BY <1>1, <1>5, <1>6, <1>7

\* A broadcast: to whom it goes, each session has it queued or dropped.
LEMMA BroadcastReaches ==
    ASSUME FeedInv, NEW m \in FeedMessages, NEW to \in SUBSET hub, Broadcast(m, to)
    PROVE /\ session' \in [AdminClients -> Sessions]
          /\ \A c \in AdminClients :
                /\ session'[c].state = session[c].state
                /\ \/ session'[c] = session[c] /\ c \notin to
                   \/ session'[c] = Sent(session[c], m) /\ c \in to
                   \/ session'[c] = Dropped(session[c], m) /\ c \in to
          /\ hub' = hub => NewKnowsNothing'
  <1>1. PICK dropped \in SUBSET to :
           session' = [c \in AdminClients |->
              IF c \in dropped THEN Dropped(session[c], m)
              ELSE IF c \in to THEN Sent(session[c], m) ELSE session[c]]
    BY DEF Broadcast
  <1>2. ASSUME NEW c \in AdminClients
        PROVE /\ session'[c] \in Sessions /\ session'[c].state = session[c].state
              /\ \/ session'[c] = session[c] /\ c \notin to
                 \/ session'[c] = Sent(session[c], m) /\ c \in to
                 \/ session'[c] = Dropped(session[c], m) /\ c \in to
    <2>1. session[c] \in Sessions
      BY DEF FeedInv, FeedTypes
    <2> QED BY <1>1, <2>1, SentAndDropped
  <1>3. session' \in [AdminClients -> Sessions]
    BY <1>1, <1>2
  <1>4. hub' = hub => NewKnowsNothing'
    BY <1>2 DEF FeedInv, NewKnowsNothing
  <1> QED BY <1>2, <1>3, <1>4

\* BroadcastFiltered, and the broadcast of what has changed.
LEMMA BroadcastFeed ==
    ASSUME FeedInv, BroadcastAnomalies \/ \E topics \in SUBSET Topics : BroadcastFiltered(topics)
    PROVE FeedInv'
  <1>0. UNCHANGED <<hub, world, anomalies>> /\ FeedTypes
    BY DEF BroadcastAnomalies, BroadcastFiltered, FeedInv
  <1>1. CASE BroadcastAnomalies
    <2> DEFINE m == [kind |-> "anomalies", list |-> anomalies]
    <2>1. m \in FeedMessages /\ m.kind = "anomalies" /\ m.list = anomalies
      BY <1>0 DEF FeedMessages, FeedTypes
    <2>2. Broadcast(m, hub) /\ scanning' = FALSE
      BY <1>1 DEF BroadcastAnomalies
    <2> HIDE DEF m
    <2>3. /\ session' \in [AdminClients -> Sessions] /\ NewKnowsNothing'
          /\ \A c \in hub : session'[c] = Sent(session[c], m) \/ session'[c] = Dropped(session[c], m)
      BY <1>0, <2>1, <2>2, BroadcastReaches DEF FeedTypes
    <2>4. FeedTypes'
      BY <1>0, <2>2, <2>3 DEF FeedTypes
    <2>5. ASSUME NEW c \in hub PROVE session'[c].told = anomalies \/ session'[c].lost
      <3>1. session[c] \in Sessions
        BY <1>0 DEF FeedTypes
      <3> QED BY <2>1, <2>3, <3>1, SentAndDropped
    <2>6. AnomaliesReachClients'
      BY <1>0, <2>5 DEF AnomaliesReachClients
    <2> QED BY <2>3, <2>4, <2>6 DEF FeedInv
  <1>2. ASSUME NEW topics \in SUBSET Topics, BroadcastFiltered(topics) PROVE FeedInv'
    <2> DEFINE m == [kind |-> "other"]
               to == {c \in hub : topics = {} \/ matchesTopic(c, topics)}
    <2>1. m \in FeedMessages /\ m.kind # "anomalies"
      BY DEF FeedMessages
    <2>2. Broadcast(m, to) /\ to \in SUBSET hub /\ scanning' = scanning
      BY <1>2 DEF BroadcastFiltered
    <2> HIDE DEF m, to
    <2>3. /\ session' \in [AdminClients -> Sessions] /\ NewKnowsNothing'
          /\ \A c \in AdminClients :
                /\ session'[c].state = session[c].state
                /\ \/ session'[c] = session[c]
                   \/ session'[c] = Sent(session[c], m) \/ session'[c] = Dropped(session[c], m)
      BY <1>0, <2>1, <2>2, BroadcastReaches
    <2>4. FeedTypes'
      BY <1>0, <2>2, <2>3 DEF FeedTypes
    <2>5. ASSUME NEW c \in AdminClients
          PROVE session'[c].told = session[c].told /\ session'[c].lost = session[c].lost
      <3>1. session[c] \in Sessions
        BY <1>0 DEF FeedTypes
      <3>2. /\ Sent(session[c], m).told = session[c].told /\ Sent(session[c], m).lost = session[c].lost
            /\ Dropped(session[c], m).told = session[c].told
            /\ Dropped(session[c], m).lost = session[c].lost
        BY <2>1, <3>1, SentAndDropped
      <3> QED BY <2>3, <3>2
    <2>6. AnomaliesReachClients'
      BY <1>0, <2>2, <2>3, <2>5 DEF FeedInv, FeedTypes, AnomaliesReachClients
    <2> QED BY <2>3, <2>4, <2>6 DEF FeedInv
  <1> QED BY <1>1, <1>2

\* What sessions do by themselves.
LEMMA SessionFeed ==
    ASSUME FeedInv, NEW c \in AdminClients,
           \/ RegisterAdmin(c) \/ CloseAdmin(c) \/ removeIfMatch(c) \/ WriteAdmin(c)
           \/ \E topics \in SUBSET Topics : EditTopics(c, topics)
    PROVE FeedInv'
  <1> DEFINE s == session[c]
  <1>0. FeedTypes /\ NewKnowsNothing /\ s \in Sessions /\ UNCHANGED <<world, anomalies, scanning>>
    BY DEF RegisterAdmin, CloseAdmin, removeIfMatch, WriteAdmin, EditTopics, FeedInv, FeedTypes
  <1>1. ASSUME NEW x \in Sessions, session' = [session EXCEPT ![c] = x], hub' \subseteq hub \cup {c},
               x.state = "open" => x.told = s.told /\ x.lost = s.lost,
               x.state = "open" /\ s.state # "open" => s.told = NoList,
               x.state # "new", x.state = "open" /\ s.state = "open" => (c \in hub' => c \in hub)
        PROVE FeedInv'
    <2>1. FeedTypes'
      BY <1>0, <1>1 DEF FeedTypes
    <2>2. session'[c] = x /\ \A d \in AdminClients \ {c} : session'[d] = session[d]
                                                          /\ (d \in hub' => d \in hub)
      BY <1>0, <1>1 DEF FeedTypes
    <2>3. NewKnowsNothing'
      BY <1>0, <1>1, <2>2 DEF NewKnowsNothing
    <2>4. AnomaliesReachClients'
      <3> SUFFICES ASSUME ~scanning', NEW d \in hub', session'[d].state = "open"
                   PROVE session'[d].told \in {NoList, anomalies'} \/ session'[d].lost
        BY DEF AnomaliesReachClients
      <3>1. CASE d # c
        <4>1. d \in AdminClients
          BY <2>1 DEF FeedTypes
        <4> QED BY <1>0, <2>2, <3>1, <4>1 DEF FeedInv, AnomaliesReachClients
      <3>2. CASE d = c /\ s.state # "open"
        BY <1>1, <2>2, <3>2
      <3>3. CASE d = c /\ s.state = "open"
        BY <1>0, <1>1, <2>2, <3>3 DEF FeedInv, AnomaliesReachClients
      <3> QED BY <3>1, <3>2, <3>3
    <2> QED BY <2>1, <2>3, <2>4 DEF FeedInv
  <1>2. CASE RegisterAdmin(c)
    <2> DEFINE x == [s EXCEPT !.state = "gone"]
               y == [s EXCEPT !.state = "open"]
    <2>1. s.state = "new" /\ s.told = NoList
      BY <1>0, <1>2 DEF RegisterAdmin, NewKnowsNothing
    <2>2. /\ x \in Sessions /\ x.state = "gone" /\ y \in Sessions /\ y.state = "open"
          /\ y.told = s.told /\ y.lost = s.lost
      BY <1>0 DEF Sessions
    <2>3. \/ session' = [session EXCEPT ![c] = x] /\ hub' = hub
          \/ session' = [session EXCEPT ![c] = y] /\ hub' = hub \cup {c}
      BY <1>2 DEF RegisterAdmin
    <2> HIDE DEF x, y
    <2>4. CASE session' = [session EXCEPT ![c] = x] /\ hub' = hub
      BY <1>1, <2>2, <2>4
    <2>5. CASE session' = [session EXCEPT ![c] = y] /\ hub' = hub \cup {c}
      BY <1>1, <2>1, <2>2, <2>5
    <2> QED BY <2>3, <2>4, <2>5
  <1>3. CASE CloseAdmin(c)
    <2> DEFINE x == [s EXCEPT !.state = "closed"]
    <2>1. x \in Sessions /\ x.state = "closed"
      BY <1>0 DEF Sessions
    <2>2. session' = [session EXCEPT ![c] = x] /\ hub' = hub
      BY <1>3 DEF CloseAdmin
    <2> HIDE DEF x
    <2> QED BY <1>1, <2>1, <2>2
  <1>4. CASE removeIfMatch(c)
    <2> DEFINE x == [NewSession EXCEPT !.state = "gone"]
    <2>1. NewSession \in Sessions
      BY DEF Sessions, NewSession
    <2>2. x \in Sessions /\ x.state = "gone"
      BY <2>1 DEF Sessions
    <2>3. session' = [session EXCEPT ![c] = x] /\ hub' \subseteq hub
      BY <1>4 DEF removeIfMatch
    <2> HIDE DEF x
    <2> QED BY <1>1, <2>2, <2>3
  <1>5. CASE WriteAdmin(c)
    <2> DEFINE x == [s EXCEPT !.send = Tail(s.send)]
    <2>1. s.send \in Seq(FeedMessages) /\ s.send # << >> /\ s.state = "open"
      BY <1>0, <1>5 DEF WriteAdmin, Sessions
    <2>2. Tail(s.send) \in Seq(FeedMessages)
      BY <2>1, HeadTailProperties
    <2>3. x \in Sessions /\ x.state = s.state /\ x.told = s.told /\ x.lost = s.lost
      BY <1>0, <2>2 DEF Sessions
    <2>4. session' = [session EXCEPT ![c] = x] /\ hub' = hub
      BY <1>5 DEF WriteAdmin
    <2> HIDE DEF x
    <2> QED BY <1>1, <2>1, <2>3, <2>4
  <1>6. ASSUME NEW topics \in SUBSET Topics, EditTopics(c, topics) PROVE FeedInv'
    <2>1. PICK new \in {s.topics \cup topics, s.topics \ topics, {}} :
             session' = [session EXCEPT ![c].topics = new]
      BY <1>6 DEF EditTopics
    <2> DEFINE x == [s EXCEPT !.topics = new]
    <2>2. new \in SUBSET Topics /\ s.state = "open" /\ hub' = hub
      BY <1>0, <1>6 DEF EditTopics, Sessions
    <2>3. x \in Sessions /\ x.state = s.state /\ x.told = s.told /\ x.lost = s.lost
      BY <1>0, <2>2 DEF Sessions
    <2>4. session' = [session EXCEPT ![c] = x]
      BY <2>1
    <2> HIDE DEF x
    <2> QED BY <1>1, <2>2, <2>3, <2>4
  <1> QED BY <1>2, <1>3, <1>4, <1>5, <1>6

\* Between scans every open session has last been sent the anomalies that the
\* scanner lists, or its queue was full at the last change.
THEOREM AnomaliesAlwaysReachClients == FeedSpec => []AnomaliesReachClients
  <1>1. FeedInit => FeedInv
    <2> SUFFICES ASSUME FeedInit PROVE FeedInv
      OBVIOUS
    <2>1. NewSession \in Sessions /\ NewSession.state = "new" /\ NewSession.told = NoList
      BY DEF NewSession, Sessions
    <2>2. world \in Worlds
      BY DEF FeedInit, Worlds, NoReport
    <2>3. FeedTypes
      BY <2>1, <2>2 DEF FeedInit, FeedTypes
    <2>4. NewKnowsNothing /\ AnomaliesReachClients
      BY <2>1 DEF FeedInit, NewKnowsNothing, AnomaliesReachClients
    <2> QED BY <2>3, <2>4 DEF FeedInv
  <1>2. FeedInv /\ [FeedNext]_feedVars => FeedInv'
    <2> SUFFICES ASSUME FeedInv, [FeedNext]_feedVars PROVE FeedInv'
      OBVIOUS
    <2>1. ASSUME UNCHANGED <<session, hub, anomalies, scanning>>, world' \in Worlds PROVE FeedInv'
      BY <2>1 DEF FeedInv, FeedTypes, NewKnowsNothing, AnomaliesReachClients
    <2>2. CASE WorldChanges
      <3>1. world' \in Worlds
        <4>0. world \in Worlds
          BY DEF FeedInv, FeedTypes
        <4>1. ASSUME NEW names \in SUBSET ContainerNames, UpdateWorkerContainers(names)
              PROVE world' \in Worlds
          BY <4>0, <4>1 DEF Worlds, UpdateWorkerContainers, News
        <4>2. CASE HeartbeatAges
          BY <4>0, <4>2 DEF Worlds, NoReport, HeartbeatAges, News
        <4>3. ASSUME NEW names \in SUBSET DatabaseNames,
                     NEW volumes \in SUBSET DatabaseNames,
                     UpdateWorkerDatabaseOrphans(names, volumes)
              PROVE world' \in Worlds
          BY <4>0, <4>3 DEF Worlds, UpdateWorkerDatabaseOrphans, News
        <4>4. CASE ConnectionChanges
          <5>1. (~world.connected) \in BOOLEAN
            OBVIOUS
          <5> QED BY <4>0, <4>4, <5>1 DEF Worlds, ConnectionChanges, News
        <4>5. ASSUME NEW n \in StackNames, NEW status \in {"none", "running", "stopped"},
                     ContainersChange(n, status)
              PROVE world' \in Worlds
          BY <4>0, <4>5 DEF Worlds, ContainersChange, News
        <4>6. ASSUME NEW names \in SUBSET DatabaseNames, InstancesChange(names)
              PROVE world' \in Worlds
          BY <4>0, <4>6 DEF Worlds, InstancesChange, News
        <4>7. CASE OrphansAge
          BY <4>0, <4>7 DEF Worlds, OrphansAge, News
        <4> QED BY <2>2, <4>1, <4>2, <4>3, <4>4, <4>5, <4>6, <4>7 DEF WorldChanges
      <3>2. UNCHANGED <<session, hub, anomalies, scanning>>
        BY <2>2 DEF WorldChanges, UpdateWorkerContainers, UpdateWorkerDatabaseOrphans,
                    HeartbeatAges, OrphansAge, ConnectionChanges, ContainersChange,
                    InstancesChange, News
      <3> QED BY <2>1, <3>1, <3>2
    <2>3. CASE UNCHANGED feedVars
      BY <2>1, <2>3 DEF feedVars, FeedInv, FeedTypes
    <2> QED BY <2>2, <2>3, ScanFeed, BroadcastFeed, SessionFeed DEF FeedNext
  <1>3. FeedInv => AnomaliesReachClients
    BY DEF FeedInv
  <1> QED BY <1>1, <1>2, <1>3, PTL DEF FeedSpec

-----------------------------------------------------------------------------
(* The limiter.                                                              *)

Full == Burst * Cost
Price(k) == k * Cost

LimiterTypes ==
    /\ ticks \in Nat /\ admitted \in [Clients -> Seq(Nat)]
    /\ \A c \in Clients : \A i \in DOMAIN admitted[c] : admitted[c][i] <= ticks
    /\ \A ip \in DOMAIN buckets :
          /\ buckets[ip].tokens \in Nat /\ buckets[ip].lastRefill \in Nat
          /\ buckets[ip].tokens <= Full /\ buckets[ip].lastRefill <= ticks

\* What the requests since the i-th cost, with what the bucket still holds, is
\* covered by a full bucket and the refill since; a client whose bucket went has
\* waited for as much as they cost.
Covered(c, i) ==
    IF c \in DOMAIN buckets
    THEN Price(Len(admitted[c]) - i + 1) + buckets[c].tokens
            <= Full + (buckets[c].lastRefill - admitted[c][i])
    ELSE Price(Len(admitted[c]) - i + 1) <= ticks - admitted[c][i]

AllCovered == \A c \in Clients \ squeezed : \A i \in DOMAIN admitted[c] : Covered(c, i)

LimiterInv == LimiterTypes /\ AllCovered /\ WithinLimit

LEMMA PriceFacts ==
    /\ Cost \in Nat \ {0} /\ Full \in Nat /\ Full >= Cost /\ (Burst - 1) * Cost = Full - Cost
    /\ PruneAge \in Nat /\ StaleAge \in Nat /\ PruneAge >= Full /\ StaleAge >= PruneAge
    /\ Price(1) = Cost /\ Price(0) = 0
    /\ \A k \in Int : Price(k) \in Int /\ Price(k + 1) = Price(k) + Cost
  <1>0. Cost \in Nat \ {0} /\ Burst \in Nat \ {0}
    BY RateLimitAssumption
  <1>1. Full \in Nat /\ (Burst - 1) * Cost = Full - Cost /\ (Burst - 1) * Cost \in Nat
    BY <1>0 DEF Full
  <1>2. Price(1) = Cost /\ Price(0) = 0
    BY <1>0 DEF Price
  <1>3. ASSUME NEW k \in Int PROVE Price(k) \in Int /\ Price(k + 1) = Price(k) + Cost
    BY <1>0 DEF Price
  <1>4. Full >= Cost
    BY <1>0, <1>1
  <1> QED BY <1>0, <1>1, <1>2, <1>3, <1>4, RateLimitAssumption DEF Full

\* A client whose requests do not change, and whose bucket stays, stays away or
\* goes for its age.
LEMMA OthersCovered ==
    ASSUME LimiterInv, NEW d \in Clients, d \notin squeezed, ticks' = ticks,
           admitted'[d] = admitted[d],
           \/ d \in DOMAIN buckets /\ d \in DOMAIN buckets' /\ buckets'[d] = buckets[d]
           \/ d \notin DOMAIN buckets /\ d \notin DOMAIN buckets'
           \/ /\ d \in DOMAIN buckets /\ d \notin DOMAIN buckets'
              /\ ticks - buckets[d].lastRefill > PruneAge
    PROVE \A i \in DOMAIN admitted'[d] : Covered(d, i)'
  <1> SUFFICES ASSUME NEW i \in DOMAIN admitted[d] PROVE Covered(d, i)'
    OBVIOUS
  <1>0. LimiterTypes /\ admitted[d] \in Seq(Nat) /\ Covered(d, i)
    BY DEF LimiterInv, LimiterTypes, AllCovered
  <1>1. CASE d \in DOMAIN buckets /\ d \in DOMAIN buckets' /\ buckets'[d] = buckets[d]
    BY <1>0, <1>1 DEF Covered
  <1>2. CASE d \notin DOMAIN buckets /\ d \notin DOMAIN buckets'
    BY <1>0, <1>2 DEF Covered
  <1>3. CASE /\ d \in DOMAIN buckets /\ d \notin DOMAIN buckets'
             /\ ticks - buckets[d].lastRefill > PruneAge
    <2> DEFINE p == Price(Len(admitted[d]) - i + 1)
               a == admitted[d][i]
               t == buckets[d].tokens
               l == buckets[d].lastRefill
    <2>0. Len(admitted[d]) \in Nat /\ i \in 1 .. Len(admitted[d]) /\ a \in Nat
      BY <1>0, LenProperties
    <2>1. Len(admitted[d]) \in Nat /\ i \in Nat /\ a \in Nat /\ t \in Nat /\ l \in Nat /\ ticks \in Nat
      BY <1>0, <1>3, <2>0 DEF LimiterTypes
    <2>2. p \in Int
      <3>1. Len(admitted[d]) - i + 1 \in Int
        BY <2>1
      <3> QED BY <3>1, PriceFacts
    <2>3. p + t <= Full + (l - a)
      BY <1>0, <1>3 DEF Covered
    <2>4. p <= ticks - a
      <3> HIDE DEF p, a, t, l
      <3>1. Full \in Nat /\ PruneAge \in Nat /\ PruneAge >= Full /\ ticks - l > PruneAge
        BY <1>3, PriceFacts DEF l
      <3> QED BY <2>1, <2>2, <2>3, <3>1
    <2> QED BY <1>3, <2>4 DEF Covered
  <1> QED BY <1>1, <1>2, <1>3

\* One more request is admitted, and the bucket's account of it is right.
LEMMA AdmitCovered ==
    ASSUME LimiterInv, NEW c \in Clients, c \notin squeezed, ticks' = ticks, Admit(c),
           c \in DOMAIN buckets', NEW t \in Nat, buckets'[c].tokens = t, t <= Full - Cost,
           buckets'[c].lastRefill = ticks,
           \A i \in DOMAIN admitted[c] :
               Price(Len(admitted[c]) - i + 1) + t + Cost <= Full + (ticks - admitted[c][i])
    PROVE /\ \A i \in DOMAIN admitted'[c] : Covered(c, i)'
          /\ \A j \in DOMAIN admitted'[c] : \A i \in 1 .. j :
                Price(j - i + 1) <= Full + (admitted'[c][j] - admitted'[c][i])
  <1> DEFINE n == Len(admitted[c])
  <1>0. /\ LimiterTypes /\ admitted[c] \in Seq(Nat) /\ ticks \in Nat /\ n \in Nat
        /\ DOMAIN admitted[c] = 1 .. n
    BY LenProperties DEF LimiterInv, LimiterTypes
  <1>1. admitted'[c] = Append(admitted[c], ticks)
    BY DEF Admit, LimiterInv, LimiterTypes
  <1>2. /\ admitted'[c] \in Seq(Nat) /\ Len(admitted'[c]) = n + 1
        /\ \A i \in 1 .. n : admitted'[c][i] = admitted[c][i] /\ admitted[c][i] \in Nat
        /\ admitted'[c][n + 1] = ticks
    BY <1>0, <1>1, AppendProperties
  <1>3. DOMAIN admitted'[c] = 1 .. n + 1
    BY <1>2, LenProperties
  <1> HIDE DEF n
  <1>4. ASSUME NEW i \in 1 .. n + 1
        PROVE /\ Price(n + 1 - i + 1) \in Int /\ admitted'[c][i] \in Nat
              /\ Price(n + 1 - i + 1) + t <= Full + (ticks - admitted'[c][i])
    <2>0. Full \in Nat /\ Cost \in Nat
      BY PriceFacts
    <2>1. CASE i = n + 1
      <3>1. n + 1 - i + 1 = 1
        BY <1>0, <2>1
      <3>2. Price(n + 1 - i + 1) = Cost
        BY <3>1, PriceFacts
      <3>3. admitted'[c][i] = ticks /\ ticks \in Nat
        BY <1>0, <1>2, <2>1
      <3> QED BY <2>0, <3>2, <3>3
    <2>2. CASE i \in 1 .. n
      <3>1. n - i + 1 \in Int /\ n + 1 - i + 1 = (n - i + 1) + 1
        BY <1>0, <2>2
      <3>2. Price(n + 1 - i + 1) = Price(n - i + 1) + Cost /\ Price(n - i + 1) \in Int
        BY <3>1, PriceFacts
      <3>3. Price(n - i + 1) + t + Cost <= Full + (ticks - admitted[c][i])
        BY <1>0, <2>2 DEF n
      <3>4. admitted'[c][i] = admitted[c][i] /\ admitted[c][i] \in Nat
        BY <1>2, <2>2
      <3>5. ticks \in Nat
        BY <1>0
      <3>6. \A p, q, b, m, r \in Int : q = p + m /\ p + b + m <= r => q \in Int /\ q + b <= r
        OBVIOUS
      <3>7. t \in Int /\ Cost \in Int /\ Full + (ticks - admitted[c][i]) \in Int
        <4>1. \A f, n1, a \in Int : f + (n1 - a) \in Int
          OBVIOUS
        <4>2. Full \in Int /\ ticks \in Int /\ admitted[c][i] \in Int
          BY <2>0, <3>4, <3>5
        <4>3. t \in Int
          OBVIOUS
        <4> QED BY <2>0, <4>1, <4>2, <4>3
      <3>8. /\ Price(n + 1 - i + 1) \in Int
            /\ Price(n + 1 - i + 1) + t <= Full + (ticks - admitted[c][i])
        <4>1. Price(n + 1 - i + 1) \in Int
          BY <2>0, <3>2
        <4> QED BY <3>2, <3>3, <3>6, <3>7, <4>1
      <3> QED BY <3>4, <3>8
    <2> QED BY <1>0, <2>1, <2>2
  <1>5. \A i \in DOMAIN admitted'[c] : Covered(c, i)'
    <2> SUFFICES ASSUME NEW i \in 1 .. n + 1
                 PROVE Price(Len(admitted'[c]) - i + 1) + buckets'[c].tokens
                          <= Full + (buckets'[c].lastRefill - admitted'[c][i])
      BY <1>3 DEF Covered
    <2>1. Len(admitted'[c]) - i + 1 = n + 1 - i + 1
      BY <1>0, <1>2
    <2>2. Price(n + 1 - i + 1) + t <= Full + (ticks - admitted'[c][i])
      BY <1>4
    <2> QED BY <2>1, <2>2
  <1>6. ASSUME NEW j \in 1 .. n + 1, NEW i \in 1 .. j
        PROVE Price(j - i + 1) <= Full + (admitted'[c][j] - admitted'[c][i])
    <2>1. CASE j = n + 1
      <3>1. Full \in Nat
        BY PriceFacts
      <3>2. /\ i \in 1 .. n + 1 /\ admitted'[c][j] = ticks /\ ticks \in Nat
        BY <1>0, <1>2, <2>1
      <3>3. /\ Price(j - i + 1) \in Int /\ admitted'[c][i] \in Nat
            /\ Price(j - i + 1) + t <= Full + (ticks - admitted'[c][i])
        <4>1. /\ Price(n + 1 - i + 1) \in Int /\ admitted'[c][i] \in Nat
              /\ Price(n + 1 - i + 1) + t <= Full + (ticks - admitted'[c][i])
          BY <1>4, <3>2
        <4>2. j - i + 1 = n + 1 - i + 1
          BY <1>0, <2>1
        <4> QED BY <4>1, <4>2
      <3>4. \A p, b, r \in Int : p + b <= r /\ b >= 0 => p <= r
        OBVIOUS
      <3>5. t \in Int /\ t >= 0 /\ Full + (ticks - admitted'[c][i]) \in Int
        BY <3>1, <3>2, <3>3
      <3>6. Price(j - i + 1) <= Full + (ticks - admitted'[c][i])
        BY <3>3, <3>4, <3>5
      <3> QED BY <3>2, <3>6
    <2>2. CASE j \in 1 .. n
      <3>1. i \in 1 .. n
        BY <1>0, <2>2
      <3>2. Price(j - i + 1) <= Full + (admitted[c][j] - admitted[c][i])
        BY <1>0, <2>2 DEF LimiterInv, WithinLimit, Price, Full
      <3> QED BY <1>2, <2>2, <3>1, <3>2
    <2> QED BY <1>0, <2>1, <2>2
  <1> QED BY <1>3, <1>5, <1>6

\* The address a request is counted against is its client's, whatever its headers.
LEMMA ClientIPTrue ==
    ASSUME NEW c \in Clients, NEW other \in Addresses \cup {NoHeader}, NEW proxy \in Proxies,
           NEW ip \in {ClientIP(c, other, other), ClientIP(proxy, c, other),
                       ClientIP(proxy, NoHeader, c)}
    PROVE ip = c
  BY RateLimitAssumption DEF ClientIP

\* What a bucket holds after it has been refilled.
LEMMA RefilledFacts ==
    ASSUME LimiterInv, NEW ip \in DOMAIN buckets
    PROVE /\ Refilled(buckets[ip]) \in Nat /\ Refilled(buckets[ip]) <= Full
          /\ Refilled(buckets[ip]) <= buckets[ip].tokens + (ticks - buckets[ip].lastRefill)
  <1>1. /\ buckets[ip].tokens \in Nat /\ buckets[ip].lastRefill \in Nat
        /\ ticks \in Nat /\ buckets[ip].lastRefill <= ticks /\ Full \in Nat
    BY PriceFacts DEF LimiterInv, LimiterTypes
  <1> DEFINE units == buckets[ip].tokens + (ticks - buckets[ip].lastRefill)
  <1>2. Refilled(buckets[ip]) = IF units > Full THEN Full ELSE units
    BY DEF Refilled, Full
  <1>3. units \in Nat
    BY <1>1
  <1> HIDE DEF units
  <1>4. Refilled(buckets[ip]) \in Nat /\ Refilled(buckets[ip]) <= Full /\ Refilled(buckets[ip]) <= units
    BY <1>1, <1>2, <1>3
  <1> QED BY <1>4 DEF units

\* The parts of the invariant, client by client.
LEMMA LimiterParts ==
    ASSUME LimiterInv, ticks' = ticks, NEW c \in Clients,
           UNCHANGED admitted \/ Admit(c), squeezed \subseteq squeezed',
           \A ip \in DOMAIN buckets' :
               /\ buckets'[ip].tokens \in Nat /\ buckets'[ip].lastRefill \in Nat
               /\ buckets'[ip].tokens <= Full /\ buckets'[ip].lastRefill <= ticks,
           \A d \in Clients \ {c} : d \notin squeezed' =>
               \/ d \in DOMAIN buckets /\ d \in DOMAIN buckets' /\ buckets'[d] = buckets[d]
               \/ d \notin DOMAIN buckets /\ d \notin DOMAIN buckets'
               \/ /\ d \in DOMAIN buckets /\ d \notin DOMAIN buckets'
                  /\ ticks - buckets[d].lastRefill > PruneAge,
           c \notin squeezed' =>
               /\ \A i \in DOMAIN admitted'[c] : Covered(c, i)'
               /\ \A j \in DOMAIN admitted'[c] : \A i \in 1 .. j :
                     Price(j - i + 1) <= Full + (admitted'[c][j] - admitted'[c][i])
    PROVE LimiterInv'
  <1>0. LimiterTypes /\ AllCovered /\ WithinLimit
    BY DEF LimiterInv
  <1>1. \A d \in Clients \ {c} : admitted'[d] = admitted[d]
    BY <1>0 DEF Admit, LimiterTypes
  <1>2. LimiterTypes'
    <2>1. /\ admitted' \in [Clients -> Seq(Nat)]
          /\ \A i \in DOMAIN admitted'[c] : admitted'[c][i] <= ticks
      <3>1. CASE UNCHANGED admitted
        BY <1>0, <3>1 DEF LimiterTypes
      <3>2. CASE Admit(c)
        <4>1. /\ admitted[c] \in Seq(Nat) /\ ticks \in Nat /\ admitted \in [Clients -> Seq(Nat)]
              /\ admitted' = [admitted EXCEPT ![c] = Append(admitted[c], ticks)]
          BY <1>0, <3>2 DEF LimiterTypes, Admit
        <4>2. /\ Append(admitted[c], ticks) \in Seq(Nat)
              /\ Len(Append(admitted[c], ticks)) = Len(admitted[c]) + 1
              /\ \A i \in 1 .. Len(admitted[c]) : Append(admitted[c], ticks)[i] = admitted[c][i]
              /\ Append(admitted[c], ticks)[Len(admitted[c]) + 1] = ticks
          BY <4>1, AppendProperties
        <4>3. /\ DOMAIN Append(admitted[c], ticks) = 1 .. Len(admitted[c]) + 1
              /\ DOMAIN admitted[c] = 1 .. Len(admitted[c]) /\ Len(admitted[c]) \in Nat
          BY <4>1, <4>2, LenProperties
        <4>4. \A i \in 1 .. Len(admitted[c]) + 1 : Append(admitted[c], ticks)[i] <= ticks
          <5> SUFFICES ASSUME NEW i \in 1 .. Len(admitted[c]) + 1
                       PROVE Append(admitted[c], ticks)[i] <= ticks
            OBVIOUS
          <5>1. CASE i \in 1 .. Len(admitted[c])
            BY <1>0, <4>2, <4>3, <5>1 DEF LimiterTypes
          <5>2. CASE i = Len(admitted[c]) + 1
            BY <4>1, <4>2, <5>2
          <5> QED BY <4>3, <5>1, <5>2
        <4> QED BY <4>1, <4>2, <4>3, <4>4
      <3> QED BY <3>1, <3>2
    <2>2. \A d \in Clients : \A i \in DOMAIN admitted'[d] : admitted'[d][i] <= ticks
      BY <1>0, <1>1, <2>1 DEF LimiterTypes
    <2> QED BY <1>0, <2>1, <2>2 DEF LimiterTypes
  <1>3. AllCovered'
    <2> SUFFICES ASSUME NEW d \in Clients, d \notin squeezed'
                 PROVE \A i \in DOMAIN admitted'[d] : Covered(d, i)'
      BY DEF AllCovered
    <2>1. CASE d = c
      BY <2>1
    <2>2. CASE d # c
      <3>1. d \notin squeezed /\ admitted'[d] = admitted[d]
        BY <1>1, <2>2
      <3> QED BY <2>2, <3>1, OthersCovered
    <2> QED BY <2>1, <2>2
  <1>4. WithinLimit'
    <2> SUFFICES ASSUME NEW d \in Clients, d \notin squeezed', NEW j \in DOMAIN admitted'[d],
                        NEW i \in 1 .. j
                 PROVE (j - i + 1) * Cost <= Burst * Cost + (admitted'[d][j] - admitted'[d][i])
      BY DEF WithinLimit
    <2>1. CASE d = c
      BY <2>1 DEF Price, Full
    <2>2. CASE d # c
      <3>1. d \notin squeezed /\ admitted'[d] = admitted[d]
        BY <1>1, <2>2
      <3> QED BY <1>0, <3>1 DEF WithinLimit
    <2> QED BY <2>1, <2>2
  <1> QED BY <1>2, <1>3, <1>4 DEF LimiterInv

\* Set, key by key.
LEMMA SetFacts ==
    ASSUME NEW bs, NEW ip, NEW units, buckets' = Set(bs, ip, units)
    PROVE /\ DOMAIN buckets' = DOMAIN bs \cup {ip}
          /\ buckets'[ip].tokens = units /\ buckets'[ip].lastRefill = ticks
          /\ \A k \in DOMAIN bs \ {ip} : buckets'[k] = bs[k]
  BY DEF Set

\* allow, for an address that has a bucket.
LEMMA AllowKnownLimit ==
    ASSUME LimiterInv, NEW c \in Clients, AllowKnown(c, c)
    PROVE LimiterInv'
  <1> DEFINE units == Refilled(buckets[c])
  <1>0. /\ LimiterTypes /\ c \in DOMAIN buckets /\ ticks' = ticks /\ squeezed' = squeezed
        /\ ticks \in Nat /\ admitted[c] \in Seq(Nat)
        /\ buckets[c].tokens \in Nat /\ buckets[c].lastRefill \in Nat
    BY DEF AllowKnown, LimiterInv, LimiterTypes
  <1>1. /\ units \in Nat /\ units <= Full
        /\ units <= buckets[c].tokens + (ticks - buckets[c].lastRefill)
    BY <1>0, RefilledFacts
  <1>2. Cost \in Nat \ {0} /\ Full \in Nat
    BY PriceFacts
  <1>3. Len(admitted[c]) \in Nat /\ DOMAIN admitted[c] = 1 .. Len(admitted[c])
        /\ \A i \in DOMAIN admitted[c] : admitted[c][i] \in Nat
    BY <1>0, LenProperties
  <1>4. ASSUME c \notin squeezed, NEW i \in DOMAIN admitted[c]
        PROVE Price(Len(admitted[c]) - i + 1) + units <= Full + (ticks - admitted[c][i])
    <2>1. Price(Len(admitted[c]) - i + 1) + buckets[c].tokens
             <= Full + (buckets[c].lastRefill - admitted[c][i])
      BY <1>0, <1>4 DEF LimiterInv, AllCovered, Covered
    <2>2. Len(admitted[c]) - i + 1 \in Int
      BY <1>3
    <2>3. Price(Len(admitted[c]) - i + 1) \in Int
      BY <2>2, PriceFacts
    <2>4. admitted[c][i] \in Nat
      BY <1>3
    <2> DEFINE p == Price(Len(admitted[c]) - i + 1)
               a == admitted[c][i]
               tok == buckets[c].tokens
               last == buckets[c].lastRefill
    <2>5. /\ p \in Int /\ a \in Nat /\ tok \in Nat /\ last \in Nat /\ ticks \in Nat /\ units \in Nat
          /\ p + tok <= Full + (last - a) /\ units <= tok + (ticks - last) /\ Full \in Nat
      BY <1>0, <1>1, <1>2, <2>1, <2>3, <2>4
    <2> HIDE DEF units, p, a, tok, last
    <2>6. p + units <= Full + (ticks - a)
      BY <2>5
    <2> QED BY <2>6 DEF p, a
  <1> HIDE DEF units
  <1>5. ASSUME NEW t \in Nat, t <= Full, buckets' = Set(buckets, c, t)
        PROVE /\ \A ip \in DOMAIN buckets' :
                    /\ buckets'[ip].tokens \in Nat /\ buckets'[ip].lastRefill \in Nat
                    /\ buckets'[ip].tokens <= Full /\ buckets'[ip].lastRefill <= ticks
              /\ \A d \in Clients \ {c} :
                    \/ d \in DOMAIN buckets /\ d \in DOMAIN buckets' /\ buckets'[d] = buckets[d]
                    \/ d \notin DOMAIN buckets /\ d \notin DOMAIN buckets'
              /\ c \in DOMAIN buckets' /\ buckets'[c].tokens = t /\ buckets'[c].lastRefill = ticks
    <2>1. /\ DOMAIN buckets' = DOMAIN buckets \cup {c}
          /\ buckets'[c].tokens = t /\ buckets'[c].lastRefill = ticks
          /\ \A k \in DOMAIN buckets \ {c} : buckets'[k] = buckets[k]
      BY <1>5, SetFacts
    <2> QED BY <1>0, <1>5, <2>1 DEF LimiterTypes
  <1>6. CASE units >= Cost /\ buckets' = Set(buckets, c, units - Cost) /\ Admit(c)
    <2> DEFINE t == units - Cost
    <2>1. t \in Nat /\ t <= Full - Cost /\ t <= Full /\ t + Cost = units
      BY <1>1, <1>2, <1>6
    <2> HIDE DEF t
    <2>2. buckets' = Set(buckets, c, t)
      BY <1>6 DEF t
    <2>3. ASSUME c \notin squeezed
          PROVE /\ \A i \in DOMAIN admitted'[c] : Covered(c, i)'
                /\ \A j \in DOMAIN admitted'[c] : \A i \in 1 .. j :
                      Price(j - i + 1) <= Full + (admitted'[c][j] - admitted'[c][i])
      <3>1. ASSUME NEW i \in DOMAIN admitted[c]
            PROVE Price(Len(admitted[c]) - i + 1) + t + Cost <= Full + (ticks - admitted[c][i])
        <4>1. Len(admitted[c]) - i + 1 \in Int
          BY <1>3
        <4>2. Price(Len(admitted[c]) - i + 1) \in Int /\ admitted[c][i] \in Nat
          BY <1>3, <4>1, PriceFacts
        <4> QED BY <1>0, <1>1, <1>2, <1>4, <2>1, <2>3, <4>2
      <3> QED BY <1>0, <1>5, <1>6, <2>1, <2>2, <2>3, <3>1, AdmitCovered
    <2> QED BY <1>0, <1>5, <1>6, <2>1, <2>2, <2>3, LimiterParts
  <1>7. CASE units < Cost /\ buckets' = Set(buckets, c, units) /\ UNCHANGED admitted
    <2>1. ASSUME c \notin squeezed
          PROVE /\ \A i \in DOMAIN admitted'[c] : Covered(c, i)'
                /\ \A j \in DOMAIN admitted'[c] : \A i \in 1 .. j :
                      Price(j - i + 1) <= Full + (admitted'[c][j] - admitted'[c][i])
      <3>1. \A i \in DOMAIN admitted'[c] : Covered(c, i)'
        BY <1>1, <1>4, <1>5, <1>7, <2>1 DEF Covered
      <3> QED BY <1>7, <2>1, <3>1 DEF LimiterInv, WithinLimit, Price, Full
    <2> QED BY <1>0, <1>1, <1>5, <1>7, <2>1, LimiterParts
  <1> QED BY <1>6, <1>7 DEF AllowKnown, units

\* allow, for a new address.
LEMMA AllowNewLimit ==
    ASSUME LimiterInv, NEW c \in Clients, AllowNew(c, c)
    PROVE LimiterInv'
  <1> DEFINE kept == IF Cardinality(DOMAIN buckets) >= MaxBuckets THEN evictStale(PruneAge) ELSE buckets
             t == Full - Cost
  <1>0. /\ LimiterTypes /\ c \notin DOMAIN buckets /\ ticks' = ticks /\ Admit(c)
        /\ ticks \in Nat /\ admitted[c] \in Seq(Nat)
    BY DEF AllowNew, LimiterInv, LimiterTypes
  <1>1. /\ Cost \in Nat \ {0} /\ Full \in Nat /\ t \in Nat /\ t <= Full /\ t + Cost = Full
        /\ (Burst - 1) * Cost = t
    BY PriceFacts
  <1>2. /\ DOMAIN kept \subseteq DOMAIN buckets /\ \A k \in DOMAIN kept : kept[k] = buckets[k]
        /\ \A k \in DOMAIN buckets \ DOMAIN kept : ticks - buckets[k].lastRefill > PruneAge
    <2>1. CASE Cardinality(DOMAIN buckets) >= MaxBuckets
      <3>1. kept = evictStale(PruneAge)
        BY <2>1
      <3>2. DOMAIN kept = {k \in DOMAIN buckets : ticks - buckets[k].lastRefill <= PruneAge}
            /\ \A k \in DOMAIN kept : kept[k] = buckets[k]
        BY <3>1 DEF evictStale
      <3>3. \A k \in DOMAIN buckets : ticks - buckets[k].lastRefill \in Int /\ PruneAge \in Int
        <4>1. ticks \in Nat /\ \A k \in DOMAIN buckets : buckets[k].lastRefill \in Nat
          BY <1>0 DEF LimiterTypes
        <4>2. \A x \in Nat : ticks - x \in Int
          BY <4>1
        <4>3. PruneAge \in Nat
          BY PriceFacts
        <4> QED BY <4>1, <4>2, <4>3
      <3> HIDE DEF kept
      <3> QED BY <3>2, <3>3
    <2>2. CASE ~(Cardinality(DOMAIN buckets) >= MaxBuckets)
      BY <2>2
    <2> QED BY <2>1, <2>2
  <1>3. /\ \E bs : /\ buckets' = Set(bs, c, t)
                   /\ \/ bs = kept /\ squeezed' = squeezed
                      \/ \E o \in DOMAIN kept : bs = Without(kept, o) /\ squeezed' = squeezed \cup {o}
    BY <1>1 DEF AllowNew, Oldest
  <1> HIDE DEF kept, t
  <1>4. PICK bs : /\ buckets' = Set(bs, c, t)
                  /\ \/ bs = kept /\ squeezed' = squeezed
                     \/ \E o \in DOMAIN kept : bs = Without(kept, o) /\ squeezed' = squeezed \cup {o}
    BY <1>3
  <1>5. /\ DOMAIN bs \subseteq DOMAIN kept /\ \A k \in DOMAIN bs : bs[k] = buckets[k]
        /\ \A k \in DOMAIN kept \ DOMAIN bs : k \in squeezed'
        /\ squeezed \subseteq squeezed'
    BY <1>2, <1>4 DEF Without
  <1>6. /\ DOMAIN buckets' = DOMAIN bs \cup {c}
        /\ buckets'[c].tokens = t /\ buckets'[c].lastRefill = ticks
        /\ \A k \in DOMAIN bs \ {c} : buckets'[k] = bs[k]
    BY <1>4, SetFacts
  <1>7. \A ip \in DOMAIN buckets' :
           /\ buckets'[ip].tokens \in Nat /\ buckets'[ip].lastRefill \in Nat
           /\ buckets'[ip].tokens <= Full /\ buckets'[ip].lastRefill <= ticks
    <2> SUFFICES ASSUME NEW ip \in DOMAIN buckets'
                 PROVE /\ buckets'[ip].tokens \in Nat /\ buckets'[ip].lastRefill \in Nat
                       /\ buckets'[ip].tokens <= Full /\ buckets'[ip].lastRefill <= ticks
      OBVIOUS
    <2>1. CASE ip = c
      BY <1>0, <1>1, <1>6, <2>1
    <2>2. CASE ip # c
      <3>1. ip \in DOMAIN buckets /\ buckets'[ip] = buckets[ip]
        BY <1>2, <1>5, <1>6, <2>2
      <3> QED BY <1>0, <3>1 DEF LimiterTypes
    <2> QED BY <2>1, <2>2
  <1>8. \A d \in Clients \ {c} : d \notin squeezed' =>
           \/ d \in DOMAIN buckets /\ d \in DOMAIN buckets' /\ buckets'[d] = buckets[d]
           \/ d \notin DOMAIN buckets /\ d \notin DOMAIN buckets'
           \/ /\ d \in DOMAIN buckets /\ d \notin DOMAIN buckets'
              /\ ticks - buckets[d].lastRefill > PruneAge
    BY <1>2, <1>5, <1>6
  <1>9. ASSUME c \notin squeezed'
        PROVE /\ \A i \in DOMAIN admitted'[c] : Covered(c, i)'
              /\ \A j \in DOMAIN admitted'[c] : \A i \in 1 .. j :
                    Price(j - i + 1) <= Full + (admitted'[c][j] - admitted'[c][i])
    <2>1. c \notin squeezed
      BY <1>5, <1>9
    <2>2. ASSUME NEW i \in DOMAIN admitted[c]
          PROVE Price(Len(admitted[c]) - i + 1) + t + Cost <= Full + (ticks - admitted[c][i])
      <3>1. Price(Len(admitted[c]) - i + 1) <= ticks - admitted[c][i]
        BY <1>0, <2>1 DEF LimiterInv, AllCovered, Covered
      <3>2. /\ Len(admitted[c]) \in Nat /\ i \in 1 .. Len(admitted[c]) /\ admitted[c][i] \in Nat
        BY <1>0, LenProperties
      <3>3. Len(admitted[c]) - i + 1 \in Int
        BY <3>2
      <3>4. Price(Len(admitted[c]) - i + 1) \in Int
        BY <3>3, PriceFacts
      <3>5. /\ t \in Int /\ Cost \in Int /\ Full \in Int /\ ticks \in Int
            /\ t + Cost <= Full
        BY <1>0, <1>1, PriceFacts
      <3>6. \A p, n, a, b, m, f \in Int : p <= n - a /\ b + m <= f => p + b + m <= f + (n - a)
        OBVIOUS
      <3>7. admitted[c][i] \in Int
        BY <3>2
      <3> QED BY <3>1, <3>4, <3>5, <3>6, <3>7
    <2>3. t <= Full - Cost /\ c \in DOMAIN buckets'
      BY <1>1, <1>6
    <2> QED BY <1>0, <1>1, <1>6, <2>1, <2>2, <2>3, AdmitCovered
  <1> QED BY <1>0, <1>5, <1>7, <1>8, <1>9, LimiterParts

\* The loop that drops old buckets.
LEMMA EvictLimit ==
    ASSUME LimiterInv, EvictStale
    PROVE LimiterInv'
  <1>0. /\ LimiterTypes /\ UNCHANGED <<ticks, admitted, squeezed>> /\ buckets' = evictStale(StaleAge)
    BY DEF EvictStale, LimiterInv
  <1>1. /\ DOMAIN buckets' = {k \in DOMAIN buckets : ticks - buckets[k].lastRefill <= StaleAge}
        /\ \A k \in DOMAIN buckets' : buckets'[k] = buckets[k]
    BY <1>0 DEF evictStale
  <1>2. LimiterTypes'
    BY <1>0, <1>1 DEF LimiterTypes
  <1>3. \A k \in DOMAIN buckets : k \notin DOMAIN buckets' => ticks - buckets[k].lastRefill > PruneAge
    <2> SUFFICES ASSUME NEW k \in DOMAIN buckets, k \notin DOMAIN buckets'
                 PROVE ticks - buckets[k].lastRefill > PruneAge
      OBVIOUS
    <2>1. ticks - buckets[k].lastRefill \in Int /\ ~(ticks - buckets[k].lastRefill <= StaleAge)
      BY <1>0, <1>1 DEF LimiterTypes
    <2> QED BY <2>1, PriceFacts
  <1>4. AllCovered'
    <2> SUFFICES ASSUME NEW d \in Clients, d \notin squeezed
                 PROVE \A i \in DOMAIN admitted'[d] : Covered(d, i)'
      BY <1>0 DEF AllCovered
    <2>1. \/ d \in DOMAIN buckets /\ d \in DOMAIN buckets' /\ buckets'[d] = buckets[d]
          \/ d \notin DOMAIN buckets /\ d \notin DOMAIN buckets'
          \/ /\ d \in DOMAIN buckets /\ d \notin DOMAIN buckets'
             /\ ticks - buckets[d].lastRefill > PruneAge
      BY <1>1, <1>3
    <2> QED BY <1>0, <2>1, OthersCovered
  <1>5. WithinLimit'
    BY <1>0 DEF LimiterInv, WithinLimit
  <1> QED BY <1>2, <1>4, <1>5 DEF LimiterInv

\* The clock.
LEMMA TickLimit ==
    ASSUME LimiterInv, LimiterTick
    PROVE LimiterInv'
  <1>0. LimiterTypes /\ ticks' = ticks + 1 /\ UNCHANGED <<buckets, admitted, squeezed>>
    BY DEF LimiterTick, LimiterInv
  <1>1. LimiterTypes'
    <2>1. ticks \in Nat /\ ticks + 1 \in Nat
      BY <1>0 DEF LimiterTypes
    <2>2. \A x \in Nat : x <= ticks => x <= ticks + 1
      BY <2>1
    <2>3. \A c \in Clients : \A i \in DOMAIN admitted[c] : admitted[c][i] \in Nat
      BY <1>0 DEF LimiterTypes
    <2> QED BY <1>0, <2>1, <2>2, <2>3 DEF LimiterTypes
  <1>2. AllCovered'
    <2> SUFFICES ASSUME NEW d \in Clients, d \notin squeezed, NEW i \in DOMAIN admitted[d]
                 PROVE Covered(d, i)'
      BY <1>0 DEF AllCovered
    <2>1. Covered(d, i) /\ admitted[d] \in Seq(Nat) /\ ticks \in Nat
      BY <1>0 DEF LimiterInv, AllCovered, LimiterTypes
    <2>2. CASE d \in DOMAIN buckets
      BY <1>0, <2>1, <2>2 DEF Covered
    <2>3. CASE d \notin DOMAIN buckets
      <3>1. Len(admitted[d]) \in Nat /\ i \in 1 .. Len(admitted[d]) /\ admitted[d][i] \in Nat
        BY <2>1, LenProperties
      <3>2. Len(admitted[d]) - i + 1 \in Int
        BY <3>1
      <3>3. Price(Len(admitted[d]) - i + 1) \in Int
        BY <3>2, PriceFacts
      <3>4. Price(Len(admitted[d]) - i + 1) <= ticks - admitted[d][i]
        BY <2>1, <2>3 DEF Covered
      <3>5. Price(Len(admitted[d]) - i + 1) <= (ticks + 1) - admitted[d][i]
        BY <2>1, <3>1, <3>3, <3>4
      <3>6. Price(Len(admitted'[d]) - i + 1) <= ticks' - admitted'[d][i]
        <4>1. admitted' = admitted /\ ticks' = ticks + 1
          BY <1>0
        <4>2. Price(Len(admitted'[d]) - i + 1) = Price(Len(admitted[d]) - i + 1)
          BY <4>1, Zenon
        <4>3. ticks' - admitted'[d][i] = (ticks + 1) - admitted[d][i]
          BY <4>1
        <4> QED BY <3>5, <4>2, <4>3, Zenon
      <3>7. d \notin DOMAIN buckets'
        BY <1>0, <2>3
      <3> QED BY <3>6, <3>7 DEF Covered
    <2> QED BY <2>2, <2>3
  <1>3. WithinLimit'
    BY <1>0 DEF LimiterInv, WithinLimit
  <1> QED BY <1>1, <1>2, <1>3 DEF LimiterInv

\* No stretch of a client's requests gets through that costs more than a full
\* bucket and the refill of its time, for every rate, burst, age and headers.
THEOREM AlwaysWithinLimit == LimiterSpec => []WithinLimit
  <1>1. LimiterInit => LimiterInv
    <2> SUFFICES ASSUME LimiterInit PROVE LimiterInv
      OBVIOUS
    <2>1. /\ ticks = 0 /\ DOMAIN buckets = {} /\ \A c \in Clients : DOMAIN admitted[c] = {}
          /\ admitted \in [Clients -> Seq(Nat)]
      BY DEF LimiterInit
    <2> QED BY <2>1 DEF LimiterInv, LimiterTypes, AllCovered, WithinLimit
  <1>2. LimiterInv /\ [LimiterNext]_limiterVars => LimiterInv'
    <2> SUFFICES ASSUME LimiterInv, [LimiterNext]_limiterVars PROVE LimiterInv'
      OBVIOUS
    <2>1. CASE UNCHANGED limiterVars
      BY <2>1 DEF limiterVars, LimiterInv, LimiterTypes, AllCovered, Covered, WithinLimit
    <2>2. ASSUME NEW c \in Clients, LimitedRequest(c) PROVE LimiterInv'
      <3>1. AllowKnown(c, c) \/ AllowNew(c, c)
        BY <2>2, ClientIPTrue DEF LimitedRequest
      <3> QED BY <3>1, AllowKnownLimit, AllowNewLimit
    <2> QED BY <2>1, <2>2, EvictLimit, TickLimit DEF LimiterNext
  <1>3. LimiterInv => WithinLimit
    BY DEF LimiterInv
  <1> QED BY <1>1, <1>2, <1>3, PTL DEF LimiterSpec

-----------------------------------------------------------------------------
(* The batcher of log lines.                                                 *)

\* Message m is in the channel, or in the batch, s.
Waiting(s, m) == \E i \in DOMAIN s : s[i] = m

LogTypes ==
    /\ carries \in Seq(Lines) /\ queue \in Seq(Nat) /\ batch \in Seq(Nat)
    /\ direct \subseteq DOMAIN carries /\ stored \in [Lines -> Nat]
    /\ logFaults \in Nat
    /\ \A m : Waiting(queue, m) \/ Waiting(batch, m) => m \in DOMAIN carries

\* Every message is where somebody will store it, was refused, or is stored.
AllHanded ==
    \A m \in DOMAIN carries :
        \/ m \in direct \cup refused
        \/ Waiting(queue, m) \/ Waiting(batch, m)
        \/ stored[carries[m]] >= 1

\* The goroutine stores rows one by one while it has some, and ends empty.
WriterFits ==
    /\ writer = "rows" => batch # << >>
    /\ writer = "done" => shut /\ queue = << >> /\ batch = << >>

KeyedOnce == \A l \in Keyed : stored[l] <= 1

LogInv == LogTypes /\ AllHanded /\ WriterFits /\ KeyedOnce

\* A message that is sent waits behind the others.
LEMMA WaitingAppend ==
    ASSUME NEW s \in Seq(Nat), NEW x \in Nat, NEW m
    PROVE Waiting(Append(s, x), m) <=> Waiting(s, m) \/ m = x
  <1>1. /\ Append(s, x) \in Seq(Nat) /\ Len(Append(s, x)) = Len(s) + 1
        /\ \A i \in 1 .. Len(s) : Append(s, x)[i] = s[i]
        /\ Append(s, x)[Len(s) + 1] = x /\ Len(s) \in Nat
    OBVIOUS
  <1>2. DOMAIN s = 1 .. Len(s) /\ DOMAIN Append(s, x) = 1 .. (Len(s) + 1)
    BY <1>1
  <1>3. Waiting(Append(s, x), m) => Waiting(s, m) \/ m = x
    BY <1>1, <1>2 DEF Waiting
  <1>4. Waiting(s, m) => Waiting(Append(s, x), m)
    BY <1>1, <1>2 DEF Waiting
  <1>5. m = x => Waiting(Append(s, x), m)
    BY <1>1, <1>2 DEF Waiting
  <1> QED BY <1>3, <1>4, <1>5

\* Receiving takes the first one.
LEMMA WaitingTail ==
    ASSUME NEW s \in Seq(Nat), s # << >>, NEW m
    PROVE /\ Waiting(s, m) <=> m = Head(s) \/ Waiting(Tail(s), m)
          /\ Head(s) \in Nat /\ Tail(s) \in Seq(Nat) /\ Len(Tail(s)) = Len(s) - 1
  <1>1. /\ Head(s) = s[1] /\ Head(s) \in Nat /\ Tail(s) \in Seq(Nat)
        /\ Len(s) \in Nat /\ Len(s) >= 1 /\ Len(Tail(s)) = Len(s) - 1
        /\ \A i \in 1 .. (Len(s) - 1) : Tail(s)[i] = s[i + 1]
    OBVIOUS
  <1>2. DOMAIN s = 1 .. Len(s) /\ DOMAIN Tail(s) = 1 .. (Len(s) - 1)
    BY <1>1
  <1>3. Waiting(Tail(s), m) => Waiting(s, m)
    <2> SUFFICES ASSUME NEW i \in DOMAIN Tail(s), Tail(s)[i] = m PROVE Waiting(s, m)
      BY DEF Waiting
    <2>1. i + 1 \in DOMAIN s /\ s[i + 1] = m
      BY <1>1, <1>2
    <2> QED BY <2>1 DEF Waiting
  <1>4. m = Head(s) => Waiting(s, m)
    BY <1>1, <1>2 DEF Waiting
  <1>5. Waiting(s, m) => m = Head(s) \/ Waiting(Tail(s), m)
    <2> SUFFICES ASSUME NEW i \in DOMAIN s, s[i] = m, i # 1 PROVE Waiting(Tail(s), m)
      BY <1>1 DEF Waiting
    <2>1. i - 1 \in DOMAIN Tail(s) /\ Tail(s)[i - 1] = m
      BY <1>1, <1>2
    <2> QED BY <2>1 DEF Waiting
  <1> QED BY <1>1, <1>3, <1>4, <1>5

LEMMA WaitingNowhere == ASSUME NEW m PROVE ~Waiting(<< >>, m)
  BY DEF Waiting

\* What an insert must do for the invariant: nothing is lost, and no line the
\* index knows is stored twice.
Grows(new) ==
    /\ new \in [Lines -> Nat]
    /\ \A l \in Lines : new[l] >= stored[l]
    /\ \A l \in Keyed : new[l] <= 1

LEMMA InsertGrows ==
    ASSUME LogTypes, KeyedOnce, NEW l \in Lines
    PROVE Grows(Inserted(stored, l)) /\ Inserted(stored, l)[l] >= 1
  BY LogBatchAssumption DEF LogTypes, KeyedOnce, Grows, Inserted

LEMMA BatchGrows ==
    ASSUME LogTypes, KeyedOnce
    PROVE /\ Grows(InsertedAll(stored, batch))
          /\ \A m : Waiting(batch, m) => InsertedAll(stored, batch)[carries[m]] >= 1
  <1> DEFINE RowsFor(l) == {i \in DOMAIN batch : carries[batch[i]] = l}
  <1>1. IsFiniteSet(DOMAIN batch)
    <2>1. DOMAIN batch = 1 .. Len(batch) /\ Len(batch) \in Nat
      BY DEF LogTypes
    <2> QED BY <2>1, FS_Interval
  <1>2. ASSUME NEW l PROVE IsFiniteSet(RowsFor(l)) /\ Copies(batch, l) \in Nat
    <2>1. IsFiniteSet(RowsFor(l))
      BY <1>1, FS_Subset
    <2> QED BY <2>1, FS_CardinalityType DEF Copies
  <1>3. ASSUME NEW m, Waiting(batch, m) PROVE Copies(batch, carries[m]) > 0
    <2>1. RowsFor(carries[m]) # {}
      BY <1>3 DEF Waiting
    <2>2. Cardinality(RowsFor(carries[m])) # 0
      BY <1>2, <2>1, FS_EmptySet
    <2>3. Copies(batch, carries[m]) \in Nat
      BY <1>2
    <2> QED BY <2>2, <2>3 DEF Copies
  <1>4. ASSUME NEW l \in Lines
        PROVE /\ InsertedAll(stored, batch)[l] \in Nat
              /\ InsertedAll(stored, batch)[l] >= stored[l]
              /\ l \in Keyed => InsertedAll(stored, batch)[l] <= 1
              /\ Copies(batch, l) > 0 => InsertedAll(stored, batch)[l] >= 1
    <2>1. InsertedAll(stored, batch)[l] =
            IF l \notin Keyed THEN stored[l] + Copies(batch, l)
            ELSE IF stored[l] = 0 /\ Copies(batch, l) > 0 THEN 1 ELSE stored[l]
      BY DEF InsertedAll
    <2>2. stored[l] \in Nat /\ Copies(batch, l) \in Nat /\ (l \in Keyed => stored[l] <= 1)
      BY <1>2 DEF LogTypes, KeyedOnce
    <2> QED BY <2>1, <2>2
  <1>5. InsertedAll(stored, batch) \in [Lines -> Nat]
    <2>1. InsertedAll(stored, batch) = [l \in Lines |-> InsertedAll(stored, batch)[l]]
      BY DEF InsertedAll
    <2> QED BY <1>4, <2>1
  <1>6. \A m : Waiting(batch, m) => carries[m] \in Lines
    BY DEF LogTypes
  <1> QED BY <1>3, <1>4, <1>5, <1>6, LogBatchAssumption DEF Grows

\* The end of one insert on its own: the message is stored or refused.
LEMMA SingleEnds ==
    ASSUME LogTypes, KeyedOnce, NEW m \in DOMAIN carries, Single(m)
    PROVE /\ Grows(stored') /\ refused \subseteq refused' /\ logFaults' \in Nat
          /\ m \in refused' \/ stored'[carries[m]] >= 1
  <1>1. carries[m] \in Lines
    BY DEF LogTypes
  <1>2. CASE stored' = Inserted(stored, carries[m]) /\ UNCHANGED <<refused, logFaults>>
    BY <1>1, <1>2, InsertGrows DEF LogTypes
  <1>3. CASE LogFault /\ refused' = refused \cup {m} /\ UNCHANGED stored
    BY <1>3, LogBatchAssumption DEF LogFault, LogTypes, KeyedOnce, Grows
  <1> QED BY <1>2, <1>3 DEF Single

\* A message is taken from where it waits only into another place, or stored.
LEMMA HandedOn ==
    ASSUME LogTypes, AllHanded, carries' = carries, refused \subseteq refused',
           Grows(stored'),
           \A m \in DOMAIN carries :
               m \in direct \/ Waiting(queue, m) \/ Waiting(batch, m)
               => \/ m \in direct' \cup refused'
                  \/ Waiting(queue', m) \/ Waiting(batch', m)
                  \/ stored'[carries[m]] >= 1
    PROVE AllHanded'
  <1> SUFFICES ASSUME NEW m \in DOMAIN carries
               PROVE \/ m \in direct' \cup refused'
                     \/ Waiting(queue', m) \/ Waiting(batch', m)
                     \/ stored'[carries[m]] >= 1
    BY DEF AllHanded, Waiting
  <1>1. carries[m] \in Lines /\ stored[carries[m]] \in Nat
    BY DEF LogTypes
  <1>2. CASE stored[carries[m]] >= 1
    BY <1>1, <1>2 DEF Grows
  <1>3. CASE m \in refused
    BY <1>3
  <1>4. CASE m \in direct \/ Waiting(queue, m) \/ Waiting(batch, m)
    BY <1>4
  <1> QED BY <1>2, <1>3, <1>4 DEF AllHanded

\* Every step of the batcher, its handlers and its closing keeps LogInv.
LEMMA LogInvStep == ASSUME LogInv, [LogNext]_logVars PROVE LogInv'
  <1>0. LogTypes /\ AllHanded /\ WriterFits /\ KeyedOnce
    BY DEF LogInv
  <1>g. Grows(stored)
    BY <1>0, LogBatchAssumption DEF LogTypes, KeyedOnce, Grows
  <1>1. ASSUME NEW l \in Lines, Add(l) PROVE LogInv'
    <2> DEFINE m == Len(carries) + 1
    <2>1. /\ m \in Nat /\ carries' = Append(carries, l) /\ carries' \in Seq(Lines)
          /\ DOMAIN carries' = DOMAIN carries \cup {m}
          /\ \A k \in DOMAIN carries : carries'[k] = carries[k]
      BY <1>0, <1>1 DEF Add, LogTypes
    <2>2. UNCHANGED <<batch, writer, refused, stored, shut, logFaults>>
      BY <1>1 DEF Add
    <2>3. \/ queue' = Append(queue, m) /\ direct' = direct /\ ~shut
          \/ queue' = queue /\ direct' = direct \cup {m}
      BY <1>1 DEF Add
    <2> HIDE DEF m
    <2>q. queue \in Seq(Nat)
      BY <1>0 DEF LogTypes
    <2>4. /\ queue' \in Seq(Nat) /\ direct \subseteq direct'
          /\ \A k : Waiting(queue', k) => Waiting(queue, k) \/ k = m
          /\ \A k : Waiting(queue, k) => Waiting(queue', k)
          /\ m \in direct' \/ Waiting(queue', m)
      <3>1. CASE queue' = Append(queue, m) /\ direct' = direct
        <4>1. \A k : Waiting(Append(queue, m), k) <=> Waiting(queue, k) \/ k = m
          BY <2>1, <2>q, WaitingAppend
        <4>2. Append(queue, m) \in Seq(Nat)
          BY <2>1, <2>q
        <4> QED BY <3>1, <4>1, <4>2
      <3>2. CASE queue' = queue /\ direct' = direct \cup {m}
        BY <2>q, <3>2
      <3> QED BY <2>3, <3>1, <3>2
    <2>a. \A k : Waiting(batch', k) <=> Waiting(batch, k)
      BY <2>2
    <2>6. LogTypes'
      <3>1. direct' \subseteq DOMAIN carries'
        BY <1>0, <2>1, <2>3 DEF LogTypes
      <3>2. \A k : Waiting(queue', k) \/ Waiting(batch', k) => k \in DOMAIN carries'
        BY <1>0, <2>1, <2>4, <2>a DEF LogTypes
      <3>3. (\A k : Waiting(queue, k) \/ Waiting(batch, k) => k \in DOMAIN carries)'
        BY <3>2 DEF Waiting
      <3> QED BY <1>0, <2>1, <2>2, <2>4, <3>1, <3>3 DEF LogTypes
    <2>7. AllHanded'
      <3> SUFFICES ASSUME NEW k \in DOMAIN carries'
                   PROVE \/ k \in direct' \cup refused'
                         \/ Waiting(queue', k) \/ Waiting(batch', k)
                         \/ stored'[carries'[k]] >= 1
        BY DEF AllHanded, Waiting
      <3>1. CASE k = m
        BY <2>4, <3>1
      <3>2. CASE k \in DOMAIN carries
        BY <1>0, <2>1, <2>2, <2>4, <2>a, <3>2 DEF AllHanded
      <3> QED BY <2>1, <3>1, <3>2
    <2>8. WriterFits'
      BY <1>0, <2>2, <2>3 DEF WriterFits
    <2>9. KeyedOnce'
      BY <1>0, <2>2 DEF KeyedOnce
    <2> QED BY <2>6, <2>7, <2>8, <2>9 DEF LogInv
  <1>2. ASSUME NEW m \in Messages, StoreOne(m) PROVE LogInv'
    <2>1. m \in direct /\ direct' = direct \ {m} /\ Single(m)
          /\ UNCHANGED <<carries, queue, batch, writer, shut>>
      BY <1>2 DEF StoreOne
    <2>2. m \in DOMAIN carries
      BY <1>0, <2>1 DEF LogTypes
    <2>3. /\ Grows(stored') /\ refused \subseteq refused' /\ logFaults' \in Nat
          /\ m \in refused' \/ stored'[carries[m]] >= 1
      BY <1>0, <2>1, <2>2, SingleEnds
    <2>4. AllHanded'
      BY <1>0, <2>1, <2>3, HandedOn
    <2>5. LogTypes'
      BY <1>0, <2>1, <2>3 DEF LogTypes, Grows, Waiting
    <2>6. WriterFits' /\ KeyedOnce'
      BY <1>0, <2>1, <2>3 DEF WriterFits, KeyedOnce, Grows
    <2> QED BY <2>4, <2>5, <2>6 DEF LogInv
  <1>3. CASE Collect
    <2>1. /\ writer = "select" /\ queue # << >>
          /\ batch' = Append(batch, Head(queue)) /\ queue' = Tail(queue)
          /\ UNCHANGED <<carries, writer, direct, refused, stored, shut, logFaults>>
      BY <1>3 DEF Collect
    <2>2. Head(queue) \in Nat /\ queue' \in Seq(Nat)
          /\ \A k : Waiting(queue, k) <=> k = Head(queue) \/ Waiting(queue', k)
      BY <1>0, <2>1, WaitingTail DEF LogTypes
    <2>3. batch' \in Seq(Nat)
          /\ \A k : Waiting(batch', k) <=> Waiting(batch, k) \/ k = Head(queue)
      BY <1>0, <2>1, <2>2, WaitingAppend DEF LogTypes
    <2>4. AllHanded'
      BY <1>0, <1>g, <2>1, <2>2, <2>3, HandedOn
    <2>5. LogTypes'
      <3>1. \A k : Waiting(queue', k) \/ Waiting(batch', k) => k \in DOMAIN carries'
        BY <1>0, <2>1, <2>2, <2>3 DEF LogTypes
      <3>2. (\A k : Waiting(queue, k) \/ Waiting(batch, k) => k \in DOMAIN carries)'
        BY <3>1 DEF Waiting
      <3> QED BY <1>0, <2>1, <2>2, <2>3, <3>2 DEF LogTypes
    <2>6. WriterFits' /\ KeyedOnce'
      BY <1>0, <2>1 DEF WriterFits, KeyedOnce
    <2> QED BY <2>4, <2>5, <2>6 DEF LogInv
  <1>4. CASE WriteBatch
    <2>1. writer = "select" /\ batch # << >> /\ UNCHANGED <<carries, queue, direct, refused, shut>>
      BY <1>4 DEF WriteBatch
    <2>2. CASE /\ stored' = InsertedAll(stored, batch) /\ batch' = << >>
               /\ UNCHANGED <<writer, logFaults>>
      <3>1. Grows(stored') /\ \A m : Waiting(batch, m) => stored'[carries[m]] >= 1
        BY <1>0, <2>2, BatchGrows
      <3>2. AllHanded'
        BY <1>0, <2>1, <3>1, HandedOn
      <3>3. LogTypes'
        <4>1. batch' \in Seq(Nat) /\ \A k : ~Waiting(batch', k)
          BY <2>2, WaitingNowhere
        <4>2. \A k : Waiting(queue', k) \/ Waiting(batch', k) => k \in DOMAIN carries'
          BY <1>0, <2>1, <4>1 DEF LogTypes
        <4>3. (\A k : Waiting(queue, k) \/ Waiting(batch, k) => k \in DOMAIN carries)'
          BY <4>2 DEF Waiting
        <4> QED BY <1>0, <2>1, <2>2, <3>1, <4>1, <4>3 DEF LogTypes, Grows
      <3>4. WriterFits' /\ KeyedOnce'
        BY <1>0, <2>1, <2>2, <3>1 DEF WriterFits, KeyedOnce, Grows
      <3> QED BY <3>2, <3>3, <3>4 DEF LogInv
    <2>3. CASE /\ LogFault /\ writer' = "rows" /\ UNCHANGED batch
               /\ stored' \in {stored, InsertedAll(stored, batch)}
      <3>1. Grows(stored')
        BY <1>0, <1>g, <2>3, BatchGrows
      <3>2. AllHanded'
        BY <1>0, <2>1, <2>3, <3>1, HandedOn
      <3>3. logFaults' \in Nat
        BY <1>0, <2>3 DEF LogFault, LogTypes
      <3>4. LogTypes'
        BY <1>0, <2>1, <2>3, <3>1, <3>3 DEF LogTypes, Grows, Waiting
      <3>5. WriterFits' /\ KeyedOnce'
        BY <2>1, <2>3, <3>1 DEF WriterFits, KeyedOnce, Grows
      <3> QED BY <3>2, <3>4, <3>5 DEF LogInv
    <2> QED BY <1>4, <2>2, <2>3 DEF WriteBatch
  <1>5. CASE WriteRow
    <2>1. /\ writer = "rows" /\ Single(Head(batch)) /\ batch' = Tail(batch)
          /\ writer' = IF Len(batch) = 1 THEN "select" ELSE "rows"
          /\ UNCHANGED <<carries, queue, direct, shut>>
      BY <1>5 DEF WriteRow
    <2>2. batch # << >> /\ batch \in Seq(Nat)
      BY <1>0, <2>1 DEF WriterFits, LogTypes
    <2>3. /\ \A k : Waiting(batch, k) <=> k = Head(batch) \/ Waiting(batch', k)
          /\ batch' \in Seq(Nat) /\ Len(batch') = Len(batch) - 1
      BY <2>1, <2>2, WaitingTail
    <2>4. Head(batch) \in DOMAIN carries
      BY <1>0, <2>3 DEF LogTypes
    <2>5. /\ Grows(stored') /\ refused \subseteq refused' /\ logFaults' \in Nat
          /\ Head(batch) \in refused' \/ stored'[carries[Head(batch)]] >= 1
      BY <1>0, <2>1, <2>4, SingleEnds
    <2>6. AllHanded'
      BY <1>0, <2>1, <2>3, <2>5, HandedOn
    <2>7. LogTypes'
      <3>1. \A k : Waiting(queue', k) \/ Waiting(batch', k) => k \in DOMAIN carries'
        BY <1>0, <2>1, <2>3 DEF LogTypes
      <3>2. (\A k : Waiting(queue, k) \/ Waiting(batch, k) => k \in DOMAIN carries)'
        BY <3>1 DEF Waiting
      <3> QED BY <1>0, <2>1, <2>3, <2>5, <3>2 DEF LogTypes, Grows
    <2>8. WriterFits'
      <3>1. Len(batch) # 1 => batch' # << >>
        BY <2>2, <2>3
      <3> QED BY <2>1, <3>1 DEF WriterFits
    <2>9. KeyedOnce'
      BY <2>5 DEF KeyedOnce, Grows
    <2> QED BY <2>6, <2>7, <2>8, <2>9 DEF LogInv
  <1>7. CASE Panics
    <2>1. /\ UNCHANGED <<carries, queue, batch, direct, refused, stored, shut>>
          /\ writer' = "panicked" /\ logFaults' \in Nat
      BY <1>0, <1>7 DEF Panics, LogFault, LogTypes
    <2>2. LogTypes'
      BY <1>0, <2>1 DEF LogTypes, Waiting
    <2>3. AllHanded' /\ KeyedOnce'
      BY <1>0, <2>1 DEF AllHanded, KeyedOnce, Waiting
    <2>4. WriterFits'
      BY <2>1 DEF WriterFits
    <2> QED BY <2>2, <2>3, <2>4 DEF LogInv
  <1>6. CASE CloseBatcher \/ Drained \/ UNCHANGED logVars
    <2>1. UNCHANGED <<carries, queue, batch, direct, refused, stored, logFaults>>
      BY <1>6 DEF CloseBatcher, Drained, logVars
    <2>2. LogTypes'
      BY <1>0, <2>1 DEF LogTypes, Waiting
    <2>3. AllHanded' /\ KeyedOnce'
      BY <1>0, <2>1 DEF AllHanded, KeyedOnce, Waiting
    <2>4. WriterFits'
      BY <1>0, <1>6 DEF CloseBatcher, Drained, logVars, WriterFits
    <2> QED BY <2>2, <2>3, <2>4 DEF LogInv
  <1> QED BY <1>1, <1>2, <1>3, <1>4, <1>5, <1>6, <1>7 DEF LogNext

(***************************************************************************)
(* A batcher that has drained has stored every line it was handed, but for *)
(* those refused or still in their handlers' hands, and no line the index  *)
(* knows is ever stored twice: for any queue, batch size and number of     *)
(* failures (Add, the flush and Close of the batcher).                     *)
(***************************************************************************)
THEOREM LinesAreKept == LogSpec => []LinesKept
  <1>1. LogInit => LogInv
    <2> SUFFICES ASSUME LogInit PROVE LogInv
      OBVIOUS
    <2>1. LogTypes
      BY WaitingNowhere, LogBatchAssumption DEF LogInit, LogTypes
    <2>2. AllHanded /\ WriterFits /\ KeyedOnce
      BY LogBatchAssumption DEF LogInit, AllHanded, WriterFits, KeyedOnce
    <2> QED BY <2>1, <2>2 DEF LogInv
  <1>2. LogInv /\ [LogNext]_logVars => LogInv'
    BY LogInvStep
  <1>3. LogInv => LinesKept
    BY WaitingNowhere DEF LogInv, AllHanded, WriterFits, KeyedOnce, LinesKept
  <1> QED BY <1>1, <1>2, <1>3, PTL DEF LogSpec

-----------------------------------------------------------------------------
(* The components together.                                                  *)

(***************************************************************************)
(* What is proved of the components holds of them together, as Requests    *)
(* interleaves them: each step of the whole is a step of one component and *)
(* leaves the others alone.  The runs explore one component at a time.     *)
(***************************************************************************)
THEOREM RequestsKeepPromises ==
    RequestsSpec =>
        [](/\ LogoutHolds /\ AdminRemains /\ NoEscalation /\ DeletedIsDead
           /\ TokenFitsTrigger /\ WithinLimit /\ LinesKept /\ RetryMends
           /\ ConfigRestored /\ ClaimsHold /\ AnomaliesReachClients
           /\ MigrationsInOrder /\ SecretsKept)
  <1>1. RequestsInit => /\ Init /\ LimiterInit /\ LogInit /\ UpdateInit
                        /\ LedgerInit /\ FeedInit /\ SchemaInit
    BY DEF RequestsInit
  <1>2. [RequestsNext]_requestsVars => [Next]_vars
    BY DEF RequestsNext, requestsVars, EditsStep, LimiterStep, LogStep, UpdateStep, LedgerStep,
           FeedStep, MigrationsStep, EncryptStep
  <1>3. [RequestsNext]_requestsVars => [LimiterNext]_limiterVars
    BY DEF RequestsNext, requestsVars, EditsStep, LimiterStep, LogStep, UpdateStep, LedgerStep,
           FeedStep, MigrationsStep, EncryptStep
  <1>4. [RequestsNext]_requestsVars => [LogNext]_logVars
    BY DEF RequestsNext, requestsVars, EditsStep, LimiterStep, LogStep, UpdateStep, LedgerStep,
           FeedStep, MigrationsStep, EncryptStep
  <1>5. [RequestsNext]_requestsVars => [UpdateNext]_updateVars
    BY DEF RequestsNext, requestsVars, EditsStep, LimiterStep, LogStep, UpdateStep, LedgerStep,
           FeedStep, MigrationsStep, EncryptStep
  <1>6. [RequestsNext]_requestsVars => [LedgerNext]_ledgerVars
    BY DEF RequestsNext, requestsVars, EditsStep, LimiterStep, LogStep, UpdateStep, LedgerStep,
           FeedStep, MigrationsStep, EncryptStep
  <1>7. [RequestsNext]_requestsVars => [FeedNext]_feedVars
    BY DEF RequestsNext, requestsVars, EditsStep, LimiterStep, LogStep, UpdateStep, LedgerStep,
           FeedStep, MigrationsStep, EncryptStep
  <1>8. [RequestsNext]_requestsVars => [MigrationsNext \/ EncryptNext]_schemaVars
    BY DEF RequestsNext, requestsVars, EditsStep, LimiterStep, LogStep, UpdateStep, LedgerStep,
           FeedStep, MigrationsStep, EncryptStep
  <1>9. RequestsSpec => Spec
    BY <1>1, <1>2, PTL DEF RequestsSpec, Spec
  <1>10. RequestsSpec => LimiterSpec
    BY <1>1, <1>3, PTL DEF RequestsSpec, LimiterSpec
  <1>11. RequestsSpec => LogSpec
    BY <1>1, <1>4, PTL DEF RequestsSpec, LogSpec
  <1>12. RequestsSpec => UpdateSpec
    BY <1>1, <1>5, PTL DEF RequestsSpec, UpdateSpec
  <1>13. RequestsSpec => LedgerSpec
    BY <1>1, <1>6, PTL DEF RequestsSpec, LedgerSpec
  <1>14. RequestsSpec => FeedSpec
    BY <1>1, <1>7, PTL DEF RequestsSpec, FeedSpec
  <1>15. RequestsSpec => SchemaSpec
    BY <1>1, <1>8, PTL DEF RequestsSpec, SchemaSpec
  <1> QED
    BY <1>9, <1>10, <1>11, <1>12, <1>13, <1>14, <1>15, LogoutIsFinal, AnAdminRemains,
       NothingEscalates, DeletedStaysDead, TokenAlwaysFits, AlwaysWithinLimit, LinesAreKept,
       RetriesMend, ConfigIsRestored, ClaimsAlwaysHold, AnomaliesAlwaysReachClients,
       MigrationsStayInOrder, SecretsAreKept, PTL
===============================================================================
