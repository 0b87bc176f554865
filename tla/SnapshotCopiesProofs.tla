------------------------ MODULE SnapshotCopiesProofs ------------------------
(***************************************************************************)
(* Proofs about SnapshotCopies: its types, that a replica counted as       *)
(* completed is a file (ReplicaIsReal), and that a retention pass leaves   *)
(* two files behind (RetentionFloor), for every number of handlers,        *)
(* mirrors and snapshots and every retention count.                        *)
(***************************************************************************)
EXTENDS SnapshotCopies, FiniteSetTheorems, WellFoundedInduction, TLAPS

(***************************************************************************)
(* A handler that works on a snapshot names one, a handler that sends a    *)
(* mirror copy names a mirror, one that expires has something listed, and  *)
(* a mirror copy is only reported when it has ended.                       *)
(***************************************************************************)
JobsFit ==
    /\ \A h \in Hands :
          /\ job[h].pc \in {"record", "mirror", "send"} => job[h].snap \in SnapIds
          /\ job[h].pc = "send" => job[h].dest \in Mirrors
          /\ job[h].pc = "expire" => job[h].todo # {}
    /\ \A r \in reports : r.of = "mirror" => r.status # "running"

\* Nothing beyond a dump under way is known of the snapshot.
Unseen(s) ==
    /\ snap[s] # "completed" /\ Primary \notin copies[s]
    /\ \A d \in Dests : replica[s][d] # "completed"
    /\ \A h \in Hands : job[h].snap # s
    /\ \A m \in mirroring : m.snap # s
    /\ \A r \in reports : r.snap = s => r.of = "dump" /\ r.status = "running"

(***************************************************************************)
(* Before its row exists, and until its dump has ended, a snapshot has no  *)
(* file at the primary, no completed replica and no handler: a dump that   *)
(* ends overwrites nothing that was counted on.                            *)
(***************************************************************************)
Fresh(s) ==
    /\ snap[s] = "none" \/ s \in dumping => Unseen(s)
    /\ s \in dumping => snap[s] # "none"

FreshAreUnseen == \A s \in SnapIds : Fresh(s)

\* The worker has reported the dump a success, or something follows from it.
Landed(s) ==
    \/ snap[s] = "completed" \/ replica[s][Primary] = "completed"
    \/ \E h \in Hands : job[h].snap = s
    \/ \E m \in mirroring : m.snap = s
    \/ \E r \in reports : r.snap = s /\ (r.of = "mirror" \/ r.status = "completed")

(***************************************************************************)
(* An active snapshot the worker reported as dumped has its file at the    *)
(* primary.                                                                *)
(***************************************************************************)
HasFile(s) == ~undercut /\ active[s] /\ Landed(s) => Primary \in copies[s]

LandedHaveFile == \A s \in SnapIds : HasFile(s)

(***************************************************************************)
(* While the mirror stays what it was, every copy under way, every answer  *)
(* and every completed replica at a mirror is about a file at that mirror. *)
(***************************************************************************)
CopiesMatch ==
    /\ \A m \in mirroring : m.dest = mirror
    /\ \A h \in Hands : job[h].pc = "send" => job[h].dest = mirror

AnswersMatch ==
    \A r \in reports : r.of = "mirror" =>
        /\ mirror \in Mirrors
        /\ r.status = "completed" => mirror \in copies[r.snap]

ReplicasMatch ==
    \A s \in SnapIds, d \in Mirrors : replica[s][d] = "completed" => d \in copies[s]

MirrorsMatch == ~redirected => CopiesMatch /\ AnswersMatch /\ ReplicasMatch

\* Two snapshots newer than all that any pass has listed have their files.
Spared(a, b) ==
    /\ a < b /\ Primary \in copies[a] /\ Primary \in copies[b]
    /\ \A h \in Hands : job[h].pc = "expire" => \A s \in job[h].todo : s < a

(***************************************************************************)
(* While passes are under way, the same two files are out of the reach of  *)
(* all of them.                                                            *)
(***************************************************************************)
PassesSpareTwo ==
    ~undercut /\ (\E h \in Hands : job[h].pc = "expire") =>
        \E a, b \in SnapIds : Spared(a, b)

CopyInv ==
    /\ TypeOK /\ JobsFit /\ FreshAreUnseen /\ LandedHaveFile
    /\ MirrorsMatch /\ PassesSpareTwo

-----------------------------------------------------------------------------
(* Sets of snapshots                                                         *)

(***************************************************************************)
(* The members of the set, counted down from n.                            *)
(***************************************************************************)
CountedDown(T, n) == {n - x : x \in T}

\* The order of the naturals, as a relation.
Below == OpToRel(<, Nat)

(***************************************************************************)
(* Below relates exactly the pairs in order, and a nonempty set of         *)
(* naturals has a least member in it.                                      *)
(***************************************************************************)
LEMMA LeastNatural ==
    ASSUME NEW T \in SUBSET Nat, T # {}
    PROVE  \E x \in T : \A y \in T : x <= y
<1>1. IsWellFoundedOn(Below, Nat)
    BY NatLessThanWellFounded DEF Below
<1>2. PICK x \in T : \A y \in T : ~ (<<y, x>> \in Below)
    BY <1>1, WFMin
<1>3. ASSUME NEW y \in T, y < x PROVE <<y, x>> \in Below
    BY <1>3 DEF Below, OpToRel
<1>4. ASSUME NEW y \in T PROVE x <= y
    <2>1. ~ (y < x)
        BY <1>2, <1>3
    <2>2. x \in Nat /\ y \in Nat
        OBVIOUS
    <2> QED
        BY <2>1, <2>2
<1> QED
    BY <1>4

(***************************************************************************)
(* A nonempty set of snapshots has a newest one, and Max, which a          *)
(* retention pass takes next, is it.                                       *)
(***************************************************************************)
LEMMA NewestSnapshot ==
    ASSUME NEW T \in SUBSET SnapIds, T # {}
    PROVE  Max(T) \in T /\ \A y \in T : y <= Max(T)
<1> DEFINE down == CountedDown(T, MaxSnapshots)
<1>1. MaxSnapshots \in Nat
    BY CopiesAssumption
<1>2. down \in SUBSET Nat /\ down # {}
    <2>1. ASSUME NEW y \in T PROVE MaxSnapshots - y \in Nat
        BY <1>1 DEF SnapIds
    <2>2. \A z \in down : \E y \in T : z = MaxSnapshots - y
        BY DEF CountedDown
    <2>3. \A y \in T : MaxSnapshots - y \in down
        BY DEF CountedDown
    <2> HIDE DEF down
    <2> QED
        BY <2>1, <2>2, <2>3
<1> HIDE DEF down
<1>3. PICK x \in down : \A y \in down : x <= y
    BY <1>2, LeastNatural
<1>4. PICK m \in T : x = MaxSnapshots - m
    BY <1>3 DEF down, CountedDown
<1>5. ASSUME NEW y \in T PROVE m >= y
    <2>1. MaxSnapshots - y \in down
        BY DEF down, CountedDown
    <2>2. MaxSnapshots - m <= MaxSnapshots - y
        BY <2>1, <1>3, <1>4
    <2> QED
        BY <2>2, <1>1 DEF SnapIds
<1>6. \E z \in T : \A y \in T : z >= y
    BY <1>5
<1>7. Max(T) \in T /\ \A y \in T : Max(T) >= y
    BY <1>6 DEF Max
<1> QED
    BY <1>7 DEF SnapIds

(***************************************************************************)
(* Sets of snapshots are finite.                                           *)
(***************************************************************************)
LEMMA SnapshotsFinite ==
    ASSUME NEW T \in SUBSET SnapIds
    PROVE  IsFiniteSet(T)
<1>1. IsFiniteSet(SnapIds)
    BY CopiesAssumption, FS_Interval DEF SnapIds
<1> QED
    BY <1>1, FS_Subset

(***************************************************************************)
(* A set of two or more snapshots has two members in order.                *)
(***************************************************************************)
LEMMA TwoMembers ==
    ASSUME NEW T \in SUBSET SnapIds, Cardinality(T) >= 2
    PROVE  \E a, b \in T : a < b
<1>2. IsFiniteSet(T)
    BY SnapshotsFinite
<1>3. T # {}
    BY FS_EmptySet
<1>4. PICK x \in T : TRUE
    BY <1>3
<1>5. T # {x}
    BY FS_Singleton
<1>6. PICK y \in T : y # x
    BY <1>4, <1>5
<1>7. x \in Nat /\ y \in Nat
    BY <1>4, <1>6, CopiesAssumption DEF SnapIds
<1> QED
    BY <1>4, <1>6, <1>7

(***************************************************************************)
(* A set of snapshots with two members counts at least two.                *)
(***************************************************************************)
LEMMA CountsTwo ==
    ASSUME NEW T \in SUBSET SnapIds, NEW a \in T, NEW b \in T, a # b
    PROVE  Cardinality(T) >= 2
<1>2. IsFiniteSet(T)
    BY SnapshotsFinite
<1>3. Cardinality(T) \in Nat
    BY <1>2, FS_CardinalityType
<1>4. Cardinality(T) # 0
    BY <1>2, FS_EmptySet
<1>5. Cardinality(T) # 1
    <2> SUFFICES ASSUME Cardinality(T) = 1 PROVE FALSE
        OBVIOUS
    <2>1. PICK x : T = {x}
        BY <1>2, FS_Singleton
    <2> QED
        BY <2>1
<1> QED
    BY <1>3, <1>4, <1>5

-----------------------------------------------------------------------------
(* Types                                                                     *)

\* What a handler can hold.
Jobs == [pc : {"idle", "record", "mirror", "send", "retain", "expire"},
         snap : SnapIds \cup {NoSnap}, dest : Mirrors \cup {NoDest},
         todo : SUBSET SnapIds]

(***************************************************************************)
(* A handler's record is its fields, and a change to some of them leaves   *)
(* the others.                                                             *)
(***************************************************************************)
LEMMA JobFields ==
    ASSUME TypeOK, NEW h \in Hands
    PROVE  /\ job[h] \in Jobs
           /\ job[h].pc \in {"idle", "record", "mirror", "send", "retain", "expire"}
           /\ job[h].snap \in SnapIds \cup {NoSnap}
           /\ job[h].dest \in Mirrors \cup {NoDest}
           /\ job[h].todo \subseteq SnapIds
BY DEF TypeOK, Jobs

(***************************************************************************)
(* An idle handler holds nothing.                                          *)
(***************************************************************************)
LEMMA IdleFields ==
    /\ Idle \in Jobs /\ Idle.pc = "idle" /\ Idle.snap = NoSnap
    /\ Idle.dest = NoDest /\ Idle.todo = {}
    /\ NoSnap \notin SnapIds
BY CopiesAssumption DEF Idle, Jobs, NoSnap, SnapIds

(***************************************************************************)
(* A step that gives one handler another record leaves the other handlers. *)
(***************************************************************************)
LEMMA HandTakes ==
    ASSUME TypeOK, NEW h \in Hands, NEW x \in Jobs, job' = [job EXCEPT ![h] = x]
    PROVE  /\ job' \in [Hands -> Jobs]
           /\ job'[h] = x
           /\ \A g \in Hands : g # h => job'[g] = job[g]
<1>1. job \in [Hands -> Jobs]
    BY DEF TypeOK, Jobs
<1> QED
    BY <1>1

\* The records a handler passes through.
Recording(s) == [Idle EXCEPT !.pc = "record", !.snap = s]
Expiring(todo) == [Idle EXCEPT !.pc = "expire", !.todo = todo]
MovedTo(j, pc) == [j EXCEPT !.pc = pc]
SendingTo(j, d) == [j EXCEPT !.pc = "send", !.dest = d]
Without(j, s) == [j EXCEPT !.todo = @ \ {s}]

(***************************************************************************)
(* What the records a handler passes through hold.                         *)
(***************************************************************************)
LEMMA RecordingFields ==
    ASSUME NEW s \in SnapIds
    PROVE  /\ Recording(s) \in Jobs /\ Recording(s).pc = "record"
           /\ Recording(s).snap = s /\ Recording(s).todo = {}
BY DEF Recording, Idle, Jobs

LEMMA ExpiringFields ==
    ASSUME NEW todo \in SUBSET SnapIds
    PROVE  /\ Expiring(todo) \in Jobs /\ Expiring(todo).pc = "expire"
           /\ Expiring(todo).snap = NoSnap /\ Expiring(todo).todo = todo
BY DEF Expiring, Idle, Jobs

LEMMA MovedFields ==
    ASSUME NEW j \in Jobs, NEW pc \in {"idle", "record", "mirror", "send", "retain", "expire"}
    PROVE  /\ MovedTo(j, pc) \in Jobs /\ MovedTo(j, pc).pc = pc
           /\ MovedTo(j, pc).snap = j.snap /\ MovedTo(j, pc).dest = j.dest
           /\ MovedTo(j, pc).todo = j.todo
BY DEF MovedTo, Jobs

LEMMA SendingFields ==
    ASSUME NEW j \in Jobs, NEW d \in Mirrors
    PROVE  /\ SendingTo(j, d) \in Jobs /\ SendingTo(j, d).pc = "send"
           /\ SendingTo(j, d).snap = j.snap /\ SendingTo(j, d).dest = d
BY DEF SendingTo, Jobs

LEMMA WithoutFields ==
    ASSUME NEW j \in Jobs, NEW s
    PROVE  /\ Without(j, s) \in Jobs /\ Without(j, s).pc = j.pc
           /\ Without(j, s).snap = j.snap /\ Without(j, s).dest = j.dest
           /\ Without(j, s).todo = j.todo \ {s}
BY DEF Without, Jobs

(***************************************************************************)
(* A handler that goes on changes its place only.                          *)
(***************************************************************************)
LEMMA ContinueFields ==
    ASSUME TypeOK, NEW h \in Hands, Continue(h, "mirror") \/ Continue(h, "retain")
    PROVE  /\ job' \in [Hands -> Jobs]
           /\ job'[h].pc \in {"mirror", "retain"}
           /\ Continue(h, "retain") => job'[h].pc = "retain"
           /\ job'[h].snap = job[h].snap
           /\ \A g \in Hands : g # h => job'[g] = job[g]
<1>1. ASSUME NEW pc \in {"mirror", "retain"}, Continue(h, pc)
      PROVE  job' = [job EXCEPT ![h] = MovedTo(job[h], pc)]
    BY <1>1 DEF Continue, MovedTo
<1>2. job[h] \in Jobs
    BY JobFields
<1>3. ASSUME NEW pc \in {"mirror", "retain"}, Continue(h, pc)
      PROVE  /\ job' \in [Hands -> Jobs] /\ job'[h].pc = pc /\ job'[h].snap = job[h].snap
             /\ \A g \in Hands : g # h => job'[g] = job[g]
    <2>1. /\ MovedTo(job[h], pc) \in Jobs /\ MovedTo(job[h], pc).pc = pc
          /\ MovedTo(job[h], pc).snap = job[h].snap
        BY <1>2, MovedFields
    <2> QED
        BY <1>1, <1>3, <2>1, HandTakes
<1> QED
    BY <1>3

(***************************************************************************)
(* What each step of a handler makes of the handlers.                      *)
(***************************************************************************)
LEMMA UpdateJobs ==
    ASSUME TypeOK, NEW h \in Hands, UpdateSnapshotStatus(h)
    PROVE  \E r \in reports :
             /\ r.of = "dump" /\ reports' = reports \ {r}
             /\ r.snap \in SnapIds /\ r.status \in {"running", "completed", "failed"}
             /\ job' \in [Hands -> Jobs]
             /\ \A g \in Hands : g # h => job'[g] = job[g]
             /\ \/ /\ snap' = [snap EXCEPT ![r.snap] = r.status] /\ UNCHANGED faults
                   /\ r.status = "completed" => job'[h].pc = "record" /\ job'[h].snap = r.snap
                   /\ r.status # "completed" => job'[h] = Idle
                \/ Fault /\ UNCHANGED <<snap, job>>
<1>1. PICK r \in reports :
         /\ r.of = "dump" /\ reports' = reports \ {r}
         /\ \/ /\ snap' = [snap EXCEPT ![r.snap] = r.status]
               /\ job' = [job EXCEPT ![h] =
                     IF r.status = "completed" THEN Recording(r.snap) ELSE Idle]
               /\ UNCHANGED faults
            \/ Fault /\ UNCHANGED <<snap, job>>
    BY DEF UpdateSnapshotStatus, Recording
<1>2. r.snap \in SnapIds /\ r.status \in {"running", "completed", "failed"}
    BY DEF TypeOK, Report
<1>3. CASE Fault /\ UNCHANGED <<snap, job>>
    <2>1. job' \in [Hands -> Jobs]
        BY <1>3 DEF TypeOK, Jobs
    <2> QED
        BY <1>1, <1>2, <1>3, <2>1
<1>4. CASE /\ snap' = [snap EXCEPT ![r.snap] = r.status] /\ UNCHANGED faults
           /\ r.status = "completed" /\ job' = [job EXCEPT ![h] = Recording(r.snap)]
    <2>1. /\ Recording(r.snap) \in Jobs /\ Recording(r.snap).pc = "record"
          /\ Recording(r.snap).snap = r.snap
        BY <1>2, RecordingFields
    <2>2. /\ job' \in [Hands -> Jobs] /\ job'[h] = Recording(r.snap)
          /\ \A g \in Hands : g # h => job'[g] = job[g]
        BY <1>4, <2>1, HandTakes
    <2> QED
        BY <1>1, <1>2, <1>4, <2>1, <2>2
<1>5. CASE /\ snap' = [snap EXCEPT ![r.snap] = r.status] /\ UNCHANGED faults
           /\ r.status # "completed" /\ job' = [job EXCEPT ![h] = Idle]
    <2>1. /\ job' \in [Hands -> Jobs] /\ job'[h] = Idle
          /\ \A g \in Hands : g # h => job'[g] = job[g]
        BY <1>5, IdleFields, HandTakes
    <2> QED
        BY <1>1, <1>2, <1>5, <2>1
<1> QED
    BY <1>1, <1>3, <1>4, <1>5

LEMMA RecordMirrorJobs ==
    ASSUME TypeOK, NEW h \in Hands, RecordMirror(h)
    PROVE  /\ job' \in [Hands -> Jobs]
           /\ job'[h].snap = job[h].snap
           /\ \/ job'[h].pc = "retain"
              \/ job'[h].pc = "send" /\ mirror \in Mirrors /\ job'[h].dest = mirror
           /\ \A g \in Hands : g # h => job'[g] = job[g]
<1>1. CASE Continue(h, "retain")
    BY <1>1, ContinueFields
<1>2. CASE mirror \in Mirrors /\ job' = [job EXCEPT ![h] = SendingTo(job[h], mirror)]
    <2>1. job[h] \in Jobs
        BY JobFields
    <2>2. /\ SendingTo(job[h], mirror) \in Jobs /\ SendingTo(job[h], mirror).pc = "send"
          /\ SendingTo(job[h], mirror).snap = job[h].snap
          /\ SendingTo(job[h], mirror).dest = mirror
        BY <1>2, <2>1, SendingFields
    <2>3. /\ job' \in [Hands -> Jobs] /\ job'[h] = SendingTo(job[h], mirror)
          /\ \A g \in Hands : g # h => job'[g] = job[g]
        BY <1>2, <2>2, HandTakes
    <2> QED
        BY <1>2, <2>2, <2>3
<1> QED
    BY <1>1, <1>2 DEF RecordMirror, SendingTo

LEMMA ListJobs ==
    ASSUME TypeOK, NEW h \in Hands, ListStale(h)
    PROVE  /\ job' \in [Hands -> Jobs]
           /\ job'[h].snap = NoSnap
           /\ \/ job'[h].pc = "idle"
              \/ /\ RetentionCount > 0 /\ Stale # {}
                 /\ job'[h].pc = "expire" /\ job'[h].todo = Stale
           /\ \A g \in Hands : g # h => job'[g] = job[g]
<1>1. CASE job' = [job EXCEPT ![h] = Idle]
    <2>1. /\ job' \in [Hands -> Jobs] /\ job'[h] = Idle
          /\ \A g \in Hands : g # h => job'[g] = job[g]
        BY <1>1, IdleFields, HandTakes
    <2> QED
        BY <2>1, IdleFields
<1>2. CASE RetentionCount > 0 /\ Stale # {} /\ job' = [job EXCEPT ![h] = Expiring(Stale)]
    <2>1. Stale \in SUBSET SnapIds
        BY DEF Stale
    <2>2. /\ Expiring(Stale) \in Jobs /\ Expiring(Stale).pc = "expire"
          /\ Expiring(Stale).snap = NoSnap /\ Expiring(Stale).todo = Stale
        BY <2>1, ExpiringFields
    <2>3. /\ job' \in [Hands -> Jobs] /\ job'[h] = Expiring(Stale)
          /\ \A g \in Hands : g # h => job'[g] = job[g]
        BY <1>2, <2>2, HandTakes
    <2> QED
        BY <1>2, <2>2, <2>3
<1> QED
    BY <1>1, <1>2 DEF ListStale, Expiring

LEMMA ExpireJobs ==
    ASSUME TypeOK, JobsFit, NEW h \in Hands, Expire(h)
    PROVE  /\ Max(job[h].todo) \in job[h].todo
           /\ Max(job[h].todo) \in SnapIds
           /\ job' \in [Hands -> Jobs]
           /\ job'[h].snap \in {NoSnap, job[h].snap}
           /\ job'[h].pc \in {"idle", "expire"}
           /\ job'[h].pc = "expire" => job'[h].todo # {}
           /\ job'[h].todo \subseteq job[h].todo
           /\ \A g \in Hands : g # h => job'[g] = job[g]
<1> DEFINE s == Max(job[h].todo)
<1>1. job[h].todo # {} /\ job[h].todo \in SUBSET SnapIds
    BY JobFields DEF Expire, JobsFit
<1>2. s \in job[h].todo
    BY <1>1, NewestSnapshot
<1>3. job' = [job EXCEPT ![h] = IF job[h].todo = {s} THEN Idle ELSE Without(job[h], s)]
    BY DEF Expire, Without
<1>4. job[h].pc = "expire"
    BY DEF Expire
<1> HIDE DEF s
<1>5. CASE job[h].todo = {s}
    <2>1. /\ job' \in [Hands -> Jobs] /\ job'[h] = Idle
          /\ \A g \in Hands : g # h => job'[g] = job[g]
        BY <1>3, <1>5, IdleFields, HandTakes
    <2>2. job'[h].pc = "idle" /\ job'[h].snap = NoSnap /\ job'[h].todo = {}
        BY <2>1, IdleFields
    <2> QED
        BY <1>1, <1>2, <2>1, <2>2 DEF s
<1>6. CASE job[h].todo # {s}
    <2>1. job[h] \in Jobs
        BY JobFields
    <2>2. /\ Without(job[h], s) \in Jobs /\ Without(job[h], s).pc = job[h].pc
          /\ Without(job[h], s).snap = job[h].snap
          /\ Without(job[h], s).todo = job[h].todo \ {s}
        BY <2>1, WithoutFields
    <2>3. /\ job' \in [Hands -> Jobs] /\ job'[h] = Without(job[h], s)
          /\ \A g \in Hands : g # h => job'[g] = job[g]
        BY <1>3, <1>6, <2>2, HandTakes
    <2>4. job[h].todo \ {s} # {} /\ job[h].todo \ {s} \subseteq job[h].todo
        BY <1>2, <1>6
    <2>5. job'[h].pc = "expire" /\ job'[h].snap = job[h].snap /\ job'[h].todo = job[h].todo \ {s}
        BY <1>4, <2>2, <2>3
    <2> QED
        BY <1>1, <1>2, <2>3, <2>4, <2>5 DEF s
<1> QED
    BY <1>5, <1>6

(***************************************************************************)
(* Writing a replica's outcome keeps to the types, and changes one row at  *)
(* most.                                                                   *)
(***************************************************************************)
LEMMA UpsertKeeps ==
    ASSUME TypeOK, NEW s \in SnapIds, NEW d \in Dests,
           NEW status \in ReplicaStatuses, UpsertSnapshotReplica(s, d, status)
    PROVE  /\ replica' \in [SnapIds -> [Dests -> ReplicaStatuses]]
           /\ faults' \in 0 .. MaxFaults
           /\ \A r \in SnapIds, e \in Dests :
                 replica'[r][e] = replica[r][e] \/ (r = s /\ e = d /\ replica'[r][e] = status)
<1>1. CASE replica' = [replica EXCEPT ![s][d] = status] /\ UNCHANGED faults
    BY <1>1 DEF TypeOK
<1>2. CASE Fault /\ UNCHANGED replica
    BY <1>2, CopiesAssumption DEF TypeOK, Fault
<1> QED
    BY <1>1, <1>2 DEF UpsertSnapshotReplica

(***************************************************************************)
(* Every step keeps the types.                                             *)
(***************************************************************************)
LEMMA TypeInit == Init => TypeOK
<1> SUFFICES ASSUME Init PROVE TypeOK
    OBVIOUS
<1>1. job \in [Hands -> Jobs]
    BY IdleFields DEF Init
<1>2. copies \in [SnapIds -> SUBSET Dests]
    BY DEF Init, Dests
<1>3. snap \in [SnapIds -> {"none", "pending", "running", "completed", "failed"}]
    BY DEF Init
<1>4. active \in [SnapIds -> BOOLEAN]
    BY DEF Init
<1>5. replica \in [SnapIds -> [Dests -> ReplicaStatuses]]
    BY DEF Init, ReplicaStatuses
<1>6. faults \in 0 .. MaxFaults /\ edits \in 0 .. MaxEdits
    BY CopiesAssumption DEF Init
<1>7. /\ mirror \in Dests \cup {NoDest}
      /\ dumping \subseteq SnapIds /\ mirroring \subseteq Mirroring /\ reports \subseteq Report
      /\ expired \subseteq SnapIds /\ undercut \in BOOLEAN /\ redirected \in BOOLEAN
    BY DEF Init
<1> QED
    BY <1>1, <1>2, <1>3, <1>4, <1>5, <1>6, <1>7 DEF TypeOK, Jobs

LEMMA TypeStep == TypeOK /\ JobsFit /\ [Next]_vars => TypeOK'
<1> SUFFICES ASSUME TypeOK, JobsFit, [Next]_vars PROVE TypeOK'
    OBVIOUS
<1> USE DEF rows, worker, history
<1>1. ASSUME NEW s \in SnapIds, StartSnapshot(s) PROVE TypeOK'
    <2>1. [of |-> "dump", snap |-> s, status |-> "running"] \in Report
        BY DEF Report
    <2> QED
        BY <1>1, <2>1 DEF StartSnapshot, TypeOK
<1>2. ASSUME NEW s \in SnapIds, DumpEnds(s) PROVE TypeOK'
    <2>1. PICK status \in {"completed", "failed"} :
             /\ reports' = reports \cup {[of |-> "dump", snap |-> s, status |-> status]}
             /\ copies' = [copies EXCEPT ![s] = IF status = "completed" THEN {Primary} ELSE {}]
        BY <1>2 DEF DumpEnds
    <2>2. [of |-> "dump", snap |-> s, status |-> status] \in Report
        BY DEF Report
    <2>3. copies' \in [SnapIds -> SUBSET Dests]
        BY <2>1 DEF TypeOK, Dests
    <2> QED
        BY <1>2, <2>1, <2>2, <2>3 DEF DumpEnds, TypeOK
<1>3. ASSUME NEW m \in mirroring, MirrorEnds(m) PROVE TypeOK'
    <2>1. PICK status \in {"completed", "failed"} :
             /\ reports' = reports \cup {[of |-> "mirror", snap |-> m.snap, status |-> status]}
             /\ copies' = [copies EXCEPT ![m.snap] =
                              IF status = "completed" THEN @ \cup {m.dest} ELSE @]
        BY <1>3 DEF MirrorEnds
    <2>2. m.snap \in SnapIds /\ m.dest \in Mirrors
        BY DEF TypeOK, Mirroring
    <2>3. [of |-> "mirror", snap |-> m.snap, status |-> status] \in Report
        BY <2>2 DEF Report
    <2>4. copies' \in [SnapIds -> SUBSET Dests]
        BY <2>1, <2>2 DEF TypeOK, Dests
    <2> QED
        BY <1>3, <2>1, <2>3, <2>4 DEF MirrorEnds, TypeOK
<1>4. ASSUME NEW h \in Hands, UpdateSnapshotStatus(h) PROVE TypeOK'
    <2>1. PICK r \in reports :
             /\ reports' = reports \ {r}
             /\ r.snap \in SnapIds /\ r.status \in {"running", "completed", "failed"}
             /\ job' \in [Hands -> Jobs]
             /\ \/ snap' = [snap EXCEPT ![r.snap] = r.status] /\ UNCHANGED faults
                \/ Fault /\ UNCHANGED snap
        BY <1>4, UpdateJobs
    <2>5. snap' \in [SnapIds -> {"none", "pending", "running", "completed", "failed"}]
        BY <2>1 DEF TypeOK
    <2>6. faults' \in 0 .. MaxFaults
        BY <2>1, CopiesAssumption DEF TypeOK, Fault
    <2> QED
        BY <1>4, <2>1, <2>5, <2>6 DEF UpdateSnapshotStatus, TypeOK, Jobs
<1>5. ASSUME NEW h \in Hands, RecordPrimary(h) PROVE TypeOK'
    <2>1. job[h].snap \in SnapIds
        BY <1>5 DEF RecordPrimary, JobsFit
    <2>2. job' \in [Hands -> Jobs]
        BY <1>5, ContinueFields DEF RecordPrimary
    <2>3. replica' \in [SnapIds -> [Dests -> ReplicaStatuses]] /\ faults' \in 0 .. MaxFaults
        <3>1. CASE UpsertSnapshotReplica(job[h].snap, Primary, "completed")
            <4>1. Primary \in Dests /\ "completed" \in ReplicaStatuses
                BY DEF Dests, ReplicaStatuses
            <4> QED
                BY <3>1, <4>1, <2>1, UpsertKeeps
        <3>2. CASE UNCHANGED <<replica, faults>>
            BY <3>2 DEF TypeOK
        <3> QED
            BY <1>5, <3>1, <3>2 DEF RecordPrimary
    <2> QED
        BY <1>5, <2>2, <2>3 DEF RecordPrimary, TypeOK, Jobs
<1>6. ASSUME NEW h \in Hands, RecordMirror(h) PROVE TypeOK'
    <2>1. job[h].snap \in SnapIds
        BY <1>6 DEF RecordMirror, JobsFit
    <2>2. job' \in [Hands -> Jobs]
        BY <1>6, RecordMirrorJobs
    <2>3. replica' \in [SnapIds -> [Dests -> ReplicaStatuses]] /\ faults' \in 0 .. MaxFaults
        <3>1. CASE mirror \in Mirrors /\ UpsertSnapshotReplica(job[h].snap, mirror, "pending")
            <4>1. mirror \in Dests /\ "pending" \in ReplicaStatuses
                BY <3>1 DEF Dests, ReplicaStatuses
            <4> QED
                BY <3>1, <4>1, <2>1, UpsertKeeps
        <3>2. CASE UNCHANGED <<replica, faults>>
            BY <3>2 DEF TypeOK
        <3> QED
            BY <1>6, <3>1, <3>2 DEF RecordMirror
    <2> QED
        BY <1>6, <2>2, <2>3 DEF RecordMirror, TypeOK, Jobs
<1>7. ASSUME NEW h \in Hands, SendMirror(h) PROVE TypeOK'
    <2>1. job[h].snap \in SnapIds /\ job[h].dest \in Mirrors
        BY <1>7 DEF SendMirror, JobsFit
    <2>2. job' \in [Hands -> Jobs]
        BY <1>7, ContinueFields DEF SendMirror
    <2>3. [snap |-> job[h].snap, dest |-> job[h].dest] \in Mirroring
        BY <2>1 DEF Mirroring
    <2>4. replica' \in [SnapIds -> [Dests -> ReplicaStatuses]] /\ faults' \in 0 .. MaxFaults
        <3>1. CASE UpsertSnapshotReplica(job[h].snap, job[h].dest, "failed")
            <4>1. job[h].dest \in Dests /\ "failed" \in ReplicaStatuses
                BY <2>1 DEF Dests, ReplicaStatuses
            <4> QED
                BY <3>1, <4>1, <2>1, UpsertKeeps
        <3>2. CASE UNCHANGED <<replica, faults>>
            BY <3>2 DEF TypeOK
        <3> QED
            BY <1>7, <3>1, <3>2 DEF SendMirror
    <2> QED
        BY <1>7, <2>2, <2>3, <2>4 DEF SendMirror, TypeOK, Jobs
<1>8. ASSUME NEW h \in Hands, ListStale(h) PROVE TypeOK'
    <2>2. job' \in [Hands -> Jobs]
        BY <1>8, ListJobs
    <2> QED
        BY <1>8, <2>2 DEF ListStale, TypeOK, Jobs
<1>9. ASSUME NEW h \in Hands, Expire(h) PROVE TypeOK'
    <2> DEFINE s == Max(job[h].todo)
    <2>2. s \in SnapIds
        BY <1>9, ExpireJobs
    <2>4. job' \in [Hands -> Jobs]
        BY <1>9, ExpireJobs
    <2>5. copies' \in [SnapIds -> SUBSET Dests]
        <3> HIDE DEF s
        <3>1. DeleteFile(s)
            BY <1>9 DEF Expire, s
        <3>2. copies \in [SnapIds -> SUBSET Dests]
            BY DEF TypeOK
        <3> QED
            BY <2>2, <3>1, <3>2 DEF DeleteFile
    <2>6. expired' \subseteq SnapIds
        BY <1>9, <2>2 DEF Expire, TypeOK
    <2>7. active' \in [SnapIds -> BOOLEAN] /\ undercut' \in BOOLEAN
        BY <1>9, <2>2 DEF Expire, TypeOK
    <2>8. faults' \in 0 .. MaxFaults
        BY <1>9, CopiesAssumption DEF Expire, Fault, TypeOK
    <2> QED
        BY <1>9, <2>4, <2>5, <2>6, <2>7, <2>8 DEF Expire, TypeOK, Jobs
<1>10. ASSUME HandleMirrorStatus PROVE TypeOK'
    <2>1. PICK r \in reports :
             /\ r.of = "mirror" /\ reports' = reports \ {r}
             /\ \/ /\ active[r.snap] /\ mirror # NoDest
                   /\ UpsertSnapshotReplica(r.snap, mirror, r.status)
                \/ UNCHANGED <<replica, faults>>
        BY <1>10 DEF HandleMirrorStatus
    <2>2. replica' \in [SnapIds -> [Dests -> ReplicaStatuses]] /\ faults' \in 0 .. MaxFaults
        <3>1. CASE mirror # NoDest /\ UpsertSnapshotReplica(r.snap, mirror, r.status)
            <4>1. r.snap \in SnapIds /\ r.status \in {"running", "completed", "failed"}
                BY DEF TypeOK, Report
            <4>2. mirror \in Dests
                BY <3>1 DEF TypeOK
            <4>3. r.snap \in SnapIds /\ r.status \in ReplicaStatuses
                BY <2>1, <4>1 DEF JobsFit, ReplicaStatuses
            <4> QED
                BY <3>1, <4>2, <4>3, UpsertKeeps
        <3>2. CASE UNCHANGED <<replica, faults>>
            BY <3>2 DEF TypeOK
        <3> QED
            BY <2>1, <3>1, <3>2
    <2> QED
        BY <1>10, <2>1, <2>2 DEF HandleMirrorStatus, TypeOK
<1>11. ASSUME NEW s \in SnapIds, DeleteSnapshot(s) PROVE TypeOK'
    <2>1. copies' \in [SnapIds -> SUBSET Dests]
        BY <1>11 DEF DeleteSnapshot, DeleteFile, TypeOK
    <2>2. active' \in [SnapIds -> BOOLEAN] /\ undercut' \in BOOLEAN
        BY <1>11 DEF DeleteSnapshot, TypeOK
    <2>3. edits' \in 0 .. MaxEdits
        BY <1>11, CopiesAssumption DEF DeleteSnapshot, TypeOK
    <2>4. faults' \in 0 .. MaxFaults
        BY <1>11, CopiesAssumption DEF DeleteSnapshot, Fault, TypeOK
    <2>5. UNCHANGED <<snap, replica, mirror, dumping, mirroring, reports, job, expired,
                      redirected>>
        BY <1>11 DEF DeleteSnapshot
    <2> QED
        BY <2>1, <2>2, <2>3, <2>4, <2>5 DEF TypeOK
<1>12. ASSUME EditMirror PROVE TypeOK'
    <2>1. mirror' \in Dests \cup {NoDest} /\ redirected' \in BOOLEAN
        BY <1>12 DEF EditMirror, TypeOK
    <2>2. edits' \in 0 .. MaxEdits
        BY <1>12, CopiesAssumption DEF EditMirror, TypeOK
    <2> QED
        BY <1>12, <2>1, <2>2 DEF EditMirror, TypeOK
<1>13. ASSUME Restart PROVE TypeOK'
    <2>1. job' \in [Hands -> Jobs]
        BY <1>13, IdleFields DEF Restart
    <2> QED
        BY <1>13, <2>1 DEF Restart, TypeOK, Jobs
<1>14. ASSUME UNCHANGED vars PROVE TypeOK'
    BY <1>14 DEF vars, TypeOK
<1> QED
    BY <1>1, <1>2, <1>3, <1>4, <1>5, <1>6, <1>7, <1>8, <1>9, <1>10, <1>11, <1>12, <1>13,
       <1>14 DEF Next, HandStep

(***************************************************************************)
(* Every step keeps the handlers' work fit to do.                          *)
(***************************************************************************)
LEMMA JobsStep == TypeOK /\ JobsFit /\ [Next]_vars => JobsFit'
<1> SUFFICES ASSUME TypeOK, JobsFit, [Next]_vars PROVE JobsFit'
    OBVIOUS
<1> USE DEF rows, worker, history
<1> DEFINE Fits(j) == /\ j.pc \in {"record", "mirror", "send"} => j.snap \in SnapIds
                      /\ j.pc = "send" => j.dest \in Mirrors
                      /\ j.pc = "expire" => j.todo # {}
           Ended == \A r \in reports' : r.of = "mirror" => r.status # "running"
<1>0. \A h \in Hands : Fits(job[h])
    BY DEF JobsFit
<1> HIDE DEF Fits
<1>a. ASSUME Ended, \A h \in Hands : Fits(job'[h]) PROVE JobsFit'
    BY <1>a DEF JobsFit, Fits
<1>b. ASSUME Ended, UNCHANGED job PROVE JobsFit'
    BY <1>a, <1>b, <1>0
<1>c. ASSUME reports' \subseteq reports PROVE Ended
    BY <1>c DEF JobsFit
<1>d. ASSUME NEW h \in Hands, Fits(job'[h]), Ended, \A g \in Hands : g # h => job'[g] = job[g]
      PROVE  JobsFit'
    BY <1>a, <1>d, <1>0
<1> HIDE DEF Ended
<1>1. ASSUME NEW s \in SnapIds, StartSnapshot(s) PROVE JobsFit'
    <2>1. Ended
        BY <1>1 DEF StartSnapshot, JobsFit, Ended
    <2> QED
        BY <1>b, <1>1, <2>1 DEF StartSnapshot
<1>2. ASSUME NEW s \in SnapIds, DumpEnds(s) PROVE JobsFit'
    <2>1. Ended
        BY <1>2 DEF DumpEnds, JobsFit, Ended
    <2> QED
        BY <1>b, <1>2, <2>1 DEF DumpEnds
<1>3. ASSUME NEW m \in mirroring, MirrorEnds(m) PROVE JobsFit'
    <2>1. Ended
        BY <1>3 DEF MirrorEnds, JobsFit, Ended
    <2> QED
        BY <1>b, <1>3, <2>1 DEF MirrorEnds
<1>4. ASSUME NEW h \in Hands, UpdateSnapshotStatus(h) PROVE JobsFit'
    <2>1. PICK r \in reports :
             /\ reports' = reports \ {r} /\ r.snap \in SnapIds
             /\ \A g \in Hands : g # h => job'[g] = job[g]
             /\ \/ /\ r.status = "completed" => job'[h].pc = "record" /\ job'[h].snap = r.snap
                   /\ r.status # "completed" => job'[h] = Idle
                \/ UNCHANGED job
        BY <1>4, UpdateJobs
    <2>2. Ended
        BY <2>1, <1>c
    <2>3. Fits(Idle)
        BY IdleFields DEF Fits
    <2>4. ASSUME job'[h].pc = "record", job'[h].snap = r.snap PROVE Fits(job'[h])
        BY <2>1, <2>4 DEF Fits
    <2> QED
        BY <1>b, <1>d, <2>1, <2>2, <2>3, <2>4
<1>5. ASSUME NEW h \in Hands, RecordPrimary(h) PROVE JobsFit'
    <2>1. /\ job'[h].pc \in {"mirror", "retain"} /\ job'[h].snap = job[h].snap
          /\ \A g \in Hands : g # h => job'[g] = job[g]
        BY <1>5, ContinueFields DEF RecordPrimary
    <2>2. job[h].snap \in SnapIds
        BY <1>5 DEF RecordPrimary, JobsFit
    <2>3. Fits(job'[h])
        BY <2>1, <2>2 DEF Fits
    <2>4. Ended
        BY <1>5, <1>c DEF RecordPrimary
    <2> QED
        BY <1>d, <2>1, <2>3, <2>4
<1>6. ASSUME NEW h \in Hands, RecordMirror(h) PROVE JobsFit'
    <2>1. /\ job'[h].snap = job[h].snap
          /\ \/ job'[h].pc = "retain"
             \/ job'[h].pc = "send" /\ mirror \in Mirrors /\ job'[h].dest = mirror
          /\ \A g \in Hands : g # h => job'[g] = job[g]
        BY <1>6, RecordMirrorJobs
    <2>2. job[h].snap \in SnapIds
        BY <1>6 DEF RecordMirror, JobsFit
    <2>3. Fits(job'[h])
        BY <2>1, <2>2 DEF Fits
    <2>4. Ended
        BY <1>6, <1>c DEF RecordMirror
    <2> QED
        BY <1>d, <2>1, <2>3, <2>4
<1>7. ASSUME NEW h \in Hands, SendMirror(h) PROVE JobsFit'
    <2>1. job'[h].pc = "retain" /\ \A g \in Hands : g # h => job'[g] = job[g]
        BY <1>7, ContinueFields DEF SendMirror
    <2>2. Fits(job'[h])
        BY <2>1 DEF Fits
    <2>3. Ended
        BY <1>7, <1>c DEF SendMirror
    <2> QED
        BY <1>d, <2>1, <2>2, <2>3
<1>8. ASSUME NEW h \in Hands, ListStale(h) PROVE JobsFit'
    <2>1. /\ \/ job'[h].pc = "idle"
             \/ Stale # {} /\ job'[h].pc = "expire" /\ job'[h].todo = Stale
          /\ \A g \in Hands : g # h => job'[g] = job[g]
        BY <1>8, ListJobs
    <2>2. Fits(job'[h])
        BY <2>1 DEF Fits
    <2>3. Ended
        BY <1>8, <1>c DEF ListStale
    <2> QED
        BY <1>d, <2>1, <2>2, <2>3
<1>9. ASSUME NEW h \in Hands, Expire(h) PROVE JobsFit'
    <2>1. /\ job'[h].pc \in {"idle", "expire"}
          /\ job'[h].pc = "expire" => job'[h].todo # {}
          /\ \A g \in Hands : g # h => job'[g] = job[g]
        BY <1>9, ExpireJobs
    <2>2. Fits(job'[h])
        BY <2>1 DEF Fits
    <2>3. Ended
        BY <1>9, <1>c DEF Expire
    <2> QED
        BY <1>d, <2>1, <2>2, <2>3
<1>10. ASSUME HandleMirrorStatus PROVE JobsFit'
    BY <1>10, <1>b, <1>c DEF HandleMirrorStatus
<1>11. ASSUME NEW s \in SnapIds, DeleteSnapshot(s) PROVE JobsFit'
    BY <1>11, <1>b, <1>c DEF DeleteSnapshot
<1>12. ASSUME EditMirror PROVE JobsFit'
    BY <1>12, <1>b, <1>c DEF EditMirror
<1>13. ASSUME Restart PROVE JobsFit'
    <2>1. \A h \in Hands : job'[h] = Idle
        BY <1>13 DEF Restart
    <2>2. Fits(Idle)
        BY IdleFields DEF Fits
    <2>3. Ended
        BY <1>13, <1>c DEF Restart
    <2> QED
        BY <1>a, <2>1, <2>2, <2>3
<1>14. ASSUME UNCHANGED vars PROVE JobsFit'
    BY <1>14, <1>b, <1>c DEF vars
<1> QED
    BY <1>1, <1>2, <1>3, <1>4, <1>5, <1>6, <1>7, <1>8, <1>9, <1>10, <1>11, <1>12, <1>13,
       <1>14 DEF Next, HandStep

-----------------------------------------------------------------------------
(* Fresh snapshots                                                           *)

(***************************************************************************)
(* A command to delete a file takes it from the primary and touches no     *)
(* other copy.                                                             *)
(***************************************************************************)
LEMMA DeleteFileKeeps ==
    ASSUME TypeOK, NEW s \in SnapIds, DeleteFile(s)
    PROVE  /\ \A t \in SnapIds : copies'[t] \subseteq copies[t]
           /\ \A t \in SnapIds : t # s => copies'[t] = copies[t]
           /\ \A t \in SnapIds, d \in Mirrors : d \in copies[t] => d \in copies'[t]
<1>1. CASE copies' = [copies EXCEPT ![s] = @ \ {Primary}]
    <2>1. DOMAIN copies = SnapIds /\ Primary \notin Mirrors
        BY CopiesAssumption DEF TypeOK
    <2>2. copies'[s] = copies[s] \ {Primary} /\ \A t \in SnapIds : t # s => copies'[t] = copies[t]
        BY <1>1, <2>1
    <2> QED
        BY <2>1, <2>2
<1>2. CASE UNCHANGED copies
    BY <1>2
<1> QED
    BY <1>1, <1>2 DEF DeleteFile

(***************************************************************************)
(* Until its dump has ended no step counts on a snapshot.                  *)
(***************************************************************************)
LEMMA FreshStep == TypeOK /\ JobsFit /\ FreshAreUnseen /\ [Next]_vars => FreshAreUnseen'
<1> SUFFICES ASSUME TypeOK, JobsFit, FreshAreUnseen, [Next]_vars, NEW t \in SnapIds
             PROVE  Fresh(t)'
    BY DEF FreshAreUnseen
<1> USE DEF rows, worker, history
<1>0. Fresh(t)
    BY DEF FreshAreUnseen
<1>a. ASSUME UNCHANGED <<snap, dumping>>, Unseen(t) => Unseen(t)' PROVE Fresh(t)'
    BY <1>0, <1>a DEF Fresh
<1>b. NoSnap # t
    BY IdleFields
<1>1. ASSUME NEW s \in SnapIds, StartSnapshot(s) PROVE Fresh(t)'
    <2>1. /\ snap' = [snap EXCEPT ![s] = "pending"] /\ dumping' = dumping \cup {s}
          /\ reports' = reports \cup {[of |-> "dump", snap |-> s, status |-> "running"]}
          /\ UNCHANGED <<replica, copies, mirroring, job>> /\ snap[s] = "none"
        BY <1>1 DEF StartSnapshot
    <2>2. snap'[s] = "pending" /\ (t # s => snap'[t] = snap[t])
        BY <2>1 DEF TypeOK
    <2>3. ASSUME Unseen(t) PROVE Unseen(t)'
        BY <2>1, <2>2, <2>3 DEF Unseen
    <2> QED
        BY <1>0, <2>1, <2>2, <2>3 DEF Fresh
<1>2. ASSUME NEW s \in SnapIds, DumpEnds(s) PROVE Fresh(t)'
    <2>1. PICK status \in {"completed", "failed"} :
             /\ reports' = reports \cup {[of |-> "dump", snap |-> s, status |-> status]}
             /\ copies' = [copies EXCEPT ![s] = IF status = "completed" THEN {Primary} ELSE {}]
        BY <1>2 DEF DumpEnds
    <2>2. s \in dumping /\ dumping' = dumping \ {s} /\ UNCHANGED <<snap, replica, mirroring, job>>
        BY <1>2 DEF DumpEnds
    <2>3. CASE t = s
        BY <1>0, <2>2, <2>3 DEF Fresh
    <2>4. CASE t # s
        <3>1. copies'[t] = copies[t]
            BY <2>1, <2>4 DEF TypeOK
        <3>2. ASSUME Unseen(t) PROVE Unseen(t)'
            BY <2>1, <2>2, <2>4, <3>1, <3>2 DEF Unseen
        <3> QED
            BY <1>0, <2>2, <3>2 DEF Fresh
    <2> QED
        BY <2>3, <2>4
<1>3. ASSUME NEW m \in mirroring, MirrorEnds(m) PROVE Fresh(t)'
    <2>1. PICK status \in {"completed", "failed"} :
             /\ reports' = reports \cup {[of |-> "mirror", snap |-> m.snap, status |-> status]}
             /\ copies' = [copies EXCEPT ![m.snap] =
                              IF status = "completed" THEN @ \cup {m.dest} ELSE @]
        BY <1>3 DEF MirrorEnds
    <2>2. mirroring' = mirroring \ {m} /\ UNCHANGED <<snap, dumping, replica, job>>
        BY <1>3 DEF MirrorEnds
    <2>3. ASSUME Unseen(t) PROVE Unseen(t)'
        <3>1. m.snap # t
            BY <2>3 DEF Unseen
        <3>2. copies'[t] = copies[t]
            BY <2>1, <3>1 DEF TypeOK
        <3> QED
            BY <2>1, <2>2, <2>3, <3>1, <3>2 DEF Unseen
    <2> QED
        BY <1>a, <2>2, <2>3
<1>4. ASSUME NEW h \in Hands, UpdateSnapshotStatus(h) PROVE Fresh(t)'
    <2>1. PICK r \in reports :
             /\ reports' = reports \ {r}
             /\ r.snap \in SnapIds /\ r.status \in {"running", "completed", "failed"}
             /\ \A g \in Hands : g # h => job'[g] = job[g]
             /\ \/ /\ snap' = [snap EXCEPT ![r.snap] = r.status]
                   /\ r.status = "completed" => job'[h].snap = r.snap
                   /\ r.status # "completed" => job'[h] = Idle
                \/ UNCHANGED <<snap, job>>
        BY <1>4, UpdateJobs
    <2>2. UNCHANGED <<replica, copies, dumping, mirroring>>
        BY <1>4 DEF UpdateSnapshotStatus
    <2>3. CASE UNCHANGED <<snap, job>>
        <3>1. ASSUME Unseen(t) PROVE Unseen(t)'
            BY <2>1, <2>2, <2>3, <3>1 DEF Unseen
        <3> QED
            BY <1>a, <2>2, <2>3, <3>1
    <2>4. CASE /\ snap' = [snap EXCEPT ![r.snap] = r.status]
               /\ r.status = "completed" => job'[h].snap = r.snap
               /\ r.status # "completed" => job'[h] = Idle
        <3>1. snap'[r.snap] = r.status /\ (t # r.snap => snap'[t] = snap[t])
            BY <2>1, <2>4 DEF TypeOK
        <3>2. snap[t] # "none" => snap'[t] # "none"
            BY <2>1, <3>1
        <3>3. ASSUME Unseen(t) PROVE Unseen(t)'
            <4>1. t = r.snap => r.status = "running"
                BY <3>3 DEF Unseen
            <4>2. \A g \in Hands : job'[g].snap # t
                BY <1>b, <2>1, <2>4, <3>3, <4>1, IdleFields DEF Unseen
            <4>3. snap'[t] # "completed"
                BY <3>1, <3>3, <4>1 DEF Unseen
            <4> QED
                BY <2>1, <2>2, <3>3, <4>2, <4>3 DEF Unseen
        <3>4. snap'[t] = "none" => snap[t] = "none"
            BY <3>2
        <3> QED
            BY <1>0, <2>2, <3>2, <3>3, <3>4 DEF Fresh
    <2> QED
        BY <2>1, <2>3, <2>4
<1>c. ASSUME NEW s \in SnapIds, NEW d \in Dests, NEW status \in ReplicaStatuses,
             UpsertSnapshotReplica(s, d, status), s # t
      PROVE  \A e \in Dests : replica'[t][e] = replica[t][e]
    BY <1>c, UpsertKeeps
<1>5. ASSUME NEW h \in Hands, RecordPrimary(h) PROVE Fresh(t)'
    <2>1. job'[h].snap = job[h].snap /\ \A g \in Hands : g # h => job'[g] = job[g]
        BY <1>5, ContinueFields DEF RecordPrimary
    <2>2. UNCHANGED <<snap, copies, dumping, mirroring, reports>> /\ job[h].snap \in SnapIds
        BY <1>5 DEF RecordPrimary, JobsFit
    <2>3. ASSUME Unseen(t) PROVE Unseen(t)'
        <3>1. job[h].snap # t
            BY <2>3 DEF Unseen
        <3>2. Primary \in Dests /\ "completed" \in ReplicaStatuses
            BY DEF Dests, ReplicaStatuses
        <3>3. \A e \in Dests : replica'[t][e] = replica[t][e]
            BY <1>5, <1>c, <2>2, <3>1, <3>2 DEF RecordPrimary
        <3> QED
            BY <2>1, <2>2, <2>3, <3>3 DEF Unseen
    <2> QED
        BY <1>a, <2>2, <2>3
<1>6. ASSUME NEW h \in Hands, RecordMirror(h) PROVE Fresh(t)'
    <2>1. job'[h].snap = job[h].snap /\ \A g \in Hands : g # h => job'[g] = job[g]
        BY <1>6, RecordMirrorJobs
    <2>2. UNCHANGED <<snap, copies, dumping, mirroring, reports>> /\ job[h].snap \in SnapIds
        BY <1>6 DEF RecordMirror, JobsFit
    <2>3. ASSUME Unseen(t) PROVE Unseen(t)'
        <3>1. job[h].snap # t
            BY <2>3 DEF Unseen
        <3>2. (mirror \in Mirrors => mirror \in Dests) /\ "pending" \in ReplicaStatuses
            BY DEF Dests, ReplicaStatuses
        <3>3. \A e \in Dests : replica'[t][e] = replica[t][e]
            BY <1>6, <1>c, <2>2, <3>1, <3>2 DEF RecordMirror
        <3> QED
            BY <2>1, <2>2, <2>3, <3>3 DEF Unseen
    <2> QED
        BY <1>a, <2>2, <2>3
<1>7. ASSUME NEW h \in Hands, SendMirror(h) PROVE Fresh(t)'
    <2>1. job'[h].snap = job[h].snap /\ \A g \in Hands : g # h => job'[g] = job[g]
        BY <1>7, ContinueFields DEF SendMirror
    <2>2. /\ UNCHANGED <<snap, copies, dumping, reports>>
          /\ job[h].snap \in SnapIds /\ job[h].dest \in Mirrors
          /\ mirroring' \subseteq mirroring \cup {[snap |-> job[h].snap, dest |-> job[h].dest]}
        BY <1>7 DEF SendMirror, JobsFit
    <2>3. ASSUME Unseen(t) PROVE Unseen(t)'
        <3>1. job[h].snap # t
            BY <2>3 DEF Unseen
        <3>2. job[h].dest \in Dests /\ "failed" \in ReplicaStatuses
            BY <2>2 DEF Dests, ReplicaStatuses
        <3>3. \A e \in Dests : replica'[t][e] = replica[t][e]
            BY <1>7, <1>c, <2>2, <3>1, <3>2 DEF SendMirror
        <3>4. \A m \in mirroring' : m.snap # t
            BY <2>2, <2>3, <3>1 DEF Unseen
        <3> QED
            BY <2>1, <2>2, <2>3, <3>3, <3>4 DEF Unseen
    <2> QED
        BY <1>a, <2>2, <2>3
<1>8. ASSUME NEW h \in Hands, ListStale(h) PROVE Fresh(t)'
    <2>1. job'[h].snap = NoSnap /\ \A g \in Hands : g # h => job'[g] = job[g]
        BY <1>8, ListJobs
    <2>2. UNCHANGED <<snap, replica, copies, dumping, mirroring, reports>>
        BY <1>8 DEF ListStale
    <2>3. ASSUME Unseen(t) PROVE Unseen(t)'
        BY <1>b, <2>1, <2>2, <2>3 DEF Unseen
    <2> QED
        BY <1>a, <2>2, <2>3
<1>9. ASSUME NEW h \in Hands, Expire(h) PROVE Fresh(t)'
    <2>1. /\ job'[h].snap \in {NoSnap, job[h].snap}
          /\ \A g \in Hands : g # h => job'[g] = job[g]
        BY <1>9, ExpireJobs
    <2>2. UNCHANGED <<snap, replica, dumping, mirroring, reports>>
        BY <1>9 DEF Expire
    <2>3. copies'[t] \subseteq copies[t]
        <3>1. Max(job[h].todo) \in SnapIds
            BY <1>9, ExpireJobs
        <3>2. DeleteFile(Max(job[h].todo))
            BY <1>9 DEF Expire
        <3> QED
            BY <3>1, <3>2, DeleteFileKeeps
    <2>4. ASSUME Unseen(t) PROVE Unseen(t)'
        BY <1>b, <2>1, <2>2, <2>3, <2>4 DEF Unseen
    <2> QED
        BY <1>a, <2>2, <2>4
<1>10. ASSUME HandleMirrorStatus PROVE Fresh(t)'
    <2>1. PICK r \in reports :
             /\ r.of = "mirror" /\ reports' = reports \ {r}
             /\ \/ mirror # NoDest /\ UpsertSnapshotReplica(r.snap, mirror, r.status)
                \/ UNCHANGED replica
        BY <1>10 DEF HandleMirrorStatus
    <2>2. UNCHANGED <<snap, copies, dumping, mirroring, job>>
        BY <1>10 DEF HandleMirrorStatus
    <2>3. ASSUME Unseen(t) PROVE Unseen(t)'
        <3>1. r.snap # t
            BY <2>1, <2>3 DEF Unseen
        <3>2. r.snap \in SnapIds /\ r.status \in ReplicaStatuses
            BY <2>1 DEF TypeOK, Report, JobsFit, ReplicaStatuses
        <3>3. mirror # NoDest => mirror \in Dests
            BY DEF TypeOK
        <3>4. \A e \in Dests : replica'[t][e] = replica[t][e]
            BY <1>c, <2>1, <3>1, <3>2, <3>3
        <3> QED
            BY <2>1, <2>2, <2>3, <3>4 DEF Unseen
    <2> QED
        BY <1>a, <2>2, <2>3
<1>11. ASSUME NEW s \in SnapIds, DeleteSnapshot(s) PROVE Fresh(t)'
    <2>1. UNCHANGED <<snap, replica, dumping, mirroring, reports, job>> /\ DeleteFile(s)
        BY <1>11 DEF DeleteSnapshot
    <2>2. copies'[t] \subseteq copies[t]
        BY <2>1, DeleteFileKeeps
    <2>3. ASSUME Unseen(t) PROVE Unseen(t)'
        BY <2>1, <2>2, <2>3 DEF Unseen
    <2> QED
        BY <1>a, <2>1, <2>3
<1>12. ASSUME EditMirror PROVE Fresh(t)'
    BY <1>12, <1>a DEF EditMirror, Unseen
<1>13. ASSUME Restart PROVE Fresh(t)'
    <2>1. \A h \in Hands : job'[h].snap = NoSnap
        BY <1>13, IdleFields DEF Restart
    <2>2. UNCHANGED <<snap, replica, copies, dumping, mirroring, reports>>
        BY <1>13 DEF Restart
    <2>3. ASSUME Unseen(t) PROVE Unseen(t)'
        BY <1>b, <2>1, <2>2, <2>3 DEF Unseen
    <2> QED
        BY <1>a, <2>2, <2>3
<1>14. ASSUME UNCHANGED vars PROVE Fresh(t)'
    BY <1>14, <1>a DEF vars, Unseen
<1> QED
    BY <1>1, <1>2, <1>3, <1>4, <1>5, <1>6, <1>7, <1>8, <1>9, <1>10, <1>11, <1>12, <1>13,
       <1>14 DEF Next, HandStep

-----------------------------------------------------------------------------
(* Landed snapshots                                                          *)

(***************************************************************************)
(* A snapshot nothing is known of has not landed.                          *)
(***************************************************************************)
LEMMA UnseenNotLanded ==
    ASSUME NEW s \in SnapIds, Unseen(s)
    PROVE  ~Landed(s)
<1>1. Primary \in Dests
    BY DEF Dests
<1> QED
    BY <1>1 DEF Unseen, Landed

(***************************************************************************)
(* No step takes the file of an active, landed snapshot without retiring   *)
(* its row or being noted.                                                 *)
(***************************************************************************)
LEMMA LandedStep ==
    TypeOK /\ JobsFit /\ FreshAreUnseen /\ LandedHaveFile /\ [Next]_vars => LandedHaveFile'
<1> SUFFICES ASSUME TypeOK, JobsFit, FreshAreUnseen, LandedHaveFile, [Next]_vars,
                    NEW t \in SnapIds
             PROVE  HasFile(t)'
    BY DEF LandedHaveFile
<1> USE DEF rows, worker, history
<1>0. HasFile(t)
    BY DEF LandedHaveFile
<1>a. ASSUME Landed(t)' => Landed(t), active'[t] => active[t], undercut => undercut',
             Primary \in copies[t] => Primary \in copies'[t]
      PROVE  HasFile(t)'
    BY <1>0, <1>a DEF HasFile
<1>b. NoSnap # t
    BY IdleFields
<1>c. Primary \in Dests
    BY DEF Dests
<1>d. ASSUME NEW s \in SnapIds, NEW d \in Dests, NEW status \in ReplicaStatuses,
             UpsertSnapshotReplica(s, d, status), replica'[t][Primary] = "completed"
      PROVE  replica[t][Primary] = "completed" \/ s = t
    BY <1>d, <1>c, UpsertKeeps
<1>1. ASSUME NEW s \in SnapIds, StartSnapshot(s) PROVE HasFile(t)'
    <2>1. /\ snap' = [snap EXCEPT ![s] = "pending"] /\ active' = [active EXCEPT ![s] = TRUE]
          /\ reports' = reports \cup {[of |-> "dump", snap |-> s, status |-> "running"]}
          /\ UNCHANGED <<replica, copies, mirroring, job, undercut>> /\ snap[s] = "none"
        BY <1>1 DEF StartSnapshot
    <2>2. snap'[s] = "pending" /\ (t # s => snap'[t] = snap[t] /\ active'[t] = active[t])
        BY <2>1 DEF TypeOK
    <2>3. Landed(t)' => Landed(t)
        BY <2>1, <2>2 DEF Landed
    <2>4. CASE t = s
        <3>1. ~Landed(t)
            BY <2>1, <2>4, UnseenNotLanded DEF FreshAreUnseen, Fresh
        <3> QED
            BY <2>3, <3>1 DEF HasFile
    <2>5. CASE t # s
        BY <1>a, <2>1, <2>2, <2>3, <2>5
    <2> QED
        BY <2>4, <2>5
<1>2. ASSUME NEW s \in SnapIds, DumpEnds(s) PROVE HasFile(t)'
    <2>1. PICK status \in {"completed", "failed"} :
             /\ reports' = reports \cup {[of |-> "dump", snap |-> s, status |-> status]}
             /\ copies' = [copies EXCEPT ![s] = IF status = "completed" THEN {Primary} ELSE {}]
        BY <1>2 DEF DumpEnds
    <2>2. s \in dumping /\ UNCHANGED <<snap, active, replica, mirroring, job, undercut>>
        BY <1>2 DEF DumpEnds
    <2>3. CASE t = s
        <3>1. Unseen(t)
            BY <2>2, <2>3 DEF FreshAreUnseen, Fresh
        <3>2. ~Landed(t)
            BY <3>1, UnseenNotLanded
        <3>3. CASE status = "completed"
            <4>1. copies'[t] = {Primary}
                BY <2>1, <2>3, <3>3 DEF TypeOK
            <4> QED
                BY <4>1 DEF HasFile
        <3>4. CASE status = "failed"
            <4>1. ~Landed(t)'
                BY <2>1, <2>2, <3>2, <3>4 DEF Landed
            <4> QED
                BY <4>1 DEF HasFile
        <3> QED
            BY <3>3, <3>4
    <2>4. CASE t # s
        <3>1. copies'[t] = copies[t]
            BY <2>1, <2>4 DEF TypeOK
        <3>2. Landed(t)' => Landed(t)
            BY <2>1, <2>2, <2>4 DEF Landed
        <3> QED
            BY <1>a, <2>2, <3>1, <3>2
    <2> QED
        BY <2>3, <2>4
<1>3. ASSUME NEW m \in mirroring, MirrorEnds(m) PROVE HasFile(t)'
    <2>1. PICK status \in {"completed", "failed"} :
             /\ reports' = reports \cup {[of |-> "mirror", snap |-> m.snap, status |-> status]}
             /\ copies' = [copies EXCEPT ![m.snap] =
                              IF status = "completed" THEN @ \cup {m.dest} ELSE @]
        BY <1>3 DEF MirrorEnds
    <2>2. mirroring' = mirroring \ {m} /\ UNCHANGED <<snap, active, replica, job, undercut>>
        BY <1>3 DEF MirrorEnds
    <2>3. Primary \in copies[t] => Primary \in copies'[t]
        BY <2>1 DEF TypeOK
    <2>4. Landed(t)' => Landed(t)
        BY <2>1, <2>2 DEF Landed
    <2> QED
        BY <1>a, <2>2, <2>3, <2>4
<1>4. ASSUME NEW h \in Hands, UpdateSnapshotStatus(h) PROVE HasFile(t)'
    <2>1. PICK r \in reports :
             /\ reports' = reports \ {r} /\ r.snap \in SnapIds
             /\ \A g \in Hands : g # h => job'[g] = job[g]
             /\ \/ /\ snap' = [snap EXCEPT ![r.snap] = r.status]
                   /\ r.status = "completed" => job'[h].snap = r.snap
                   /\ r.status # "completed" => job'[h] = Idle
                \/ UNCHANGED <<snap, job>>
        BY <1>4, UpdateJobs
    <2>2. UNCHANGED <<active, replica, copies, mirroring, undercut>>
        BY <1>4 DEF UpdateSnapshotStatus
    <2>3. ASSUME Landed(t)' PROVE Landed(t)
        <3>1. CASE UNCHANGED <<snap, job>>
            BY <2>1, <2>2, <2>3, <3>1 DEF Landed
        <3>2. CASE r.snap = t /\ r.status = "completed"
            BY <3>2 DEF Landed
        <3>3. CASE /\ snap' = [snap EXCEPT ![r.snap] = r.status]
                   /\ r.status = "completed" => job'[h].snap = r.snap
                   /\ r.status # "completed" => job'[h] = Idle
                   /\ ~(r.snap = t /\ r.status = "completed")
            <4>1. snap'[t] = "completed" => snap[t] = "completed"
                BY <2>1, <3>3 DEF TypeOK
            <4>2. \A g \in Hands : job'[g].snap = t => job[g].snap = t
                BY <1>b, <2>1, <3>3, IdleFields
            <4> QED
                BY <2>1, <2>2, <2>3, <4>1, <4>2 DEF Landed
        <3> QED
            BY <2>1, <3>1, <3>2, <3>3
    <2> QED
        BY <1>a, <2>2, <2>3
<1>5. ASSUME NEW h \in Hands, RecordPrimary(h) PROVE HasFile(t)'
    <2>1. job'[h].snap = job[h].snap /\ \A g \in Hands : g # h => job'[g] = job[g]
        BY <1>5, ContinueFields DEF RecordPrimary
    <2>2. /\ UNCHANGED <<snap, active, copies, mirroring, reports, undercut>>
          /\ job[h].snap \in SnapIds
        BY <1>5 DEF RecordPrimary, JobsFit
    <2>3. replica'[t][Primary] = "completed" => replica[t][Primary] = "completed" \/ job[h].snap = t
        <3>1. "completed" \in ReplicaStatuses
            BY DEF ReplicaStatuses
        <3> QED
            BY <1>5, <1>c, <1>d, <2>2, <3>1 DEF RecordPrimary
    <2>4. Landed(t)' => Landed(t)
        BY <2>1, <2>2, <2>3 DEF Landed
    <2> QED
        BY <1>a, <2>2, <2>4
<1>6. ASSUME NEW h \in Hands, RecordMirror(h) PROVE HasFile(t)'
    <2>1. job'[h].snap = job[h].snap /\ \A g \in Hands : g # h => job'[g] = job[g]
        BY <1>6, RecordMirrorJobs
    <2>2. /\ UNCHANGED <<snap, active, copies, mirroring, reports, undercut>>
          /\ job[h].snap \in SnapIds
        BY <1>6 DEF RecordMirror, JobsFit
    <2>3. replica'[t][Primary] = "completed" => replica[t][Primary] = "completed" \/ job[h].snap = t
        <3>1. "pending" \in ReplicaStatuses /\ (mirror \in Mirrors => mirror \in Dests)
            BY DEF ReplicaStatuses, Dests
        <3> QED
            BY <1>6, <1>c, <1>d, <2>2, <3>1 DEF RecordMirror
    <2>4. Landed(t)' => Landed(t)
        BY <2>1, <2>2, <2>3 DEF Landed
    <2> QED
        BY <1>a, <2>2, <2>4
<1>7. ASSUME NEW h \in Hands, SendMirror(h) PROVE HasFile(t)'
    <2>1. job'[h].snap = job[h].snap /\ \A g \in Hands : g # h => job'[g] = job[g]
        BY <1>7, ContinueFields DEF SendMirror
    <2>2. /\ UNCHANGED <<snap, active, copies, reports, undercut>>
          /\ job[h].snap \in SnapIds /\ job[h].dest \in Mirrors
          /\ mirroring' \subseteq mirroring \cup {[snap |-> job[h].snap, dest |-> job[h].dest]}
        BY <1>7 DEF SendMirror, JobsFit
    <2>3. replica'[t][Primary] = "completed" => replica[t][Primary] = "completed" \/ job[h].snap = t
        <3>1. "failed" \in ReplicaStatuses /\ job[h].dest \in Dests
            BY <2>2 DEF ReplicaStatuses, Dests
        <3> QED
            BY <1>7, <1>c, <1>d, <2>2, <3>1 DEF SendMirror
    <2>4. Landed(t)' => Landed(t)
        BY <2>1, <2>2, <2>3 DEF Landed
    <2> QED
        BY <1>a, <2>2, <2>4
<1>8. ASSUME NEW h \in Hands, ListStale(h) PROVE HasFile(t)'
    <2>1. job'[h].snap = NoSnap /\ \A g \in Hands : g # h => job'[g] = job[g]
        BY <1>8, ListJobs
    <2>2. UNCHANGED <<snap, active, replica, copies, mirroring, reports, undercut>>
        BY <1>8 DEF ListStale
    <2>3. Landed(t)' => Landed(t)
        BY <1>b, <2>1, <2>2 DEF Landed
    <2> QED
        BY <1>a, <2>2, <2>3
<1>9. ASSUME NEW h \in Hands, Expire(h) PROVE HasFile(t)'
    <2> DEFINE s == Max(job[h].todo)
    <2>1. /\ job'[h].snap \in {NoSnap, job[h].snap} /\ s \in SnapIds
          /\ \A g \in Hands : g # h => job'[g] = job[g]
        BY <1>9, ExpireJobs
    <2>2. /\ UNCHANGED <<snap, replica, mirroring, reports>> /\ DeleteFile(s)
          /\ \/ active' = [active EXCEPT ![s] = FALSE] /\ UNCHANGED undercut
             \/ undercut' = TRUE /\ UNCHANGED active
        BY <1>9 DEF Expire
    <2> HIDE DEF s
    <2>3. Landed(t)' => Landed(t)
        BY <1>b, <2>1, <2>2 DEF Landed
    <2>4. CASE undercut' = TRUE
        BY <2>4 DEF HasFile
    <2>5. CASE active' = [active EXCEPT ![s] = FALSE] /\ UNCHANGED undercut
        <3>1. active'[t] => active[t] /\ t # s
            BY <2>1, <2>5 DEF TypeOK
        <3>2. t # s => copies'[t] = copies[t]
            BY <2>1, <2>2, DeleteFileKeeps
        <3> QED
            BY <1>0, <2>3, <2>5, <3>1, <3>2 DEF HasFile
    <2> QED
        BY <2>2, <2>4, <2>5
<1>10. ASSUME HandleMirrorStatus PROVE HasFile(t)'
    <2>1. PICK r \in reports :
             /\ r.of = "mirror" /\ reports' = reports \ {r}
             /\ \/ mirror # NoDest /\ UpsertSnapshotReplica(r.snap, mirror, r.status)
                \/ UNCHANGED replica
        BY <1>10 DEF HandleMirrorStatus
    <2>2. UNCHANGED <<snap, active, copies, mirroring, job, undercut>>
        BY <1>10 DEF HandleMirrorStatus
    <2>3. r.snap \in SnapIds /\ r.status \in ReplicaStatuses
        BY <2>1 DEF TypeOK, Report, JobsFit, ReplicaStatuses
    <2>4. mirror # NoDest => mirror \in Dests
        BY DEF TypeOK
    <2>5. replica'[t][Primary] = "completed" => replica[t][Primary] = "completed" \/ r.snap = t
        BY <1>c, <1>d, <2>1, <2>3, <2>4
    <2>6. Landed(t)' => Landed(t)
        BY <2>1, <2>2, <2>5 DEF Landed
    <2> QED
        BY <1>a, <2>2, <2>6
<1>11. ASSUME NEW s \in SnapIds, DeleteSnapshot(s) PROVE HasFile(t)'
    <2>1. /\ UNCHANGED <<snap, replica, mirroring, reports, job>> /\ DeleteFile(s)
          /\ \/ active' = [active EXCEPT ![s] = FALSE]
             \/ UNCHANGED active /\ undercut'
        BY <1>11 DEF DeleteSnapshot
    <2>2. active'[t] => (active[t] /\ (t # s \/ undercut'))
        BY <2>1 DEF TypeOK
    <2>u. undercut => undercut'
        BY <1>11 DEF DeleteSnapshot
    <2>3. t # s => copies'[t] = copies[t]
        BY <2>1, DeleteFileKeeps
    <2>4. Landed(t)' => Landed(t)
        BY <2>1 DEF Landed
    <2> QED
        BY <1>0, <2>1, <2>2, <2>3, <2>4, <2>u DEF HasFile
<1>12. ASSUME EditMirror PROVE HasFile(t)'
    <2>1. UNCHANGED <<snap, active, replica, copies, mirroring, reports, job, undercut>>
        BY <1>12 DEF EditMirror
    <2>2. Landed(t)' => Landed(t)
        BY <2>1 DEF Landed
    <2> QED
        BY <1>a, <2>1, <2>2
<1>13. ASSUME Restart PROVE HasFile(t)'
    <2>1. \A h \in Hands : job'[h].snap = NoSnap
        BY <1>13, IdleFields DEF Restart
    <2>2. UNCHANGED <<snap, active, replica, copies, mirroring, reports, undercut>>
        BY <1>13 DEF Restart
    <2>3. Landed(t)' => Landed(t)
        BY <1>b, <2>1, <2>2 DEF Landed
    <2> QED
        BY <1>a, <2>2, <2>3
<1>14. ASSUME UNCHANGED vars PROVE HasFile(t)'
    <2>1. UNCHANGED <<snap, active, replica, copies, mirroring, reports, job, undercut>>
        BY <1>14 DEF vars
    <2> QED
        BY <1>0, <2>1 DEF HasFile, Landed
<1> QED
    BY <1>1, <1>2, <1>3, <1>4, <1>5, <1>6, <1>7, <1>8, <1>9, <1>10, <1>11, <1>12, <1>13,
       <1>14 DEF Next, HandStep

-----------------------------------------------------------------------------
(* Mirrors                                                                   *)

(***************************************************************************)
(* While the mirror is not changed under a copy, what is under way and     *)
(* what is recorded of mirrors stays true.                                 *)
(***************************************************************************)
LEMMA MirrorsStep ==
    TypeOK /\ JobsFit /\ FreshAreUnseen /\ MirrorsMatch /\ [Next]_vars => MirrorsMatch'
<1> SUFFICES ASSUME TypeOK, JobsFit, FreshAreUnseen, MirrorsMatch, [Next]_vars, ~redirected'
             PROVE  CopiesMatch' /\ AnswersMatch' /\ ReplicasMatch'
    BY DEF MirrorsMatch
<1> USE DEF rows, worker, history
<1> DEFINE Goal == CopiesMatch' /\ AnswersMatch' /\ ReplicasMatch'
<1>0. ASSUME ~redirected PROVE CopiesMatch /\ AnswersMatch /\ ReplicasMatch
    BY <1>0 DEF MirrorsMatch
<1>a. \A d \in Mirrors : d \in Dests /\ d # Primary
    BY CopiesAssumption DEF Dests
<1>1. ASSUME NEW s \in SnapIds, StartSnapshot(s) PROVE Goal
    <2>1. /\ reports' = reports \cup {[of |-> "dump", snap |-> s, status |-> "running"]}
          /\ UNCHANGED <<replica, mirror, copies, mirroring, job, redirected>>
        BY <1>1 DEF StartSnapshot
    <2>2. CopiesMatch'
        BY <1>0, <2>1 DEF CopiesMatch
    <2>3. AnswersMatch'
        BY <1>0, <2>1 DEF AnswersMatch
    <2>4. ReplicasMatch'
        BY <1>0, <2>1 DEF ReplicasMatch
    <2> QED
        BY <2>2, <2>3, <2>4
<1>2. ASSUME NEW s \in SnapIds, DumpEnds(s) PROVE Goal
    <2>1. PICK status \in {"completed", "failed"} :
             /\ reports' = reports \cup {[of |-> "dump", snap |-> s, status |-> status]}
             /\ copies' = [copies EXCEPT ![s] = IF status = "completed" THEN {Primary} ELSE {}]
        BY <1>2 DEF DumpEnds
    <2>2. s \in dumping /\ UNCHANGED <<replica, mirror, mirroring, job, redirected>>
        BY <1>2 DEF DumpEnds
    <2>3. Unseen(s)
        BY <2>2 DEF FreshAreUnseen, Fresh
    <2>4. \A t \in SnapIds : t # s => copies'[t] = copies[t]
        BY <2>1 DEF TypeOK
    <2>5. CopiesMatch'
        BY <1>0, <2>2 DEF CopiesMatch
    <2>6. AnswersMatch'
        <3>1. \A r \in reports : r.of = "mirror" => r.snap # s /\ r.snap \in SnapIds
            BY <2>3 DEF Unseen, TypeOK, Report
        <3> QED
            BY <1>0, <2>1, <2>2, <2>4, <3>1 DEF AnswersMatch
    <2>7. ReplicasMatch'
        <3>1. \A d \in Mirrors : replica[s][d] # "completed"
            BY <1>a, <2>3 DEF Unseen
        <3> QED
            BY <1>0, <2>2, <2>4, <3>1 DEF ReplicasMatch
    <2> QED
        BY <2>5, <2>6, <2>7
<1>3. ASSUME NEW m \in mirroring, MirrorEnds(m) PROVE Goal
    <2>1. PICK status \in {"completed", "failed"} :
             /\ reports' = reports \cup {[of |-> "mirror", snap |-> m.snap, status |-> status]}
             /\ copies' = [copies EXCEPT ![m.snap] =
                              IF status = "completed" THEN @ \cup {m.dest} ELSE @]
        BY <1>3 DEF MirrorEnds
    <2>2. mirroring' = mirroring \ {m} /\ UNCHANGED <<replica, mirror, job, redirected>>
        BY <1>3 DEF MirrorEnds
    <2>3. m.snap \in SnapIds /\ m.dest \in Mirrors /\ m.dest = mirror
        BY <1>0, <2>2 DEF TypeOK, Mirroring, CopiesMatch
    <2>4. /\ \A t \in SnapIds : copies[t] \subseteq copies'[t]
          /\ status = "completed" => mirror \in copies'[m.snap]
        BY <2>1, <2>3 DEF TypeOK
    <2>5. CopiesMatch'
        BY <1>0, <2>2 DEF CopiesMatch
    <2>6. AnswersMatch'
        <3>1. \A r \in reports : r.snap \in SnapIds
            BY DEF TypeOK, Report
        <3> QED
            BY <1>0, <2>1, <2>2, <2>3, <2>4, <3>1 DEF AnswersMatch
    <2>7. ReplicasMatch'
        BY <1>0, <2>2, <2>4 DEF ReplicasMatch
    <2> QED
        BY <2>5, <2>6, <2>7
<1>4. ASSUME NEW h \in Hands, UpdateSnapshotStatus(h) PROVE Goal
    <2>1. PICK r \in reports :
             /\ reports' = reports \ {r}
             /\ \A g \in Hands : g # h => job'[g] = job[g]
             /\ \/ /\ r.status = "completed" => job'[h].pc = "record"
                   /\ r.status # "completed" => job'[h] = Idle
                \/ UNCHANGED job
        BY <1>4, UpdateJobs
    <2>2. UNCHANGED <<replica, mirror, copies, mirroring, redirected>>
        BY <1>4 DEF UpdateSnapshotStatus
    <2>3. \A g \in Hands : job'[g].pc = "send" => job'[g] = job[g]
        BY <2>1, IdleFields
    <2>4. CopiesMatch'
        BY <1>0, <2>2, <2>3 DEF CopiesMatch
    <2>5. AnswersMatch'
        BY <1>0, <2>1, <2>2 DEF AnswersMatch
    <2>6. ReplicasMatch'
        BY <1>0, <2>2 DEF ReplicasMatch
    <2> QED
        BY <2>4, <2>5, <2>6
<1>b. ASSUME NEW s \in SnapIds, NEW d \in Dests, NEW status \in ReplicaStatuses,
             UpsertSnapshotReplica(s, d, status), UNCHANGED <<copies, redirected>>,
             d \in Mirrors /\ status = "completed" => d \in copies[s]
      PROVE  ReplicasMatch'
    <2>1. \A r \in SnapIds, e \in Dests :
             replica'[r][e] = replica[r][e] \/ (r = s /\ e = d /\ replica'[r][e] = status)
        BY <1>b, UpsertKeeps
    <2>2. ASSUME NEW r \in SnapIds, NEW e \in Mirrors, replica'[r][e] = "completed"
          PROVE  e \in copies[r]
        BY <1>0, <1>a, <1>b, <2>1, <2>2 DEF ReplicasMatch
    <2> QED
        BY <1>b, <2>2 DEF ReplicasMatch
<1>c. ASSUME UNCHANGED <<replica, copies, redirected>> PROVE ReplicasMatch'
    BY <1>0, <1>c DEF ReplicasMatch
<1>d. ASSUME UNCHANGED <<reports, mirror, copies, redirected>> PROVE AnswersMatch'
    BY <1>0, <1>d DEF AnswersMatch
<1>e. ASSUME NEW h \in Hands, job'[h].pc = "send" => job'[h].dest = mirror,
             \A g \in Hands : g # h => job'[g] = job[g],
             UNCHANGED <<mirroring, mirror, redirected>>
      PROVE  CopiesMatch'
    BY <1>0, <1>e DEF CopiesMatch
<1>5. ASSUME NEW h \in Hands, RecordPrimary(h) PROVE Goal
    <2>1. /\ job'[h].pc \in {"mirror", "retain"}
          /\ \A g \in Hands : g # h => job'[g] = job[g]
        BY <1>5, ContinueFields DEF RecordPrimary
    <2>2. /\ UNCHANGED <<mirror, copies, mirroring, reports, redirected>>
          /\ job[h].snap \in SnapIds
        BY <1>5 DEF RecordPrimary, JobsFit
    <2>3. CopiesMatch'
        BY <1>e, <2>1, <2>2
    <2>4. Primary \in Dests /\ Primary \notin Mirrors /\ "completed" \in ReplicaStatuses
        BY CopiesAssumption DEF Dests, ReplicaStatuses
    <2>5. ReplicasMatch'
        BY <1>5, <1>b, <1>c, <2>2, <2>4 DEF RecordPrimary
    <2> QED
        BY <1>d, <2>2, <2>3, <2>5
<1>6. ASSUME NEW h \in Hands, RecordMirror(h) PROVE Goal
    <2>1. /\ \/ job'[h].pc = "retain"
             \/ job'[h].pc = "send" /\ job'[h].dest = mirror
          /\ \A g \in Hands : g # h => job'[g] = job[g]
        BY <1>6, RecordMirrorJobs
    <2>2. /\ UNCHANGED <<mirror, copies, mirroring, reports, redirected>>
          /\ job[h].snap \in SnapIds
        BY <1>6 DEF RecordMirror, JobsFit
    <2>3. CopiesMatch'
        BY <1>e, <2>1, <2>2
    <2>4. (mirror \in Mirrors => mirror \in Dests) /\ "pending" \in ReplicaStatuses
        BY DEF Dests, ReplicaStatuses
    <2>5. ReplicasMatch'
        BY <1>6, <1>b, <1>c, <2>2, <2>4 DEF RecordMirror
    <2> QED
        BY <1>d, <2>2, <2>3, <2>5
<1>7. ASSUME NEW h \in Hands, SendMirror(h) PROVE Goal
    <2>1. job'[h].pc = "retain" /\ \A g \in Hands : g # h => job'[g] = job[g]
        BY <1>7, ContinueFields DEF SendMirror
    <2>2. /\ UNCHANGED <<mirror, copies, reports, redirected>>
          /\ job[h].pc = "send" /\ job[h].snap \in SnapIds /\ job[h].dest \in Mirrors
          /\ mirroring' \subseteq mirroring \cup {[snap |-> job[h].snap, dest |-> job[h].dest]}
        BY <1>7 DEF SendMirror, JobsFit
    <2>3. CopiesMatch'
        BY <1>0, <2>1, <2>2 DEF CopiesMatch
    <2>4. job[h].dest \in Dests /\ "failed" \in ReplicaStatuses
        BY <2>2 DEF Dests, ReplicaStatuses
    <2>5. ReplicasMatch'
        BY <1>7, <1>b, <1>c, <2>2, <2>4 DEF SendMirror
    <2> QED
        BY <1>d, <2>2, <2>3, <2>5
<1>8. ASSUME NEW h \in Hands, ListStale(h) PROVE Goal
    <2>1. /\ job'[h].pc \in {"idle", "expire"}
          /\ \A g \in Hands : g # h => job'[g] = job[g]
        BY <1>8, ListJobs
    <2>2. UNCHANGED <<replica, mirror, copies, mirroring, reports, redirected>>
        BY <1>8 DEF ListStale
    <2> QED
        BY <1>c, <1>d, <1>e, <2>1, <2>2
<1>f. ASSUME NEW s \in SnapIds, DeleteFile(s), UNCHANGED <<replica, mirror, reports, redirected>>
      PROVE  AnswersMatch' /\ ReplicasMatch'
    <2>1. \A t \in SnapIds, d \in Mirrors : d \in copies[t] => d \in copies'[t]
        BY <1>f, DeleteFileKeeps
    <2>2. \A r \in reports : r.snap \in SnapIds
        BY DEF TypeOK, Report
    <2>3. AnswersMatch'
        BY <1>0, <1>f, <2>1, <2>2 DEF AnswersMatch
    <2>4. ReplicasMatch'
        BY <1>0, <1>f, <2>1 DEF ReplicasMatch
    <2> QED
        BY <2>3, <2>4
<1>9. ASSUME NEW h \in Hands, Expire(h) PROVE Goal
    <2>1. /\ Max(job[h].todo) \in SnapIds /\ job'[h].pc \in {"idle", "expire"}
          /\ \A g \in Hands : g # h => job'[g] = job[g]
        BY <1>9, ExpireJobs
    <2>2. /\ UNCHANGED <<replica, mirror, mirroring, reports, redirected>>
          /\ DeleteFile(Max(job[h].todo))
        BY <1>9 DEF Expire
    <2> QED
        BY <1>e, <1>f, <2>1, <2>2
<1>10. ASSUME HandleMirrorStatus PROVE Goal
    <2>1. PICK r \in reports :
             /\ r.of = "mirror" /\ reports' = reports \ {r}
             /\ \/ mirror # NoDest /\ UpsertSnapshotReplica(r.snap, mirror, r.status)
                \/ UNCHANGED replica
        BY <1>10 DEF HandleMirrorStatus
    <2>2. UNCHANGED <<mirror, copies, mirroring, job, redirected>>
        BY <1>10 DEF HandleMirrorStatus
    <2>3. CopiesMatch'
        BY <1>0, <2>2 DEF CopiesMatch
    <2>4. AnswersMatch'
        BY <1>0, <2>1, <2>2 DEF AnswersMatch
    <2>5. ReplicasMatch'
        <3>1. r.snap \in SnapIds /\ r.status \in ReplicaStatuses
            BY <2>1 DEF TypeOK, Report, JobsFit, ReplicaStatuses
        <3>2. mirror # NoDest => mirror \in Dests
            BY DEF TypeOK
        <3>3. r.status = "completed" => mirror \in copies[r.snap]
            BY <1>0, <2>1, <2>2 DEF AnswersMatch
        <3> QED
            BY <1>b, <1>c, <2>1, <2>2, <3>1, <3>2, <3>3
    <2> QED
        BY <2>3, <2>4, <2>5
<1>11. ASSUME NEW s \in SnapIds, DeleteSnapshot(s) PROVE Goal
    <2>1. /\ UNCHANGED <<replica, mirror, mirroring, reports, job, redirected>>
          /\ DeleteFile(s)
        BY <1>11 DEF DeleteSnapshot
    <2>2. CopiesMatch'
        BY <1>0, <2>1 DEF CopiesMatch
    <2> QED
        BY <1>f, <2>1, <2>2
<1>12. ASSUME EditMirror PROVE Goal
    <2>1. /\ UNCHANGED <<replica, copies, mirroring, reports, job>>
          /\ ~redirected /\ mirroring = {}
          /\ \A h \in Hands : job[h].pc # "send"
          /\ \A r \in reports : r.of # "mirror"
        BY <1>12 DEF EditMirror
    <2>2. CopiesMatch'
        BY <2>1 DEF CopiesMatch
    <2>3. AnswersMatch'
        BY <2>1 DEF AnswersMatch
    <2>4. ReplicasMatch'
        BY <1>0, <2>1 DEF ReplicasMatch
    <2> QED
        BY <2>2, <2>3, <2>4
<1>13. ASSUME Restart PROVE Goal
    <2>1. /\ UNCHANGED <<replica, mirror, copies, mirroring, reports, redirected>>
          /\ \A h \in Hands : job'[h].pc = "idle"
        BY <1>13, IdleFields DEF Restart
    <2>2. CopiesMatch'
        BY <1>0, <2>1 DEF CopiesMatch
    <2> QED
        BY <1>c, <1>d, <2>1, <2>2
<1>14. ASSUME UNCHANGED vars PROVE Goal
    <2>1. UNCHANGED <<replica, mirror, copies, mirroring, reports, job, redirected>>
        BY <1>14 DEF vars
    <2>2. CopiesMatch'
        BY <1>0, <2>1 DEF CopiesMatch
    <2> QED
        BY <1>c, <1>d, <2>1, <2>2
<1> QED
    BY <1>1, <1>2, <1>3, <1>4, <1>5, <1>6, <1>7, <1>8, <1>9, <1>10, <1>11, <1>12, <1>13,
       <1>14 DEF Next, HandStep

-----------------------------------------------------------------------------
(* Retention                                                                 *)

(***************************************************************************)
(* What a pass lists leaves two newer snapshots that have their files.     *)
(***************************************************************************)
LEMMA StaleLeavesTwo ==
    ASSUME TypeOK, LandedHaveFile, ~undercut, Stale # {}
    PROVE  \E a, b \in SnapIds :
              /\ a < b /\ Primary \in copies[a] /\ Primary \in copies[b]
              /\ \A s \in Stale : s < a
<1> DEFINE successful == {s \in SnapIds : active[s] /\ snap[s] = "completed"}
           newest == Max(Stale)
           newer == {r \in successful : r > newest}
<1>1. Stale \in SUBSET SnapIds
    BY DEF Stale
<1>2. newest \in Stale /\ \A s \in Stale : s <= newest
    BY <1>1, NewestSnapshot
<1> HIDE DEF newest
<1>3. Cardinality(newer) >= Keep
    BY <1>2 DEF Stale
<1>4. Keep >= 2 /\ Keep \in Nat
    BY CopiesAssumption DEF Keep, minSnapshotRedundancy
<1>5. newer \in SUBSET SnapIds
    OBVIOUS
<1>6. Cardinality(newer) >= 2
    <2>1. Cardinality(newer) \in Nat
        <3> HIDE DEF newer
        <3>1. IsFiniteSet(newer)
            BY <1>5, SnapshotsFinite
        <3> QED
            BY <3>1, FS_CardinalityType
    <2> QED
        BY <1>3, <1>4, <2>1
<1>7. PICK a \in newer, b \in newer : a < b
    <2> HIDE DEF newer
    <2> QED
        BY <1>5, <1>6, TwoMembers
<1>8. \A r \in newer : Primary \in copies[r]
    BY DEF LandedHaveFile, HasFile, Landed
<1>9. \A s \in Stale : s < a
    <2>1. a > newest /\ a \in Nat /\ newest \in Nat
        BY <1>1, <1>2, <1>7, CopiesAssumption DEF SnapIds
    <2>2. \A s \in Stale : s \in Nat
        BY <1>1, CopiesAssumption DEF SnapIds
    <2> QED
        BY <1>2, <2>1, <2>2
<1> QED
    BY <1>7, <1>8, <1>9

(***************************************************************************)
(* Every step leaves two files out of the reach of all passes.             *)
(***************************************************************************)
LEMMA PassesStep ==
    /\ TypeOK /\ JobsFit /\ FreshAreUnseen /\ LandedHaveFile /\ PassesSpareTwo
    /\ [Next]_vars
    => PassesSpareTwo'
<1> SUFFICES ASSUME TypeOK, JobsFit, FreshAreUnseen, LandedHaveFile, PassesSpareTwo,
                    [Next]_vars, ~undercut', \E h \in Hands : job'[h].pc = "expire"
             PROVE  \E a, b \in SnapIds : Spared(a, b)'
    BY DEF PassesSpareTwo
<1> USE DEF rows, worker, history
<1> DEFINE Goal == \E a, b \in SnapIds : Spared(a, b)'
<1>a. ASSUME ~undercut, \E h \in Hands : job[h].pc = "expire"
      PROVE  \E a, b \in SnapIds : Spared(a, b)
    BY <1>a DEF PassesSpareTwo
<1>b. ASSUME UNCHANGED undercut,
             \A h \in Hands : job'[h].pc = "expire" => job'[h] = job[h],
             \A t \in SnapIds : Primary \in copies[t] => Primary \in copies'[t]
      PROVE  Goal
    <2>1. PICK a \in SnapIds, b \in SnapIds : Spared(a, b)
        BY <1>a, <1>b
    <2>2. Spared(a, b)'
        BY <1>b, <2>1 DEF Spared
    <2> QED
        BY <2>2
<1>1. ASSUME NEW s \in SnapIds, StartSnapshot(s) PROVE Goal
    BY <1>b, <1>1 DEF StartSnapshot
<1>2. ASSUME NEW s \in SnapIds, DumpEnds(s) PROVE Goal
    <2>1. UNCHANGED <<job, undercut>> /\ s \in dumping
        BY <1>2 DEF DumpEnds
    <2>2. Primary \notin copies[s]
        BY <2>1 DEF FreshAreUnseen, Fresh, Unseen
    <2>3. \A t \in SnapIds : t # s => copies'[t] = copies[t]
        BY <1>2 DEF DumpEnds, TypeOK
    <2> QED
        BY <1>b, <2>1, <2>2, <2>3
<1>3. ASSUME NEW m \in mirroring, MirrorEnds(m) PROVE Goal
    <2>1. UNCHANGED <<job, undercut>>
        BY <1>3 DEF MirrorEnds
    <2>2. \A t \in SnapIds : Primary \in copies[t] => Primary \in copies'[t]
        BY <1>3 DEF MirrorEnds, TypeOK
    <2> QED
        BY <1>b, <2>1, <2>2
<1>4. ASSUME NEW h \in Hands, UpdateSnapshotStatus(h) PROVE Goal
    <2>1. /\ \A g \in Hands : g # h => job'[g] = job[g]
          /\ job'[h].pc = "record" \/ job'[h] = Idle \/ UNCHANGED job
        BY <1>4, UpdateJobs
    <2>2. UNCHANGED <<copies, undercut>>
        BY <1>4 DEF UpdateSnapshotStatus
    <2>3. \A g \in Hands : job'[g].pc = "expire" => job'[g] = job[g]
        BY <2>1, IdleFields
    <2> QED
        BY <1>b, <2>2, <2>3
<1>5. ASSUME NEW h \in Hands, RecordPrimary(h) PROVE Goal
    <2>1. /\ job'[h].pc \in {"mirror", "retain"}
          /\ \A g \in Hands : g # h => job'[g] = job[g]
        BY <1>5, ContinueFields DEF RecordPrimary
    <2>2. UNCHANGED <<copies, undercut>>
        BY <1>5 DEF RecordPrimary
    <2> QED
        BY <1>b, <2>1, <2>2
<1>6. ASSUME NEW h \in Hands, RecordMirror(h) PROVE Goal
    <2>1. /\ job'[h].pc \in {"send", "retain"}
          /\ \A g \in Hands : g # h => job'[g] = job[g]
        BY <1>6, RecordMirrorJobs
    <2>2. UNCHANGED <<copies, undercut>>
        BY <1>6 DEF RecordMirror
    <2> QED
        BY <1>b, <2>1, <2>2
<1>7. ASSUME NEW h \in Hands, SendMirror(h) PROVE Goal
    <2>1. job'[h].pc = "retain" /\ \A g \in Hands : g # h => job'[g] = job[g]
        BY <1>7, ContinueFields DEF SendMirror
    <2>2. UNCHANGED <<copies, undercut>>
        BY <1>7 DEF SendMirror
    <2> QED
        BY <1>b, <2>1, <2>2
<1>8. ASSUME NEW h \in Hands, ListStale(h) PROVE Goal
    <2>1. /\ \/ job'[h].pc = "idle"
             \/ Stale # {} /\ job'[h].pc = "expire" /\ job'[h].todo = Stale
          /\ \A g \in Hands : g # h => job'[g] = job[g]
        BY <1>8, ListJobs
    <2>2. UNCHANGED <<copies, undercut>>
        BY <1>8 DEF ListStale
    <2>3. CASE job'[h].pc = "idle"
        BY <1>b, <2>1, <2>2, <2>3
    <2>4. CASE Stale # {} /\ job'[h].pc = "expire" /\ job'[h].todo = Stale
        <3>1. PICK c \in SnapIds, d \in SnapIds :
                 /\ c < d /\ Primary \in copies[c] /\ Primary \in copies[d]
                 /\ \A s \in Stale : s < c
            BY <2>2, <2>4, StaleLeavesTwo
        <3>2. CASE \A g \in Hands : g # h => job[g].pc # "expire"
            <4>1. Spared(c, d)'
                BY <2>1, <2>2, <2>4, <3>1, <3>2 DEF Spared
            <4> QED
                BY <4>1
        <3>3. CASE \E g \in Hands : g # h /\ job[g].pc = "expire"
            <4>1. PICK a \in SnapIds, b \in SnapIds : Spared(a, b)
                BY <1>a, <2>2, <3>3
            <4>2. \A g \in Hands : job[g].todo \subseteq SnapIds
                BY JobFields
            <4>3. Stale \subseteq SnapIds
                BY DEF Stale
            <4>4. SnapIds \subseteq Nat
                BY CopiesAssumption DEF SnapIds
            <4>5. CASE a < c
                <5>1. ASSUME NEW g \in Hands, g # h, job[g].pc = "expire", NEW s \in job[g].todo
                      PROVE  s < c
                    <6>1. s < a /\ s \in Nat /\ a \in Nat /\ c \in Nat
                        BY <4>1, <4>2, <4>4, <5>1 DEF Spared
                    <6> QED
                        BY <4>5, <6>1
                <5>2. Spared(c, d)'
                    BY <2>1, <2>2, <2>4, <3>1, <5>1 DEF Spared
                <5> QED
                    BY <5>2
            <4>6. CASE ~(a < c)
                <5>1. ASSUME NEW s \in Stale PROVE s < a
                    <6>1. s < c /\ s \in Nat /\ a \in Nat /\ c \in Nat
                        BY <3>1, <4>3, <4>4
                    <6> QED
                        BY <4>6, <6>1
                <5>2. Spared(a, b)'
                    BY <2>1, <2>2, <2>4, <4>1, <5>1 DEF Spared
                <5> QED
                    BY <5>2
            <4> QED
                BY <4>5, <4>6
        <3> QED
            BY <3>2, <3>3
    <2> QED
        BY <2>1, <2>3, <2>4
<1>9. ASSUME NEW h \in Hands, Expire(h) PROVE Goal
    <2> DEFINE s == Max(job[h].todo)
    <2>1. /\ s \in job[h].todo /\ s \in SnapIds
          /\ job'[h].todo \subseteq job[h].todo
          /\ \A g \in Hands : g # h => job'[g] = job[g]
        BY <1>9, ExpireJobs
    <2>2. job[h].pc = "expire" /\ DeleteFile(s) /\ ~undercut
        BY <1>9 DEF Expire
    <2> HIDE DEF s
    <2>3. PICK a \in SnapIds, b \in SnapIds : Spared(a, b)
        BY <1>a, <2>2
    <2>4. s < a /\ a < b
        BY <2>1, <2>2, <2>3 DEF Spared
    <2>5. s # a /\ s # b
        BY <2>1, <2>3, <2>4, CopiesAssumption DEF SnapIds
    <2>6. copies'[a] = copies[a] /\ copies'[b] = copies[b]
        BY <2>1, <2>2, <2>5, DeleteFileKeeps
    <2>7. Spared(a, b)'
        BY <2>1, <2>2, <2>3, <2>6 DEF Spared
    <2> QED
        BY <2>7
<1>10. ASSUME HandleMirrorStatus PROVE Goal
    BY <1>b, <1>10 DEF HandleMirrorStatus
<1>11. ASSUME NEW s \in SnapIds, DeleteSnapshot(s) PROVE Goal
    BY <1>11 DEF DeleteSnapshot
<1>12. ASSUME EditMirror PROVE Goal
    BY <1>b, <1>12 DEF EditMirror
<1>13. ASSUME Restart PROVE Goal
    BY <1>13, IdleFields DEF Restart
<1>14. ASSUME UNCHANGED vars PROVE Goal
    BY <1>b, <1>14 DEF vars
<1> QED
    BY <1>1, <1>2, <1>3, <1>4, <1>5, <1>6, <1>7, <1>8, <1>9, <1>10, <1>11, <1>12, <1>13,
       <1>14 DEF Next, HandStep

-----------------------------------------------------------------------------
(* Theorems                                                                  *)

(***************************************************************************)
(* The inductive invariant holds at the start, and every step keeps it.    *)
(***************************************************************************)
LEMMA CopyInit == Init => CopyInv
<1> SUFFICES ASSUME Init PROVE CopyInv
    OBVIOUS
<1>1. TypeOK
    BY TypeInit
<1>2. \A h \in Hands : job[h].pc = "idle" /\ job[h].snap = NoSnap
    BY IdleFields DEF Init
<1>3. mirroring = {} /\ reports = {} /\ dumping = {}
    BY DEF Init
<1>4. JobsFit
    BY <1>2, <1>3 DEF JobsFit
<1>5. ASSUME NEW s \in SnapIds PROVE Fresh(s) /\ HasFile(s)
    <2>1. CASE s <= Seeded
        <3>1. snap[s] = "completed" /\ copies[s] = {Primary}
            BY <2>1 DEF Init
        <3> QED
            BY <1>3, <3>1 DEF Fresh, HasFile
    <2>2. CASE ~(s <= Seeded)
        <3>1. /\ snap[s] = "none" /\ copies[s] = {}
              /\ \A d \in Dests : replica[s][d] = "none"
            BY <2>2 DEF Init
        <3>2. \A h \in Hands : job[h].snap # s
            BY <1>2, IdleFields
        <3>3. Unseen(s)
            BY <1>3, <3>1, <3>2 DEF Unseen
        <3> QED
            BY <1>3, <3>3, UnseenNotLanded DEF Fresh, HasFile
    <2> QED
        BY <2>1, <2>2
<1>6. ReplicasMatch
    <2>1. \A d \in Mirrors : d \in Dests /\ d # Primary
        BY CopiesAssumption DEF Dests
    <2>2. ASSUME NEW s \in SnapIds, NEW d \in Mirrors PROVE replica[s][d] = "none"
        BY <2>1 DEF Init
    <2> QED
        BY <2>2 DEF ReplicasMatch
<1>7. CopiesMatch /\ AnswersMatch
    BY <1>2, <1>3 DEF CopiesMatch, AnswersMatch
<1>8. PassesSpareTwo
    BY <1>2 DEF PassesSpareTwo
<1> QED
    BY <1>1, <1>4, <1>5, <1>6, <1>7, <1>8
    DEF CopyInv, FreshAreUnseen, LandedHaveFile, MirrorsMatch

LEMMA CopyStep == CopyInv /\ [Next]_vars => CopyInv'
BY TypeStep, JobsStep, FreshStep, LandedStep, MirrorsStep, PassesStep DEF CopyInv

LEMMA CopyInvariant == Spec => []CopyInv
BY CopyInit, CopyStep, PTL DEF Spec

(***************************************************************************)
(* Every table, message and goroutine of the snapshot handlers keeps to    *)
(* its kind of value.                                                      *)
(***************************************************************************)
THEOREM TypeCorrect == Spec => []TypeOK
<1>1. CopyInv => TypeOK
    BY DEF CopyInv
<1> QED
    BY <1>1, CopyInvariant, PTL

(***************************************************************************)
(* Whatever handlers, late reports and deletes do together, a replica      *)
(* counted as completed is a file at that destination                      *)
(* (recordPrimaryReplicaAndMirror, handleMirrorStatus).                    *)
(***************************************************************************)
THEOREM ReplicasAreReal == Spec => []ReplicaIsReal
<1>1. CopyInv => ReplicaIsReal
    <2> SUFFICES ASSUME CopyInv, ~redirected, ~undercut, NEW s \in SnapIds, NEW d \in Dests,
                        active[s], replica[s][d] = "completed"
                 PROVE  d \in copies[s]
        BY DEF ReplicaIsReal
    <2>1. CASE d = Primary
        BY <2>1 DEF CopyInv, LandedHaveFile, HasFile, Landed
    <2>2. CASE d \in Mirrors
        BY <2>2 DEF CopyInv, MirrorsMatch, ReplicasMatch
    <2> QED
        BY <2>1, <2>2 DEF Dests
<1> QED
    BY <1>1, CopyInvariant, PTL

(***************************************************************************)
(* A retention pass that removes a file leaves two others at the primary,  *)
(* for every retention_count and however many passes overlap               *)
(* (applySnapshotRetention).                                               *)
(***************************************************************************)
THEOREM RetentionKeepsFloor == Spec => RetentionFloor
<1> DEFINE Held == {s \in SnapIds : Primary \in copies'[s]}
           Floor == expired' # expired /\ ~undercut => Cardinality(Held) >= minSnapshotRedundancy
<1>1. ASSUME CopyInv, [Next]_vars PROVE [Floor]_vars
    <2> SUFFICES ASSUME Next, expired' # expired, ~undercut
                 PROVE  Cardinality(Held) >= 2
        BY <1>1 DEF minSnapshotRedundancy
    <2>1. PICK h \in Hands : Expire(h)
        BY DEF Next, HandStep, StartSnapshot, DumpEnds, MirrorEnds, UpdateSnapshotStatus,
               RecordPrimary, RecordMirror, SendMirror, ListStale, HandleMirrorStatus,
               DeleteSnapshot, EditMirror, Restart, history
    <2> DEFINE s == Max(job[h].todo)
    <2>2. s \in job[h].todo /\ s \in SnapIds
        BY <1>1, <2>1, ExpireJobs DEF CopyInv
    <2>3. job[h].pc = "expire" /\ DeleteFile(s)
        BY <2>1 DEF Expire
    <2> HIDE DEF s
    <2>4. PICK a \in SnapIds, b \in SnapIds : Spared(a, b)
        BY <1>1, <2>3 DEF CopyInv, PassesSpareTwo
    <2>5. s < a /\ a < b /\ Primary \in copies[a] /\ Primary \in copies[b]
        BY <2>2, <2>3, <2>4 DEF Spared
    <2>6. s # a /\ s # b /\ a # b
        BY <2>2, <2>5, CopiesAssumption DEF SnapIds
    <2>7. copies'[a] = copies[a] /\ copies'[b] = copies[b]
        BY <1>1, <2>2, <2>3, <2>6, DeleteFileKeeps DEF CopyInv
    <2>8. Held \in SUBSET SnapIds /\ a \in Held /\ b \in Held
        BY <2>5, <2>7
    <2> HIDE DEF Held
    <2> QED
        BY <2>6, <2>8, CountsTwo
<1> QED
    BY <1>1, CopyInvariant, PTL DEF RetentionFloor, Spec
=============================================================================
