--------------------------- MODULE SnapshotCopies ---------------------------
(***************************************************************************)
(* The copies of one database's snapshots: what the worker's reports write *)
(* into the snapshot and replica tables, the mirror copy a completed       *)
(* snapshot sets off, the retention pass that expires old copies, and the  *)
(* operator who deletes copies and changes the mirror meanwhile.           *)
(*                                                                         *)
(* Each report is handled by its own goroutine, here a hand.  A step is    *)
(* one database statement, or one send with the statement that follows it. *)
(* Runs of the schedule are in SnapshotRuns, the delete that a final       *)
(* snapshot sets off in DatabaseLifecycle.                                 *)
(*                                                                         *)
(* Two snapshots are taken to be two files, although a file is named by    *)
(* its container, its database and the second it was asked for, so that    *)
(* two manual snapshots of one second name the same.  The primary          *)
(* destination stays what it is; an editor may change it in the code.      *)
(***************************************************************************)
EXTENDS Integers, FiniteSets, FiniteSetsExt

CONSTANTS Hands,           \* goroutines that handle reports together
          Primary,         \* the instance's backup destination
          Mirrors,         \* destinations it may be mirrored to
          RetentionCount,  \* the instance's retention_count, 0 for none
          Seeded,          \* snapshots completed before the start
          MaxSnapshots,    \* bound: snapshot rows
          MaxFaults,       \* bound: failed database statements
          MaxEdits         \* bound: deletes and mirror changes by an operator

NoDest == "none"
Dests == {Primary} \cup Mirrors

ASSUME CopiesAssumption ==
    /\ Primary \notin Mirrors /\ NoDest \notin Dests
    /\ RetentionCount \in Nat /\ MaxSnapshots \in Nat /\ Seeded \in 0 .. MaxSnapshots
    /\ MaxFaults \in Nat /\ MaxEdits \in Nat

VARIABLES
    snap,       \* database_snapshots.status by id, "none" before the row
    active,     \* database_snapshots.active
    replica,    \* database_snapshot_replicas.status by snapshot and destination
    mirror,     \* the instance's mirror_backup_destination_id
    copies,     \* per snapshot, the destinations that hold its file
    dumping,    \* db_snapshot commands under way
    mirroring,  \* db_mirror_snapshot commands under way
    reports,    \* messages from the worker not yet handled
    job,        \* per hand, where the handler of a completed snapshot is
    faults, edits,
    expired,    \* history: the snapshots whose file a retention pass removed
    undercut,   \* history: a copy listed by a pass, or the row of a file that
                \* is gone, was left in another state than the code assumes
    redirected  \* history: the mirror was changed with a copy under way

rows == <<snap, active, replica, mirror>>
worker == <<copies, dumping, mirroring, reports>>
history == <<expired, undercut, redirected>>
vars == <<rows, worker, job, faults, edits, history>>

SnapIds == 1 .. MaxSnapshots
NoSnap == 0
ReplicaStatuses == {"none", "pending", "completed", "failed"}
Mirroring == [snap : SnapIds, dest : Mirrors]
Report == [of : {"dump", "mirror"}, snap : SnapIds,
           status : {"running", "completed", "failed"}]
Idle == [pc |-> "idle", snap |-> NoSnap, dest |-> NoDest, todo |-> {}]

(***************************************************************************)
(* Every table, message and goroutine keeps to its kind of value.          *)
(***************************************************************************)
TypeOK ==
    /\ snap \in [SnapIds -> {"none", "pending", "running", "completed", "failed"}]
    /\ active \in [SnapIds -> BOOLEAN]
    /\ replica \in [SnapIds -> [Dests -> ReplicaStatuses]]
    /\ mirror \in Dests \cup {NoDest}
    /\ copies \in [SnapIds -> SUBSET Dests]
    /\ dumping \subseteq SnapIds /\ mirroring \subseteq Mirroring
    /\ reports \subseteq Report
    /\ job \in [Hands -> [pc : {"idle", "record", "mirror", "send", "retain", "expire"},
                          snap : SnapIds \cup {NoSnap}, dest : Mirrors \cup {NoDest},
                          todo : SUBSET SnapIds]]
    /\ faults \in 0 .. MaxFaults /\ edits \in 0 .. MaxEdits
    /\ expired \subseteq SnapIds /\ undercut \in BOOLEAN /\ redirected \in BOOLEAN

Init ==
    /\ snap = [s \in SnapIds |-> IF s <= Seeded THEN "completed" ELSE "none"]
    /\ active = [s \in SnapIds |-> s <= Seeded]
    /\ replica = [s \in SnapIds |-> [d \in Dests |->
                     IF s <= Seeded /\ d = Primary THEN "completed" ELSE "none"]]
    /\ mirror \in Dests \cup {NoDest}
    /\ copies = [s \in SnapIds |-> IF s <= Seeded THEN {Primary} ELSE {}]
    /\ dumping = {} /\ mirroring = {} /\ reports = {}
    /\ job = [h \in Hands |-> Idle]
    /\ faults = 0 /\ edits = 0
    /\ expired = {} /\ undercut = FALSE /\ redirected = FALSE

\* A database statement fails, and the code logs it.
Fault == faults < MaxFaults /\ faults' = faults + 1

\* UpsertSnapshotReplica: one row per snapshot and destination, last write wins.
UpsertSnapshotReplica(s, d, status) ==
    \/ replica' = [replica EXCEPT ![s][d] = status] /\ UNCHANGED faults
    \/ Fault /\ UNCHANGED replica

\* The handler goes on to the next part of its work.
Continue(h, pc) == job' = [job EXCEPT ![h].pc = pc]

-----------------------------------------------------------------------------
(* The worker, and the requests that start a snapshot.  A command or report  *)
(* lost with its connection is one that never takes its next step.           *)

\* StartSnapshot for any trigger.  Ids are handed out in order.
StartSnapshot(s) ==
    /\ snap[s] = "none" /\ \A r \in 1 .. s - 1 : snap[r] # "none"
    /\ snap' = [snap EXCEPT ![s] = "pending"]
    /\ active' = [active EXCEPT ![s] = TRUE]
    /\ dumping' = dumping \cup {s}
    /\ reports' = reports \cup {[of |-> "dump", snap |-> s, status |-> "running"]}
    /\ UNCHANGED <<replica, mirror, copies, mirroring, job, faults, edits, history>>

\* The dump ends, and its file is at the primary destination if it succeeded.
DumpEnds(s) ==
    /\ s \in dumping /\ dumping' = dumping \ {s}
    /\ \E status \in {"completed", "failed"} :
          /\ reports' = reports \cup {[of |-> "dump", snap |-> s, status |-> status]}
          /\ copies' = [copies EXCEPT ![s] = IF status = "completed" THEN {Primary} ELSE {}]
    /\ UNCHANGED <<rows, mirroring, job, faults, edits, history>>

\* The copy ends; it fails if its source is gone.
MirrorEnds(m) ==
    /\ m \in mirroring /\ mirroring' = mirroring \ {m}
    /\ \E status \in {"completed", "failed"} :
          /\ status = "completed" => Primary \in copies[m.snap]
          /\ reports' = reports \cup {[of |-> "mirror", snap |-> m.snap, status |-> status]}
          /\ copies' = [copies EXCEPT ![m.snap] =
                           IF status = "completed" THEN @ \cup {m.dest} ELSE @]
    /\ UNCHANGED <<rows, dumping, job, faults, edits, history>>

-----------------------------------------------------------------------------
(* The handler of db_snapshot_status.                                        *)

\* UpdateSnapshotStatus writes what the message says over whatever is there; if
\* that fails the handler returns.  Only a completion has more to do.
UpdateSnapshotStatus(h) ==
    /\ job[h] = Idle
    /\ \E r \in reports :
          /\ r.of = "dump" /\ reports' = reports \ {r}
          /\ \/ /\ snap' = [snap EXCEPT ![r.snap] = r.status]
                /\ job' = [job EXCEPT ![h] =
                      IF r.status = "completed"
                      THEN [Idle EXCEPT !.pc = "record", !.snap = r.snap] ELSE Idle]
                /\ UNCHANGED faults
             \/ Fault /\ UNCHANGED <<snap, job>>
    /\ UNCHANGED <<active, replica, mirror, copies, dumping, mirroring, edits, history>>

\* recordPrimaryReplicaAndMirror: a row deleted meanwhile has no replicas.
RecordPrimary(h) ==
    /\ job[h].pc = "record"
    /\ LET s == job[h].snap IN
       \/ /\ active[s] /\ Continue(h, "mirror")
          /\ UpsertSnapshotReplica(s, Primary, "completed")
       \/ ~active[s] /\ Continue(h, "retain") /\ UNCHANGED <<replica, faults>>
    /\ UNCHANGED <<snap, active, mirror, worker, edits, history>>

\* The mirror to use is read now, and its replica is pending before the command
\* is sent.  The primary itself is no mirror.
RecordMirror(h) ==
    /\ job[h].pc = "mirror"
    /\ \/ /\ mirror \in Mirrors
          /\ UpsertSnapshotReplica(job[h].snap, mirror, "pending")
          /\ job' = [job EXCEPT ![h].pc = "send", ![h].dest = mirror]
       \/ mirror \notin Mirrors /\ Continue(h, "retain") /\ UNCHANGED <<replica, faults>>
    /\ UNCHANGED <<snap, active, mirror, worker, edits, history>>

\* The command is sent, or the worker is not connected and the replica failed.
SendMirror(h) ==
    /\ job[h].pc = "send" /\ Continue(h, "retain")
    /\ \/ /\ mirroring' = mirroring \cup {[snap |-> job[h].snap, dest |-> job[h].dest]}
          /\ UNCHANGED <<replica, faults>>
       \/ UpsertSnapshotReplica(job[h].snap, job[h].dest, "failed") /\ UNCHANGED mirroring
    /\ UNCHANGED <<snap, active, mirror, copies, dumping, reports, edits, history>>

minSnapshotRedundancy == 2

\* Mutant: the configured count is taken as it is.
KeepConfigured == RetentionCount

\* The count retention works with.
Keep == IF RetentionCount < minSnapshotRedundancy THEN minSnapshotRedundancy ELSE RetentionCount

\* Active completed rows with at least Keep newer ones.
Stale ==
    LET successful == {s \in SnapIds : active[s] /\ snap[s] = "completed"}
    IN  {s \in successful : Cardinality({r \in successful : r > s}) >= Keep}

\* applySnapshotRetention lists what is beyond the count.  A pending delete of the
\* instance, or a failed read, ends the handler here.
ListStale(h) ==
    /\ job[h].pc = "retain"
    /\ \/ /\ RetentionCount > 0 /\ Stale # {}
          /\ job' = [job EXCEPT ![h] = [Idle EXCEPT !.pc = "expire", !.todo = Stale]]
       \/ job' = [job EXCEPT ![h] = Idle]
    /\ UNCHANGED <<rows, worker, faults, edits, history>>

\* The command to delete the primary's file, which may not reach it.  One that
\* does is carried out at once, with the write of the row that comes next.
DeleteFile(s) ==
    \/ copies' = [copies EXCEPT ![s] = @ \ {Primary}]
    \/ UNCHANGED copies

\* DeleteSnapshotArtifactCtx of the newest listed snapshot: its file, its row.  If
\* the row cannot be written the pass goes on with the next.
Expire(h) ==
    /\ job[h].pc = "expire"
    /\ LET s == Max(job[h].todo) IN
       /\ DeleteFile(s)
       /\ expired' = IF copies'[s] # copies[s] THEN expired \cup {s} ELSE expired
       /\ \/ active' = [active EXCEPT ![s] = FALSE] /\ UNCHANGED <<faults, undercut>>
          \/ Fault /\ undercut' = TRUE /\ UNCHANGED active
       /\ job' = [job EXCEPT ![h] =
             IF job[h].todo = {s} THEN Idle ELSE [job[h] EXCEPT !.todo = @ \ {s}]]
    /\ UNCHANGED <<snap, replica, mirror, dumping, mirroring, reports, edits, redirected>>

\* Mutant: any answer counts as a copy.
MirrorAnswered ==
    /\ \E r \in reports :
          /\ r.of = "mirror" /\ reports' = reports \ {r}
          /\ active[r.snap] /\ mirror # NoDest
          /\ UpsertSnapshotReplica(r.snap, mirror, "completed")
    /\ UNCHANGED <<snap, active, mirror, copies, dumping, mirroring, job, edits, history>>

\* handleMirrorStatus: the message names no destination, so the outcome goes to
\* the row of the mirror the instance has now.
HandleMirrorStatus ==
    /\ \E r \in reports :
          /\ r.of = "mirror" /\ reports' = reports \ {r}
          /\ \/ /\ active[r.snap] /\ mirror # NoDest
                /\ UpsertSnapshotReplica(r.snap, mirror, r.status)
             \/ (~active[r.snap] \/ mirror = NoDest) /\ UNCHANGED <<replica, faults>>
    /\ UNCHANGED <<snap, active, mirror, copies, dumping, mirroring, job, edits, history>>

-----------------------------------------------------------------------------
(* Operators, and restarts.                                                  *)

\* HandleDeleteSnapshot, which takes the same path as retention.
DeleteSnapshot(s) ==
    /\ edits < MaxEdits /\ edits' = edits + 1
    /\ active[s] /\ DeleteFile(s)
    /\ \/ /\ active' = [active EXCEPT ![s] = FALSE] /\ UNCHANGED faults
          /\ undercut' = (undercut \/ \E h \in Hands : job[h].pc = "expire")
       \/ Fault /\ undercut' = TRUE /\ UNCHANGED active
    /\ UNCHANGED <<snap, replica, mirror, dumping, mirroring, reports, job, expired,
                   redirected>>

\* HandleUpdateDatabaseInstance with another mirror, or none.
EditMirror ==
    /\ edits < MaxEdits /\ edits' = edits + 1
    /\ mirror' \in (Dests \cup {NoDest}) \ {mirror}
    /\ redirected' = (\/ redirected \/ mirroring # {}
                      \/ \E h \in Hands : job[h].pc = "send"
                      \/ \E r \in reports : r.of = "mirror")
    /\ UNCHANGED <<snap, active, replica, worker, job, faults, expired, undercut>>

\* The API restarts: its handlers are gone, the worker goes on.
Restart ==
    /\ \E h \in Hands : job[h] # Idle
    /\ job' = [h \in Hands |-> Idle]
    /\ UNCHANGED <<rows, worker, faults, edits, history>>

-----------------------------------------------------------------------------
HandStep(h) ==
    \/ UpdateSnapshotStatus(h) \/ RecordPrimary(h) \/ RecordMirror(h)
    \/ SendMirror(h) \/ ListStale(h) \/ Expire(h)

Next ==
    \/ HandleMirrorStatus \/ EditMirror \/ Restart
    \/ \E s \in SnapIds : StartSnapshot(s) \/ DumpEnds(s) \/ DeleteSnapshot(s)
    \/ \E m \in mirroring : MirrorEnds(m)
    \/ \E h \in Hands : HandStep(h)

Spec == Init /\ [][Next]_vars

-----------------------------------------------------------------------------
(* Properties                                                                *)

(***************************************************************************)
(* A retention pass that removes a file leaves two others at the primary   *)
(* destination, whatever retention_count says and however passes, late     *)
(* reports and new snapshots overlap (applySnapshotRetention), unless an   *)
(* operator deletes copies between the pass's list and its deletes or the  *)
(* row of a removed file could not be retired.                             *)
(***************************************************************************)
RetentionFloor ==
    [][expired' # expired /\ ~undercut =>
          Cardinality({s \in SnapIds : Primary \in copies'[s]}) >= minSnapshotRedundancy]_vars

(***************************************************************************)
(* A replica counted as completed is a file at that destination: what the  *)
(* backup posture adds up are copies that exist                            *)
(* (recordPrimaryReplicaAndMirror, handleMirrorStatus), unless the mirror  *)
(* was changed while a copy was under way or the row of a removed file     *)
(* could not be retired.                                                   *)
(***************************************************************************)
ReplicaIsReal ==
    ~redirected /\ ~undercut =>
        \A s \in SnapIds, d \in Dests :
            active[s] /\ replica[s][d] = "completed" => d \in copies[s]

-----------------------------------------------------------------------------
(* A promise of a comment in the code that its steps can break.              *)

(***************************************************************************)
(* "Counting replicas rather than snapshots is the difference between 'a   *)
(* snapshot exists' and 'a copy exists on that destination'"               *)
(* (FreshReplicasByDestination): every completed replica of an active      *)
(* snapshot has its file, the mirror changed meanwhile or not.             *)
(***************************************************************************)
CopyExistsOnDestination ==
    ~undercut =>
        \A s \in SnapIds, d \in Dests :
            active[s] /\ replica[s][d] = "completed" => d \in copies[s]
=============================================================================
