---------------------------- MODULE SnapshotRuns ----------------------------
(***************************************************************************)
(* Scheduled snapshots of one database: the scheduler that turns a slot of *)
(* the cron expression into a run, the worker that takes the dump, the     *)
(* reports that close the run, and the sweep that times a run out.  What a *)
(* completed snapshot sets off is in SnapshotCopies.                       *)
(*                                                                         *)
(* Every API process runs a scheduler loop; the tables arbitrate between   *)
(* them.  Sweeps and report handlers carry nothing but what they have yet  *)
(* to write, so they are sets without identity.  A step is one database    *)
(* statement or one send.  The clock counts periods of the schedule; a     *)
(* slot's jitter is shorter than one.  The snapshot row itself is left out *)
(* but for its id: no step here reads its other columns.                   *)
(***************************************************************************)
EXTENDS Integers

CONSTANTS Procs,           \* API processes
          Slots,           \* the clock values the schedule fires at
          CatchUpWindow,   \* schedulerCatchUpWindow
          RunTimeout,      \* snapshotRunTimeout
          MaxTime,         \* bound: the clock
          MaxSnapshots,    \* bound: snapshot rows
          MaxFaults,       \* bound: failed database statements
          MaxCrashes       \* bound: restarts of a process

ASSUME ScheduleAssumption ==
    /\ Slots \subseteq Nat /\ CatchUpWindow \in Nat /\ RunTimeout \in Nat
    /\ MaxTime \in Nat /\ MaxSnapshots \in Nat
    /\ MaxFaults \in Nat /\ MaxCrashes \in Nat

VARIABLES
    now,
    run,        \* database_snapshot_runs.status by slot, "none" before the row
    link,       \* database_snapshot_runs.snapshot_id by slot
    owner,      \* per snapshot row, the slot it was started for
    dump,       \* per snapshot, where its dump on the worker is
    reports,    \* final db_snapshot_status messages under way
    loop,       \* per process, where dispatchSlot is
    sweep,      \* the runs failStuckRuns has listed and not yet failed
    closing,    \* the reports whose run a handler is about to close
    faults, crashes,
    timedOut    \* history: runs the sweep has written to

goroutines == <<loop, sweep, closing>>
counters == <<faults, crashes>>
vars == <<now, run, link, owner, dump, reports, goroutines, counters, timedOut>>

SnapIds == 1 .. MaxSnapshots
NoSnap == 0
NoSlot == 0 - 1
InFlight == {"claimed", "running"}
RunStatuses == {"none", "claimed", "running", "completed", "failed", "skipped"}
Report == [snap : SnapIds, ok : BOOLEAN]
LoopIdle == [pc |-> "idle", slot |-> NoSlot, age |-> "young", snap |-> NoSnap]

(***************************************************************************)
(* Every table, goroutine and message keeps to its kind of value.          *)
(***************************************************************************)
TypeOK ==
    /\ now \in 0 .. MaxTime
    /\ run \in [Slots -> RunStatuses] /\ link \in [Slots -> SnapIds \cup {NoSnap}]
    /\ owner \in [SnapIds -> Slots \cup {NoSlot}]
    /\ dump \in [SnapIds -> {"none", "sent", "ended"}]
    /\ reports \subseteq Report /\ closing \subseteq Report
    /\ loop \in [Procs -> [pc : {"idle", "due", "won", "start", "mark"},
                           slot : Slots \cup {NoSlot}, age : {"young", "late"},
                           snap : SnapIds \cup {NoSnap}]]
    /\ sweep \subseteq Slots
    /\ faults \in 0 .. MaxFaults /\ crashes \in 0 .. MaxCrashes
    /\ timedOut \subseteq Slots

Init ==
    /\ now = 0
    /\ run = [t \in Slots |-> "none"] /\ link = [t \in Slots |-> NoSnap]
    /\ owner = [s \in SnapIds |-> NoSlot] /\ dump = [s \in SnapIds |-> "none"]
    /\ reports = {} /\ closing = {} /\ sweep = {}
    /\ loop = [p \in Procs |-> LoopIdle]
    /\ faults = 0 /\ crashes = 0 /\ timedOut = {}

\* A database statement fails, and the code logs it and carries on.
Fault == faults < MaxFaults /\ faults' = faults + 1

\* UpdateSnapshotRun: no condition but the id.
UpdateSnapshotRun(t, status) ==
    \/ run' = [run EXCEPT ![t] = status] /\ UNCHANGED faults
    \/ Fault /\ UNCHANGED run

\* The newest nominal slot, which is the only candidate of a tick.
Candidate(t) == t \in Slots /\ t <= now /\ \A u \in Slots : u <= now => u <= t

\* Mutant: a slot whose run is over may be claimed again.
SlotFreeOnceOver(t) == run[t] \notin InFlight

\* The unique index on (database_instance_id, scheduled_at).
SlotFree(t) == run[t] = "none"

\* Mutant: only dispatched runs count.
HasRunRunning(t) == \E u \in Slots \ {t} : run[u] = "running"

\* HasRunInFlight: another run of the instance that is claimed or running.
HasRunInFlight(t) == \E u \in Slots \ {t} : run[u] \in InFlight

\* Mutant: a slot claimed and never dispatched is not looked for.
StuckRunning(t) == run[t] = "running" /\ t < now - RunTimeout

\* The sweep's selection: unfinished, and scheduled before the cutoff.
Stuck(t) == run[t] \in InFlight /\ t < now - RunTimeout

\* The rows CreateSnapshot can fill next: ids are handed out in order.
NextSnap == {s \in SnapIds : owner[s] = NoSlot /\ \A r \in 1 .. s - 1 : owner[r] # NoSlot}

Tick ==
    /\ now < MaxTime /\ now' = now + 1
    /\ UNCHANGED <<run, link, owner, dump, reports, goroutines, counters, timedOut>>

-----------------------------------------------------------------------------
(* The scheduler loop of process p: dispatchDue and dispatchSlot.            *)

\* The tick takes the time and the candidate slot; its jitter has passed.
DispatchDue(p) ==
    /\ loop[p].pc = "idle"
    /\ \E t \in Slots :
          /\ Candidate(t)
          /\ loop' = [loop EXCEPT ![p] =
                [pc |-> "due", slot |-> t, snap |-> NoSnap,
                 age |-> IF now - t > CatchUpWindow THEN "late" ELSE "young"]]
    /\ UNCHANGED <<now, run, link, owner, dump, reports, sweep, closing, counters, timedOut>>

\* The insert under the unique index: it wins, finds the slot taken, fails, or
\* succeeds and the read of the new row fails, which leaves it claimed.
ClaimSnapshotRun(p) ==
    /\ loop[p].pc = "due"
    /\ LET t == loop[p].slot IN
       \/ /\ SlotFree(t)
          /\ run' = [run EXCEPT ![t] = "claimed"]
          /\ \/ loop' = [loop EXCEPT ![p].pc = "won"] /\ UNCHANGED faults
             \/ Fault /\ loop' = [loop EXCEPT ![p] = LoopIdle]
       \/ /\ \/ ~SlotFree(t) /\ UNCHANGED faults
             \/ Fault
          /\ loop' = [loop EXCEPT ![p] = LoopIdle] /\ UNCHANGED run
    /\ UNCHANGED <<now, link, owner, dump, reports, sweep, closing, crashes, timedOut>>

\* Too old, an overrun, a database that is not running or a worker that is not
\* connected: the last two may be the case at any time.
Skip(p) ==
    /\ loop[p].pc = "won"
    /\ UpdateSnapshotRun(loop[p].slot, "skipped")
    /\ loop' = [loop EXCEPT ![p] = LoopIdle]
    /\ UNCHANGED <<now, link, owner, dump, reports, sweep, closing, crashes, timedOut>>

\* Young enough, and no other run in flight or the question failed.
GoAhead(p) ==
    /\ loop[p].pc = "won"
    /\ loop[p].age = "young"
    /\ \/ ~HasRunInFlight(loop[p].slot) /\ UNCHANGED faults
       \/ Fault
    /\ loop' = [loop EXCEPT ![p].pc = "start"]
    /\ UNCHANGED <<now, run, link, owner, dump, reports, sweep, closing, crashes, timedOut>>

\* StartSnapshot: the snapshot row, then the command.  When the command cannot be
\* sent the row stays pending; either error fails the run.
StartSnapshot(p) ==
    /\ loop[p].pc = "start"
    /\ \/ \E s \in NextSnap :
             /\ owner' = [owner EXCEPT ![s] = loop[p].slot]
             /\ \/ /\ dump' = [dump EXCEPT ![s] = "sent"]
                   /\ loop' = [loop EXCEPT ![p].pc = "mark", ![p].snap = s]
                   /\ UNCHANGED <<run, faults>>
                \/ /\ UpdateSnapshotRun(loop[p].slot, "failed")
                   /\ loop' = [loop EXCEPT ![p] = LoopIdle]
                   /\ UNCHANGED dump
       \/ /\ Fault
          /\ run' = [run EXCEPT ![loop[p].slot] = "failed"]
          /\ loop' = [loop EXCEPT ![p] = LoopIdle]
          /\ UNCHANGED <<owner, dump>>
    /\ UNCHANGED <<now, link, reports, sweep, closing, crashes, timedOut>>

\* The run is marked running and linked to its snapshot, after the send.
MarkRunning(p) ==
    /\ loop[p].pc = "mark"
    /\ \/ /\ run' = [run EXCEPT ![loop[p].slot] = "running"]
          /\ link' = [link EXCEPT ![loop[p].slot] = loop[p].snap]
          /\ UNCHANGED faults
       \/ Fault /\ UNCHANGED <<run, link>>
    /\ loop' = [loop EXCEPT ![p] = LoopIdle]
    /\ UNCHANGED <<now, owner, dump, reports, sweep, closing, crashes, timedOut>>

-----------------------------------------------------------------------------
(* The time-out loop: failStuckRuns.                                         *)

ListStuckSnapshotRuns ==
    /\ sweep = {}
    /\ \E t \in Slots : Stuck(t)
    /\ sweep' = {t \in Slots : Stuck(t)}
    /\ UNCHANGED <<now, run, link, owner, dump, reports, loop, closing, counters, timedOut>>

\* A listed run is failed without being read again.
FailStuckRun ==
    /\ \E t \in sweep :
          /\ UpdateSnapshotRun(t, "failed")
          /\ sweep' = sweep \ {t}
          /\ timedOut' = timedOut \cup {t}
    /\ UNCHANGED <<now, link, owner, dump, reports, loop, closing, crashes>>

-----------------------------------------------------------------------------
(* The worker.  A command or a report lost with its connection is one that   *)
(* never takes its next step.                                                *)

WorkerEnds(s) ==
    /\ dump[s] = "sent" /\ dump' = [dump EXCEPT ![s] = "ended"]
    /\ \E ok \in BOOLEAN : reports' = reports \cup {[snap |-> s, ok |-> ok]}
    /\ UNCHANGED <<now, run, link, owner, goroutines, counters, timedOut>>

-----------------------------------------------------------------------------
(* The handler of a final db_snapshot_status, one goroutine per message, so  *)
(* messages may be handled in any order.                                     *)

\* The handler records the snapshot's status; if that fails it returns.
RecordStatus ==
    /\ \E r \in reports :
          /\ reports' = reports \ {r}
          /\ \/ closing' = closing \cup {r} /\ UNCHANGED faults
             \/ Fault /\ UNCHANGED closing
    /\ UNCHANGED <<now, run, link, owner, dump, loop, sweep, crashes, timedOut>>

\* closeRunForSnapshot: the run linked to the snapshot, if there is one yet.
CloseRunForSnapshot ==
    /\ \E r \in closing :
          /\ closing' = closing \ {r}
          /\ \/ \E t \in Slots :
                   /\ link[t] = r.snap
                   /\ UpdateSnapshotRun(t, IF r.ok THEN "completed" ELSE "failed")
             \/ (\A t \in Slots : link[t] # r.snap) /\ UNCHANGED <<run, faults>>
    /\ UNCHANGED <<now, link, owner, dump, reports, loop, sweep, crashes, timedOut>>

\* A process is replaced: what its loops were doing is forgotten, and what its
\* handlers were doing too, if the worker was connected to it.
Restart(p) ==
    /\ crashes < MaxCrashes /\ crashes' = crashes + 1
    /\ loop' = [loop EXCEPT ![p] = LoopIdle]
    /\ sweep' = {}
    /\ closing' \in {closing, {}}
    /\ UNCHANGED <<now, run, link, owner, dump, reports, faults, timedOut>>

-----------------------------------------------------------------------------
LoopStep(p) ==
    \/ ClaimSnapshotRun(p) \/ Skip(p) \/ GoAhead(p)
    \/ StartSnapshot(p) \/ MarkRunning(p)

Next ==
    \/ Tick \/ ListStuckSnapshotRuns \/ FailStuckRun \/ RecordStatus \/ CloseRunForSnapshot
    \/ \E p \in Procs : DispatchDue(p) \/ LoopStep(p) \/ Restart(p)
    \/ \E s \in SnapIds : WorkerEnds(s)

Spec == Init /\ [][Next]_vars

\* Time passes, the loops tick and a goroutine that is running goes on.
Fairness ==
    /\ WF_vars(Tick) /\ WF_vars(ListStuckSnapshotRuns) /\ WF_vars(FailStuckRun)
    /\ \A p \in Procs : WF_vars(LoopStep(p))

FairSpec == Spec /\ Fairness

-----------------------------------------------------------------------------
(* Properties                                                                *)

(***************************************************************************)
(* A slot is dispatched at most once, by whichever process and however     *)
(* often it restarts: the unique index on the slot is the only lock        *)
(* (ClaimSnapshotRun).                                                     *)
(***************************************************************************)
SlotOnce == \A r, s \in SnapIds : owner[r] = owner[s] /\ owner[r] # NoSlot => r = s

\* The slot's command is about to be sent or its dump is being taken.
Dumping(t) ==
    \/ \E p \in Procs : loop[p].slot = t /\ loop[p].pc = "start"
    \/ \E s \in SnapIds : owner[s] = t /\ dump[s] = "sent"

(***************************************************************************)
(* Two scheduled dumps of a database do not overlap.  Each process claims  *)
(* its slot before it looks for others, so of two that look at the same    *)
(* time at least one sees the other (dispatchSlot, HasRunInFlight).  A run *)
(* that was timed out may still be dumping, and a failed statement is      *)
(* taken as an answer, by design.                                          *)
(***************************************************************************)
NoOverlap ==
    \A t, u \in Slots :
        Dumping(t) /\ Dumping(u) /\ faults = 0 => t = u \/ t \in timedOut \/ u \in timedOut

(***************************************************************************)
(* A run never stays open for good: whatever was lost, its goroutine       *)
(* killed or its completion handled before it was marked running, the      *)
(* sweep closes it and later slots are not blocked (failStuckRuns).        *)
(***************************************************************************)
RunsClose == \A t \in Slots : <>[](run[t] \notin InFlight)
=============================================================================
