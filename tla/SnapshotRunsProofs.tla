------------------------- MODULE SnapshotRunsProofs -------------------------
(***************************************************************************)
(* Proofs for SnapshotRuns, for any number of processes, slots and         *)
(* snapshots: the type invariant, that a slot is dispatched at most once,  *)
(* and that scheduled dumps do not overlap.                                *)
(*                                                                         *)
(* SlotOnce and NoOverlap are not inductive.  What carries them is who may *)
(* still start a slot's dump: only the loop that inserted its row, at most *)
(* once, and a dump under way keeps its run open unless the sweep has      *)
(* written to it (HeldOpen).                                               *)
(***************************************************************************)
EXTENDS SnapshotRuns, TLAPS

\* The loop has won its slot and is not done with it.
Busy(p) == loop[p].pc \in {"won", "start", "mark"}

\* A loop works on a slot of the schedule, and has claimed it before it goes on.
LoopsClaim == \A p \in Procs : /\ loop[p].pc # "idle" => loop[p].slot \in Slots
                               /\ Busy(p) => run[loop[p].slot] # "none"

\* Two loops never work on one slot.
OneLoop == \A p, q \in Procs : Busy(p) /\ Busy(q) /\ loop[p].slot = loop[q].slot => p = q

\* A snapshot belongs to a claimed slot.
OwnerClaimed == \A s \in SnapIds : owner[s] # NoSlot => run[owner[s]] # "none"

\* A loop that has not started its snapshot is the first to do so.
NotStarted == \A p \in Procs, s \in SnapIds :
                  loop[p].pc \in {"won", "start"} => owner[s] # loop[p].slot

\* A loop marks the run of the snapshot it started.
Marks == \A p \in Procs : loop[p].pc = "mark" =>
             loop[p].snap \in SnapIds /\ owner[loop[p].snap] = loop[p].slot

\* A linked run has its own snapshot, and no loop works on it any more.
Linked == \A t \in Slots : link[t] # NoSnap =>
              owner[link[t]] = t /\ \A p \in Procs : Busy(p) => loop[p].slot # t

\* A dump belongs to a slot.
DumpOwned == \A s \in SnapIds : dump[s] # "none" => owner[s] # NoSlot

\* A report is about a dump that has ended.
Reported == \A r \in reports \cup closing : dump[r.snap] = "ended"

\* The slot has been won, and its dump is to come or under way.
Held(t) == Dumping(t) \/ \E p \in Procs : loop[p].pc = "won" /\ loop[p].slot = t

\* A slot that is held keeps its run open.
HeldOpen == \A t \in Slots : Held(t) /\ faults = 0 => run[t] \in InFlight \/ t \in timedOut

Links == LoopsClaim /\ OneLoop /\ OwnerClaimed /\ NotStarted /\ Marks /\ Linked
         /\ DumpOwned /\ Reported
IInv == TypeOK /\ Links /\ SlotOnce /\ HeldOpen /\ NoOverlap

-----------------------------------------------------------------------------
\* The values that stand for "none" are no slots and no ids.
LEMMA NoValues == NoSlot \notin Slots /\ NoSnap \notin SnapIds
  BY ScheduleAssumption DEF NoSlot, NoSnap, SnapIds

\* Every state starts with the tables empty and all loops idle.
LEMMA InitType == Init => TypeOK
  BY ScheduleAssumption DEF Init, TypeOK, LoopIdle, NoSlot, NoSnap, SnapIds, Report, RunStatuses

\* The counters are bounded by their guards.
LEMMA FaultType ==
    ASSUME TypeOK, Fault
    PROVE  faults' \in 0 .. MaxFaults
  BY ScheduleAssumption DEF TypeOK, Fault

\* Every action keeps the type invariant.
LEMMA TypeStep ==
    ASSUME TypeOK, [Next]_vars
    PROVE  TypeOK'
  <1> USE ScheduleAssumption, NoValues
  <1>1. CASE UNCHANGED vars
    BY <1>1 DEF TypeOK, vars, goroutines, counters
  <1>2. CASE Tick
    BY <1>2 DEF TypeOK, Tick, goroutines, counters
  <1>3. CASE ListStuckSnapshotRuns
    BY <1>3 DEF TypeOK, ListStuckSnapshotRuns, counters
  <1>4. CASE FailStuckRun
    BY <1>4, FaultType DEF TypeOK, FailStuckRun, UpdateSnapshotRun, RunStatuses
  <1>5. CASE RecordStatus
    BY <1>5, FaultType DEF TypeOK, RecordStatus
  <1>6. CASE CloseRunForSnapshot
    BY <1>6, FaultType DEF TypeOK, CloseRunForSnapshot, UpdateSnapshotRun, RunStatuses
  <1>7. ASSUME NEW p \in Procs, DispatchDue(p)
        PROVE  TypeOK'
    BY <1>7 DEF TypeOK, DispatchDue, LoopIdle, counters
  <1>8. ASSUME NEW p \in Procs, ClaimSnapshotRun(p)
        PROVE  TypeOK'
    <2>1. run' \in [Slots -> RunStatuses]
      BY <1>8 DEF TypeOK, ClaimSnapshotRun, RunStatuses
    <2>2. \/ loop' = [loop EXCEPT ![p].pc = "won"]
          \/ loop' = [loop EXCEPT ![p] = LoopIdle]
      BY <1>8 DEF ClaimSnapshotRun
    <2>3. loop' \in [Procs -> [pc : {"idle", "due", "won", "start", "mark"},
                              slot : Slots \cup {NoSlot}, age : {"young", "late"},
                              snap : SnapIds \cup {NoSnap}]]
      BY <2>2 DEF TypeOK, LoopIdle
    <2>4. faults' \in 0 .. MaxFaults
      BY <1>8, FaultType DEF TypeOK, ClaimSnapshotRun
    <2> QED
      BY <1>8, <2>1, <2>3, <2>4 DEF TypeOK, ClaimSnapshotRun
  <1>9. ASSUME NEW p \in Procs, Skip(p)
        PROVE  TypeOK'
    BY <1>9, FaultType DEF TypeOK, Skip, UpdateSnapshotRun, LoopIdle, RunStatuses
  <1>10. ASSUME NEW p \in Procs, GoAhead(p)
         PROVE  TypeOK'
    BY <1>10, FaultType DEF TypeOK, GoAhead
  <1>11. ASSUME NEW p \in Procs, StartSnapshot(p)
         PROVE  TypeOK'
    <2>1. run' \in [Slots -> RunStatuses] /\ dump' \in [SnapIds -> {"none", "sent", "ended"}]
      BY <1>11 DEF TypeOK, StartSnapshot, UpdateSnapshotRun, RunStatuses, NextSnap
    <2>2. /\ loop' \in [Procs -> [pc : {"idle", "due", "won", "start", "mark"},
                                 slot : Slots \cup {NoSlot}, age : {"young", "late"},
                                 snap : SnapIds \cup {NoSnap}]]
          /\ owner' \in [SnapIds -> Slots \cup {NoSlot}]
      <3>1. \/ loop' = [loop EXCEPT ![p] = LoopIdle]
            \/ \E s \in SnapIds : loop' = [loop EXCEPT ![p].pc = "mark", ![p].snap = s]
        BY <1>11 DEF StartSnapshot, NextSnap
      <3>2. \/ owner' = owner
            \/ \E s \in SnapIds : owner' = [owner EXCEPT ![s] = loop[p].slot]
        BY <1>11 DEF StartSnapshot, NextSnap
      <3> QED
        BY <3>1, <3>2 DEF TypeOK, LoopIdle
    <2>3. faults' \in 0 .. MaxFaults
      BY <1>11, FaultType DEF TypeOK, StartSnapshot, UpdateSnapshotRun
    <2> QED
      BY <1>11, <2>1, <2>2, <2>3 DEF TypeOK, StartSnapshot
  <1>12. ASSUME NEW p \in Procs, MarkRunning(p)
         PROVE  TypeOK'
    BY <1>12, FaultType DEF TypeOK, MarkRunning, LoopIdle, RunStatuses
  <1>13. ASSUME NEW p \in Procs, Restart(p)
         PROVE  TypeOK'
    BY <1>13 DEF TypeOK, Restart, LoopIdle
  <1>14. ASSUME NEW s \in SnapIds, WorkerEnds(s)
         PROVE  TypeOK'
    BY <1>14 DEF TypeOK, WorkerEnds, goroutines, counters, Report
  <1> QED
    BY <1>1, <1>2, <1>3, <1>4, <1>5, <1>6, <1>7, <1>8, <1>9, <1>10, <1>11, <1>12, <1>13, <1>14
       DEF Next, LoopStep

(***************************************************************************)
(* The runs, snapshots, dumps, loops and counters of the scheduler stay    *)
(* within their types, for any number of processes and slots.              *)
(***************************************************************************)
THEOREM TypeCorrect == Spec => []TypeOK
  BY InitType, TypeStep, PTL DEF Spec

-----------------------------------------------------------------------------
\* Nothing is dispatched and nothing dumps at the start.
LEMMA InitInv == Init => IInv
  <1> SUFFICES ASSUME Init PROVE IInv
    OBVIOUS
  <1>1. TypeOK
    BY InitType
  <1>2. Links
    BY NoValues DEF Init, Links, LoopsClaim, OneLoop, OwnerClaimed, NotStarted, Marks, Linked,
                    DumpOwned, Reported, Busy, LoopIdle
  <1>3. SlotOnce
    BY DEF Init, SlotOnce
  <1>4. \A t \in Slots : ~Dumping(t) /\ ~Held(t)
    BY DEF Init, Dumping, Held, LoopIdle
  <1> QED
    BY <1>1, <1>2, <1>3, <1>4 DEF IInv, HeldOpen, NoOverlap

\* A step that leaves the rows and the loops alone, or only forgets what a loop
\* was doing or hands it a slot to look at, keeps the invariant.
LEMMA QuietStep ==
    ASSUME IInv, TypeOK',
           UNCHANGED <<run, link, owner, dump, timedOut>>,
           reports' \cup closing' \subseteq reports \cup closing,
           faults' = 0 => faults = 0,
           \A p \in Procs : loop'[p] = loop[p] \/ loop'[p] = LoopIdle
                            \/ (loop'[p].pc = "due" /\ loop'[p].slot \in Slots)
    PROVE  IInv'
  <1>1. \A p \in Procs : Busy(p)' => Busy(p) /\ loop'[p] = loop[p]
    BY DEF Busy, LoopIdle
  <1>2. \A p \in Procs : loop'[p].pc # "idle" => loop'[p].slot \in Slots
    BY DEF IInv, Links, LoopsClaim, LoopIdle
  <1>3. Links'
    <2>1. LoopsClaim' /\ OneLoop'
      BY <1>1, <1>2 DEF IInv, Links, LoopsClaim, OneLoop
    <2>2. OwnerClaimed' /\ DumpOwned' /\ Reported'
      BY DEF IInv, Links, OwnerClaimed, DumpOwned, Reported
    <2>3. NotStarted' /\ Marks'
      BY <1>1 DEF IInv, Links, NotStarted, Marks, Busy
    <2>4. Linked'
      BY <1>1 DEF IInv, Links, Linked
    <2> QED
      BY <2>1, <2>2, <2>3, <2>4 DEF Links
  <1>4. SlotOnce'
    BY DEF IInv, SlotOnce
  <1>5. \A t \in Slots : (Dumping(t)' => Dumping(t)) /\ (Held(t)' => Held(t))
    BY <1>1 DEF Dumping, Held, Busy
  <1> QED
    BY <1>3, <1>4, <1>5 DEF IInv, HeldOpen, NoOverlap

\* A step that only closes runs, of slots that the sweep writes to or whose dump
\* is not under way, keeps the invariant.
LEMMA CloseStep ==
    ASSUME IInv, TypeOK',
           UNCHANGED <<link, owner, dump, loop, reports>>,
           closing' \subseteq closing, timedOut \subseteq timedOut',
           faults' = 0 => faults = 0,
           \A t \in Slots : run[t] # "none" => run'[t] # "none",
           \A t \in Slots : run'[t] = run[t] \/ t \in timedOut' \/ ~Held(t)
    PROVE  IInv'
  <1>1. Links'
    <2>1. LoopsClaim' /\ OneLoop'
      BY DEF IInv, Links, LoopsClaim, OneLoop, Busy
    <2>2. OwnerClaimed' /\ DumpOwned' /\ Reported'
      BY DEF IInv, TypeOK, Links, OwnerClaimed, DumpOwned, Reported
    <2>3. NotStarted' /\ Marks' /\ Linked'
      BY DEF IInv, Links, NotStarted, Marks, Linked, Busy
    <2> QED
      BY <2>1, <2>2, <2>3 DEF Links
  <1>2. SlotOnce'
    BY DEF IInv, SlotOnce
  <1>3. \A t \in Slots : (Dumping(t)' => Dumping(t)) /\ (Held(t)' => Held(t))
    BY DEF Dumping, Held
  <1> QED
    BY <1>1, <1>2, <1>3 DEF IInv, HeldOpen, NoOverlap

\* The counter of failed statements never falls.
LEMMA FaultsGrow ==
    ASSUME TypeOK, Fault \/ UNCHANGED faults
    PROVE  faults' = 0 => faults = 0
  BY ScheduleAssumption DEF TypeOK, Fault

\* The winner of the insert is the only loop on its slot, which has no snapshot.
LEMMA ClaimStep ==
    ASSUME IInv, TypeOK', NEW p \in Procs, ClaimSnapshotRun(p)
    PROVE  IInv'
  <1> DEFINE t == loop[p].slot
  <1>1. faults' = 0 => faults = 0
    BY FaultsGrow DEF IInv, ClaimSnapshotRun
  <1>2. t \in Slots
    BY DEF IInv, Links, LoopsClaim, ClaimSnapshotRun
  <1>3. CASE UNCHANGED run
    <2>1. loop' = [loop EXCEPT ![p] = LoopIdle]
      BY <1>2, <1>3 DEF ClaimSnapshotRun, SlotFree, IInv, TypeOK
    <2> QED
      BY <1>1, <1>3, <2>1, QuietStep DEF ClaimSnapshotRun, IInv, TypeOK
  <1>4. CASE SlotFree(t) /\ run' = [run EXCEPT ![t] = "claimed"]
    <2> USE <1>4
    <2>1. /\ \A q \in Procs : q # p => loop'[q] = loop[q]
          /\ loop'[p] = LoopIdle \/ (loop'[p].pc = "won" /\ loop'[p].slot = t)
      BY DEF ClaimSnapshotRun, IInv, TypeOK
    <2>2. \A u \in Slots : IF u = t THEN run[u] = "none" /\ run'[u] = "claimed"
                                   ELSE run'[u] = run[u]
      BY DEF SlotFree, IInv, TypeOK
    <2>3. /\ \A q \in Procs : Busy(q) => loop[q].slot # t
          /\ \A s \in SnapIds : owner[s] # t
          /\ link[t] = NoSnap
      BY <1>2, <2>2, NoValues DEF IInv, TypeOK, Links, LoopsClaim, OwnerClaimed, Linked
    <2>4. UNCHANGED <<link, owner, dump, reports, closing, timedOut>>
      BY DEF ClaimSnapshotRun
    <2>5. Links'
      <3>1. \A q \in Procs : Busy(q)' => (Busy(q) /\ loop'[q] = loop[q]) \/ (q = p /\ loop'[p].slot = t)
        BY <2>1 DEF Busy, LoopIdle
      <3>2. LoopsClaim'
        BY <1>2, <2>1, <2>2, <3>1 DEF IInv, Links, LoopsClaim, LoopIdle
      <3>3. OneLoop'
        BY <2>3, <3>1 DEF IInv, Links, OneLoop
      <3>4. OwnerClaimed' /\ DumpOwned' /\ Reported'
        BY <2>2, <2>4 DEF IInv, TypeOK, Links, OwnerClaimed, DumpOwned, Reported
      <3>5. NotStarted' /\ Marks'
        BY <2>1, <2>3, <2>4 DEF IInv, Links, NotStarted, Marks, LoopIdle
      <3>6. Linked'
        BY <2>3, <2>4, <3>1 DEF IInv, Links, Linked
      <3> QED
        BY <3>2, <3>3, <3>4, <3>5, <3>6 DEF Links
    <2>6. SlotOnce'
      BY <2>4 DEF IInv, SlotOnce
    <2>7. \A u \in Slots : /\ Dumping(u)' => Dumping(u)
                           /\ Held(u)' => Held(u) \/ u = t
      BY <2>1, <2>4 DEF Dumping, Held, LoopIdle
    <2> QED
      BY <1>1, <2>2, <2>4, <2>5, <2>6, <2>7 DEF IInv, HeldOpen, NoOverlap, InFlight
  <1> QED
    BY <1>3, <1>4 DEF ClaimSnapshotRun

\* A loop that has won its slot and gives it up closes a run nothing dumps for.
LEMMA SkipStep ==
    ASSUME IInv, TypeOK', NEW p \in Procs, Skip(p)
    PROVE  IInv'
  <1> PICK t \in Slots : t = loop[p].slot
    BY DEF IInv, Links, LoopsClaim, Skip
  <1>1. faults' = 0 => faults = 0
    BY FaultsGrow DEF IInv, Skip, UpdateSnapshotRun
  <1>2. /\ Busy(p)
        /\ \A q \in Procs : q # p => loop'[q] = loop[q]
        /\ loop'[p] = LoopIdle
    BY DEF IInv, TypeOK, Links, LoopsClaim, Skip, Busy
  <1>3. \A u \in Slots : /\ run[u] # "none" => run'[u] # "none"
                         /\ u # t => run'[u] = run[u]
    BY <1>2 DEF Skip, UpdateSnapshotRun, IInv, TypeOK
  <1>4. UNCHANGED <<link, owner, dump, reports, closing, timedOut>>
    BY DEF Skip
  <1>5. \A q \in Procs : Busy(q)' => Busy(q) /\ loop'[q] = loop[q]
    BY <1>2 DEF Busy, LoopIdle
  <1>6. Links'
    <2>1. LoopsClaim'
      BY <1>2, <1>3, <1>5 DEF IInv, Links, LoopsClaim, LoopIdle, Busy
    <2>4. OneLoop'
      BY <1>5 DEF IInv, Links, OneLoop
    <2>2. OwnerClaimed' /\ DumpOwned' /\ Reported'
      BY <1>3, <1>4 DEF IInv, TypeOK, Links, OwnerClaimed, DumpOwned, Reported
    <2>3. NotStarted' /\ Marks' /\ Linked'
      BY <1>4, <1>5 DEF IInv, Links, NotStarted, Marks, Linked, Busy
    <2> QED
      BY <2>1, <2>2, <2>3, <2>4 DEF Links
  <1>7. \A u \in Slots : (Dumping(u)' => Dumping(u)) /\ (Held(u)' => Held(u))
    BY <1>4, <1>5 DEF Dumping, Held, Busy
  <1>8. SlotOnce'
    BY <1>4 DEF IInv, SlotOnce
  <1>9. ~Held(t)'
    <2>1. \A q \in Procs : Busy(q)' => loop'[q].slot # t
      BY <1>2, <1>5 DEF IInv, Links, OneLoop, Busy, LoopIdle
    <2>2. \A s \in SnapIds : owner'[s] # t
      BY <1>4 DEF IInv, Links, NotStarted, Skip
    <2> QED
      BY <2>1, <2>2 DEF Held, Dumping, Busy
  <1>10. HeldOpen'
    BY <1>1, <1>3, <1>4, <1>7, <1>9 DEF IInv, HeldOpen
  <1>11. NoOverlap'
    BY <1>1, <1>4, <1>7 DEF IInv, NoOverlap
  <1> QED
    BY <1>6, <1>8, <1>10, <1>11 DEF IInv

\* A loop goes ahead only when it sees no other run in flight, so every other
\* dump under way has been timed out.
LEMMA GoAheadStep ==
    ASSUME IInv, TypeOK', NEW p \in Procs, GoAhead(p)
    PROVE  IInv'
  <1> DEFINE t == loop[p].slot
  <1>1. faults' = 0 => faults = 0 /\ ~HasRunInFlight(t)
    BY ScheduleAssumption DEF IInv, TypeOK, GoAhead, Fault
  <1>2. /\ t \in Slots /\ Busy(p)
        /\ \A q \in Procs : q # p => loop'[q] = loop[q]
        /\ loop[p].pc = "won" /\ loop'[p].pc = "start" /\ loop'[p].slot = t
    BY DEF IInv, TypeOK, Links, LoopsClaim, GoAhead, Busy
  <1>3. UNCHANGED <<run, link, owner, dump, reports, closing, timedOut>>
    BY DEF GoAhead
  <1>4. \A q \in Procs : /\ Busy(q)' => Busy(q)
                         /\ loop'[q].slot = loop[q].slot
                         /\ loop'[q].pc = "mark" => loop'[q] = loop[q]
                         /\ loop'[q].pc \in {"won", "start"} => loop[q].pc \in {"won", "start"}
                         /\ loop'[q].pc # "idle" => loop[q].pc # "idle"
    BY <1>2 DEF Busy
  <1>5. Links'
    BY <1>3, <1>4 DEF IInv, Links, LoopsClaim, OneLoop, OwnerClaimed, DumpOwned, Reported,
                      NotStarted, Marks, Linked
  <1>6. SlotOnce'
    BY <1>3 DEF IInv, SlotOnce
  <1>7. \A u \in Slots : /\ Dumping(u)' => Dumping(u) \/ u = t
                         /\ Held(u)' => Held(u)
    BY <1>2, <1>3 DEF Dumping, Held
  <1>8. faults' = 0 => \A u \in Slots : Dumping(u) /\ u # t => u \in timedOut
    BY <1>1 DEF HasRunInFlight, IInv, HeldOpen, Held
  <1> QED
    BY <1>1, <1>2, <1>3, <1>5, <1>6, <1>7, <1>8 DEF IInv, HeldOpen, NoOverlap

\* The loop at the start of its slot's snapshot is the only one that can give the
\* slot a snapshot, and no other snapshot has it.
LEMMA StartStep ==
    ASSUME IInv, TypeOK', NEW p \in Procs, StartSnapshot(p)
    PROVE  IInv'
  <1> PICK t \in Slots : t = loop[p].slot
    BY DEF IInv, Links, LoopsClaim, StartSnapshot
  <1>1. faults' = 0 => faults = 0
    BY FaultsGrow DEF IInv, StartSnapshot, UpdateSnapshotRun
  <1>2. /\ loop[p].pc = "start" /\ Busy(p) /\ run[t] # "none"
        /\ \A q \in Procs : q # p => loop'[q] = loop[q] /\ (Busy(q) => loop[q].slot # t)
        /\ \A s \in SnapIds : owner[s] # t
        /\ link[t] = NoSnap
    BY DEF IInv, TypeOK, Links, LoopsClaim, OneLoop, NotStarted, Linked, StartSnapshot, Busy
  <1>3. UNCHANGED <<link, reports, closing, timedOut>>
    BY DEF StartSnapshot
  <1>4. \A u \in Slots : /\ run[u] # "none" => run'[u] # "none"
                         /\ u # t => run'[u] = run[u]
    BY DEF StartSnapshot, UpdateSnapshotRun, IInv, TypeOK
  <1>5. CASE UNCHANGED owner
    <2>1. loop'[p] = LoopIdle /\ UNCHANGED dump
      BY <1>2, <1>5, NoValues DEF StartSnapshot, NextSnap, IInv, TypeOK
    <2>2. \A q \in Procs : Busy(q)' => Busy(q) /\ loop'[q] = loop[q] /\ q # p
      BY <1>2, <2>1 DEF Busy, LoopIdle
    <2>3. LoopsClaim'
      BY <1>2, <1>4, <2>1, <2>2 DEF IInv, Links, LoopsClaim, LoopIdle, Busy
    <2>4. OneLoop' /\ NotStarted' /\ Marks' /\ Linked'
      BY <1>3, <1>5, <2>2 DEF IInv, Links, OneLoop, NotStarted, Marks, Linked, Busy
    <2>5. OwnerClaimed' /\ DumpOwned' /\ Reported'
      BY <1>3, <1>4, <1>5, <2>1 DEF IInv, TypeOK, Links, OwnerClaimed, DumpOwned, Reported
    <2>6. SlotOnce'
      BY <1>5 DEF IInv, SlotOnce
    <2>7. \A u \in Slots : (Dumping(u)' => Dumping(u)) /\ (Held(u)' => Held(u) /\ u # t)
      BY <1>2, <1>5, <2>1, <2>2 DEF Dumping, Held, Busy
    <2> QED
      BY <1>1, <1>3, <1>4, <2>3, <2>4, <2>5, <2>6, <2>7 DEF IInv, Links, HeldOpen, NoOverlap
  <1>6. ASSUME NEW s \in NextSnap, owner' = [owner EXCEPT ![s] = t]
        PROVE  IInv'
    <2>1. /\ s \in SnapIds /\ owner[s] = NoSlot /\ owner'[s] = t /\ dump[s] = "none"
          /\ \A r \in SnapIds : r # s => owner'[r] = owner[r]
      BY <1>6 DEF NextSnap, IInv, TypeOK, Links, DumpOwned
    <2>2. \/ /\ dump'[s] = "sent" /\ \A r \in SnapIds : r # s => dump'[r] = dump[r]
             /\ UNCHANGED run
             /\ loop'[p].pc = "mark" /\ loop'[p].snap = s /\ loop'[p].slot = t
          \/ loop'[p] = LoopIdle /\ UNCHANGED dump
      <3>1. PICK r \in NextSnap :
               /\ owner' = [owner EXCEPT ![r] = t]
               /\ \/ /\ dump' = [dump EXCEPT ![r] = "sent"]
                     /\ loop' = [loop EXCEPT ![p].pc = "mark", ![p].snap = r]
                     /\ UNCHANGED <<run, faults>>
                  \/ /\ loop' = [loop EXCEPT ![p] = LoopIdle]
                     /\ UNCHANGED dump
        BY <2>1, NoValues DEF StartSnapshot
      <3>2. r = s
        BY <2>1, <3>1, NoValues DEF NextSnap, IInv, TypeOK
      <3> QED
        BY <2>1, <3>1, <3>2 DEF IInv, TypeOK
    <2>3. \A q \in Procs : Busy(q)' =>
              \/ Busy(q) /\ loop'[q] = loop[q] /\ q # p
              \/ q = p /\ loop'[p].pc = "mark" /\ loop'[p].snap = s /\ loop'[p].slot = t
      BY <1>2, <2>2 DEF Busy, LoopIdle
    <2>4. LoopsClaim'
      BY <1>2, <1>4, <2>2, <2>3 DEF IInv, Links, LoopsClaim, LoopIdle, Busy
    <2>5. OneLoop'
      BY <1>2, <2>3 DEF IInv, Links, OneLoop
    <2>6. OwnerClaimed'
      BY <1>2, <1>4, <2>1 DEF IInv, TypeOK, Links, OwnerClaimed
    <2>7. NotStarted'
      BY <1>2, <2>1, <2>3 DEF IInv, Links, NotStarted, Busy
    <2>8. Marks'
      BY <2>1, <2>3, NoValues DEF IInv, Links, Marks, LoopsClaim, Busy
    <2>9. Linked'
      BY <1>2, <1>3, <2>1, <2>3, NoValues DEF IInv, TypeOK, Links, Linked
    <2>10. DumpOwned' /\ Reported'
      BY <1>3, <2>1, <2>2, NoValues DEF IInv, TypeOK, Links, DumpOwned, Reported, Report
    <2>11. SlotOnce'
      BY <1>2, <2>1 DEF IInv, SlotOnce
    <2>12. \A u \in Slots : Dumping(u)' => Dumping(u)
      BY <1>2, <2>1, <2>2, <2>3 DEF Dumping, Busy
    <2>13. \A u \in Slots : Held(u)' => Held(u) /\ (u = t => UNCHANGED run)
      BY <1>2, <2>1, <2>2, <2>3 DEF Dumping, Held, Busy
    <2> QED
      BY <1>1, <1>3, <1>4, <2>4, <2>5, <2>6, <2>7, <2>8, <2>9, <2>10, <2>11, <2>12, <2>13
         DEF IInv, Links, HeldOpen, NoOverlap
  <1> QED
    BY <1>5, <1>6 DEF StartSnapshot

\* The run a loop marks is its own, and from then on linked.
LEMMA MarkStep ==
    ASSUME IInv, TypeOK', NEW p \in Procs, MarkRunning(p)
    PROVE  IInv'
  <1> PICK t \in Slots : t = loop[p].slot
    BY DEF IInv, Links, LoopsClaim, MarkRunning
  <1>1. faults' = 0 => faults = 0
    BY FaultsGrow DEF IInv, MarkRunning
  <1>2. CASE UNCHANGED <<run, link>>
    BY <1>1, <1>2, QuietStep DEF MarkRunning, IInv, TypeOK
  <1>3. CASE /\ run' = [run EXCEPT ![t] = "running"]
             /\ link' = [link EXCEPT ![t] = loop[p].snap]
    <2>1. /\ Busy(p) /\ loop[p].snap \in SnapIds /\ owner[loop[p].snap] = t
          /\ loop'[p] = LoopIdle
          /\ \A q \in Procs : q # p => loop'[q] = loop[q] /\ (Busy(q) => loop[q].slot # t)
      BY DEF IInv, TypeOK, Links, Marks, OneLoop, MarkRunning, Busy
    <2>2. \A u \in Slots : IF u = t THEN run'[u] = "running" /\ link'[u] = loop[p].snap
                                   ELSE run'[u] = run[u] /\ link'[u] = link[u]
      BY <1>3 DEF IInv, TypeOK
    <2>3. UNCHANGED <<owner, dump, reports, closing, timedOut>>
      BY DEF MarkRunning
    <2>4. \A q \in Procs : Busy(q)' => Busy(q) /\ loop'[q] = loop[q] /\ q # p
      BY <2>1 DEF Busy, LoopIdle
    <2>5. LoopsClaim'
      BY <2>1, <2>2, <2>4 DEF IInv, Links, LoopsClaim, LoopIdle, Busy
    <2>6. OneLoop' /\ NotStarted' /\ Marks'
      BY <2>3, <2>4 DEF IInv, Links, OneLoop, NotStarted, Marks, Busy
    <2>7. OwnerClaimed' /\ DumpOwned' /\ Reported'
      BY <2>2, <2>3 DEF IInv, TypeOK, Links, OwnerClaimed, DumpOwned, Reported
    <2>8. Linked'
      BY <2>1, <2>2, <2>3, <2>4 DEF IInv, Links, Linked
    <2>9. SlotOnce'
      BY <2>3 DEF IInv, SlotOnce
    <2>10. \A u \in Slots : (Dumping(u)' => Dumping(u)) /\ (Held(u)' => Held(u))
      BY <2>3, <2>4 DEF Dumping, Held, Busy
    <2> QED
      BY <1>1, <2>2, <2>3, <2>5, <2>6, <2>7, <2>8, <2>9, <2>10
         DEF IInv, Links, HeldOpen, NoOverlap, InFlight
  <1> QED
    BY <1>2, <1>3 DEF MarkRunning

\* The run a report closes has no dump under way: its one snapshot has ended.
LEMMA CloseRunStep ==
    ASSUME IInv, TypeOK', CloseRunForSnapshot
    PROVE  IInv'
  <1>1. faults' = 0 => faults = 0
    BY FaultsGrow DEF IInv, CloseRunForSnapshot, UpdateSnapshotRun
  <1>2. UNCHANGED <<link, owner, dump, loop, reports, timedOut>> /\ closing' \subseteq closing
    BY DEF CloseRunForSnapshot
  <1>3. CASE UNCHANGED run
    BY <1>1, <1>2, <1>3, CloseStep DEF IInv
  <1>4. ASSUME NEW r \in closing, NEW t \in Slots, link[t] = r.snap,
               \/ run' = [run EXCEPT ![t] = "completed"]
               \/ run' = [run EXCEPT ![t] = "failed"]
        PROVE  IInv'
    <2>1. link[t] # NoSnap /\ r.snap \in SnapIds /\ dump[r.snap] = "ended" /\ owner[r.snap] = t
      BY <1>4, NoValues DEF IInv, TypeOK, Links, Linked, Reported, Report
    <2>2. \A s \in SnapIds : owner[s] = t => s = r.snap
      BY <2>1, NoValues DEF IInv, SlotOnce
    <2>3. ~Held(t)
      BY <2>1, <2>2 DEF IInv, Links, Linked, Held, Dumping, Busy
    <2>4. \A u \in Slots : (u # t => run'[u] = run[u]) /\ (run[u] # "none" => run'[u] # "none")
      BY <1>4 DEF IInv, TypeOK
    <2> QED
      BY <1>1, <1>2, <2>3, <2>4, CloseStep DEF IInv
  <1> QED
    BY <1>3, <1>4 DEF CloseRunForSnapshot, UpdateSnapshotRun

\* Every step keeps the invariant.
LEMMA InvStep ==
    ASSUME IInv, [Next]_vars
    PROVE  IInv'
  <1>1. TypeOK /\ TypeOK'
    BY TypeStep DEF IInv
  <1>2. CASE UNCHANGED vars \/ Tick \/ ListStuckSnapshotRuns
    BY <1>1, <1>2, QuietStep DEF vars, Tick, ListStuckSnapshotRuns, goroutines, counters
  <1>3. CASE RecordStatus
    BY <1>1, <1>3, QuietStep, FaultsGrow DEF RecordStatus
  <1>4. CASE FailStuckRun
    <2>1. faults' = 0 => faults = 0
      BY <1>1, <1>4, FaultsGrow DEF FailStuckRun, UpdateSnapshotRun
    <2>2. PICK t \in Slots : /\ timedOut' = timedOut \cup {t}
                             /\ run' = run \/ run' = [run EXCEPT ![t] = "failed"]
      BY <1>1, <1>4 DEF FailStuckRun, UpdateSnapshotRun, TypeOK
    <2>3. \A u \in Slots : /\ run[u] # "none" => run'[u] # "none"
                           /\ run'[u] = run[u] \/ u \in timedOut'
      BY <1>1, <2>2 DEF TypeOK
    <2> QED
      BY <1>1, <1>4, <2>1, <2>2, <2>3, CloseStep DEF FailStuckRun
  <1>5. CASE CloseRunForSnapshot
    BY <1>1, <1>5, CloseRunStep
  <1>6. ASSUME NEW p \in Procs, DispatchDue(p) \/ Restart(p)
        PROVE  IInv'
    BY <1>1, <1>6, QuietStep DEF DispatchDue, Restart, counters, TypeOK
  <1>7. ASSUME NEW p \in Procs, LoopStep(p)
        PROVE  IInv'
    BY <1>1, <1>7, ClaimStep, SkipStep, GoAheadStep, StartStep, MarkStep DEF LoopStep
  <1>8. ASSUME NEW s \in SnapIds, WorkerEnds(s)
        PROVE  IInv'
    <2>1. UNCHANGED <<run, link, owner, loop, closing, faults, timedOut>>
      BY <1>8 DEF WorkerEnds, goroutines, counters
    <2>2. /\ dump[s] = "sent" /\ dump'[s] = "ended"
          /\ \A r \in SnapIds : r # s => dump'[r] = dump[r]
          /\ \A r \in reports' : r \in reports \/ r.snap = s
      BY <1>1, <1>8 DEF WorkerEnds, TypeOK
    <2>3. OwnerClaimed' /\ DumpOwned'
      BY <2>1, <2>2 DEF IInv, Links, OwnerClaimed, DumpOwned
    <2>4. Reported'
      BY <1>1, <2>1, <2>2 DEF IInv, TypeOK, Links, Reported, Report
    <2>5. LoopsClaim' /\ OneLoop' /\ NotStarted' /\ Marks' /\ Linked'
      BY <2>1 DEF IInv, Links, LoopsClaim, OneLoop, NotStarted, Marks, Linked, Busy
    <2>6. SlotOnce'
      BY <2>1 DEF IInv, SlotOnce
    <2>7. \A t \in Slots : (Dumping(t)' => Dumping(t)) /\ (Held(t)' => Held(t))
      BY <2>1, <2>2 DEF Dumping, Held
    <2> QED
      BY <1>1, <2>1, <2>3, <2>4, <2>5, <2>6, <2>7 DEF IInv, Links, HeldOpen, NoOverlap
  <1> QED
    BY <1>2, <1>3, <1>4, <1>5, <1>6, <1>7, <1>8 DEF Next

(***************************************************************************)
(* A slot of the schedule is dispatched at most once, for any number of    *)
(* processes, restarts and failed statements.                              *)
(***************************************************************************)
THEOREM SlotDispatchedOnce == Spec => []SlotOnce
  <1>1. IInv => SlotOnce
    BY DEF IInv
  <1> QED
    BY InitInv, InvStep, <1>1, PTL DEF Spec

(***************************************************************************)
(* Two scheduled dumps of a database overlap only if one of their runs was *)
(* timed out or a statement failed.                                        *)
(***************************************************************************)
THEOREM ScheduledDumpsDoNotOverlap == Spec => []NoOverlap
  <1>1. IInv => NoOverlap
    BY DEF IInv
  <1> QED
    BY InitInv, InvStep, <1>1, PTL DEF Spec
=============================================================================
