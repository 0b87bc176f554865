-------------------------- MODULE AutomationsProofs --------------------------
(***************************************************************************)
(* Proofs for Automations, for any number of runs, steps, runner slots and *)
(* mishaps: the type invariant with the count of runner slots, that runs   *)
(* which have not outlived their claim act one at a time, that a slot of   *)
(* the schedule is carried out once, the safety of OneRunner, and that the *)
(* history a closed run leaves is true.                                    *)
(*                                                                         *)
(* That a guard cannot be broken or released under a live run rests on     *)
(* ages: whoever may do so has seen the run older than CLAIM_STALE_AFTER,  *)
(* and a live run of that age has outlived its claim (Ages).               *)
(***************************************************************************)
EXTENDS Automations, FiniteSetTheorems, TLAPS

\* A guard that may be broken is that of an old run.
GuardAge == guardOld => guard \in old

\* A run that is old and alive has outlived its claim.
OldIsOutlived == \A r \in Runs : r \in old /\ Alive(r) => r \in outlived

\* The sweep works on old runs.
SweptIsOld == \A r \in Runs : sweep[r] # "no" => r \in old

\* A firing that has not begun has no row, no guard and no age.
Unborn == \A r \in Runs : At(r, "none") => run[r] = "none" /\ guard # r /\ r \notin old

Ages == GuardAge /\ OldIsOutlived /\ SweptIsOld /\ Unborn

\* The places of a firing that will take no further step.
EndedAt == {"panic", "finish", "release", "over"}

\* How a step of firing r moves it: forward only, and into the loop only
\* together with the guard.
PcStep(r) ==
    /\ \A q \in Runs \ {r} : job'[q] = job[q]
    /\ \/ job[r].pc = "loaded" /\ job'[r].pc \in {"loaded", "created", "over"}
       \/ job[r].pc = "created" /\ job'[r].pc \in {"claim", "over"}
       \/ job[r].pc = "claim" /\ job'[r].pc = "finish"
       \/ job[r].pc = "claim" /\ job'[r].pc = "loop" /\ ClaimAutomation(r)
       \/ Acting(r) /\ job'[r].pc \in {"loop", "audit", "persist", "panic", "finish"}
       \/ job[r].pc \in {"panic", "finish"} /\ job'[r].pc \in {"finish", "release"}
       \/ job[r].pc = "release" /\ job'[r].pc = "over"

-----------------------------------------------------------------------------
(* Values.                                                                   *)

\* Runs are finitely many positive numbers, and steps begin with one.
LEMMA RunsAreNumbers ==
    /\ IsFiniteSet(Runs) /\ \A r \in Runs : r \in Nat \ {0}
    /\ 1 \in Steps /\ Steps \subseteq Nat
  <1>1. IsFiniteSet(Runs)
    BY FS_Interval, AutomationAssumption DEF Runs
  <1> QED BY <1>1, AutomationAssumption DEF Runs, Steps

\* Steps that were never reached are still steps.
LEMMA PendingSteps == Pending \in [Steps -> StepStatus]
  BY DEF Pending, StepStatus

\* finishPending turns pending steps into skipped ones.
LEMMA FinishedSteps ==
    ASSUME NEW s \in [Steps -> StepStatus], NEW from \in Int
    PROVE FinishPending(s, from) \in [Steps -> StepStatus]
  BY DEF FinishPending, StepStatus

\* A firing starts, and ends, with nothing in hand.
LEMMA RestingJobs == Nobody \in JobType /\ Over \in JobType
  BY PendingSteps, RunsAreNumbers DEF JobType, Nobody, Over, Closed, Slotted

\* The verdict of a run is one of a closed run.
LEMMA Verdicts == ASSUME NEW s PROVE Verdict(s) \in Closed
  BY DEF Verdict, Closed

\* After a step the firing goes on to the next one or finishes.
LEMMA AfterStepType ==
    ASSUME NEW j \in JobType
    PROVE AfterStep(j) \in JobType /\ AfterStep(j).pc \in {"finish", "loop"}
                                   /\ AfterStep(j).pc \in Slotted
  <1>1. j.mine \in [Steps -> StepStatus] /\ j.at \in Steps
    BY DEF JobType
  <1>a. j.at + 1 \in Int
    BY <1>1, AutomationAssumption DEF Steps
  <1>2. FinishPending(j.mine, j.at + 1) \in [Steps -> StepStatus]
    BY <1>1, <1>a, FinishedSteps
  <1>3. j.at # NumSteps => j.at + 1 \in Steps
    BY <1>1, AutomationAssumption DEF Steps
  <1> QED BY <1>1, <1>2, <1>3, Verdicts DEF AfterStep, JobType, Slotted

\* A refused firing records that it ran nothing.
LEMMA RefusedType ==
    ASSUME TypeOK, NEW r \in Runs, NEW v \in Closed
    PROVE /\ Refused(r, v) \in JobType /\ Refused(r, v).pc = "finish"
          /\ \A b \in BOOLEAN : /\ [Refused(r, v) EXCEPT !.held = b] \in JobType
                                /\ [Refused(r, v) EXCEPT !.held = b].pc = "finish"
  <1>1. job[r] \in JobType
    BY DEF TypeOK
  <1>2. FinishPending(Pending, 1) \in [Steps -> StepStatus]
    BY PendingSteps, FinishedSteps
  <1> QED BY <1>1, <1>2 DEF Refused, JobType, Slotted

-----------------------------------------------------------------------------
(* Types and runner slots.                                                   *)

\* Runner slots stay accounted for when nobody takes or gives back one.
LEMMA SameHolders ==
    ASSUME SlotsReturned, busy' = busy,
           \A q \in Runs : job'[q].pc \in Slotted <=> job[q].pc \in Slotted
    PROVE SlotsReturned'
  <1>1. {r \in Runs : job'[r].pc \in Slotted} = {r \in Runs : job[r].pc \in Slotted}
    OBVIOUS
  <1> QED BY <1>1 DEF SlotsReturned

\* A firing that takes a slot is counted.
LEMMA HolderAdded ==
    ASSUME TypeOK, SlotsReturned, NEW r \in Runs, busy' = busy + 1,
           job[r].pc \notin Slotted, job'[r].pc \in Slotted,
           \A q \in Runs \ {r} : job'[q] = job[q]
    PROVE SlotsReturned'
  <1> DEFINE H == {q \in Runs : job[q].pc \in Slotted}
             G == {q \in Runs : job'[q].pc \in Slotted}
  <1>1. IsFiniteSet(H)
    BY RunsAreNumbers, FS_Subset
  <1>2. G = H \cup {r} /\ r \notin H
    OBVIOUS
  <1>3. Cardinality(G) = Cardinality(H) + 1
    BY <1>1, <1>2, FS_AddElement
  <1> QED BY <1>3 DEF SlotsReturned

\* A firing that gives its slot back was counted.
LEMMA HolderGone ==
    ASSUME TypeOK, SlotsReturned, NEW r \in Runs, busy' = busy - 1,
           job[r].pc \in Slotted, job'[r].pc \notin Slotted,
           \A q \in Runs \ {r} : job'[q] = job[q]
    PROVE SlotsReturned' /\ busy >= 1
  <1> DEFINE H == {q \in Runs : job[q].pc \in Slotted}
             G == {q \in Runs : job'[q].pc \in Slotted}
  <1>1. IsFiniteSet(H)
    BY RunsAreNumbers, FS_Subset
  <1>2. G = H \ {r} /\ r \in H
    OBVIOUS
  <1>3. Cardinality(G) = Cardinality(H) - 1
    BY <1>1, <1>2, FS_RemoveElement
  <1>4. Cardinality(H) # 0
    BY <1>1, <1>2, FS_EmptySet
  <1>5. Cardinality(H) \in Nat
    BY <1>1, FS_CardinalityType
  <1>6. busy = Cardinality(H)
    BY DEF SlotsReturned
  <1> QED BY <1>3, <1>4, <1>5, <1>6 DEF SlotsReturned

\* Mishaps are counted up to their bound.
LEMMA MishapType == ASSUME TypeOK, Mishap PROVE mishaps' \in 0 .. MaxMishaps
  BY AutomationAssumption DEF TypeOK, Mishap

\* A statement goes through or its failure is noted.
LEMMA FaultType ==
    ASSUME TypeOK, NEW r \in Runs, NoFault \/ Fault(r)
    PROVE mishaps' \in 0 .. MaxMishaps /\ untold' \subseteq Runs
  <1>1. CASE NoFault
    BY <1>1 DEF TypeOK, NoFault
  <1>2. CASE Fault(r)
    BY <1>2, MishapType DEF TypeOK, Fault
  <1> QED BY <1>1, <1>2

\* Writing a run's end keeps to the vocabularies.
LEMMA CloseRunType ==
    ASSUME TypeOK, NEW r \in Runs, NEW v \in Closed, NEW s \in [Steps -> StepStatus],
           CloseRun(r, v, s)
    PROVE /\ run' \in [Runs -> Closed \cup {"none", "in_progress"}]
          /\ steps' \in [Runs -> [Steps -> StepStatus]]
          /\ mishaps' \in 0 .. MaxMishaps /\ untold' \subseteq Runs
  <1>1. mishaps' \in 0 .. MaxMishaps /\ untold' \subseteq Runs
    BY FaultType DEF CloseRun
  <1>2. run' = run \/ run' = [run EXCEPT ![r] = v]
    BY DEF CloseRun
  <1>3. steps' = steps \/ steps' = [steps EXCEPT ![r] = s]
    BY DEF CloseRun
  <1>4. run' \in [Runs -> Closed \cup {"none", "in_progress"}]
    BY <1>2 DEF TypeOK
  <1>5. steps' \in [Runs -> [Steps -> StepStatus]]
    BY <1>3 DEF TypeOK
  <1> QED BY <1>1, <1>4, <1>5

\* So does giving the guard back.
LEMMA ReleaseType ==
    ASSUME TypeOK, NEW r \in Runs, ReleaseAutomationRun(r)
    PROVE guard' \in Runs \cup {0} /\ guardOld' \in BOOLEAN /\ mishaps' \in 0 .. MaxMishaps
  <1>1. mishaps' \in 0 .. MaxMishaps
    BY MishapType DEF TypeOK, ReleaseAutomationRun
  <1>2. (guard' = 0 /\ guardOld' = FALSE) \/ UNCHANGED guardVars
    BY DEF ReleaseAutomationRun
  <1> QED BY <1>1, <1>2 DEF TypeOK, guardVars

\* And making a row.
LEMMA CreateType ==
    ASSUME TypeOK, NEW r \in Runs, NEW t \in Slots \cup {NoSlot}, NEW w \in BOOLEAN,
           CreateAutomationRun(r, t, w)
    PROVE /\ run' \in [Runs -> Closed \cup {"none", "in_progress"}]
          /\ slotOf' \in [Runs -> Slots \cup {NoSlot}]
          /\ job' \in [Runs -> JobType]
          /\ mishaps' \in 0 .. MaxMishaps /\ untold' \subseteq Runs
          /\ job'[r].pc \in {job[r].pc, "created", "over"}
          /\ \A q \in Runs \ {r} : job'[q] = job[q]
  <1> DEFINE started == [job EXCEPT ![r].pc = "created", ![r].willing = w]
             left == [job EXCEPT ![r] = Over]
  <1>1. mishaps' \in 0 .. MaxMishaps /\ untold' \subseteq Runs
    BY FaultType, MishapType DEF CreateAutomationRun, TypeOK
  <1>2. (run' = run \/ run' = [run EXCEPT ![r] = "in_progress"])
        /\ (slotOf' = slotOf \/ slotOf' = [slotOf EXCEPT ![r] = t])
    BY DEF CreateAutomationRun
  <1>3. run' \in [Runs -> Closed \cup {"none", "in_progress"}]
    BY <1>2 DEF TypeOK
  <1>4. slotOf' \in [Runs -> Slots \cup {NoSlot}]
    BY <1>2 DEF TypeOK
  <1>5. job' \in {job, started, left}
    BY DEF CreateAutomationRun, Leave
  <1>6. job \in [Runs -> JobType] /\ job[r] \in JobType
    BY DEF TypeOK
  <1>7. started \in [Runs -> JobType] /\ started[r].pc = "created"
        /\ \A q \in Runs \ {r} : started[q] = job[q]
    <2>1. started = [job EXCEPT ![r] = [[job[r] EXCEPT !.pc = "created"] EXCEPT !.willing = w]]
      BY <1>6
    <2>2. [[job[r] EXCEPT !.pc = "created"] EXCEPT !.willing = w] \in JobType
      BY <1>6 DEF JobType
    <2>3. [[job[r] EXCEPT !.pc = "created"] EXCEPT !.willing = w].pc = "created"
      BY <1>6 DEF JobType
    <2> QED BY <1>6, <2>1, <2>2, <2>3
  <1>8. left \in [Runs -> JobType] /\ left[r].pc = "over"
        /\ \A q \in Runs \ {r} : left[q] = job[q]
    BY <1>6, RestingJobs DEF Over
  <1> QED BY <1>1, <1>3, <1>4, <1>5, <1>6, <1>7, <1>8

\* The steps of a firing keep the types and the count of runner slots.
LEMMA FiringTypes ==
    ASSUME TypeOK, SlotsReturned, NEW r \in Runs, FiringStep(r)
    PROVE TypeOK' /\ SlotsReturned' /\ PcStep(r)
  <1> USE DEF At, Goto, Leave
  <1>0. job[r] \in JobType
    BY DEF TypeOK
  <1>1. CASE CreateRun(r)
    <2>1. job[r].willing \in BOOLEAN
      BY <1>0 DEF JobType
    <2>2. CreateAutomationRun(r, NoSlot, job[r].willing) /\ job[r].pc = "loaded"
      BY <1>1 DEF CreateRun
    <2>3. NoSlot \in Slots \cup {NoSlot}
      OBVIOUS
    <2>4. /\ run' \in [Runs -> Closed \cup {"none", "in_progress"}]
          /\ slotOf' \in [Runs -> Slots \cup {NoSlot}]
          /\ job' \in [Runs -> JobType]
          /\ mishaps' \in 0 .. MaxMishaps /\ untold' \subseteq Runs
          /\ job'[r].pc \in {job[r].pc, "created", "over"}
          /\ \A q \in Runs \ {r} : job'[q] = job[q]
      BY <2>1, <2>2, <2>3, CreateType
    <2>5. SlotsReturned'
      BY <1>1, <2>2, <2>4, SameHolders DEF CreateRun, Slotted
    <2>9. PcStep(r)
      BY <2>2, <2>4 DEF PcStep, Acting
    <2> QED BY <1>1, <2>9, <2>4, <2>5
            DEF TypeOK, CreateRun, row, guardVars, ages, sweepVars, effects
  <1>2. CASE Skip(r)
    <2>1. CloseRun(r, "skipped", FinishPending(Pending, 1)) /\ job[r].pc = "created"
      BY <1>2 DEF Skip
    <2>2. FinishPending(Pending, 1) \in [Steps -> StepStatus]
      BY PendingSteps, FinishedSteps
    <2>3. job' \in [Runs -> JobType] /\ job'[r].pc = "over"
          /\ \A q \in Runs \ {r} : job'[q] = job[q]
      BY <1>2, RestingJobs DEF Skip, TypeOK, Over
    <2>9. PcStep(r)
      BY <2>1, <2>3 DEF PcStep, Acting
    <2> QED BY <1>2, <2>9, <2>1, <2>2, <2>3, CloseRunType, SameHolders
            DEF TypeOK, Skip, row, guardVars, ages, sweepVars, effects, Slotted, Closed
  <1>3. CASE TryAcquireSlot(r)
    <2>1. /\ job' \in [Runs -> JobType] /\ job[r].pc = "created" /\ job'[r].pc = "claim"
          /\ \A q \in Runs \ {r} : job'[q] = job[q]
      BY <1>0, <1>3 DEF TryAcquireSlot, TypeOK, JobType, Slotted
    <2>2. SlotsReturned'
      BY <1>3, <2>1, HolderAdded DEF TryAcquireSlot, Slotted
    <2>9. PcStep(r)
      BY <2>1 DEF PcStep, Acting
    <2> QED BY <1>3, <2>9, <2>1, <2>2, AutomationAssumption
            DEF TypeOK, TryAcquireSlot, row, guardVars, runVars, ages, sweepVars, effects
  <1>4. CASE ClaimAutomation(r)
    <2>1. /\ job' \in [Runs -> JobType] /\ job[r].pc = "claim"
          /\ job'[r].pc \in {"loop", "finish"}
          /\ \A q \in Runs \ {r} : job'[q] = job[q]
      <3>1. CASE job' = [job EXCEPT ![r].pc = "loop", ![r].held = TRUE]
        BY <1>0, <1>4, <3>1 DEF ClaimAutomation, TypeOK, JobType, Slotted
      <3>2. CASE job' = [job EXCEPT ![r] = [Refused(r, "failed") EXCEPT !.held = TRUE]]
        BY <1>4, <3>2, RefusedType DEF ClaimAutomation, TypeOK, Closed
      <3> QED BY <1>4, <3>1, <3>2 DEF ClaimAutomation, Authorise
    <2>9. PcStep(r)
      BY <2>1, <1>4 DEF PcStep, Acting
    <2> QED BY <1>4, <2>9, <2>1, SameHolders
            DEF TypeOK, ClaimAutomation, row, runVars, ages, sweepVars, effects, Slotted
  <1>5. CASE ClaimRefused(r)
    <2>1. /\ job' \in [Runs -> JobType] /\ job[r].pc = "claim" /\ job'[r].pc = "finish"
          /\ \A q \in Runs \ {r} : job'[q] = job[q]
      <3>1. PICK v \in Closed : job' = [job EXCEPT ![r] = Refused(r, v)]
        BY <1>5 DEF ClaimRefused, Closed
      <3>2. Refused(r, v) \in JobType /\ Refused(r, v).pc = "finish"
        BY RefusedType
      <3> QED BY <1>5, <3>1, <3>2 DEF ClaimRefused, TypeOK
    <2>2. mishaps' \in 0 .. MaxMishaps /\ untold' \subseteq Runs
      BY <1>5, MishapType DEF ClaimRefused, NoFault, TypeOK
    <2>3. SlotsReturned'
      BY <1>5, <2>1, SameHolders DEF ClaimRefused, Slotted
    <2>9. PcStep(r)
      BY <2>1 DEF PcStep, Acting
    <2> QED BY <1>5, <2>9, <2>1, <2>2, <2>3
            DEF TypeOK, ClaimRefused, row, guardVars, runVars, ages, sweepVars, effects
  <1>6. CASE RunStep(r)
    <2>1. /\ job' \in [Runs -> JobType] /\ job[r].pc = "loop"
          /\ job'[r].pc \in {"panic", "audit"}
          /\ \A q \in Runs \ {r} : job'[q] = job[q]
      <3>1. PICK c \in {"panic", "audit"}, x \in StepStatus :
                job' = [job EXCEPT ![r].pc = c, ![r].mine[job[r].at] = x]
        BY <1>6 DEF RunStep, Outcomes, StepStatus
      <3>2. [job[r].mine EXCEPT ![job[r].at] = x] \in [Steps -> StepStatus]
        BY <1>0 DEF JobType
      <3>3. job' = [job EXCEPT ![r] = [[job[r] EXCEPT !.pc = c]
                                 EXCEPT !.mine = [job[r].mine EXCEPT ![job[r].at] = x]]]
        BY <1>0, <3>1 DEF TypeOK, JobType
      <3>4. [[job[r] EXCEPT !.pc = c]
               EXCEPT !.mine = [job[r].mine EXCEPT ![job[r].at] = x]] \in JobType
        BY <1>0, <3>2 DEF JobType, Slotted
      <3> QED BY <1>0, <1>6, <3>3, <3>4 DEF RunStep, TypeOK, JobType
    <2>2. job[r].at \in Steps
      BY <1>0 DEF JobType
    <2>3. mishaps' \in 0 .. MaxMishaps /\ untold' \subseteq Runs
      BY <1>6, FaultType DEF RunStep
    <2>4. SlotsReturned'
      BY <1>6, <2>1, SameHolders DEF RunStep, Slotted
    <2>5. done' \subseteq Runs \X Steps
      BY <1>6, <2>2 DEF RunStep, TypeOK
    <2>9. PcStep(r)
      BY <2>1 DEF PcStep, Acting
    <2> QED BY <1>6, <2>9, <2>1, <2>3, <2>4, <2>5
            DEF TypeOK, RunStep, row, guardVars, runVars, ages, sweepVars
  <1>7. CASE BudgetExhausted(r)
    <2> DEFINE i == job[r].at
    <2>1. /\ i \in Steps /\ i + 1 \in Int
          /\ [job[r].mine EXCEPT ![i] = "failed"] \in [Steps -> StepStatus]
      BY <1>0, AutomationAssumption DEF JobType, StepStatus, Steps
    <2>2. FinishPending([job[r].mine EXCEPT ![i] = "failed"], i + 1) \in [Steps -> StepStatus]
      BY <2>1, FinishedSteps
    <2>3. /\ job' \in [Runs -> JobType] /\ job[r].pc = "loop" /\ job'[r].pc = "finish"
          /\ \A q \in Runs \ {r} : job'[q] = job[q]
      BY <1>0, <1>7, <2>2 DEF BudgetExhausted, TypeOK, JobType, Slotted, Closed
    <2>9. PcStep(r)
      BY <2>3 DEF PcStep, Acting
    <2> QED BY <1>7, <2>9, <2>3, SameHolders
            DEF TypeOK, BudgetExhausted, row, guardVars, runVars, ages, sweepVars, effects, Slotted
  <1>8. CASE Audit(r)
    <2>1. /\ job' \in [Runs -> JobType] /\ job[r].pc = "audit" /\ job'[r].pc = "persist"
          /\ \A q \in Runs \ {r} : job'[q] = job[q]
      BY <1>0, <1>8 DEF Audit, TypeOK, JobType, Slotted
    <2>2. job[r].at \in Steps
      BY <1>0 DEF JobType
    <2>9. PcStep(r)
      BY <2>1 DEF PcStep, Acting
    <2> QED BY <1>8, <2>9, <2>1, <2>2, SameHolders, AutomationAssumption
            DEF TypeOK, Audit, NoFault, Fault, Mishap, row, guardVars, runVars, ages,
                sweepVars, Slotted
  <1>9. CASE PersistSteps(r)
    <2>1. /\ job' \in [Runs -> JobType] /\ job[r].pc = "persist"
          /\ job'[r].pc \in {"finish", "loop"}
          /\ \A q \in Runs \ {r} : job'[q] = job[q]
      BY <1>0, <1>9, AfterStepType DEF PersistSteps, TypeOK
    <2>2. job[r].mine \in [Steps -> StepStatus]
      BY <1>0 DEF JobType
    <2>3. mishaps' \in 0 .. MaxMishaps /\ untold' \subseteq Runs
      BY <1>9, FaultType DEF PersistSteps
    <2>4. SlotsReturned'
      BY <1>9, <2>1, SameHolders DEF PersistSteps, Slotted
    <2>5. steps' \in [Runs -> [Steps -> StepStatus]]
      BY <1>9, <2>2 DEF PersistSteps, TypeOK
    <2>9. PcStep(r)
      BY <2>1 DEF PcStep, Acting
    <2> QED BY <1>9, <2>9, <2>1, <2>3, <2>4, <2>5
            DEF TypeOK, PersistSteps, row, guardVars, ages, sweepVars, effects
  <1>10. CASE Finish(r)
    <2>1. /\ job' \in [Runs -> JobType] /\ job[r].pc = "finish" /\ job'[r].pc = "release"
          /\ \A q \in Runs \ {r} : job'[q] = job[q]
      BY <1>0, <1>10 DEF Finish, TypeOK, JobType, Slotted
    <2>2. job[r].mine \in [Steps -> StepStatus] /\ job[r].verdict \in Closed
      BY <1>0 DEF JobType
    <2>9. PcStep(r)
      BY <2>1 DEF PcStep, Acting
    <2> QED BY <1>10, <2>9, <2>1, <2>2, CloseRunType, SameHolders
            DEF TypeOK, Finish, row, guardVars, ages, sweepVars, effects, Slotted
  <1>11. CASE Release(r)
    <2>1. /\ job' \in [Runs -> JobType] /\ job[r].pc = "release" /\ job'[r].pc = "over"
          /\ \A q \in Runs \ {r} : job'[q] = job[q]
      BY <1>11, RestingJobs DEF Release, TypeOK, Over
    <2>2. SlotsReturned' /\ busy >= 1
      BY <1>11, <2>1, HolderGone DEF Release, Slotted
    <2>3. guard' \in Runs \cup {0} /\ guardOld' \in BOOLEAN /\ mishaps' \in 0 .. MaxMishaps
      BY <1>11, ReleaseType DEF Release, TypeOK, guardVars
    <2>9. PcStep(r)
      BY <2>1 DEF PcStep, Acting
    <2> QED BY <1>11, <2>9, <2>1, <2>2, <2>3, AutomationAssumption
            DEF TypeOK, Release, row, runVars, ages, sweepVars, effects
  <1>12. CASE Recover(r)
    <2>1. /\ job' \in [Runs -> JobType] /\ job[r].pc = "panic" /\ job'[r].pc = "finish"
          /\ \A q \in Runs \ {r} : job'[q] = job[q]
      BY <1>12, RefusedType DEF Recover, TypeOK, Closed
    <2>9. PcStep(r)
      BY <2>1 DEF PcStep, Acting
    <2> QED BY <1>12, <2>9, <2>1, ReleaseType, SameHolders
            DEF TypeOK, Recover, row, runVars, ages, sweepVars, effects, Slotted
  <1> QED BY <1>1, <1>2, <1>3, <1>4, <1>5, <1>6, <1>7, <1>8, <1>9, <1>10, <1>11, <1>12
          DEF FiringStep

\* The other steps do as well.
LEMMA NextTypes ==
    ASSUME TypeOK, SlotsReturned, Next
    PROVE TypeOK' /\ SlotsReturned'
  <1>1. CASE Tick
    BY <1>1, SameHolders, AutomationAssumption
       DEF TypeOK, Tick, row, guardVars, runVars, sweepVars, effects
  <1>2. CASE GuardAges
    BY <1>2, SameHolders
       DEF TypeOK, GuardAges, row, runVars, ages, sweepVars, effects
  <1>3. CASE DeleteAutomation
    <2>1. mishaps' \in 0 .. MaxMishaps
      BY <1>3, MishapType DEF DeleteAutomation, TouchRow
    <2>2. SlotsReturned'
      BY <1>3, SameHolders DEF DeleteAutomation
    <2> QED BY <1>3, <2>1, <2>2
         DEF TypeOK, DeleteAutomation, TouchRow, guardVars, runVars, ages, sweepVars, effects
  <1>4. ASSUME NEW r \in Runs, NEW t \in Slots, FireScheduled(r, t)
        PROVE TypeOK' /\ SlotsReturned'
    <2> DEFINE w == now - t <= CatchUpWindow
    <2>1. w \in BOOLEAN
      OBVIOUS
    <2>2. CreateAutomationRun(r, t, w) /\ job[r].pc = "none"
      BY <1>4 DEF FireScheduled, Fresh, At
    <2> HIDE DEF w
    <2>3. t \in Slots \cup {NoSlot}
      OBVIOUS
    <2>4. /\ run' \in [Runs -> Closed \cup {"none", "in_progress"}]
          /\ slotOf' \in [Runs -> Slots \cup {NoSlot}]
          /\ job' \in [Runs -> JobType]
          /\ mishaps' \in 0 .. MaxMishaps /\ untold' \subseteq Runs
          /\ job'[r].pc \in {job[r].pc, "created", "over"}
          /\ \A q \in Runs \ {r} : job'[q] = job[q]
      BY <2>1, <2>2, <2>3, CreateType
    <2>5. SlotsReturned'
      BY <1>4, <2>2, <2>4, SameHolders DEF FireScheduled, Slotted
    <2> QED BY <1>4, <2>4, <2>5
            DEF TypeOK, FireScheduled, row, guardVars, ages, sweepVars, effects
  <1>5. CASE ListStuckRuns
    BY <1>5, SameHolders, PendingSteps
       DEF TypeOK, ListStuckRuns, row, guardVars, runVars, ages, effects
  <1>6. CASE Restart
    <2>1. job' \in [Runs -> JobType] /\ \A q \in Runs : job'[q].pc \in {"none", "over"}
      BY <1>6, RestingJobs DEF Restart, TypeOK, Alive, Over
    <2>2. {r \in Runs : job'[r].pc \in Slotted} = {}
      BY <2>1 DEF Slotted
    <2>3. SlotsReturned'
      BY <1>6, <2>2, FS_EmptySet DEF SlotsReturned, Restart
    <2> QED BY <1>6, <2>1, <2>3, PendingSteps, AutomationAssumption
            DEF TypeOK, Restart, Mishap, row, guardVars, runVars, ages, effects
  <1>7. ASSUME NEW on \in BOOLEAN, UpdateAutomation(on)
        PROVE TypeOK' /\ SlotsReturned'
    BY <1>7, SameHolders, AutomationAssumption
       DEF TypeOK, UpdateAutomation, TouchRow, Mishap, guardVars, runVars, ages, sweepVars, effects
  <1>8. ASSUME NEW r \in Runs, RunAges(r)
        PROVE TypeOK' /\ SlotsReturned'
    BY <1>8, SameHolders, AutomationAssumption
       DEF TypeOK, RunAges, Mishap, row, guardVars, runVars, sweepVars, effects
  <1>9. ASSUME NEW r \in Runs, Requested(r)
        PROVE TypeOK' /\ SlotsReturned'
    <2>1. /\ job' \in [Runs -> JobType] /\ job[r].pc = "none" /\ job'[r].pc = "loaded"
          /\ \A q \in Runs \ {r} : job'[q] = job[q]
      <3>1. job[r] \in JobType /\ enabled \in BOOLEAN
        BY DEF TypeOK
      <3>2. job' = [job EXCEPT ![r] = [[job[r] EXCEPT !.pc = "loaded"] EXCEPT !.willing = enabled]]
        BY <1>9 DEF Requested, TypeOK
      <3>3. [[job[r] EXCEPT !.pc = "loaded"] EXCEPT !.willing = enabled] \in JobType
        BY <3>1 DEF JobType
      <3>4. [[job[r] EXCEPT !.pc = "loaded"] EXCEPT !.willing = enabled].pc = "loaded"
        BY <3>1 DEF JobType
      <3> QED BY <1>9, <3>2, <3>3, <3>4 DEF Requested, Fresh, At, TypeOK
    <2> QED BY <1>9, <2>1, SameHolders
            DEF TypeOK, Requested, row, guardVars, runVars, ages, sweepVars, effects, Slotted
  <1>10. ASSUME NEW r \in Runs, FailStuckRun(r)
         PROVE TypeOK' /\ SlotsReturned'
    <2>1. FinishPending(listed[r], 1) \in [Steps -> StepStatus]
      BY FinishedSteps DEF TypeOK
    <2> QED BY <1>10, <2>1, CloseRunType, SameHolders
            DEF TypeOK, FailStuckRun, row, guardVars, ages, effects, Closed
  <1>11. ASSUME NEW r \in Runs, ReleaseStuckRun(r)
         PROVE TypeOK' /\ SlotsReturned'
    BY <1>11, ReleaseType, SameHolders, PendingSteps
       DEF TypeOK, ReleaseStuckRun, row, runVars, ages, effects
  <1> QED BY <1>1, <1>2, <1>3, <1>4, <1>5, <1>6, <1>7, <1>8, <1>9, <1>10, <1>11, FiringTypes
          DEF Next, DispatchDue, SweepStep

-----------------------------------------------------------------------------
(* What any step may do to the firings, the guard, the ages and the rows.    *)

\* A firing that has ended stays ended, one that acts goes on or ends, and one
\* begins to act only with the guard.
JobMove(q) ==
    /\ job[q].pc \in EndedAt => job'[q].pc \in EndedAt
    /\ job[q].pc = "over" => job'[q].pc = "over"
    /\ Acting(q) => job'[q].pc \in {"loop", "audit", "persist"} \cup EndedAt
    /\ job'[q].pc = "none" => job[q].pc = "none"
    /\ job'[q].pc \in {"loop", "audit", "persist"} => Acting(q) \/ ClaimAutomation(q)

\* The guard is taken by a claim, and given back under a run that is old or
\* that does not act any more.
GuardMove ==
    \/ UNCHANGED guardVars
    \/ guard' = guard /\ guard \in old
    \/ guard' = 0 /\ guardOld' = FALSE
          /\ (guard \in old \/ job'[guard].pc \notin {"loop", "audit", "persist"})
    \/ \E r \in Runs : ClaimAutomation(r)

\* Nothing grows younger, and only a run that has begun grows old; if it is
\* alive it has then outlived its claim.
AgeMove ==
    /\ old \subseteq old' /\ outlived \subseteq outlived'
    /\ \A q \in Runs : q \in old' /\ q \notin old =>
          /\ job'[q].pc # "none"
          /\ job'[q].pc # "over" => q \in outlived'

\* A row is written for a firing that has begun, and the sweep turns to old
\* runs only.
RowMove ==
    \A q \in Runs : /\ run'[q] # run[q] => job'[q].pc # "none"
                    /\ sweep'[q] # "no" => q \in old

\* A firing's own step moves it and no other.
LEMMA FiringMoves ==
    ASSUME NEW r \in Runs, PcStep(r)
    PROVE (\A q \in Runs : JobMove(q)) /\ job[r].pc # "none" /\ job'[r].pc # "none"
  <1>1. ASSUME NEW q \in Runs, q # r PROVE JobMove(q)
    BY <1>1 DEF JobMove, PcStep, Acting, EndedAt
  <1>2. JobMove(r)
    BY DEF JobMove, PcStep, Acting, EndedAt
  <1>3. job[r].pc # "none" /\ job'[r].pc # "none"
    BY DEF PcStep, Acting
  <1> QED BY <1>1, <1>2, <1>3

\* Firings that are left alone do not move.
LEMMA RestingMoves == ASSUME UNCHANGED job PROVE \A q \in Runs : JobMove(q)
  BY DEF JobMove, Acting, EndedAt

\* Every step moves the firings forward.
LEMMA JobMoves ==
    ASSUME TypeOK, SlotsReturned, Next
    PROVE \A q \in Runs : JobMove(q)
  <1>1. CASE Tick \/ GuardAges \/ DeleteAutomation \/ ListStuckRuns
    BY <1>1, RestingMoves DEF Tick, GuardAges, DeleteAutomation, ListStuckRuns
  <1>2. ASSUME NEW r \in Runs, NEW t \in Slots, FireScheduled(r, t)
        PROVE \A q \in Runs : JobMove(q)
    <2>1. job[r].pc = "none"
      BY <1>2 DEF FireScheduled, Fresh, At
    <2>2. job \in [Runs -> JobType] /\ job[r] \in JobType
      BY DEF TypeOK
    <2>3. (\A q \in Runs \ {r} : job'[q] = job[q]) /\ job'[r].pc \in {"none", "created", "over"}
      <3> DEFINE w == now - t <= CatchUpWindow
      <3>1. CreateAutomationRun(r, t, w)
        BY <1>2 DEF FireScheduled
      <3> HIDE DEF w
      <3>2. job' \in {job, [job EXCEPT ![r].pc = "created", ![r].willing = w],
                      [job EXCEPT ![r] = Over]}
        BY <3>1 DEF CreateAutomationRun, Leave
      <3>3. Over.pc = "over"
        BY DEF Over, Nobody
      <3>4. [job EXCEPT ![r].pc = "created", ![r].willing = w][r].pc = "created"
        BY <2>2 DEF JobType
      <3> QED BY <2>1, <2>2, <3>2, <3>3, <3>4
    <2> QED BY <2>1, <2>3 DEF JobMove, Acting, EndedAt
  <1>3. CASE Restart
    <2>1. Over.pc = "over"
      BY DEF Over, Nobody
    <2> QED BY <1>3, <2>1 DEF Restart, Alive, JobMove, Acting, EndedAt
  <1>4. ASSUME NEW on \in BOOLEAN, UpdateAutomation(on) PROVE \A q \in Runs : JobMove(q)
    BY <1>4, RestingMoves DEF UpdateAutomation
  <1>5. ASSUME NEW r \in Runs, RunAges(r) \/ SweepStep(r) PROVE \A q \in Runs : JobMove(q)
    BY <1>5, RestingMoves DEF RunAges, SweepStep, FailStuckRun, ReleaseStuckRun
  <1>6. ASSUME NEW r \in Runs, Requested(r) PROVE \A q \in Runs : JobMove(q)
    <2>1. job[r].pc = "none" /\ job \in [Runs -> JobType] /\ job[r] \in JobType
      BY <1>6 DEF Requested, Fresh, At, TypeOK
    <2>2. (\A q \in Runs \ {r} : job'[q] = job[q]) /\ job'[r].pc = "loaded"
      BY <1>6, <2>1 DEF Requested, JobType
    <2> QED BY <2>1, <2>2 DEF JobMove, Acting, EndedAt
  <1>7. ASSUME NEW r \in Runs, FiringStep(r) PROVE \A q \in Runs : JobMove(q)
    BY <1>7, FiringTypes, FiringMoves
  <1> QED BY <1>1, <1>2, <1>3, <1>4, <1>5, <1>6, <1>7 DEF Next, DispatchDue

\* Giving back the guard of run r is a legal move once r is old or does not act.
LEMMA ReleaseMoves ==
    ASSUME NEW r \in Runs, ReleaseAutomationRun(r),
           r \in old \/ job'[r].pc \notin {"loop", "audit", "persist"}
    PROVE GuardMove
  BY DEF ReleaseAutomationRun, GuardMove

\* Every step treats the guard as it should.
LEMMA GuardMoves ==
    ASSUME TypeOK, SlotsReturned, SweptIsOld, Next
    PROVE GuardMove
  <1>1. CASE Tick \/ DeleteAutomation \/ ListStuckRuns \/ Restart
    BY <1>1 DEF Tick, DeleteAutomation, ListStuckRuns, Restart, GuardMove
  <1>2. CASE GuardAges
    BY <1>2 DEF GuardAges, GuardMove
  <1>3. CASE DispatchDue
    BY <1>3 DEF DispatchDue, FireScheduled, GuardMove
  <1>4. ASSUME NEW on \in BOOLEAN, UpdateAutomation(on) PROVE GuardMove
    BY <1>4 DEF UpdateAutomation, GuardMove
  <1>5. ASSUME NEW r \in Runs, RunAges(r) \/ Requested(r) \/ FailStuckRun(r) PROVE GuardMove
    BY <1>5 DEF RunAges, Requested, FailStuckRun, GuardMove
  <1>6. ASSUME NEW r \in Runs, ReleaseStuckRun(r) PROVE GuardMove
    <2>1. r \in old
      BY <1>6 DEF ReleaseStuckRun, SweptIsOld
    <2> QED BY <1>6, <2>1, ReleaseMoves DEF ReleaseStuckRun
  <1>7. ASSUME NEW r \in Runs, FiringStep(r) PROVE GuardMove
    <2>1. CASE Release(r) \/ Recover(r)
      <3>1. job[r].pc \in {"release", "panic"} /\ PcStep(r)
        BY <1>7, <2>1, FiringTypes DEF Release, Recover, At
      <3>2. job'[r].pc \notin {"loop", "audit", "persist"}
        BY <3>1 DEF PcStep, Acting
      <3>3. ReleaseAutomationRun(r) \/ UNCHANGED guardVars
        BY <2>1 DEF Release, Recover
      <3> QED BY <3>2, <3>3, ReleaseMoves DEF GuardMove
    <2>2. CASE ClaimAutomation(r)
      BY <2>2 DEF GuardMove
    <2>3. CASE ~(Release(r) \/ Recover(r) \/ ClaimAutomation(r))
      BY <1>7, <2>3 DEF FiringStep, CreateRun, Skip, TryAcquireSlot, ClaimRefused, RunStep,
                        BudgetExhausted, Audit, PersistSteps, Finish, GuardMove
    <2> QED BY <2>1, <2>2, <2>3
  <1> QED BY <1>1, <1>2, <1>3, <1>4, <1>5, <1>6, <1>7 DEF Next, SweepStep

\* Only RunAges makes a run old.
LEMMA AgeMoves ==
    ASSUME TypeOK, Unborn, Next
    PROVE AgeMove
  <1>1. CASE UNCHANGED <<old, outlived>>
    BY <1>1 DEF AgeMove
  <1>2. ASSUME NEW r \in Runs, RunAges(r) PROVE AgeMove
    <2>1. old' = old \cup {r} /\ job' = job /\ outlived \subseteq outlived'
      BY <1>2 DEF RunAges
    <2>2. job[r].pc # "none"
      BY <1>2 DEF RunAges, Unborn, At
    <2>3. job[r].pc # "over" => r \in outlived'
      BY <1>2, <2>2 DEF RunAges, Alive
    <2> QED BY <2>1, <2>2, <2>3 DEF AgeMove
  <1>3. CASE ~\E r \in Runs : RunAges(r)
    <2>1. UNCHANGED <<old, outlived>>
      BY <1>3 DEF Next, Tick, GuardAges, DeleteAutomation, DispatchDue, FireScheduled,
              ListStuckRuns, Restart, UpdateAutomation, Requested, SweepStep, FailStuckRun,
              ReleaseStuckRun, FiringStep, CreateRun, Skip, TryAcquireSlot, ClaimAutomation,
              ClaimRefused, RunStep, BudgetExhausted, Audit, PersistSteps, Finish, Release,
              Recover, ages
    <2> QED BY <1>1, <2>1
  <1> QED BY <1>2, <1>3

\* A row that is closed is that of the run it is closed for.
LEMMA ClosesOne ==
    ASSUME TypeOK, NEW r \in Runs, NEW v, NEW s, CloseRun(r, v, s)
    PROVE \A q \in Runs : q # r => run'[q] = run[q]
  BY DEF CloseRun, TypeOK

\* Making a row writes that row only, and moves its firing on.
LEMMA CreatesOne ==
    ASSUME TypeOK, NEW r \in Runs, NEW t, NEW w, CreateAutomationRun(r, t, w)
    PROVE /\ \A q \in Runs : q # r => run'[q] = run[q]
          /\ run' # run => job'[r].pc # "none"
  <1>1. job \in [Runs -> JobType] /\ job[r] \in JobType
    BY DEF TypeOK
  <1>2. CASE UNCHANGED run
    BY <1>2
  <1>3. CASE run' = [run EXCEPT ![r] = "in_progress"]
              /\ job' = [job EXCEPT ![r].pc = "created", ![r].willing = w]
    BY <1>1, <1>3 DEF TypeOK, JobType
  <1>4. CASE run' = [run EXCEPT ![r] = "in_progress"] /\ job' = [job EXCEPT ![r] = Over]
    BY <1>1, <1>4 DEF TypeOK, Over, Nobody
  <1> QED BY <1>2, <1>3, <1>4 DEF CreateAutomationRun, Leave

\* Every step writes rows of firings that have begun, and sweeps old runs.
LEMMA RowMoves ==
    ASSUME TypeOK, SlotsReturned, SweptIsOld, Unborn, Next
    PROVE RowMove
  <1>1. CASE Tick \/ GuardAges \/ DeleteAutomation
    BY <1>1 DEF Tick, GuardAges, DeleteAutomation, runVars, sweepVars, RowMove, SweptIsOld
  <1>2. CASE ListStuckRuns
    BY <1>2 DEF ListStuckRuns, Stuck, runVars, RowMove
  <1>3. CASE Restart
    BY <1>3 DEF Restart, runVars, RowMove
  <1>4. ASSUME NEW on \in BOOLEAN, UpdateAutomation(on) PROVE RowMove
    BY <1>4 DEF UpdateAutomation, runVars, sweepVars, RowMove, SweptIsOld
  <1>5. ASSUME NEW r \in Runs, RunAges(r) \/ Requested(r) PROVE RowMove
    BY <1>5 DEF RunAges, Requested, runVars, sweepVars, RowMove, SweptIsOld
  <1>6. ASSUME NEW r \in Runs, NEW t \in Slots, FireScheduled(r, t) PROVE RowMove
    <2>1. (\A q \in Runs : q # r => run'[q] = run[q]) /\ (run' # run => job'[r].pc # "none")
      BY <1>6, CreatesOne DEF FireScheduled
    <2> QED BY <1>6, <2>1 DEF FireScheduled, sweepVars, RowMove, SweptIsOld
  <1>7. ASSUME NEW r \in Runs, FailStuckRun(r) PROVE RowMove
    <2>1. r \in old /\ job[r].pc # "none" /\ job' = job
      BY <1>7 DEF FailStuckRun, SweptIsOld, Unborn, At
    <2>2. \A q \in Runs : q # r => run'[q] = run[q]
      BY <1>7, ClosesOne DEF FailStuckRun
    <2>3. \A q \in Runs : sweep'[q] # "no" => q \in old
      BY <1>7, <2>1 DEF FailStuckRun, SweptIsOld, TypeOK
    <2> QED BY <2>1, <2>2, <2>3 DEF RowMove
  <1>8. ASSUME NEW r \in Runs, ReleaseStuckRun(r) PROVE RowMove
    BY <1>8 DEF ReleaseStuckRun, runVars, RowMove, SweptIsOld, TypeOK
  <1>9. ASSUME NEW r \in Runs, FiringStep(r) PROVE RowMove
    <2>1. job'[r].pc # "none"
      BY <1>9, FiringTypes, FiringMoves
    <2>2. sweep' = sweep
      BY <1>9 DEF FiringStep, CreateRun, Skip, TryAcquireSlot, ClaimAutomation, ClaimRefused,
              RunStep, BudgetExhausted, Audit, PersistSteps, Finish, Release, Recover, sweepVars
    <2>3. \A q \in Runs : q # r => run'[q] = run[q]
      <3>1. CASE CreateRun(r)
        BY <3>1, CreatesOne DEF CreateRun
      <3>2. CASE Skip(r) \/ Finish(r)
        BY <3>2, ClosesOne DEF Skip, Finish
      <3>3. CASE ~(CreateRun(r) \/ Skip(r) \/ Finish(r))
        BY <1>9, <3>3 DEF FiringStep, TryAcquireSlot, ClaimAutomation, ClaimRefused, RunStep,
              BudgetExhausted, Audit, PersistSteps, Release, Recover, runVars
      <3> QED BY <3>1, <3>2, <3>3
    <2> QED BY <2>1, <2>2, <2>3 DEF RowMove, SweptIsOld
  <1> QED BY <1>1, <1>2, <1>3, <1>4, <1>5, <1>6, <1>7, <1>8, <1>9
          DEF Next, DispatchDue, SweepStep

-----------------------------------------------------------------------------
(* The invariants.                                                           *)

\* A claim gives the guard to a run that is then past its beginning.
LEMMA ClaimMoves ==
    ASSUME TypeOK, SlotsReturned, NEW r \in Runs, ClaimAutomation(r)
    PROVE /\ guard' = r /\ guardOld' = FALSE /\ job'[r].pc # "none"
          /\ \A q \in Runs : q # r => job'[q] = job[q]
  <1>1. PcStep(r)
    BY FiringTypes DEF FiringStep
  <1> QED BY <1>1, FiringMoves DEF ClaimAutomation, PcStep

\* Ages is inductive with the types.
LEMMA AgesStep ==
    ASSUME TypeOK, SlotsReturned, Ages, Next
    PROVE Ages'
  <1>1. (\A q \in Runs : JobMove(q)) /\ GuardMove /\ AgeMove /\ RowMove
    BY JobMoves, GuardMoves, AgeMoves, RowMoves DEF Ages
  <1>2. GuardAge'
    BY <1>1, ClaimMoves DEF GuardMove, AgeMove, Ages, GuardAge, guardVars
  <1>3. OldIsOutlived'
    BY <1>1 DEF AgeMove, JobMove, Ages, OldIsOutlived, Unborn, Alive, At
  <1>4. SweptIsOld'
    BY <1>1 DEF RowMove, AgeMove, SweptIsOld
  <1>5. Unborn'
    <2> SUFFICES ASSUME NEW q \in Runs, job'[q].pc = "none"
                 PROVE run'[q] = "none" /\ guard' # q /\ q \notin old'
      BY DEF Unborn, At
    <2>1. run[q] = "none" /\ guard # q /\ q \notin old
      BY <1>1 DEF JobMove, Ages, Unborn, At
    <2>2. guard' # q
      BY <1>1, <2>1, ClaimMoves, RunsAreNumbers DEF GuardMove, guardVars
    <2> QED BY <1>1, <2>1, <2>2 DEF RowMove, AgeMove
  <1> QED BY <1>2, <1>3, <1>4, <1>5 DEF Ages

\* A guard that can be claimed is not that of a live run within its claim.
LEMMA ClaimableIsFree ==
    ASSUME Ages, Claimable, NEW q \in Runs, q \notin outlived, Acting(q)
    PROVE guard # q
  BY RunsAreNumbers DEF Claimable, Ages, GuardAge, OldIsOutlived, Acting, Alive

\* Runs go on one at a time.
LEMMA OneAtATimeStep ==
    ASSUME TypeOK, SlotsReturned, Ages, OneAtATime, Next
    PROVE OneAtATime'
  <1> SUFFICES ASSUME NEW q \in Runs, q \notin outlived',
                      job'[q].pc \in {"loop", "audit", "persist"}
               PROVE guard' = q
    BY DEF OneAtATime, Acting
  <1>1. JobMove(q) /\ GuardMove /\ AgeMove
    BY JobMoves, GuardMoves, AgeMoves DEF Ages
  <1>2. q \notin outlived
    BY <1>1 DEF AgeMove
  <1>3. CASE ClaimAutomation(q)
    BY <1>3, ClaimMoves
  <1>4. CASE Acting(q)
    <2>1. guard = q /\ q \notin old
      BY <1>2, <1>4 DEF OneAtATime, Ages, OldIsOutlived, Acting, Alive
    <2>2. ~\E r \in Runs : ClaimAutomation(r)
      BY <1>2, <1>4, <2>1, ClaimableIsFree DEF ClaimAutomation
    <2> QED BY <1>1, <2>1, <2>2 DEF GuardMove, guardVars
  <1> QED BY <1>1, <1>3, <1>4 DEF JobMove

\* A slot is given to a run only while none has it.
LEMMA SlotStep ==
    ASSUME TypeOK, SlotFiresOnce, Next
    PROVE SlotFiresOnce'
  <1>1. CASE UNCHANGED slotOf
    BY <1>1 DEF SlotFiresOnce
  <1>2. ASSUME NEW r \in Runs, NEW t, NEW w, CreateAutomationRun(r, t, w),
               t = NoSlot \/ ~SlotTaken(t)
        PROVE SlotFiresOnce'
    <2>1. slotOf' = slotOf \/ slotOf' = [slotOf EXCEPT ![r] = t]
      BY <1>2 DEF CreateAutomationRun
    <2> QED BY <1>1, <1>2, <2>1 DEF SlotFiresOnce, SlotTaken, TypeOK
  <1>3. CASE DispatchDue
    BY <1>2, <1>3 DEF DispatchDue, FireScheduled
  <1>4. ASSUME NEW r \in Runs, CreateRun(r) PROVE SlotFiresOnce'
    BY <1>2, <1>4 DEF CreateRun
  <1>5. CASE ~(DispatchDue \/ \E r \in Runs : CreateRun(r))
    <2>1. UNCHANGED slotOf
      BY <1>5 DEF Next, Tick, GuardAges, DeleteAutomation, ListStuckRuns, Restart,
              UpdateAutomation, RunAges, Requested, SweepStep, FailStuckRun, ReleaseStuckRun,
              FiringStep, Skip, TryAcquireSlot, ClaimAutomation, ClaimRefused, RunStep,
              BudgetExhausted, Audit, PersistSteps, Finish, Release, Recover, runVars
    <2> QED BY <1>1, <2>1
  <1> QED BY <1>3, <1>4, <1>5

\* The initial state has its types, no slot taken, no age and no guard.
LEMMA InitHolds ==
    ASSUME Init
    PROVE TypeOK /\ SlotsReturned /\ Ages /\ OneAtATime /\ SlotFiresOnce
  <1>0. \A r \in Runs : job[r] = Nobody /\ job[r].pc = "none"
    BY DEF Init, Nobody
  <1>1. TypeOK
    <2>1. /\ now \in 0 .. MaxTime /\ updated \in 0 .. MaxTime /\ busy \in 0 .. MaxConcurrent
          /\ mishaps \in 0 .. MaxMishaps
      BY AutomationAssumption DEF Init
    <2>2. /\ run \in [Runs -> Closed \cup {"none", "in_progress"}]
          /\ slotOf \in [Runs -> Slots \cup {NoSlot}]
          /\ sweep \in [Runs -> {"no", "fail", "release"}]
      BY DEF Init
    <2>3. /\ steps \in [Runs -> [Steps -> StepStatus]] /\ listed \in [Runs -> [Steps -> StepStatus]]
          /\ job \in [Runs -> JobType]
      BY PendingSteps, RestingJobs DEF Init
    <2> QED BY <2>1, <2>2, <2>3 DEF Init, TypeOK
  <1>2. SlotsReturned
    <2>1. {r \in Runs : job[r].pc \in Slotted} = {}
      BY <1>0 DEF Slotted
    <2> QED BY <2>1, FS_EmptySet DEF Init, SlotsReturned
  <1>3. Ages
    BY <1>0, RunsAreNumbers
       DEF Init, Ages, GuardAge, OldIsOutlived, SweptIsOld, Unborn, Alive, At
  <1>4. OneAtATime /\ SlotFiresOnce
    BY <1>0 DEF Init, OneAtATime, SlotFiresOnce, Acting
  <1> QED BY <1>1, <1>2, <1>3, <1>4

\* What is inductive together.
RunInv == TypeOK /\ SlotsReturned /\ Ages /\ OneAtATime /\ SlotFiresOnce

\* A step, or a stutter, keeps it.
LEMMA RunInvStep == ASSUME RunInv, [Next]_vars PROVE RunInv'
  <1>1. CASE Next
    BY <1>1, NextTypes, AgesStep, OneAtATimeStep, SlotStep DEF RunInv
  <1>2. CASE UNCHANGED vars
    <2> USE <1>2 DEF RunInv, vars, row, guardVars, runVars, ages, sweepVars, effects
    <2>1. TypeOK'
      BY DEF TypeOK
    <2>2. SlotsReturned' /\ SlotFiresOnce'
      BY DEF SlotsReturned, SlotFiresOnce
    <2>3. Ages'
      BY DEF Ages, GuardAge, OldIsOutlived, SweptIsOld, Unborn, Alive, At
    <2>4. OneAtATime'
      BY DEF OneAtATime, Acting
    <2> QED BY <2>1, <2>2, <2>3, <2>4
  <1> QED BY <1>1, <1>2

\* So it holds throughout.
LEMMA RunInvHolds == Spec => []RunInv
  <1>1. Init => RunInv
    BY InitHolds DEF RunInv
  <1>2. RunInv /\ [Next]_vars => RunInv'
    BY RunInvStep
  <1> QED BY <1>1, <1>2, PTL DEF Spec

(***************************************************************************)
(* Every row, firing and counter keeps to its kind of value, however many  *)
(* runs there are and whatever fails; no more runner slots are taken than  *)
(* MAX_CONCURRENT_RUNS.                                                    *)
(***************************************************************************)
THEOREM TypeCorrect == Spec => []TypeOK
  BY RunInvHolds, PTL DEF RunInv

(***************************************************************************)
(* Runner slots are taken exactly by the firings that are under way: fire  *)
(* gives its slot back on every way out, panics and restarts included.     *)
(***************************************************************************)
THEOREM SlotsAreReturned == Spec => []SlotsReturned
  BY RunInvHolds, PTL DEF RunInv

(***************************************************************************)
(* A run that may be acting holds the guard, unless it has outlived        *)
(* CLAIM_STALE_AFTER (execute, ClaimAutomationRun, FailStuckRuns).         *)
(***************************************************************************)
THEOREM OneRunAtATime == Spec => []OneAtATime
  BY RunInvHolds, PTL DEF RunInv

(***************************************************************************)
(* A slot of the schedule is carried out by one run at most                *)
(* (FireScheduled, CreateAutomationRun).                                   *)
(***************************************************************************)
THEOREM SlotIsFiredOnce == Spec => []SlotFiresOnce
  BY RunInvHolds, PTL DEF RunInv

-----------------------------------------------------------------------------
(* The refinement of OneRunner.                                              *)

ActingRuns == {r \in Runs \ outlived : Acting(r)}
EndedRuns == outlived \cup {r \in Runs : job[r].pc \in EndedAt}

\* A step by which nobody begins ends the runs that it adds to the ended ones.
LEMMA StepEnds ==
    ASSUME TypeOK, TypeOK', AgeMove, \A q \in Runs : JobMove(q),
           \A q \in Runs \ outlived' : Acting(q)' => Acting(q)
    PROVE Runner!Next
  <1> DEFINE S == EndedRuns' \ EndedRuns
  <1>1. S \in SUBSET Runs
    BY DEF EndedRuns, TypeOK
  <1>2. EndedRuns \subseteq EndedRuns'
    BY DEF EndedRuns, AgeMove, JobMove
  <1>3. ActingRuns' = ActingRuns \ S
    <2>1. ASSUME NEW q \in ActingRuns' PROVE q \in ActingRuns \ S
      BY <2>1 DEF ActingRuns, EndedRuns, AgeMove, Acting, EndedAt
    <2>2. ASSUME NEW q \in ActingRuns, q \notin S PROVE q \in ActingRuns'
      <3>1. q \notin EndedRuns
        BY DEF ActingRuns, EndedRuns, Acting, EndedAt
      <3>2. q \notin EndedRuns'
        BY <2>2, <3>1
      <3> QED BY <3>2 DEF ActingRuns, EndedRuns, JobMove, Acting
    <2> QED BY <2>1, <2>2
  <1>4. EndedRuns' = EndedRuns \cup S
    BY <1>2
  <1> HIDE DEF S
  <1>5. PICK T \in SUBSET Runs : ActingRuns' = ActingRuns \ T /\ EndedRuns' = EndedRuns \cup T
    BY <1>1, <1>3, <1>4
  <1>6. Runner!End(T)
    BY <1>5 DEF Runner!End, ActingRuns, EndedRuns, EndedAt
  <1> QED BY <1>6 DEF Runner!Next

\* A claim begins a run when nobody else acts.
LEMMA ClaimBegins ==
    ASSUME RunInv, NEW r \in Runs, ClaimAutomation(r), r \notin outlived,
           job'[r].pc = "loop"
    PROVE Runner!Next
  <1>1. job[r].pc = "claim" /\ Claimable /\ outlived' = outlived
    BY DEF ClaimAutomation, At, ages
  <1>2. \A q \in Runs : q # r => job'[q] = job[q]
    BY ClaimMoves DEF RunInv
  <1>3. ActingRuns = {}
    BY <1>1, ClaimableIsFree DEF RunInv, ActingRuns, OneAtATime
  <1>4. ActingRuns' = {r}
    BY <1>1, <1>2, <1>3 DEF ActingRuns, Acting
  <1>5. EndedRuns' = EndedRuns /\ r \notin EndedRuns
    BY <1>1, <1>2 DEF EndedRuns, EndedAt
  <1>6. Runner!Begin(r)
    BY <1>3, <1>4, <1>5 DEF Runner!Begin, ActingRuns, EndedRuns, EndedAt
  <1> QED BY <1>6 DEF Runner!Next

\* Every step is one of OneRunner, or none.
LEMMA RunnerStep ==
    ASSUME RunInv, RunInv', [Next]_vars
    PROVE [Runner!Next]_(Runner!abstractVars)
  <1>1. CASE UNCHANGED vars
    BY <1>1 DEF vars, ages, Runner!abstractVars, Acting
  <1>2. CASE Next
    <2>1. (\A q \in Runs : JobMove(q)) /\ AgeMove
      BY <1>2, JobMoves, AgeMoves DEF RunInv, Ages
    <2>2. CASE \A q \in Runs \ outlived' : Acting(q)' => Acting(q)
      BY <2>1, <2>2, StepEnds DEF RunInv
    <2>3. CASE ~\A q \in Runs \ outlived' : Acting(q)' => Acting(q)
      <3>1. PICK q \in Runs \ outlived' : Acting(q)' /\ ~Acting(q)
        BY <2>3
      <3>2. ClaimAutomation(q) /\ q \notin outlived
        BY <2>1, <3>1 DEF JobMove, AgeMove, Acting
      <3>3. PcStep(q)
        BY <3>2, FiringTypes DEF RunInv, FiringStep
      <3>4. job'[q].pc = "loop"
        BY <3>1, <3>3 DEF PcStep, Acting
      <3> QED BY <3>2, <3>4, ClaimBegins
    <2> QED BY <2>2, <2>3
  <1> QED BY <1>1, <1>2

(***************************************************************************)
(* The runs of an automation implement OneRunner, its fairness apart: they *)
(* begin one at a time, each at most once, and one that has ended or has   *)
(* been given up never acts again (execute, ClaimAutomationRun).           *)
(***************************************************************************)
THEOREM RunsImplementOneRunner ==
    Spec => Runner!Init /\ [][Runner!Next]_(Runner!abstractVars)
  <1>1. Init => Runner!Init
    BY DEF Init, Nobody, Runner!Init, Acting
  <1>2. RunInv /\ RunInv' /\ [Next]_vars => [Runner!Next]_(Runner!abstractVars)
    BY RunnerStep
  <1> QED BY <1>1, <1>2, RunInvHolds, PTL DEF Spec
-----------------------------------------------------------------------------
(* The history of a run.  HistoryIsTrue speaks of closed runs; what makes  *)
(* it inductive is what a firing knows on its way there.                   *)

\* What the firing has in hand matches what it has done: before the loop
\* nothing, in the loop the steps before the one it is at, and when it is
\* about to close the run every step has an outcome.
StepsTaken(r) ==
    LET j == job[r] IN
    /\ j.pc \in {"none", "loaded", "created", "claim"} =>
          j.at = 1 /\ \A i \in Steps : j.mine[i] = "pending" /\ <<r, i>> \notin done
    /\ j.pc = "loop" => \A i \in Steps :
          IF i < j.at THEN j.mine[i] \in Outcomes /\ <<r, i>> \in done
          ELSE j.mine[i] = "pending" /\ <<r, i>> \notin done
    /\ j.pc \in {"audit", "persist"} => \A i \in Steps :
          IF i <= j.at THEN j.mine[i] \in Outcomes /\ <<r, i>> \in done
          ELSE j.mine[i] = "pending" /\ <<r, i>> \notin done
    /\ j.pc = "finish" => \A i \in Steps :
          j.mine[i] # "pending" /\ (j.mine[i] = "succeeded" => <<r, i>> \in done)

\* Unless something about the run went untold, its steps are audited, what
\* it is about to write is the truth, and once over its row is closed.
Told(r) ==
    r \notin untold =>
        /\ job[r].pc # "panic"
        /\ \A i \in Steps : <<r, i>> \in done =>
              <<r, i>> \in audited \/ (job[r].pc = "audit" /\ i = job[r].at)
        /\ job[r].pc = "finish" =>
              /\ \A i \in Steps : job[r].mine[i] = "skipped" => <<r, i>> \notin done
              /\ job[r].verdict = "succeeded"
                    <=> \A i \in Steps : job[r].mine[i] = "succeeded"
        /\ job[r].pc \in {"release", "over"} => run[r] # "in_progress"

\* HistoryIsTrue for one run.
TrueHistory(r) ==
    run[r] \in Closed =>
        /\ \A i \in Steps : /\ steps[r][i] # "pending"
                            /\ steps[r][i] = "succeeded" => <<r, i>> \in done
        /\ r \notin untold =>
              /\ \A i \in Steps : steps[r][i] = "skipped" => <<r, i>> \notin done
              /\ \A i \in Steps : <<r, i>> \in done => <<r, i>> \in audited
              /\ run[r] = "succeeded" <=> \A i \in Steps : steps[r][i] = "succeeded"

\* No record shows as succeeded what was not done.
Recorded(r) ==
    \A i \in Steps : steps[r][i] = "succeeded" \/ listed[r][i] = "succeeded"
                         => <<r, i>> \in done

\* A run that has not outlived its claim is closed by itself, or by a sweep
\* after it was interrupted.
ClosedOnce(r) ==
    r \notin outlived =>
        /\ run[r] \in Closed => job[r].pc \in {"release", "over"}
        /\ sweep[r] = "fail" => r \in untold
        /\ TrueHistory(r)

\* A firing has no row before it is created, and the sweep finds rows only.
RowFirst(r) ==
    /\ job[r].pc \in {"none", "loaded"} => run[r] = "none"
    /\ sweep[r] # "no" => run[r] # "none"

History(r) ==
    StepsTaken(r) /\ Told(r) /\ Recorded(r) /\ ClosedOnce(r) /\ RowFirst(r)

-----------------------------------------------------------------------------
(* A run that a step is not about.                                           *)

\* Its firing, its row and its effects are left alone; ages and failures may
\* be noted, and the sweep may turn to it if it was interrupted.
Untouched(q) ==
    /\ job'[q] = job[q] /\ run'[q] = run[q] /\ steps'[q] = steps[q]
    /\ listed'[q] \in {listed[q], steps[q], Pending}
    /\ \A i \in Steps : /\ <<q, i>> \in done' <=> <<q, i>> \in done
                        /\ <<q, i>> \in audited' <=> <<q, i>> \in audited
    /\ q \in untold => q \in untold'
    /\ q \in outlived => q \in outlived'
    /\ sweep'[q] # "no" => sweep[q] # "no" \/ run[q] = "in_progress"
    /\ sweep'[q] = "fail" => sweep[q] = "fail" \/ q \in untold \cup outlived

\* Its history stays true.
LEMMA UntouchedKeeps ==
    ASSUME NEW q \in Runs, History(q), Untouched(q)
    PROVE History(q)'
  <1> USE DEF History, Untouched
  <1>1. StepsTaken(q)'
    BY DEF StepsTaken
  <1>2. Told(q)'
    BY DEF Told
  <1>3. Recorded(q)'
    BY DEF Recorded, Pending
  <1>4. ClosedOnce(q)'
    BY DEF ClosedOnce, TrueHistory
  <1>5. RowFirst(q)'
    BY DEF RowFirst
  <1> QED BY <1>1, <1>2, <1>3, <1>4, <1>5

\* A run that is open has no closed history to keep true.
LEMMA OpenKeeps ==
    ASSUME NEW r \in Runs, ClosedOnce(r), job[r].pc \notin {"release", "over"},
           run'[r] = run[r] \/ run'[r] \notin Closed, sweep'[r] = sweep[r],
           r \in untold => r \in untold', outlived' = outlived
    PROVE ClosedOnce(r)'
  BY DEF ClosedOnce, TrueHistory

\* finishPending leaves no step pending and invents no success.
LEMMA FinishedAll ==
    ASSUME NEW s \in [Steps -> StepStatus], NEW from \in Int, NEW i \in Steps
    PROVE /\ i >= from => FinishPending(s, from)[i] # "pending"
          /\ s[i] # "pending" => FinishPending(s, from)[i] = s[i]
          /\ FinishPending(s, from)[i] \in {s[i], "skipped"}
          /\ i < from => FinishPending(s, from)[i] = s[i]
  BY RunsAreNumbers DEF FinishPending

\* A firing that ran nothing shows every step as skipped.
LEMMA NothingRan ==
    ASSUME NEW i \in Steps
    PROVE FinishPending(Pending, 1)[i] = "skipped"
  BY AutomationAssumption DEF FinishPending, Pending, Steps

\* What a refused firing carries.
LEMMA RefusedFields ==
    ASSUME TypeOK, NEW r \in Runs, NEW v, NEW b
    PROVE /\ Refused(r, v).pc = "finish" /\ Refused(r, v).verdict = v
          /\ Refused(r, v).mine = FinishPending(Pending, 1)
          /\ [Refused(r, v) EXCEPT !.held = b].pc = "finish"
          /\ [Refused(r, v) EXCEPT !.held = b].verdict = v
          /\ [Refused(r, v) EXCEPT !.held = b].mine = FinishPending(Pending, 1)
  BY DEF Refused, TypeOK, JobType

\* What a firing that is over carries.
LEMMA OverFields == Over.pc = "over"
  BY DEF Over, Nobody

\* A firing's own step leaves the other runs alone.
LEMMA OthersUntouched ==
    ASSUME TypeOK, SlotsReturned, NEW r \in Runs, FiringStep(r), NEW q \in Runs, q # r
    PROVE Untouched(q)
  <1>1. job'[q] = job[q]
    BY FiringTypes DEF PcStep
  <1>2. UNCHANGED <<sweep, listed, outlived>>
    BY DEF FiringStep, CreateRun, Skip, TryAcquireSlot, ClaimAutomation, ClaimRefused,
           RunStep, BudgetExhausted, Audit, PersistSteps, Finish, Release, Recover,
           sweepVars, ages
  <1>3. run'[q] = run[q] /\ steps'[q] = steps[q] /\ (q \in untold => q \in untold')
    <2>1. CASE CreateRun(r)
      BY <2>1 DEF CreateRun, CreateAutomationRun, TypeOK, NoFault, Fault
    <2>2. CASE Skip(r) \/ Finish(r)
      BY <2>2 DEF Skip, Finish, CloseRun, TypeOK, NoFault, Fault
    <2>3. CASE PersistSteps(r)
      BY <2>3 DEF PersistSteps, TypeOK, NoFault, Fault
    <2>4. CASE ~(CreateRun(r) \/ Skip(r) \/ Finish(r) \/ PersistSteps(r))
      <3>1. run' = run /\ steps' = steps
        BY <2>4 DEF FiringStep, TryAcquireSlot, ClaimAutomation, ClaimRefused,
           RunStep, BudgetExhausted, Audit, Release, Recover, runVars
      <3>2. untold \subseteq untold'
        BY <2>4 DEF FiringStep, TryAcquireSlot, ClaimAutomation, ClaimRefused,
           RunStep, BudgetExhausted, Audit, Release, Recover, NoFault, Fault
      <3> QED BY <3>1, <3>2
    <2> QED BY <2>1, <2>2, <2>3, <2>4
  <1>4. (done' = done \/ done' = done \cup {<<r, job[r].at>>})
        /\ (audited' = audited \/ audited' = audited \cup {<<r, job[r].at>>})
    BY DEF FiringStep, CreateRun, Skip, TryAcquireSlot, ClaimAutomation, ClaimRefused,
           RunStep, BudgetExhausted, Audit, PersistSteps, Finish, Release, Recover, effects
  <1>5. \A i \in Steps : <<q, i>> # <<r, job[r].at>>
    OBVIOUS
  <1> QED BY <1>1, <1>2, <1>3, <1>4, <1>5 DEF Untouched

-----------------------------------------------------------------------------
(* A firing's own steps.                                                     *)

\* Making the row, or failing to.
LEMMA CreateHistory ==
    ASSUME TypeOK, NEW r \in Runs, NEW t, NEW w, History(r),
           CreateAutomationRun(r, t, w), job[r].pc \in {"none", "loaded"},
           UNCHANGED <<steps, sweep, listed, done, audited, outlived>>
    PROVE History(r)'
  <1> USE DEF History
  <1>0. job \in [Runs -> JobType] /\ job[r] \in JobType
    BY DEF TypeOK
  <1>1. CASE /\ run' = [run EXCEPT ![r] = "in_progress"]
             /\ job' = [job EXCEPT ![r].pc = "created", ![r].willing = w] /\ NoFault
    <2>1. /\ job'[r].pc = "created" /\ job'[r].at = job[r].at /\ job'[r].mine = job[r].mine
      BY <1>0, <1>1 DEF JobType
    <2>2. run'[r] = "in_progress" /\ untold' = untold
      BY <1>1 DEF TypeOK, NoFault
    <2>3. StepsTaken(r)'
      BY <2>1 DEF StepsTaken
    <2>4. Told(r)'
      BY <2>1, <2>2 DEF StepsTaken, Told
    <2>5. Recorded(r)' /\ RowFirst(r)'
      BY <2>1, <2>2 DEF Recorded, RowFirst
    <2>6. ClosedOnce(r)'
      BY <2>2, OpenKeeps DEF Closed
    <2> QED BY <2>3, <2>4, <2>5, <2>6
  <1>2. CASE Leave(r) /\ \/ run' = [run EXCEPT ![r] = "in_progress"] /\ Fault(r)
                         \/ UNCHANGED <<run, untold>>
    <2>1. job'[r].pc = "over"
      BY <1>0, <1>2, OverFields DEF Leave
    <2>2. \/ run'[r] = "in_progress" /\ r \in untold'
          \/ run'[r] = "none" /\ untold' = untold
      BY <1>2 DEF TypeOK, Fault, RowFirst
    <2>3. StepsTaken(r)'
      BY <2>1 DEF StepsTaken
    <2>4. Told(r)'
      BY <2>1, <2>2 DEF StepsTaken, Told
    <2>5. Recorded(r)'
      BY DEF Recorded
    <2>6. RowFirst(r)'
      BY <2>1, <2>2 DEF RowFirst
    <2>7. ClosedOnce(r)'
      BY <2>2, OpenKeeps DEF Closed
    <2> QED BY <2>3, <2>4, <2>5, <2>6, <2>7
  <1>3. CASE UNCHANGED <<job, run, untold>>
    <2>1. Untouched(r)
      BY <1>3 DEF Untouched
    <2> QED BY <2>1, UntouchedKeeps
  <1> QED BY <1>1, <1>2, <1>3 DEF CreateAutomationRun

\* Recording that a firing was skipped.
LEMMA SkipHistory ==
    ASSUME TypeOK, NEW r \in Runs, History(r), Skip(r)
    PROVE History(r)'
  <1> USE DEF History
  <1>0. job \in [Runs -> JobType] /\ job[r] \in JobType
    BY DEF TypeOK
  <1>1. job[r].pc = "created" /\ job'[r].pc = "over"
    BY <1>0, OverFields DEF Skip, Leave, At
  <1>2. UNCHANGED <<sweep, listed, outlived, done, audited>>
    BY DEF Skip, sweepVars, effects, ages
  <1>3. \A i \in Steps : <<r, i>> \notin done
    BY <1>1 DEF StepsTaken
  <1>4. StepsTaken(r)'
    BY <1>1 DEF StepsTaken
  <1>5. CASE /\ run'[r] = "skipped" /\ steps'[r] = FinishPending(Pending, 1)
             /\ untold' = untold
    <2>1. \A i \in Steps : steps'[r][i] = "skipped"
      BY <1>5, NothingRan
    <2>2. Told(r)' /\ RowFirst(r)'
      BY <1>1, <1>2, <1>3, <1>5 DEF Told, RowFirst
    <2>3. Recorded(r)'
      BY <1>2, <2>1 DEF Recorded
    <2>4. TrueHistory(r)'
      BY <1>2, <1>3, <1>5, <2>1, RunsAreNumbers DEF TrueHistory
    <2>5. ClosedOnce(r)'
      BY <1>1, <1>2, <1>5, <2>4 DEF ClosedOnce
    <2> QED BY <1>4, <2>2, <2>3, <2>5
  <1>6. CASE UNCHANGED <<run, steps>> /\ r \in untold'
    <2>1. Told(r)' /\ RowFirst(r)'
      BY <1>1, <1>2, <1>6 DEF Told, RowFirst
    <2>2. Recorded(r)'
      BY <1>2, <1>6 DEF Recorded
    <2>3. ClosedOnce(r)'
      BY <1>1, <1>2, <1>6, OpenKeeps
    <2> QED BY <1>4, <2>1, <2>2, <2>3
  <1> QED BY <1>5, <1>6 DEF Skip, CloseRun, TypeOK, NoFault, Fault

\* A firing that is refused, having run nothing or lost to a panic, is about
\* to record that every step was skipped.
LEMMA RefusedHistory ==
    ASSUME TypeOK, NEW r \in Runs, History(r), NEW v \in {"failed", "skipped"},
           \/ job[r].pc = "claim"
           \/ job[r].pc = "panic",
           job'[r].pc = "finish", job'[r].verdict = v,
           job'[r].mine = FinishPending(Pending, 1),
           UNCHANGED <<run, steps, sweep, listed, outlived, done, audited, untold>>
    PROVE History(r)'
  <1> USE DEF History
  <1>1. \A i \in Steps : job'[r].mine[i] = "skipped"
    BY NothingRan
  <1>2. StepsTaken(r)'
    BY <1>1 DEF StepsTaken
  <1>3. Told(r)'
    BY <1>1, RunsAreNumbers DEF Told, StepsTaken
  <1>4. Recorded(r)' /\ RowFirst(r)'
    BY DEF Recorded, RowFirst
  <1>5. ClosedOnce(r)'
    BY OpenKeeps
  <1> QED BY <1>2, <1>3, <1>4, <1>5

\* Taking a runner slot, and the guard.
LEMMA ClaimHistory ==
    ASSUME TypeOK, NEW r \in Runs, History(r),
           \/ TryAcquireSlot(r) \/ ClaimAutomation(r) \/ ClaimRefused(r)
    PROVE History(r)'
  <1> USE DEF History
  <1>0. job \in [Runs -> JobType] /\ job[r] \in JobType
    BY DEF TypeOK
  <1>1. UNCHANGED <<run, steps, sweep, listed, outlived, done, audited, untold>>
    BY DEF TryAcquireSlot, ClaimAutomation, ClaimRefused, NoFault, runVars, sweepVars,
           effects, ages
  <1>2. CASE TryAcquireSlot(r)
    <2>1. /\ job[r].pc = "created" /\ job'[r].pc = "claim"
          /\ job'[r].at = job[r].at /\ job'[r].mine = job[r].mine
      BY <1>0, <1>2 DEF TryAcquireSlot, Goto, At, JobType
    <2>2. StepsTaken(r)'
      BY <1>1, <2>1 DEF StepsTaken
    <2>3. Told(r)' /\ Recorded(r)' /\ RowFirst(r)'
      BY <1>1, <2>1 DEF StepsTaken, Told, Recorded, RowFirst
    <2>4. ClosedOnce(r)'
      BY <1>1, <2>1, OpenKeeps
    <2> QED BY <2>2, <2>3, <2>4
  <1>3. CASE ClaimAutomation(r) /\ job' = [job EXCEPT ![r].pc = "loop", ![r].held = TRUE]
    <2>1. /\ job[r].pc = "claim" /\ job'[r].pc = "loop"
          /\ job'[r].at = job[r].at /\ job'[r].mine = job[r].mine
      BY <1>0, <1>3 DEF ClaimAutomation, At, JobType
    <2>2. job'[r].at = 1 /\ \A i \in Steps : ~(i < 1)
      BY <2>1, RunsAreNumbers, AutomationAssumption DEF StepsTaken, Steps
    <2>3. StepsTaken(r)'
      BY <1>1, <2>1, <2>2 DEF StepsTaken
    <2>4. Told(r)' /\ Recorded(r)' /\ RowFirst(r)'
      BY <1>1, <2>1 DEF StepsTaken, Told, Recorded, RowFirst
    <2>5. ClosedOnce(r)'
      BY <1>1, <2>1, OpenKeeps
    <2> QED BY <2>3, <2>4, <2>5
  <1>4. CASE ClaimAutomation(r)
              /\ job' = [job EXCEPT ![r] = [Refused(r, "failed") EXCEPT !.held = TRUE]]
    <2>1. job[r].pc = "claim"
      BY <1>4 DEF ClaimAutomation, At
    <2>2. /\ job'[r].pc = "finish" /\ job'[r].verdict = "failed"
          /\ job'[r].mine = FinishPending(Pending, 1)
      BY <1>0, <1>4, RefusedFields
    <2> QED BY <1>1, <2>1, <2>2, RefusedHistory
  <1>5. CASE ClaimRefused(r)
    <2>1. PICK v \in {"failed", "skipped"} : job' = [job EXCEPT ![r] = Refused(r, v)]
      BY <1>5 DEF ClaimRefused
    <2>2. job[r].pc = "claim"
      BY <1>5 DEF ClaimRefused, At
    <2>3. /\ job'[r].pc = "finish" /\ job'[r].verdict = v
          /\ job'[r].mine = FinishPending(Pending, 1)
      BY <1>0, <2>1, RefusedFields
    <2> QED BY <1>1, <2>2, <2>3, RefusedHistory
  <1> QED BY <1>2, <1>3, <1>4, <1>5 DEF ClaimAutomation, Authorise

\* Taking a step of the automation.
LEMMA RunStepHistory ==
    ASSUME TypeOK, NEW r \in Runs, History(r), RunStep(r)
    PROVE History(r)'
  <1> USE DEF History
  <1>0. /\ job \in [Runs -> JobType] /\ job[r] \in JobType /\ job[r].at \in Steps
        /\ job[r].mine \in [Steps -> StepStatus]
    BY DEF TypeOK, JobType
  <1>1. job[r].pc = "loop" /\ UNCHANGED <<run, steps, sweep, listed, outlived, audited>>
    BY DEF RunStep, At, runVars, sweepVars, ages
  <1>2. PICK x \in Outcomes \cup {"pending"} :
          /\ job' = [job EXCEPT ![r].pc = IF x = "pending" THEN "panic" ELSE "audit",
                                ![r].mine[job[r].at] = x]
          /\ \/ done' = done \cup {<<r, job[r].at>>}
             \/ x = "pending" /\ UNCHANGED done
          /\ IF x = "pending" THEN Fault(r) ELSE NoFault
    BY DEF RunStep
  <1>3. /\ job'[r].pc = IF x = "pending" THEN "panic" ELSE "audit"
        /\ job'[r].at = job[r].at
        /\ job'[r].mine = [job[r].mine EXCEPT ![job[r].at] = x]
    BY <1>0, <1>2 DEF JobType
  <1>4. ClosedOnce(r)'
    BY <1>1, <1>2, OpenKeeps DEF Fault, NoFault
  <1>5. Recorded(r)' /\ RowFirst(r)'
    BY <1>1, <1>2, <1>3 DEF Recorded, RowFirst
  <1>6. CASE x = "pending"
    <2>1. job'[r].pc = "panic" /\ r \in untold'
      BY <1>2, <1>3, <1>6 DEF Fault
    <2>2. StepsTaken(r)' /\ Told(r)'
      BY <2>1 DEF StepsTaken, Told
    <2> QED BY <1>4, <1>5, <2>2
  <1>7. CASE x \in Outcomes
    <2>1. job'[r].pc = "audit" /\ done' = done \cup {<<r, job[r].at>>} /\ untold' = untold
      BY <1>2, <1>3, <1>7 DEF Outcomes, NoFault
    <2>2. ASSUME NEW i \in Steps
          PROVE IF i <= job'[r].at
                THEN job'[r].mine[i] \in Outcomes /\ <<r, i>> \in done'
                ELSE job'[r].mine[i] = "pending" /\ <<r, i>> \notin done'
      <3>1. CASE i = job[r].at
        BY <1>0, <1>3, <1>7, <2>1, <3>1, RunsAreNumbers
      <3>2. CASE i # job[r].at
        <4>1. job'[r].mine[i] = job[r].mine[i] /\ (<<r, i>> \in done' <=> <<r, i>> \in done)
          BY <1>0, <1>3, <2>1, <3>2
        <4>2. i <= job'[r].at <=> i < job[r].at
          BY <1>0, <1>3, <3>2, AutomationAssumption DEF Steps
        <4>3. IF i < job[r].at THEN job[r].mine[i] \in Outcomes /\ <<r, i>> \in done
              ELSE job[r].mine[i] = "pending" /\ <<r, i>> \notin done
          BY <1>1 DEF StepsTaken
        <4> QED BY <4>1, <4>2, <4>3
      <3> QED BY <3>1, <3>2
    <2>3. StepsTaken(r)'
      BY <2>1, <2>2 DEF StepsTaken
    <2>4. Told(r)'
      BY <1>1, <1>3, <2>1 DEF Told
    <2> QED BY <1>4, <1>5, <2>3, <2>4
  <1> QED BY <1>6, <1>7

\* Running out of the budget: the step the run is at fails, the rest are
\* skipped.
LEMMA BudgetHistory ==
    ASSUME TypeOK, NEW r \in Runs, History(r), BudgetExhausted(r)
    PROVE History(r)'
  <1> USE DEF History
  <1>0. /\ job \in [Runs -> JobType] /\ job[r] \in JobType /\ job[r].at \in Steps
        /\ job[r].mine \in [Steps -> StepStatus]
    BY DEF TypeOK, JobType
  <1>1. /\ job[r].pc = "loop"
        /\ UNCHANGED <<run, steps, sweep, listed, outlived, done, audited, untold>>
    BY DEF BudgetExhausted, At, runVars, sweepVars, ages, effects
  <1> DEFINE failing == [job[r].mine EXCEPT ![job[r].at] = "failed"]
  <1>2. /\ job'[r].pc = "finish" /\ job'[r].verdict = "failed"
        /\ job'[r].mine = FinishPending(failing, job[r].at + 1)
    BY <1>0 DEF BudgetExhausted, JobType
  <1>3. /\ failing \in [Steps -> StepStatus] /\ failing[job[r].at] = "failed"
        /\ \A i \in Steps : i # job[r].at => failing[i] = job[r].mine[i]
    BY <1>0 DEF StepStatus
  <1> HIDE DEF failing
  <1>a. job[r].at + 1 \in Int
    BY <1>0, AutomationAssumption DEF Steps
  <1>4. \A i \in Steps :
          /\ i < job[r].at => job'[r].mine[i] \in Outcomes /\ <<r, i>> \in done
          /\ i = job[r].at => job'[r].mine[i] = "failed"
          /\ i > job[r].at => job'[r].mine[i] = "skipped" /\ <<r, i>> \notin done
    <2> SUFFICES ASSUME NEW i \in Steps
                 PROVE /\ i < job[r].at => job'[r].mine[i] \in Outcomes /\ <<r, i>> \in done
                       /\ i = job[r].at => job'[r].mine[i] = "failed"
                       /\ i > job[r].at =>
                             job'[r].mine[i] = "skipped" /\ <<r, i>> \notin done
      OBVIOUS
    <2>1. IF i < job[r].at THEN job[r].mine[i] \in Outcomes /\ <<r, i>> \in done
          ELSE job[r].mine[i] = "pending" /\ <<r, i>> \notin done
      BY <1>1 DEF StepsTaken
    <2>2. /\ i >= job[r].at + 1 => job'[r].mine[i] # "pending"
          /\ failing[i] # "pending" => job'[r].mine[i] = failing[i]
          /\ job'[r].mine[i] \in {failing[i], "skipped"}
      BY <1>2, <1>3, <1>a, FinishedAll
    <2>3. i \in Nat /\ job[r].at \in Nat
      BY <1>0, RunsAreNumbers
    <2>4. CASE i < job[r].at
      BY <1>3, <2>1, <2>2, <2>3, <2>4 DEF Outcomes
    <2>5. CASE i = job[r].at
      BY <1>3, <2>2, <2>3, <2>5
    <2>6. CASE i > job[r].at
      BY <1>3, <2>1, <2>2, <2>3, <2>6
    <2> QED BY <2>3, <2>4, <2>5, <2>6
  <1>5. \A i \in Steps : i < job[r].at \/ i = job[r].at \/ i > job[r].at
    BY <1>0, AutomationAssumption DEF Steps
  <1>6. StepsTaken(r)'
    <2>1. \A i \in Steps : job'[r].mine[i] # "pending"
                             /\ (job'[r].mine[i] = "succeeded" => <<r, i>> \in done')
      BY <1>1, <1>4, <1>5 DEF Outcomes
    <2> QED BY <1>2, <2>1 DEF StepsTaken
  <1>7. Told(r)'
    <2>1. \A i \in Steps : job'[r].mine[i] = "skipped" => <<r, i>> \notin done'
      BY <1>1, <1>4, <1>5 DEF Outcomes
    <2>2. ~ \A i \in Steps : job'[r].mine[i] = "succeeded"
      BY <1>0, <1>4
    <2> QED BY <1>1, <1>2, <2>1, <2>2 DEF Told
  <1>8. ClosedOnce(r)'
    BY <1>1, OpenKeeps
  <1>9. Recorded(r)' /\ RowFirst(r)'
    BY <1>1, <1>2 DEF Recorded, RowFirst
  <1> QED BY <1>6, <1>7, <1>8, <1>9

\* Writing the audit record of a step, or failing to.
LEMMA AuditHistory ==
    ASSUME TypeOK, NEW r \in Runs, History(r), Audit(r)
    PROVE History(r)'
  <1> USE DEF History
  <1>0. job \in [Runs -> JobType] /\ job[r] \in JobType
    BY DEF TypeOK
  <1>1. /\ job[r].pc = "audit" /\ UNCHANGED <<run, steps, sweep, listed, outlived, done>>
        /\ job'[r].pc = "persist" /\ job'[r].at = job[r].at /\ job'[r].mine = job[r].mine
    BY <1>0 DEF Audit, At, Goto, JobType, runVars, sweepVars, ages
  <1>2. StepsTaken(r)'
    BY <1>1 DEF StepsTaken
  <1>3. Told(r)'
    <2>1. CASE audited' = audited \cup {<<r, job[r].at>>} /\ NoFault
      BY <1>1, <2>1 DEF Told, NoFault
    <2>2. CASE Fault(r)
      BY <2>2 DEF Told, Fault
    <2> QED BY <2>1, <2>2 DEF Audit
  <1>4. ClosedOnce(r)'
    BY <1>1, OpenKeeps DEF Audit, Fault, NoFault
  <1>5. Recorded(r)' /\ RowFirst(r)'
    BY <1>1 DEF Recorded, RowFirst
  <1> QED BY <1>2, <1>3, <1>4, <1>5

\* Going on to the next step, or to the end of the run.
LEMMA PersistHistory ==
    ASSUME TypeOK, NEW r \in Runs, History(r), PersistSteps(r)
    PROVE History(r)'
  <1> USE DEF History
  <1>0. /\ job \in [Runs -> JobType] /\ job[r] \in JobType /\ job[r].at \in Steps
        /\ job[r].mine \in [Steps -> StepStatus]
    BY DEF TypeOK, JobType
  <1>1. /\ job[r].pc = "persist" /\ job'[r] = AfterStep(job[r])
        /\ UNCHANGED <<run, sweep, listed, outlived, done, audited>>
    BY <1>0 DEF PersistSteps, At, sweepVars, ages, effects
  <1>2. (steps'[r] = job[r].mine /\ untold' = untold) \/ (steps' = steps /\ r \in untold')
    BY DEF PersistSteps, TypeOK, NoFault, Fault
  <1>3. \A i \in Steps :
          IF i <= job[r].at THEN job[r].mine[i] \in Outcomes /\ <<r, i>> \in done
          ELSE job[r].mine[i] = "pending" /\ <<r, i>> \notin done
    BY <1>1 DEF StepsTaken
  <1>4. Recorded(r)'
    BY <1>1, <1>2, <1>3 DEF Recorded, Outcomes
  <1>5. ClosedOnce(r)'
    BY <1>1, <1>2, OpenKeeps
  <1>6. CASE /\ job[r].at # NumSteps
             /\ job'[r] = [job[r] EXCEPT !.pc = "loop", !.at = @ + 1]
    <2>1. job'[r].pc = "loop" /\ job'[r].at = job[r].at + 1 /\ job'[r].mine = job[r].mine
      BY <1>0, <1>6 DEF JobType
    <2>2. \A i \in Steps : i < job'[r].at <=> i <= job[r].at
      BY <1>0, <2>1, AutomationAssumption DEF Steps
    <2>3. StepsTaken(r)'
      BY <1>1, <1>3, <2>1, <2>2 DEF StepsTaken
    <2>4. Told(r)' /\ RowFirst(r)'
      BY <1>1, <1>2, <2>1 DEF Told, RowFirst
    <2> QED BY <1>4, <1>5, <2>3, <2>4
  <1>7. CASE /\ job[r].at = NumSteps \/ job[r].mine[job[r].at] = "failed"
             /\ job'[r] = [job[r] EXCEPT !.pc = "finish", !.verdict = Verdict(job[r].mine),
                                  !.mine = FinishPending(@, job[r].at + 1)]
    <2>1. /\ job'[r].pc = "finish" /\ job'[r].verdict = Verdict(job[r].mine)
          /\ job'[r].mine = FinishPending(job[r].mine, job[r].at + 1)
      BY <1>0, <1>7 DEF JobType
    <2>a. job[r].at + 1 \in Int /\ job[r].at \in Nat
      BY <1>0, AutomationAssumption DEF Steps
    <2>2. ASSUME NEW i \in Steps
          PROVE /\ i <= job[r].at => job'[r].mine[i] = job[r].mine[i]
                /\ ~(i <= job[r].at) => job'[r].mine[i] = "skipped"
      <3>1. /\ i >= job[r].at + 1 => job'[r].mine[i] # "pending"
            /\ job[r].mine[i] # "pending" => job'[r].mine[i] = job[r].mine[i]
            /\ job'[r].mine[i] \in {job[r].mine[i], "skipped"}
        BY <1>0, <2>1, <2>a, FinishedAll
      <3>2. ~(i <= job[r].at) => i >= job[r].at + 1
        BY <2>a, RunsAreNumbers
      <3> QED BY <1>3, <3>1, <3>2 DEF Outcomes
    <2>3. StepsTaken(r)'
      BY <1>1, <1>3, <2>1, <2>2 DEF StepsTaken, Outcomes
    <2>4. \A i \in Steps : job'[r].mine[i] = "skipped" => <<r, i>> \notin done
      BY <1>3, <2>2 DEF Outcomes
    <2>5. Verdict(job[r].mine) = "succeeded"
             <=> \A i \in Steps : job'[r].mine[i] = "succeeded"
      <3>1. CASE job[r].mine[job[r].at] = "failed"
        <4>1. job[r].at <= job[r].at
          BY <2>a
        <4>2. job'[r].mine[job[r].at] = "failed"
          BY <1>0, <2>2, <3>1, <4>1
        <4> QED BY <1>0, <3>1, <4>2 DEF Verdict
      <3>2. CASE job[r].at = NumSteps
        <4>1. \A i \in Steps : i <= job[r].at
          BY <3>2, AutomationAssumption DEF Steps
        <4>2. \A i \in Steps : job'[r].mine[i] = job[r].mine[i] /\ job[r].mine[i] \in Outcomes
          BY <1>3, <2>2, <4>1
        <4> QED BY <4>2 DEF Verdict, Outcomes
      <3> QED BY <1>7, <3>1, <3>2
    <2>6. Told(r)' /\ RowFirst(r)'
      BY <1>1, <1>2, <2>1, <2>4, <2>5 DEF Told, RowFirst
    <2> QED BY <1>4, <1>5, <2>3, <2>6
  <1> QED BY <1>1, <1>6, <1>7 DEF AfterStep

\* Closing the run with what the firing has in hand, or failing to.
LEMMA FinishHistory ==
    ASSUME TypeOK, NEW r \in Runs, History(r), Finish(r)
    PROVE History(r)'
  <1> USE DEF History
  <1>0. job \in [Runs -> JobType] /\ job[r] \in JobType /\ job[r].verdict \in Closed
    BY DEF TypeOK, JobType
  <1>1. /\ job[r].pc = "finish" /\ job'[r].pc = "release"
        /\ UNCHANGED <<sweep, listed, outlived, done, audited>>
    BY <1>0 DEF Finish, At, Goto, JobType, sweepVars, ages, effects
  <1>2. StepsTaken(r)'
    BY <1>1 DEF StepsTaken
  <1>3. CASE run'[r] = job[r].verdict /\ steps'[r] = job[r].mine /\ untold' = untold
    <2>1. Told(r)' /\ RowFirst(r)'
      BY <1>0, <1>1, <1>3 DEF Told, RowFirst, Closed
    <2>2. Recorded(r)'
      BY <1>1, <1>3 DEF Recorded, StepsTaken
    <2>3. TrueHistory(r)'
      BY <1>1, <1>3 DEF TrueHistory, StepsTaken, Told
    <2>4. ClosedOnce(r)'
      BY <1>1, <1>3, <2>3 DEF ClosedOnce
    <2> QED BY <1>2, <2>1, <2>2, <2>4
  <1>4. CASE UNCHANGED <<run, steps>> /\ r \in untold'
    <2>1. Told(r)' /\ RowFirst(r)' /\ Recorded(r)'
      BY <1>1, <1>4 DEF Told, RowFirst, Recorded
    <2>2. ClosedOnce(r)'
      BY <1>1, <1>4, OpenKeeps
    <2> QED BY <1>2, <2>1, <2>2
  <1> QED BY <1>3, <1>4 DEF Finish, CloseRun, TypeOK, NoFault, Fault

\* Giving back the guard and the slot, and recovering from a panic.
LEMMA ReleaseHistory ==
    ASSUME TypeOK, NEW r \in Runs, History(r), Release(r) \/ Recover(r)
    PROVE History(r)'
  <1> USE DEF History
  <1>0. job \in [Runs -> JobType] /\ job[r] \in JobType
    BY DEF TypeOK
  <1>1. UNCHANGED <<run, steps, sweep, listed, outlived, done, audited, untold>>
    BY DEF Release, Recover, runVars, sweepVars, effects, ages
  <1>2. CASE Release(r)
    <2>1. job[r].pc = "release" /\ job'[r].pc = "over"
      BY <1>0, <1>2, OverFields DEF Release, Leave, At
    <2>2. StepsTaken(r)' /\ Told(r)' /\ Recorded(r)' /\ RowFirst(r)'
      BY <1>1, <2>1 DEF StepsTaken, Told, Recorded, RowFirst
    <2>3. ClosedOnce(r)'
      BY <1>1, <2>1 DEF ClosedOnce, TrueHistory
    <2> QED BY <2>2, <2>3
  <1>3. CASE Recover(r)
    <2>1. job[r].pc = "panic"
      BY <1>3 DEF Recover, At
    <2>2. /\ job'[r].pc = "finish" /\ job'[r].verdict = "failed"
          /\ job'[r].mine = FinishPending(Pending, 1)
      BY <1>0, <1>3, RefusedFields DEF Recover
    <2> QED BY <1>1, <2>1, <2>2, RefusedHistory
  <1> QED BY <1>2, <1>3

\* Every step of a firing keeps every history true.
LEMMA FiringHistory ==
    ASSUME TypeOK, SlotsReturned, NEW r \in Runs, FiringStep(r), NEW q \in Runs, History(q)
    PROVE History(q)'
  <1>1. CASE q # r
    BY <1>1, OthersUntouched, UntouchedKeeps
  <1>2. CASE q = r /\ CreateRun(r)
    <2>1. CreateAutomationRun(r, NoSlot, job[r].willing) /\ job[r].pc \in {"none", "loaded"}
      BY <1>2 DEF CreateRun, At
    <2>2. UNCHANGED <<steps, sweep, listed, done, audited, outlived>>
      BY <1>2 DEF CreateRun, sweepVars, effects, ages
    <2> QED BY <1>2, <2>1, <2>2, CreateHistory
  <1>3. CASE q = r /\ ~CreateRun(r)
    BY <1>3, SkipHistory, ClaimHistory, RunStepHistory, BudgetHistory, AuditHistory,
       PersistHistory, FinishHistory, ReleaseHistory
       DEF FiringStep
  <1> QED BY <1>1, <1>2, <1>3

-----------------------------------------------------------------------------
(* The other steps.                                                          *)

\* The sweep closes a run that was interrupted.
LEMMA SweepHistory ==
    ASSUME TypeOK, Ages, NEW r \in Runs, FailStuckRun(r), NEW q \in Runs, History(q)
    PROVE History(q)'
  <1> USE DEF History
  <1>0. UNCHANGED <<job, listed, done, audited, outlived>>
    BY DEF FailStuckRun, ages, effects
  <1>1. CASE q # r
    <2>1. Untouched(q)
      BY <1>0, <1>1 DEF FailStuckRun, CloseRun, NoFault, Fault, TypeOK, Untouched
    <2> QED BY <2>1, UntouchedKeeps
  <1>2. CASE q = r
    <2>1. sweep[r] = "fail" /\ sweep'[r] = "release" /\ r \in old /\ run[r] # "none"
      BY <1>2 DEF FailStuckRun, TypeOK, Ages, SweptIsOld, RowFirst
    <2>2. /\ job[r].pc \notin {"none", "loaded"}
          /\ r \notin outlived => job[r].pc = "over" /\ r \in untold
      BY <1>2, <2>1 DEF RowFirst, ClosedOnce, Ages, OldIsOutlived, Alive
    <2>3. r \in untold => r \in untold'
      BY DEF FailStuckRun, CloseRun, NoFault, Fault
    <2>4. StepsTaken(r)'
      BY <1>0, <1>2 DEF StepsTaken
    <2>5. CASE /\ run'[r] = "failed" /\ steps'[r] = FinishPending(listed[r], 1)
               /\ untold' = untold
      <3>0. listed[r] \in [Steps -> StepStatus] /\ 1 \in Int
        BY DEF TypeOK
      <3>1. ASSUME NEW i \in Steps
            PROVE steps'[r][i] # "pending" /\ (steps'[r][i] = "succeeded" => <<r, i>> \in done')
        <4>1. i >= 1
          BY AutomationAssumption DEF Steps
        <4>2. steps'[r][i] # "pending" /\ steps'[r][i] \in {listed[r][i], "skipped"}
          BY <2>5, <3>0, <4>1, FinishedAll
        <4> QED BY <1>0, <1>2, <4>2 DEF Recorded
      <3>2. Recorded(r)'
        BY <1>0, <1>2, <3>1 DEF Recorded
      <3>3. Told(r)' /\ RowFirst(r)'
        BY <1>0, <1>2, <2>2, <2>5 DEF Told, RowFirst
      <3>4. ClosedOnce(r)'
        BY <1>0, <2>1, <2>2, <2>3, <3>1 DEF ClosedOnce, TrueHistory
      <3> QED BY <1>2, <2>4, <3>2, <3>3, <3>4
    <2>6. CASE UNCHANGED <<run, steps>> /\ r \in untold'
      <3>1. Recorded(r)' /\ Told(r)' /\ RowFirst(r)'
        BY <1>0, <1>2, <2>1, <2>2, <2>6 DEF Recorded, Told, RowFirst
      <3>2. ClosedOnce(r)'
        BY <1>0, <1>2, <2>1, <2>6 DEF ClosedOnce, TrueHistory
      <3> QED BY <1>2, <2>4, <3>1, <3>2
    <2> QED BY <2>5, <2>6 DEF FailStuckRun, CloseRun, TypeOK, NoFault, Fault
  <1> QED BY <1>1, <1>2

\* Listing, releasing, ageing and editing touch no run.
LEMMA CalmHistory ==
    ASSUME TypeOK, Ages, NEW q \in Runs, History(q),
           \/ Tick \/ GuardAges \/ DeleteAutomation \/ ListStuckRuns
           \/ \E on \in BOOLEAN : UpdateAutomation(on)
           \/ \E r \in Runs : RunAges(r) \/ ReleaseStuckRun(r)
           \/ UNCHANGED vars
    PROVE History(q)'
  <1> USE DEF row, guardVars, runVars, ages, sweepVars, effects
  <1>1. CASE ListStuckRuns
    <2>1. q \in Stuck => q \in untold \cup outlived
      <3> SUFFICES ASSUME q \in Stuck, q \notin outlived PROVE q \in untold
        OBVIOUS
      <3>1. run[q] = "in_progress" /\ q \in old
        BY DEF Stuck
      <3>2. job[q].pc = "over"
        BY <3>1 DEF Ages, OldIsOutlived, Unborn, Alive, At
      <3> QED BY <3>1, <3>2 DEF History, Told
    <2>2. q \in Stuck => run[q] = "in_progress"
      BY DEF Stuck
    <2>3. Untouched(q)
      BY <1>1, <2>1, <2>2 DEF ListStuckRuns, Untouched
    <2> QED BY <2>3, UntouchedKeeps
  <1>2. ASSUME NEW r \in Runs, ReleaseStuckRun(r) PROVE History(q)'
    <2>1. Untouched(q)
      BY <1>2 DEF ReleaseStuckRun, Untouched, TypeOK
    <2> QED BY <2>1, UntouchedKeeps
  <1>3. ASSUME NEW r \in Runs, RunAges(r) PROVE History(q)'
    <2>1. Untouched(q)
      BY <1>3 DEF RunAges, Untouched
    <2> QED BY <2>1, UntouchedKeeps
  <1>4. CASE \/ Tick \/ GuardAges \/ DeleteAutomation
             \/ \E on \in BOOLEAN : UpdateAutomation(on)
             \/ UNCHANGED vars
    <2>1. Untouched(q)
      BY <1>4 DEF Tick, GuardAges, DeleteAutomation, UpdateAutomation, vars, Untouched
    <2> QED BY <2>1, UntouchedKeeps
  <1> QED BY <1>1, <1>2, <1>3, <1>4

\* A restart interrupts the firings that were under way.
LEMMA RestartHistory ==
    ASSUME TypeOK, NEW q \in Runs, History(q), Restart
    PROVE History(q)'
  <1> USE DEF History
  <1>0. UNCHANGED <<run, steps, done, audited, outlived>>
    BY DEF Restart, runVars, ages, effects
  <1>1. sweep'[q] = "no" /\ listed'[q] = Pending
    BY DEF Restart
  <1>2. CASE Alive(q)
    <2>1. job'[q].pc = "over" /\ q \in untold'
      BY <1>2, OverFields DEF Restart
    <2>2. StepsTaken(q)' /\ Told(q)'
      BY <2>1 DEF StepsTaken, Told
    <2>3. Recorded(q)' /\ RowFirst(q)'
      BY <1>0, <1>1, <2>1 DEF Recorded, RowFirst, Pending
    <2>4. ClosedOnce(q)'
      BY <1>0, <1>1, <2>1 DEF ClosedOnce, TrueHistory
    <2> QED BY <2>2, <2>3, <2>4
  <1>3. CASE ~Alive(q)
    <2>1. Untouched(q)
      BY <1>0, <1>1, <1>3 DEF Restart, Untouched
    <2> QED BY <2>1, UntouchedKeeps
  <1> QED BY <1>2, <1>3

\* A firing begins: on request, or for a slot of the schedule.
LEMMA BeginHistory ==
    ASSUME TypeOK, NEW r \in Runs, NEW q \in Runs, History(q),
           Requested(r) \/ \E t \in Slots : FireScheduled(r, t)
    PROVE History(q)'
  <1>0. job \in [Runs -> JobType] /\ job[r] \in JobType /\ job[r].pc = "none"
    BY DEF TypeOK, Requested, FireScheduled, Fresh, At
  <1>1. UNCHANGED <<steps, sweep, listed, done, audited, outlived>>
    BY DEF Requested, FireScheduled, runVars, sweepVars, effects, ages
  <1>2. CASE Requested(r)
    <2>1. UNCHANGED <<run, untold>>
      BY <1>2 DEF Requested, runVars
    <2>2. CASE q # r
      <3>1. Untouched(q)
        BY <1>0, <1>1, <1>2, <2>1, <2>2 DEF Requested, Untouched
      <3> QED BY <3>1, UntouchedKeeps
    <2>3. CASE q = r
      <3>1. job'[r].pc = "loaded" /\ job'[r].at = job[r].at /\ job'[r].mine = job[r].mine
        BY <1>0, <1>2 DEF Requested, JobType
      <3>2. StepsTaken(r)'
        BY <1>0, <1>1, <2>3, <3>1 DEF History, StepsTaken
      <3>3. Told(r)' /\ Recorded(r)' /\ RowFirst(r)'
        BY <1>0, <1>1, <2>1, <2>3, <3>1 DEF History, StepsTaken, Told, Recorded, RowFirst
      <3>4. ClosedOnce(r)'
        BY <1>0, <1>1, <2>1, <2>3, OpenKeeps DEF History
      <3> QED BY <2>3, <3>2, <3>3, <3>4 DEF History
    <2> QED BY <2>2, <2>3
  <1>3. ASSUME NEW t \in Slots, FireScheduled(r, t) PROVE History(q)'
    <2>1. CreateAutomationRun(r, t, now - t <= CatchUpWindow)
      BY <1>3 DEF FireScheduled
    <2>2. CASE q = r
      BY <1>0, <1>1, <2>1, <2>2, CreateHistory
    <2>3. CASE q # r
      <3>1. Untouched(q)
        BY <1>0, <1>1, <2>1, <2>3
           DEF CreateAutomationRun, Leave, NoFault, Fault, TypeOK, Untouched
      <3> QED BY <3>1, UntouchedKeeps
    <2> QED BY <2>2, <2>3
  <1> QED BY <1>2, <1>3

(***************************************************************************)
(* The history of a closed run that has not outlived its claim is true,    *)
(* for any number of runs and steps, whatever is retried, swept, lost or   *)
(* interrupted (runStep, finish, FailStuckRuns).                           *)
(***************************************************************************)
THEOREM HistoryStaysTrue == Spec => []HistoryIsTrue
  <1> DEFINE AllTrue == \A q \in Runs : History(q)
  <1>1. Init => AllTrue
    <2> SUFFICES ASSUME Init, NEW q \in Runs PROVE History(q)
      OBVIOUS
    <2>1. /\ job[q].pc = "none" /\ job[q].at = 1 /\ job[q].mine = Pending
          /\ run[q] = "none" /\ steps[q] = Pending /\ listed[q] = Pending
          /\ sweep[q] = "no" /\ done = {}
      BY DEF Init, Nobody
    <2>2. \A i \in Steps : Pending[i] = "pending"
      BY DEF Pending
    <2> QED BY <2>1, <2>2
            DEF History, StepsTaken, Told, Recorded, ClosedOnce, TrueHistory, RowFirst, Closed
  <1>2. RunInv /\ AllTrue /\ [Next]_vars => AllTrue'
    <2> SUFFICES ASSUME RunInv, AllTrue, [Next]_vars, NEW q \in Runs PROVE History(q)'
      OBVIOUS
    <2> HIDE DEF AllTrue
    <2>1. TypeOK /\ SlotsReturned /\ Ages /\ History(q)
      BY DEF RunInv, AllTrue
    <2>2. ASSUME NEW r \in Runs, FiringStep(r) PROVE History(q)'
      BY <2>1, <2>2, FiringHistory
    <2>3. ASSUME NEW r \in Runs, FailStuckRun(r) PROVE History(q)'
      BY <2>1, <2>3, SweepHistory
    <2>4. CASE Restart
      BY <2>1, <2>4, RestartHistory
    <2>5. ASSUME NEW r \in Runs, Requested(r) \/ \E t \in Slots : FireScheduled(r, t)
          PROVE History(q)'
      BY <2>1, <2>5, BeginHistory
    <2>6. CASE \/ Tick \/ GuardAges \/ DeleteAutomation \/ ListStuckRuns
               \/ \E on \in BOOLEAN : UpdateAutomation(on)
               \/ \E r \in Runs : RunAges(r) \/ ReleaseStuckRun(r)
               \/ UNCHANGED vars
      BY <2>1, <2>6, CalmHistory
    <2> QED BY <2>2, <2>3, <2>4, <2>5, <2>6 DEF Next, DispatchDue, SweepStep
  <1>3. AllTrue => HistoryIsTrue
    BY DEF History, ClosedOnce, TrueHistory, HistoryIsTrue
  <1> HIDE DEF AllTrue
  <1> QED BY RunInvHolds, <1>1, <1>2, <1>3, PTL DEF Spec
=============================================================================
