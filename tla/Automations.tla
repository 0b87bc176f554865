----------------------------- MODULE Automations -----------------------------
(***************************************************************************)
(* The runs of one automation: firings by hand, by webhook and by the      *)
(* schedule, the runner slots, the guard that keeps runs apart, the steps  *)
(* of a run and the history it leaves, and the sweep that closes runs      *)
(* nobody finished.                                                        *)
(*                                                                         *)
(* Each firing is a process, named by the run it will record.  A step is   *)
(* one database statement, one operation on the slot channel, or one       *)
(* action of the automation.  The clock serves the schedule only; the age  *)
(* at which a run counts as dead (CLAIM_STALE_AFTER) passes on its own.    *)
(* One process serves the API, and its restart ends every firing.          *)
(***************************************************************************)
EXTENDS Integers, FiniteSets

CONSTANTS MaxRuns,        \* bound: firings
          MaxRequested,   \* bound: those made by hand or by webhook
          NumSteps,       \* the automation's actions
          ContinueOnError,\* the steps with continue_on_error
          MaxConcurrent,  \* MAX_CONCURRENT_RUNS
          Slots,          \* the clock values the schedule fires at
          CatchUpWindow,  \* schedulerCatchUpWindow
          MaxTime,        \* bound: the clock
          MaxMishaps      \* bound: failed statements, panics, restarts, edits
                          \* and runs that outlive CLAIM_STALE_AFTER

Runs == 1 .. MaxRuns
Steps == 1 .. NumSteps

ASSUME AutomationAssumption ==
    /\ MaxRuns \in Nat /\ MaxRequested \in Nat /\ NumSteps \in Nat \ {0}
    /\ ContinueOnError \subseteq Steps /\ MaxConcurrent \in Nat
    /\ Slots \subseteq Nat /\ CatchUpWindow \in Nat /\ MaxTime \in Nat
    /\ MaxMishaps \in Nat

VARIABLES
    now,
    enabled, active, updated,  \* automations.enabled, .active, .updated_at
    guard,      \* automations.running_run_id, 0 for none
    guardOld,   \* automations.running_since is older than CLAIM_STALE_AFTER
    run,        \* automation_runs.status, "none" before the row
    steps,      \* automation_runs.steps
    slotOf,     \* automation_runs.scheduled_at
    old,        \* runs started longer ago than CLAIM_STALE_AFTER
    job,        \* per firing, where it is and what it carries
    busy,       \* the runner slots taken
    sweep,      \* per run, what FailStuckRuns has yet to write
    listed,     \* the steps it has read for that
    done,       \* the actions that were attempted, by run and step
    audited,    \* the actions the audit log has a record of
    mishaps,
    edited,     \* history: someone changed the automation
    untold,     \* history: runs that were interrupted, or of which a record
                \* could not be written
    outlived    \* history: runs that went on past CLAIM_STALE_AFTER

row == <<enabled, active, updated, edited>>
guardVars == <<guard, guardOld>>
runVars == <<run, steps, slotOf>>
ages == <<now, old, outlived>>
sweepVars == <<sweep, listed>>
effects == <<done, audited>>
vars == <<row, guardVars, runVars, ages, job, busy, sweepVars, effects, mishaps, untold>>

NoSlot == 0 - 1
\* AutomationStepStatus, and AutomationRunStatus but for in_progress.
StepStatus == {"pending", "succeeded", "failed", "skipped"}
Closed == {"succeeded", "failed", "skipped"}

\* pendingSteps
Pending == [i \in Steps |-> "pending"]
Nobody == [pc |-> "none", willing |-> TRUE, at |-> 1, mine |-> Pending,
           verdict |-> "failed", held |-> FALSE]

\* The places at which a firing holds a runner slot.
Slotted == {"claim", "loop", "audit", "persist", "panic", "finish", "release"}

JobType == [pc : Slotted \cup {"none", "loaded", "created", "over"},
            willing : BOOLEAN, at : Steps,
            mine : [Steps -> StepStatus], verdict : Closed, held : BOOLEAN]

(***************************************************************************)
(* Every row, firing and counter keeps to its kind of value, and no more   *)
(* runner slots are taken than there are.                                  *)
(***************************************************************************)
TypeOK ==
    /\ now \in 0 .. MaxTime /\ updated \in 0 .. MaxTime
    /\ enabled \in BOOLEAN /\ active \in BOOLEAN /\ edited \in BOOLEAN
    /\ guard \in Runs \cup {0} /\ guardOld \in BOOLEAN
    /\ run \in [Runs -> Closed \cup {"none", "in_progress"}]
    /\ steps \in [Runs -> [Steps -> StepStatus]]
    /\ slotOf \in [Runs -> Slots \cup {NoSlot}]
    /\ old \subseteq Runs
    /\ job \in [Runs -> JobType]
    /\ busy \in 0 .. MaxConcurrent
    /\ sweep \in [Runs -> {"no", "fail", "release"}]
    /\ listed \in [Runs -> [Steps -> StepStatus]]
    /\ done \subseteq Runs \X Steps /\ audited \subseteq Runs \X Steps
    /\ mishaps \in 0 .. MaxMishaps
    /\ untold \subseteq Runs /\ outlived \subseteq Runs

Init ==
    /\ now = 0 /\ updated = 0 /\ enabled = TRUE /\ active = TRUE /\ edited = FALSE
    /\ guard = 0 /\ guardOld = FALSE
    /\ run = [r \in Runs |-> "none"] /\ steps = [r \in Runs |-> Pending]
    /\ slotOf = [r \in Runs |-> NoSlot] /\ old = {}
    /\ job = [r \in Runs |-> Nobody] /\ busy = 0
    /\ sweep = [r \in Runs |-> "no"] /\ listed = [r \in Runs |-> Pending]
    /\ done = {} /\ audited = {}
    /\ mishaps = 0 /\ untold = {} /\ outlived = {}

At(r, pc) == job[r].pc = pc
Goto(r, pc) == job' = [job EXCEPT ![r].pc = pc]
Over == [Nobody EXCEPT !.pc = "over"]
Leave(r) == job' = [job EXCEPT ![r] = Over]
Alive(r) == job[r].pc \notin {"none", "over"}

Mishap == mishaps < MaxMishaps /\ mishaps' = mishaps + 1

\* A statement about run r fails; the code logs it and goes on.
Fault(r) == Mishap /\ untold' = untold \cup {r}
NoFault == UNCHANGED <<mishaps, untold>>

FinishPending(s, from) ==
    [i \in Steps |-> IF i >= from /\ s[i] = "pending" THEN "skipped" ELSE s[i]]

\* What a firing carries when it is about to record that nothing was run.
Refused(r, verdict) ==
    [job[r] EXCEPT !.pc = "finish", !.mine = FinishPending(Pending, 1), !.verdict = verdict]

-----------------------------------------------------------------------------
(* Time and the operator.                                                    *)

Tick ==
    /\ now < MaxTime /\ now' = now + 1
    /\ UNCHANGED <<row, guardVars, runVars, old, outlived, job, busy, sweepVars, effects,
                   mishaps, untold>>

(***************************************************************************)
(* CLAIM_STALE_AFTER passes since a run was started, and later since it    *)
(* took the guard.  RUN_BUDGET ends a live run long before, unless its     *)
(* statements hang.                                                        *)
(***************************************************************************)
RunAges(r) ==
    /\ r \notin old /\ (run[r] = "in_progress" \/ guard = r)
    /\ old' = old \cup {r}
    /\ \/ Alive(r) /\ Mishap /\ outlived' = outlived \cup {r}
       \/ ~Alive(r) /\ UNCHANGED <<mishaps, outlived>>
    /\ UNCHANGED <<now, row, guardVars, runVars, job, busy, sweepVars, effects, untold>>

GuardAges ==
    /\ guard \in old /\ ~guardOld /\ guardOld' = TRUE
    /\ UNCHANGED <<row, guard, runVars, ages, job, busy, sweepVars, effects, mishaps, untold>>

\* Any UPDATE that does not pin updated_at moves it.
TouchRow == Mishap /\ updated' = now /\ edited' = TRUE

\* HandleUpdateAutomation, and the handlers that enable, disable and rotate
\* the token.
UpdateAutomation(on) ==
    /\ active /\ TouchRow /\ enabled' = on
    /\ UNCHANGED <<active, guardVars, runVars, ages, job, busy, sweepVars, effects, untold>>

DeleteAutomation ==
    /\ active /\ TouchRow /\ active' = FALSE /\ enabled' = FALSE
    /\ UNCHANGED <<guardVars, runVars, ages, job, busy, sweepVars, effects, untold>>

-----------------------------------------------------------------------------
(* Firings.                                                                  *)

Fresh(r) == At(r, "none") /\ \A q \in 1 .. r - 1 : ~At(q, "none")

\* HandleRunAutomation and FireWebhook load the automation.
Requested(r) ==
    /\ Fresh(r) /\ active
    /\ Cardinality({q \in Runs : ~At(q, "none") /\ slotOf[q] = NoSlot}) < MaxRequested
    /\ job' = [job EXCEPT ![r].pc = "loaded", ![r].willing = enabled]
    /\ UNCHANGED <<row, guardVars, runVars, ages, busy, sweepVars, effects, mishaps, untold>>

\* The last fire of the cron expression, unless it is from before the
\* automation was last written.
Owed(t) ==
    /\ t <= now /\ \A u \in Slots : u <= now => u <= t
    /\ t >= updated

\* The unique key on (automation_id, scheduled_at).
SlotTaken(t) == \E r \in Runs : slotOf[r] = t

\* CreateAutomationRun: the row is made, or made and not read back, or not
\* made.
CreateAutomationRun(r, t, willing) ==
    \/ /\ run' = [run EXCEPT ![r] = "in_progress"] /\ slotOf' = [slotOf EXCEPT ![r] = t]
       /\ \/ /\ job' = [job EXCEPT ![r].pc = "created", ![r].willing = willing]
             /\ NoFault
          \/ Leave(r) /\ Fault(r)
    \/ /\ Mishap /\ UNCHANGED <<run, slotOf, untold>>
       /\ IF t = NoSlot THEN Leave(r) ELSE UNCHANGED job

(***************************************************************************)
(* One tick of dispatchDueAutomations, with FireScheduled: the insert of   *)
(* the run's row claims the slot.  A slot that has a row is left alone.    *)
(***************************************************************************)
FireScheduled(r, t) ==
    /\ active /\ enabled /\ Owed(t) /\ ~SlotTaken(t) /\ Fresh(r)
    /\ CreateAutomationRun(r, t, now - t <= CatchUpWindow)
    /\ UNCHANGED <<row, guardVars, steps, ages, busy, sweepVars, effects>>

\* createRun for a requested firing, which always wins.
CreateRun(r) ==
    /\ At(r, "loaded") /\ CreateAutomationRun(r, NoSlot, job[r].willing)
    /\ UNCHANGED <<row, guardVars, steps, ages, busy, sweepVars, effects>>

\* UpdateRun with a terminal status, or its failure.
CloseRun(r, verdict, s) ==
    \/ /\ run' = [run EXCEPT ![r] = verdict] /\ steps' = [steps EXCEPT ![r] = s]
       /\ NoFault
    \/ Fault(r) /\ UNCHANGED <<run, steps>>

(***************************************************************************)
(* fire and FireScheduled after createRun: a late or a disabled firing is  *)
(* skipped, and so is one that finds every runner slot taken, some of them *)
(* perhaps by other automations; another takes a slot.                     *)
(***************************************************************************)
Skip(r) ==
    /\ At(r, "created") /\ CloseRun(r, "skipped", FinishPending(Pending, 1)) /\ Leave(r)
    /\ UNCHANGED <<row, guardVars, slotOf, ages, busy, sweepVars, effects>>

TryAcquireSlot(r) ==
    /\ At(r, "created") /\ job[r].willing /\ busy < MaxConcurrent
    /\ Goto(r, "claim") /\ busy' = busy + 1
    /\ UNCHANGED <<row, guardVars, runVars, ages, sweepVars, effects, mishaps, untold>>

-----------------------------------------------------------------------------
(* execute.                                                                  *)

\* Mutant: a guard is never broken.
ClaimableWhenFree == active /\ guard = 0

\* The condition of ClaimAutomationRun.
Claimable == active /\ (guard = 0 \/ guardOld)

\* Authorise, before the first step: the user may be gone or may lack a role.
Authorise(r) ==
    \/ job' = [job EXCEPT ![r].pc = "loop", ![r].held = TRUE]
    \/ job' = [job EXCEPT ![r] = [Refused(r, "failed") EXCEPT !.held = TRUE]]

\* Mutant: the claim moves updated_at.
ClaimTouches(r) ==
    /\ At(r, "claim") /\ Claimable
    /\ guard' = r /\ guardOld' = FALSE /\ updated' = now
    /\ Authorise(r)
    /\ UNCHANGED <<enabled, active, edited, runVars, ages, busy, sweepVars, effects, mishaps,
                   untold>>

ClaimAutomation(r) ==
    /\ At(r, "claim") /\ Claimable
    /\ guard' = r /\ guardOld' = FALSE
    /\ Authorise(r)
    /\ UNCHANGED <<row, runVars, ages, busy, sweepVars, effects, mishaps, untold>>

\* The guard is held, or the statement failed.
ClaimRefused(r) ==
    /\ At(r, "claim")
    /\ \/ ~Claimable /\ job' = [job EXCEPT ![r] = Refused(r, "skipped")] /\ NoFault
       \/ Mishap /\ job' = [job EXCEPT ![r] = Refused(r, "failed")] /\ UNCHANGED untold
    /\ UNCHANGED <<row, guardVars, runVars, ages, busy, sweepVars, effects>>

\* What an action returns: a redeployment is accepted by the worker or fails on
\* the way there, a request is answered with a 2xx or not.
Outcomes == {"succeeded", "failed"}

\* runStep: the action has an outcome, or a panic ends it before or after it was
\* attempted.
RunStep(r) ==
    LET i == job[r].at IN
    /\ At(r, "loop")
    /\ \E status \in Outcomes \cup {"pending"} :
          /\ job' = [job EXCEPT ![r].pc = IF status = "pending" THEN "panic" ELSE "audit",
                                ![r].mine[i] = status]
          /\ \/ done' = done \cup {<<r, i>>}
             \/ status = "pending" /\ UNCHANGED done
          /\ IF status = "pending" THEN Fault(r) ELSE NoFault
    /\ UNCHANGED <<row, guardVars, runVars, ages, busy, sweepVars, audited>>

\* The run budget is found exhausted before the next step.
BudgetExhausted(r) ==
    LET i == job[r].at IN
    /\ At(r, "loop")
    /\ job' = [job EXCEPT ![r].pc = "finish", ![r].verdict = "failed",
                          ![r].mine = FinishPending([@ EXCEPT ![i] = "failed"], i + 1)]
    /\ UNCHANGED <<row, guardVars, runVars, ages, busy, sweepVars, effects, mishaps, untold>>

\* audit, which tries three times.
Audit(r) ==
    /\ At(r, "audit") /\ Goto(r, "persist")
    /\ \/ audited' = audited \cup {<<r, job[r].at>>} /\ NoFault
       \/ Fault(r) /\ UNCHANGED audited
    /\ UNCHANGED <<row, guardVars, runVars, ages, busy, sweepVars, done>>

\* Mutant: a failed step with continue_on_error does not count.
VerdictLenient(s) ==
    IF \E i \in Steps \ ContinueOnError : s[i] = "failed" THEN "failed" ELSE "succeeded"

\* finish: any failed step fails the run.
Verdict(s) == IF \E i \in Steps : s[i] = "failed" THEN "failed" ELSE "succeeded"

\* Mutant: a failed step with continue_on_error is tried again.
AfterStepAgain(j) ==
    IF j.mine[j.at] = "failed" /\ j.at \in ContinueOnError
    THEN [j EXCEPT !.pc = "loop", !.mine[j.at] = "pending"]
    ELSE IF j.at = NumSteps \/ j.mine[j.at] = "failed"
    THEN [j EXCEPT !.pc = "finish", !.verdict = Verdict(j.mine),
                   !.mine = FinishPending(@, j.at + 1)]
    ELSE [j EXCEPT !.pc = "loop", !.at = @ + 1]

\* A failed step ends the run unless it has continue_on_error.
AfterStep(j) ==
    IF j.at = NumSteps \/ (j.mine[j.at] = "failed" /\ j.at \notin ContinueOnError)
    THEN [j EXCEPT !.pc = "finish", !.verdict = Verdict(j.mine),
                   !.mine = FinishPending(@, j.at + 1)]
    ELSE [j EXCEPT !.pc = "loop", !.at = @ + 1]

PersistSteps(r) ==
    /\ At(r, "persist") /\ job' = [job EXCEPT ![r] = AfterStep(@)]
    /\ \/ steps' = [steps EXCEPT ![r] = job[r].mine] /\ NoFault
       \/ Fault(r) /\ UNCHANGED steps
    /\ UNCHANGED <<row, guardVars, run, slotOf, ages, busy, sweepVars, effects>>

\* finish, or skip for a firing that found the guard taken.
Finish(r) ==
    /\ At(r, "finish") /\ CloseRun(r, job[r].verdict, job[r].mine) /\ Goto(r, "release")
    /\ UNCHANGED <<row, guardVars, slotOf, ages, busy, sweepVars, effects>>

\* ReleaseAutomationRun, or its failure.
ReleaseAutomationRun(r) ==
    \/ guard = r /\ guard' = 0 /\ guardOld' = FALSE /\ UNCHANGED mishaps
    \/ guard # r /\ UNCHANGED <<guardVars, mishaps>>
    \/ Mishap /\ UNCHANGED guardVars

\* Mutant: the slot is only given back by a run that took the guard.
ReleaseHeld(r) ==
    /\ At(r, "release") /\ Leave(r)
    /\ IF job[r].held THEN ReleaseAutomationRun(r) /\ busy' = busy - 1
       ELSE UNCHANGED <<guardVars, mishaps, busy>>
    /\ UNCHANGED <<row, runVars, ages, sweepVars, effects, untold>>

\* The deferred releases, after the outcome is recorded: the guard if it was
\* taken, then the runner slot.
Release(r) ==
    /\ At(r, "release") /\ Leave(r) /\ busy' = busy - 1
    /\ IF job[r].held THEN ReleaseAutomationRun(r) ELSE UNCHANGED <<guardVars, mishaps>>
    /\ UNCHANGED <<row, runVars, ages, sweepVars, effects, untold>>

\* A panic runs the deferred release first and then records the failure.
Recover(r) ==
    /\ At(r, "panic") /\ ReleaseAutomationRun(r)
    /\ job' = [job EXCEPT ![r] = [Refused(r, "failed") EXCEPT !.held = FALSE]]
    /\ UNCHANGED <<row, runVars, ages, busy, sweepVars, effects, untold>>

-----------------------------------------------------------------------------
(* FailStuckRuns, and the process.                                           *)

\* Mutant: only the holder of the guard is looked for.
StuckHolder == {r \in Runs : run[r] = "in_progress" /\ r \in old /\ guard = r}

Stuck == {r \in Runs : run[r] = "in_progress" /\ r \in old}

ListStuckRuns ==
    /\ \A r \in Runs : sweep[r] = "no"
    /\ Stuck # {}
    /\ sweep' = [r \in Runs |-> IF r \in Stuck THEN "fail" ELSE "no"]
    /\ listed' = [r \in Runs |-> IF r \in Stuck THEN steps[r] ELSE Pending]
    /\ UNCHANGED <<row, guardVars, runVars, ages, job, busy, effects, mishaps, untold>>

FailStuckRun(r) ==
    /\ sweep[r] = "fail" /\ \A q \in Runs : sweep[q] # "release"
    /\ sweep' = [sweep EXCEPT ![r] = "release"]
    /\ CloseRun(r, "failed", FinishPending(listed[r], 1))
    /\ UNCHANGED <<row, guardVars, slotOf, ages, job, busy, listed, effects>>

ReleaseStuckRun(r) ==
    /\ sweep[r] = "release" /\ sweep' = [sweep EXCEPT ![r] = "no"]
    /\ listed' = [listed EXCEPT ![r] = Pending]
    /\ ReleaseAutomationRun(r)
    /\ UNCHANGED <<row, runVars, ages, job, busy, effects, untold>>

Restart ==
    /\ Mishap
    /\ job' = [r \in Runs |-> IF Alive(r) THEN Over ELSE job[r]]
    /\ untold' = untold \cup {r \in Runs : Alive(r)}
    /\ busy' = 0 /\ sweep' = [r \in Runs |-> "no"] /\ listed' = [r \in Runs |-> Pending]
    /\ UNCHANGED <<row, guardVars, runVars, ages, effects>>

-----------------------------------------------------------------------------
FiringStep(r) ==
    \/ CreateRun(r) \/ Skip(r) \/ TryAcquireSlot(r) \/ ClaimAutomation(r)
    \/ ClaimRefused(r) \/ RunStep(r) \/ BudgetExhausted(r) \/ Audit(r)
    \/ PersistSteps(r) \/ Finish(r) \/ Release(r) \/ Recover(r)

DispatchDue == \E r \in Runs, t \in Slots : FireScheduled(r, t)
SweepStep(r) == FailStuckRun(r) \/ ReleaseStuckRun(r)

Next ==
    \/ Tick \/ GuardAges \/ DeleteAutomation \/ DispatchDue \/ ListStuckRuns \/ Restart
    \/ \E on \in BOOLEAN : UpdateAutomation(on)
    \/ \E r \in Runs : RunAges(r) \/ Requested(r) \/ FiringStep(r) \/ SweepStep(r)

Spec == Init /\ [][Next]_vars

\* Time passes, the loops tick, and a firing that has begun goes on: every
\* action has a time-out and the budget bounds them all.
Fairness ==
    /\ WF_vars(Tick) /\ WF_vars(GuardAges) /\ WF_vars(ListStuckRuns) /\ WF_vars(DispatchDue)
    /\ \A r \in Runs : WF_vars(RunAges(r)) /\ WF_vars(FiringStep(r)) /\ WF_vars(SweepStep(r))

FairSpec == Spec /\ Fairness

-----------------------------------------------------------------------------
(* Properties                                                                *)

\* The run may be taking its steps.
Acting(r) == job[r].pc \in {"loop", "audit", "persist"}

(***************************************************************************)
(* "One automation never runs twice at once" (execute): a run that may be  *)
(* acting holds the guard, unless it has outlived CLAIM_STALE_AFTER.       *)
(* Neither a late release nor the sweep frees a guard that a later run     *)
(* holds.                                                                  *)
(***************************************************************************)
OneAtATime == \A r \in Runs \ outlived : Acting(r) => guard = r

\* The runs that may act, and the runs that will act no more: a run past
\* CLAIM_STALE_AFTER is given up.
Runner == INSTANCE OneRunner WITH
    acting <- {r \in Runs \ outlived : Acting(r)},
    ended <- outlived \cup {r \in Runs : job[r].pc \in {"panic", "finish", "release", "over"}}

(***************************************************************************)
(* The runs implement OneRunner: they act one at a time, none acts twice   *)
(* or comes back, and each that acts ends (execute, "One automation never  *)
(* runs twice at once"; RUN_BUDGET, "the bound that keeps one hung action  *)
(* from pinning a runner slot forever").                                   *)
(***************************************************************************)
ImplementsOneRunner == Runner!Spec

(***************************************************************************)
(* A slot of the schedule is carried out by one run at most, however many  *)
(* ticks see it and whatever became of that run (CreateAutomationRun).     *)
(***************************************************************************)
SlotFiresOnce == \A q, r \in Runs : slotOf[q] = slotOf[r] /\ slotOf[q] # NoSlot => q = r

(***************************************************************************)
(* The history of a closed run is true.  A step it shows as succeeded took *)
(* effect ("Steps marked succeeded did take effect"); none is left pending *)
(* ("No finished run keeps a pending step"); and unless the run was        *)
(* interrupted or a record of it could not be written, a step shown as     *)
(* skipped was not attempted, the audit log has every step that was, and   *)
(* the run succeeded exactly when every step did.                          *)
(***************************************************************************)
HistoryIsTrue ==
    \A r \in Runs \ outlived : run[r] \in Closed =>
        /\ \A i \in Steps : /\ steps[r][i] # "pending"
                            /\ steps[r][i] = "succeeded" => <<r, i>> \in done
        /\ r \notin untold =>
              /\ \A i \in Steps : steps[r][i] = "skipped" => <<r, i>> \notin done
              /\ \A i \in Steps : <<r, i>> \in done => <<r, i>> \in audited
              /\ run[r] = "succeeded" <=> \A i \in Steps : steps[r][i] = "succeeded"

(***************************************************************************)
(* A runner slot is given back on every way out of fire, so that slots are *)
(* taken only by firings that are under way.                               *)
(***************************************************************************)
SlotsReturned == busy = Cardinality({r \in Runs : job[r].pc \in Slotted})

(***************************************************************************)
(* Every run is closed in the end, whatever failed or died on the way      *)
(* (FailStuckRuns).                                                        *)
(***************************************************************************)
RunsClose == \A r \in Runs : <>[](run[r] # "in_progress")

(***************************************************************************)
(* A guard whose run is over never refuses firings for good: it is dropped *)
(* or can be broken (ClaimAutomationRun).                                  *)
(***************************************************************************)
GuardRecovers == []<>(Claimable \/ ~active)

(***************************************************************************)
(* The last slot of an automation that nobody edits is recorded: a run     *)
(* takes the guard and gives it back without moving updated_at, which      *)
(* would make a slot look older than the definition                        *)
(* (dispatchDueAutomations, ClaimAutomationRun).                           *)
(***************************************************************************)
SlotIsRecorded ==
    \A t \in Slots : (\A u \in Slots : u <= t) =>
        <>(edited \/ \E r \in Runs : slotOf[r] = t)
=============================================================================
