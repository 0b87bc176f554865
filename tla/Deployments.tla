---------------------------- MODULE Deployments ----------------------------
(***************************************************************************)
(* The life of a deployment: the claim a request takes on its stack, the   *)
(* row it creates, the command it sends to the worker, the monitor that    *)
(* watches the row, and the runner's progress reports that settle it.      *)
(*                                                                         *)
(* Each HTTP request, each monitor goroutine and each worker read pump is  *)
(* a process.  A step is one database statement or transaction, so a value *)
(* read in one step may be stale in the next.  Time is abstracted to two   *)
(* facts the code tests: whether a claim is older than its 30 minute       *)
(* window, and whether a monitor's 30 minute timer has run out, which may  *)
(* happen at any of its steps.                                             *)
(***************************************************************************)
EXTENDS Integers, FiniteSets

CONSTANTS Stacks,     \* stacks, each already assigned to a worker
          SlowStacks, \* stacks for which the 30 minutes can pass
          Slots,      \* HTTP requests that can be in flight together
          Pumps,      \* worker read pumps handling progress reports
          MaxDeps,    \* bound: deployment rows ever created
          Seeded,     \* deployments already deployed when the model starts
          EditStatus, \* bound: the statuses an operator writes
          PoolSize,   \* maxConcurrentDeploys
          MaxRetry,   \* deployMaxRetryCount
          MaxFaults,  \* bound: failed database writes
          MaxCrashes, \* bound: restarts of the API process
          MaxEdits    \* bound: operator edits of a stack row

ASSUME BoundsAssumption ==
    /\ SlowStacks \subseteq Stacks /\ Stacks # {}
    /\ MaxDeps \in Nat /\ Seeded \in 0..MaxDeps
    /\ PoolSize \in Nat /\ MaxRetry \in Nat \ {0}
    /\ EditStatus \subseteq {"active", "stopped", "deploying", "deployed",
                             "failed", "error"}
    /\ MaxFaults \in Nat /\ MaxCrashes \in Nat /\ MaxEdits \in Nat

VARIABLES
    status,   \* stacks.status
    claim,    \* stacks.deploy_claimed_at: none, or its age
    active,   \* the stacks that are not soft-deleted
    deploy,   \* deployments.status; "absent" before the row exists
    owner,    \* deployments.stack_id
    next,     \* next AUTO_INCREMENT deployment id
    pc, onStack, target, dep,  \* per request: its step, stack, rollback
                               \* target (0: a deploy) and deployment row
    mon,      \* per deployment: its monitor goroutine and where it is
    attempt,  \* per deployment: the monitor's attempt counter
    pump, incoming,  \* per read pump: the row it has read but not yet
                     \* written (0: none), and the status it will write
    sent,     \* deployments whose deploy command reached the worker's queue
    faults, crashes, edits,  \* how many of each bounded event have happened
    excused,  \* history: stacks whose claim was overridden while held
    revived   \* history: settled deployments written back to in-progress

stackVars == <<status, claim, active>>
depVars == <<deploy, owner, next>>
reqVars == <<pc, onStack, target, dep>>
monVars == <<mon, attempt>>
pumpVars == <<pump, incoming>>
budgets == <<faults, crashes, edits>>
history == <<excused, revived>>
vars == <<stackVars, depVars, reqVars, monVars, pumpVars, sent, budgets,
          history>>

DepIds == 1..MaxDeps
Terminal == {"deployed", "failed", "rolled_back"}
InProgress == {"pending", "approved", "deploying", "validating"}
Progress == {"deploying", "validating"}
StackStatus ==
    {"active", "stopped", "deploying", "deployed", "failed", "error"}

StackTypes ==
    /\ status \in [Stacks -> StackStatus]
    /\ claim \in [Stacks -> {"none", "fresh", "stale"}]
    /\ active \in SUBSET Stacks

RowTypes ==
    /\ deploy \in [DepIds -> Terminal \cup InProgress \cup {"absent"}]
    /\ owner \in [DepIds -> Stacks]
    /\ next \in 1..(MaxDeps + 1)
    /\ sent \in SUBSET DepIds

RequestTypes ==
    /\ pc \in [Slots -> {"idle", "ready", "claimed", "created", "sent",
                        "marked"}]
    /\ onStack \in [Slots -> Stacks]
    /\ target \in [Slots -> 0..MaxDeps]
    /\ dep \in [Slots -> 0..MaxDeps]

MonitorTypes ==
    /\ mon \in [DepIds -> {"off", "full", "fullActing", "light",
                          "lightActing"}]
    /\ attempt \in [DepIds -> 1..MaxRetry]

PumpTypes ==
    /\ pump \in [Pumps -> 0..MaxDeps]
    /\ incoming \in [Pumps -> Progress]

BudgetTypes ==
    /\ faults \in 0..MaxFaults
    /\ crashes \in 0..MaxCrashes
    /\ edits \in 0..MaxEdits

HistoryTypes == excused \in SUBSET Stacks /\ revived \in SUBSET DepIds

(* Every table, goroutine and counter stays within the values the schema   *)
(* and the handlers' own checks allow.                                     *)
TypeOK ==
    /\ StackTypes /\ RowTypes /\ RequestTypes /\ MonitorTypes /\ PumpTypes
    /\ BudgetTypes /\ HistoryTypes

AnyStack == CHOOSE s \in Stacks : TRUE

Init ==
    /\ status = [s \in Stacks |-> IF Seeded = 0 THEN "active" ELSE "deployed"]
    /\ claim = [s \in Stacks |-> "none"]
    /\ active = Stacks
    /\ deploy = [d \in DepIds |-> IF d > Seeded THEN "absent" ELSE "deployed"]
    /\ owner = [d \in DepIds |-> AnyStack]
    /\ next = Seeded + 1
    /\ pc = [r \in Slots |-> "idle"]
    /\ onStack = [r \in Slots |-> AnyStack]
    /\ target = [r \in Slots |-> 0]
    /\ dep = [r \in Slots |-> 0]
    /\ mon = [d \in DepIds |-> "off"]
    /\ attempt = [d \in DepIds |-> 1]
    /\ pump = [p \in Pumps |-> 0]
    /\ incoming = [p \in Pumps |-> "deploying"]
    /\ sent = {}
    /\ faults = 0 /\ crashes = 0 /\ edits = 0
    /\ excused = {} /\ revived = {}

-----------------------------------------------------------------------------
(* Who holds a stack: a request between its claim and its deployment row,  *)
(* and a deployment on its way to, or being carried out by, the worker.    *)

HoldsByRequest(r, s) == pc[r] = "claimed" /\ onStack[r] = s

HoldsByDeployment(d, s) ==
    /\ owner[d] = s
    /\ deploy[d] \in InProgress
    /\ d \in sent \/ \E r \in Slots : pc[r] = "created" /\ dep[r] = d

(* Some party other than the requests R and the deployments D holds s.     *)
HeldBesides(R, D, s) ==
    \/ \E r \in Slots \ R : HoldsByRequest(r, s)
    \/ \E d \in DepIds \ D : HoldsByDeployment(d, s)

Held(s) == HeldBesides({}, {}, s)

AtMostOneHolder(s) ==
    /\ \A q, r \in Slots :
          HoldsByRequest(q, s) /\ HoldsByRequest(r, s) => q = r
    /\ \A d, e \in DepIds :
          HoldsByDeployment(d, s) /\ HoldsByDeployment(e, s) => d = e
    /\ \A r \in Slots, d \in DepIds :
          ~(HoldsByRequest(r, s) /\ HoldsByDeployment(d, s))

(* A write that frees stack s on behalf of R or D excuses the stack when   *)
(* some other party still holds it.                                        *)
Excuse(s, R, D) ==
    excused' = IF HeldBesides(R, D, s) THEN excused \cup {s} ELSE excused

-----------------------------------------------------------------------------
(* The statements the handlers are built from.                             *)

(* UpdateStack with a status; leaving "deploying" clears the claim time.   *)
WriteStackStatus(s, st) ==
    /\ status' = [status EXCEPT ![s] = st]
    /\ claim' = [claim EXCEPT ![s] = IF st = "deploying" THEN @ ELSE "none"]

(* A write that fails with a database error, and is only logged.           *)
Fault == faults < MaxFaults /\ faults' = faults + 1

(* The status a stack takes when its deployment settles.                   *)
StackStatusFor(st) == IF st = "rolled_back" THEN "failed" ELSE st

(* UpdateDeploymentAndStackStatus in a transaction.  UpdateStack ends by   *)
(* reading the row back among the active stacks, so for a deleted stack it *)
(* fails and the whole transaction is rolled back.                         *)
Settle(d, st) ==
    \/ /\ owner[d] \in active
       /\ deploy' = [deploy EXCEPT ![d] = st]
       /\ WriteStackStatus(owner[d], StackStatusFor(st))
       /\ Excuse(owner[d], {}, {d})
       /\ UNCHANGED faults
    \/ /\ owner[d] \notin active
       /\ UNCHANGED <<deploy, status, claim, excused, faults>>
    \/ /\ Fault
       /\ UNCHANGED <<deploy, status, claim, excused>>

(* Mutant: the claim UPDATE without its status condition.                  *)
ClaimableUnguarded(s) == s \in active

(* Mutant: the claim UPDATE without the claim window.                      *)
ClaimableNoWindow(s) ==
    s \in active /\ (status[s] # "deploying" \/ claim[s] = "none")

(* A deploy can claim a stack that is not deploying, that carries no claim *)
(* time, or whose claim is older than the claim window.                    *)
Claimable(s) ==
    /\ s \in active
    /\ status[s] # "deploying" \/ claim[s] \in {"none", "stale"}

FullMonitors == {d \in DepIds : mon[d] \in {"full", "fullActing"}}

PreviousDeployed(s, d) ==
    {e \in DepIds : e < d /\ owner[e] = s /\ deploy[e] = "deployed"}

-----------------------------------------------------------------------------
(* HandleDeployStack, HandlePublicDeploy and HandleRollbackDeployment.     *)

(* The request is answered.                                                *)
Answer(r) ==
    /\ pc' = [pc EXCEPT ![r] = "idle"]
    /\ onStack' = [onStack EXCEPT ![r] = AnyStack]
    /\ target' = [target EXCEPT ![r] = 0]
    /\ dep' = [dep EXCEPT ![r] = 0]

(* Everything before the claim: the stack is read, its worker is assigned  *)
(* and connected.  A rollback (of t # 0) has also read its target and      *)
(* refused one that is already rolled back.                                *)
Preflight(r, s, t) ==
    /\ pc[r] = "idle"
    /\ s \in active
    /\ t # 0 => owner[t] = s /\ deploy[t] \notin {"absent", "rolled_back"}
    /\ pc' = [pc EXCEPT ![r] = "ready"]
    /\ onStack' = [onStack EXCEPT ![r] = s]
    /\ target' = [target EXCEPT ![r] = t]
    /\ UNCHANGED <<stackVars, depVars, dep, monVars, pumpVars, sent, budgets,
                   history>>

(* ClaimStackForDeploy, one conditional UPDATE.  A claim taken over a      *)
(* stale one while the stack is still held excuses the stack.              *)
ClaimStackForDeploy(r) ==
    LET s == onStack[r] IN
    /\ pc[r] = "ready"
    /\ Claimable(s)
    /\ status' = [status EXCEPT ![s] = "deploying"]
    /\ claim' = [claim EXCEPT ![s] = "fresh"]
    /\ pc' = [pc EXCEPT ![r] = "claimed"]
    /\ excused' = IF ~Held(s) THEN excused \ {s}
                  ELSE IF status[s] = "deploying" /\ claim[s] = "stale"
                       THEN excused \cup {s} ELSE excused
    /\ UNCHANGED <<active, depVars, onStack, target, dep, monVars, pumpVars,
                   sent, budgets, revived>>

(* The claim was refused (409), or the UPDATE failed.                      *)
ClaimRefused(r) ==
    /\ pc[r] = "ready"
    /\ \/ ~Claimable(onStack[r]) /\ UNCHANGED faults
       \/ Fault
    /\ Answer(r)
    /\ UNCHANGED <<stackVars, depVars, monVars, pumpVars, sent, crashes, edits,
                   history>>

(* Mutant: an early return without the deferred release.                   *)
ReleaseForgotten(r) ==
    /\ pc[r] = "claimed"
    /\ Answer(r)
    /\ UNCHANGED <<stackVars, depVars, monVars, pumpVars, sent, budgets,
                   history>>

(* A check or a read after the claim failed: the deferred                  *)
(* releaseStackClaim resets the stack to active, unless that write fails.  *)
ReleaseStackClaim(r) ==
    /\ pc[r] = "claimed"
    /\ \/ /\ WriteStackStatus(onStack[r], "active")
          /\ Excuse(onStack[r], {r}, {})
          /\ UNCHANGED faults
       \/ /\ Fault
          /\ UNCHANGED <<status, claim, excused>>
    /\ Answer(r)
    /\ UNCHANGED <<active, depVars, monVars, pumpVars, sent, crashes, edits,
                   revived>>

(* The deployment row and its container rows are created, as pending.  A   *)
(* rollback needs an earlier deployed deployment to go back to.            *)
CreateDeployment(r) ==
    /\ pc[r] = "claimed"
    /\ next \in DepIds
    /\ target[r] # 0 => PreviousDeployed(onStack[r], target[r]) # {}
    /\ deploy' = [deploy EXCEPT ![next] = "pending"]
    /\ owner' = [owner EXCEPT ![next] = onStack[r]]
    /\ next' = next + 1
    /\ pc' = [pc EXCEPT ![r] = "created"]
    /\ dep' = [dep EXCEPT ![r] = next]
    /\ UNCHANGED <<stackVars, onStack, target, monVars, pumpVars, sent, budgets,
                   history>>

(* SendJSONToWorker accepted the deploy command.                           *)
Dispatch(r) ==
    /\ pc[r] = "created"
    /\ sent' = sent \cup {dep[r]}
    /\ pc' = [pc EXCEPT ![r] = IF target[r] = 0 THEN "marked" ELSE "sent"]
    /\ UNCHANGED <<stackVars, depVars, onStack, target, dep, monVars, pumpVars,
                   budgets, history>>

(* SendJSONToWorker failed: failDeployment with cause dispatch_failed.     *)
DispatchFailed(r) ==
    /\ pc[r] = "created"
    /\ Settle(dep[r], "failed")
    /\ Answer(r)
    /\ UNCHANGED <<active, owner, next, monVars, pumpVars, sent, crashes, edits,
                   revived>>

(* A dispatched rollback marks the deployment it reverts, whatever its     *)
(* status is by now; a failed write is only logged.                        *)
MarkRolledBack(r) ==
    /\ pc[r] = "sent"
    /\ \/ /\ deploy' = [deploy EXCEPT ![target[r]] = "rolled_back"]
          /\ UNCHANGED faults
       \/ /\ Fault
          /\ UNCHANGED deploy
    /\ pc' = [pc EXCEPT ![r] = "marked"]
    /\ UNCHANGED <<stackVars, owner, next, onStack, target, dep, monVars,
                   pumpVars, sent, crashes, edits, history>>

(* Mutant: a full pool leaves the deployment unwatched.                    *)
StartWithoutWatchdog(r) ==
    /\ pc[r] = "marked"
    /\ mon' = IF Cardinality(FullMonitors) < PoolSize
              THEN [mon EXCEPT ![dep[r]] = "full"] ELSE mon
    /\ Answer(r)
    /\ UNCHANGED <<stackVars, depVars, attempt, pumpVars, sent, budgets,
                   history>>

(* startDeploymentMonitor: a full monitor while the pool has room, else    *)
(* the lightweight watchdog.                                               *)
StartDeploymentMonitor(r) ==
    /\ pc[r] = "marked"
    /\ mon' = [mon EXCEPT ![dep[r]] =
                  IF Cardinality(FullMonitors) < PoolSize THEN "full"
                  ELSE "light"]
    /\ attempt' = [attempt EXCEPT ![dep[r]] = 1]
    /\ Answer(r)
    /\ UNCHANGED <<stackVars, depVars, pumpVars, sent, budgets,
                   history>>

-----------------------------------------------------------------------------
(* monitorDeployment and lightweightDeploymentWatchdog.                    *)

MonitorEnds(d) ==
    /\ mon' = [mon EXCEPT ![d] = "off"]
    /\ attempt' = [attempt EXCEPT ![d] = 1]

(* Mutant: the timer ends the monitor without settling the row.            *)
TimeoutOnlyStops(d) ==
    /\ mon[d] = "full"
    /\ owner[d] \in SlowStacks
    /\ MonitorEnds(d)
    /\ UNCHANGED <<stackVars, depVars, reqVars, pumpVars, sent, budgets,
                   history>>

(* deployMaxRuntime has passed: the full monitor's timer case force-fails  *)
(* without reading the row.                                                *)
MonitorTimeout(d) ==
    /\ mon[d] = "full"
    /\ owner[d] \in SlowStacks
    /\ Settle(d, "failed")
    /\ MonitorEnds(d)
    /\ UNCHANGED <<active, owner, next, reqVars, pumpVars, sent, crashes, edits,
                   revived>>

(* A tick reads the row: a settled deployment ends the monitor, another    *)
(* one is acted upon.  The watchdog's ticks before its deadline do nothing *)
(* for such a row; this is the one past it.                                *)
MonitorTick(d) ==
    /\ mon[d] \in {"full", "light"}
    /\ \/ deploy[d] \in Terminal /\ MonitorEnds(d)
       \/ /\ deploy[d] \notin Terminal
          /\ mon[d] = "light" => owner[d] \in SlowStacks
          /\ mon' = [mon EXCEPT ![d] =
                        IF @ = "full" THEN "fullActing" ELSE "lightActing"]
          /\ UNCHANGED attempt
    /\ UNCHANGED <<stackVars, depVars, reqVars, pumpVars, sent, budgets,
                   history>>

(* The full monitor after its read: progress was seen recently, or it has  *)
(* stalled and an attempt is left, spent whether or not the retry could be *)
(* dispatched.                                                             *)
MonitorContinue(d) ==
    /\ mon[d] = "fullActing"
    /\ mon' = [mon EXCEPT ![d] = "full"]
    /\ \/ UNCHANGED attempt
       \/ /\ attempt[d] < MaxRetry
          /\ attempt' = [attempt EXCEPT ![d] = @ + 1]
    /\ UNCHANGED <<stackVars, depVars, reqVars, pumpVars, sent, budgets,
                   history>>

(* Mutant: giving up settles nothing.                                      *)
GiveUpSilently(d) ==
    /\ \/ mon[d] = "fullActing" /\ attempt[d] = MaxRetry
       \/ mon[d] = "lightActing"
    /\ MonitorEnds(d)
    /\ UNCHANGED <<stackVars, depVars, reqVars, pumpVars, sent, budgets,
                   history>>

(* The stalled monitor out of attempts, or the watchdog past its deadline, *)
(* force-fails the row it read a moment ago.                               *)
MonitorGiveUp(d) ==
    /\ \/ mon[d] = "fullActing" /\ attempt[d] = MaxRetry
       \/ mon[d] = "lightActing"
    /\ Settle(d, "failed")
    /\ MonitorEnds(d)
    /\ UNCHANGED <<active, owner, next, reqVars, pumpVars, sent, crashes, edits,
                   revived>>

-----------------------------------------------------------------------------
(* handleDeploymentProgress, run by the worker's read pump.                *)

(* A terminal report settles the deployment, whatever its status is: one   *)
(* the monitor has force-failed may still recover.                         *)
ProgressTerminal(d, st) ==
    /\ d \in sent
    /\ Settle(d, st)
    /\ UNCHANGED <<active, owner, next, reqVars, monVars, pumpVars, sent,
                   crashes, edits, revived>>

(* lateProgress: a report that is not itself terminal, for a settled row.  *)
LateProgress(current) == current \in Terminal

(* A non-terminal report that is neither a repeat nor late: the row is     *)
(* read here and written in the next step.                                 *)
ProgressRead(p, d, st) ==
    /\ d \in sent /\ pump[p] = 0
    /\ deploy[d] # st /\ ~LateProgress(deploy[d])
    /\ pump' = [pump EXCEPT ![p] = d]
    /\ incoming' = [incoming EXCEPT ![p] = st]
    /\ UNCHANGED <<stackVars, depVars, reqVars, monVars, sent, budgets,
                   history>>

ProgressWrite(p) ==
    LET d == pump[p] IN
    /\ d # 0
    /\ \/ /\ deploy' = [deploy EXCEPT ![d] = incoming[p]]
          /\ IF deploy[d] \in Terminal
             THEN /\ revived' = revived \cup {d}
                  /\ excused' = excused \cup {owner[d]}
             ELSE UNCHANGED history
          /\ UNCHANGED faults
       \/ Fault /\ UNCHANGED <<deploy, history>>
    /\ pump' = [pump EXCEPT ![p] = 0]
    /\ incoming' = [incoming EXCEPT ![p] = "deploying"]
    /\ UNCHANGED <<stackVars, owner, next, reqVars, monVars, sent, crashes,
                   edits>>

-----------------------------------------------------------------------------
(* Operators, time and restarts.                                           *)

(* ApproveDeployment: one conditional UPDATE.                              *)
ApproveDeployment(d) ==
    /\ deploy[d] = "pending"
    /\ deploy' = [deploy EXCEPT ![d] = "approved"]
    /\ UNCHANGED <<stackVars, owner, next, reqVars, monVars, pumpVars, sent,
                   budgets, history>>

(* HandleDeleteStack: FailActiveDeployments and the soft delete commit     *)
(* together.                                                               *)
DeleteStack(s) ==
    /\ s \in active
    /\ deploy' = [d \in DepIds |->
                     IF owner[d] = s /\ deploy[d] \in InProgress
                     THEN "failed" ELSE deploy[d]]
    /\ active' = active \ {s}
    /\ UNCHANGED <<status, claim, owner, next, reqVars, monVars, pumpVars, sent,
                   budgets, history>>

(* HandleUpdateStack lets an editor write the status and the active flag.  *)
UpdateStackStatus(s, st) ==
    /\ edits < MaxEdits /\ edits' = edits + 1
    /\ WriteStackStatus(s, st)
    /\ Excuse(s, {}, {})
    /\ UNCHANGED <<active, depVars, reqVars, monVars, pumpVars, sent, faults,
                   crashes, revived>>

UpdateStackActive(s) ==
    /\ edits < MaxEdits /\ edits' = edits + 1
    /\ active' = IF s \in active THEN active \ {s} ELSE active \cup {s}
    /\ UNCHANGED <<status, claim, depVars, reqVars, monVars, pumpVars, sent,
                   faults, crashes, history>>

(* The claim window passes.                                                *)
ClaimExpires(s) ==
    /\ s \in SlowStacks /\ claim[s] = "fresh"
    /\ claim' = [claim EXCEPT ![s] = "stale"]
    /\ UNCHANGED <<status, active, depVars, reqVars, monVars, pumpVars, sent,
                   budgets, history>>

(* The API process restarts: requests, monitors and pumps are gone, the    *)
(* tables and the worker are not.                                          *)
Restart ==
    /\ crashes < MaxCrashes /\ crashes' = crashes + 1
    /\ pc' = [r \in Slots |-> "idle"]
    /\ onStack' = [r \in Slots |-> AnyStack]
    /\ target' = [r \in Slots |-> 0]
    /\ dep' = [r \in Slots |-> 0]
    /\ mon' = [d \in DepIds |-> "off"]
    /\ attempt' = [d \in DepIds |-> 1]
    /\ pump' = [p \in Pumps |-> 0]
    /\ incoming' = [p \in Pumps |-> "deploying"]
    /\ UNCHANGED <<stackVars, depVars, sent, faults, edits, history>>

RequestStep(r) ==
    \/ \E s \in Stacks, t \in 0..MaxDeps : Preflight(r, s, t)
    \/ ClaimStackForDeploy(r)
    \/ ClaimRefused(r)
    \/ ReleaseStackClaim(r)
    \/ CreateDeployment(r)
    \/ Dispatch(r)
    \/ DispatchFailed(r)
    \/ MarkRolledBack(r)
    \/ StartDeploymentMonitor(r)

MonitorStep(d) ==
    \/ MonitorTimeout(d)
    \/ MonitorTick(d)
    \/ MonitorContinue(d)
    \/ MonitorGiveUp(d)

ProgressStep ==
    \/ \E d \in DepIds, st \in Terminal : ProgressTerminal(d, st)
    \/ \E p \in Pumps, d \in DepIds, st \in Progress :
          ProgressRead(p, d, st)
    \/ \E p \in Pumps : ProgressWrite(p)

OperatorStep ==
    \/ \E d \in DepIds : ApproveDeployment(d)
    \/ \E s \in Stacks : DeleteStack(s)
    \/ \E s \in Stacks, st \in EditStatus : UpdateStackStatus(s, st)
    \/ \E s \in Stacks : UpdateStackActive(s)

Next ==
    \/ \E r \in Slots : RequestStep(r)
    \/ \E d \in DepIds : MonitorStep(d)
    \/ ProgressStep
    \/ OperatorStep
    \/ \E s \in Stacks : ClaimExpires(s)
    \/ Restart

Spec == Init /\ [][Next]_vars

(* The code's scheduling: the runtime's timers fire, a ready goroutine     *)
(* runs, and select chooses at random between a due timer and a ticker, so *)
(* a timer that is due again and again is taken.  A request that has sent  *)
(* its command runs to its end.  Runners, operators, restarts and failures *)
(* need never happen.                                                      *)
Fairness ==
    /\ \A d \in DepIds :
          /\ SF_vars(MonitorTimeout(d))
          /\ WF_vars(MonitorTick(d))
          /\ WF_vars(MonitorContinue(d) \/ MonitorGiveUp(d))
    /\ \A r \in Slots :
          /\ WF_vars(MarkRolledBack(r))
          /\ WF_vars(StartDeploymentMonitor(r))
    /\ \A s \in Stacks : WF_vars(ClaimExpires(s))

FairSpec == Spec /\ Fairness

-----------------------------------------------------------------------------
(* Properties that hold.                                                   *)

(* At most one party holds a stack, and while one does the row says so,    *)
(* unless the claim was overridden while held: it went stale and was taken *)
(* again, another deployment's late result or force-fail wrote the stack,  *)
(* an operator wrote its status, or a settled deployment was written back. *)
(* ClaimStackForDeploy is what the handlers rely on for this.              *)
ClaimExclusive ==
    \A s \in Stacks : s \notin excused =>
        /\ AtMostOneHolder(s)
        /\ Held(s) =>
              status[s] = "deploying" /\ claim[s] # "none"

Undisturbed == faults = 0 /\ crashes = 0 /\ edits = 0

(* Absent failed writes, restarts and operator edits, a claimed stack is   *)
(* never stranded: somebody who will settle or release it still holds it,  *)
(* which is what the deferred releaseStackClaim and failDeployment are for.*)
NoStrandedClaim ==
    Undisturbed => \A s \in Stacks :
        s \in active /\ status[s] = "deploying"
            => Held(s)

(* Absent the same disturbances, every deployment the worker may be        *)
(* carrying out is watched by a monitor or by the request about to start   *)
(* it, unless the row was settled once and written back by a late report.  *)
Watched ==
    Undisturbed => \A d \in sent \ revived :
        deploy[d] \in InProgress /\ owner[d] \in active
            => \/ mon[d] # "off"
               \/ \E r \in Slots : dep[r] = d /\ pc[r] \in {"sent", "marked"}

(* A monitor stops only when its deployment is settled, its stack has been *)
(* deleted, the write that settles it failed or the process ended.         *)
MonitorEndsSettled ==
    [][\A d \in DepIds : mon[d] # "off" /\ mon'[d] = "off"
          => \/ deploy'[d] \in Terminal
             \/ owner[d] \notin active
             \/ faults' > faults
             \/ crashes' > crashes]_vars

(* A monitor never runs for ever, and a dispatched deployment is settled   *)
(* at last even when the runner says nothing, as long as its stack is not  *)
(* deleted, the row is not written back after it was settled and nothing   *)
(* was disturbed.                                                          *)
DispatchSettles ==
    \A d \in DepIds :
        /\ mon[d] # "off" ~> mon[d] = "off"
        /\ d \in sent ~> \/ deploy[d] \in Terminal
                         \/ d \in revived
                         \/ owner[d] \notin active
                         \/ ~Undisturbed

(* A stack that stays claimed always becomes claimable again, whatever was *)
(* lost on the way: a failed release, a restart between claim and dispatch.*)
ClaimRecovers ==
    \A s \in SlowStacks : s \in active ~> Claimable(s) \/ s \notin active

-----------------------------------------------------------------------------
(* Promises of comments in the code that its steps can break.              *)

(* HandleDeployStack: the claim "prevents concurrent deploys".  Stated for *)
(* stacks whose claims never go stale.                                     *)
NoConcurrentDeploys ==
    \A s \in Stacks \ SlowStacks : AtMostOneHolder(s)

(* lateProgress: a non-terminal status for a settled deployment "must be   *)
(* ignored".                                                               *)
NoResurrection ==
    [][\A d \in DepIds : deploy[d] \in Terminal
                             => deploy'[d] \in Terminal]_vars

(* monitorDeployment: the timer force-fails a deployment that "never       *)
(* reaches a terminal state".                                              *)
ForceFailOnlyUnsettled ==
    [][\A d \in DepIds :
          mon[d] # "off" /\ mon'[d] = "off"
              /\ deploy[d] = "deployed"
          => deploy'[d] = "deployed"]_vars

(* HandleRollbackDeployment: "prevent rolling back an already-rolled-back  *)
(* deployment".                                                            *)
RollbackOnce ==
    [][\A r \in Slots :
          target[r] # 0 /\ pc[r] = "created" /\ pc'[r] = "sent"
          => deploy[target[r]] # "rolled_back"]_vars

(* FailActiveDeployments: deleting a stack leaves no deployment stuck in   *)
(* progress.                                                               *)
DeletedStackSettles ==
    \A d \in DepIds :
        d \in sent /\ owner[d] \notin active
            ~> deploy[d] \in Terminal
=============================================================================
