------------------------- MODULE DeploymentsProofs -------------------------
(***************************************************************************)
(* Proofs about Deployments for every number of stacks, requests, pumps    *)
(* and deployments, and every bound.                                       *)
(***************************************************************************)
EXTENDS Deployments, TLAPS

(* What the type invariant needs to be inductive: a request that has       *)
(* created its row, a dispatched deployment, a running monitor and a busy  *)
(* pump all refer to rows that exist.                                      *)
Exists(d) == d \in DepIds /\ d < next

RefsOK ==
    /\ \A r \in Slots :
          /\ pc[r] \in {"created", "sent", "marked"} => Exists(dep[r])
          /\ target[r] # 0 => Exists(target[r])
    /\ \A r \in Slots : pc[r] = "sent" => target[r] # 0
    /\ \A d \in sent : Exists(d)
    /\ \A d \in DepIds : mon[d] # "off" => Exists(d)
    /\ \A p \in Pumps : pump[p] # 0 => Exists(pump[p])
    /\ \A d \in DepIds : deploy[d] = "absent" <=> d >= next

Inv == TypeOK /\ RefsOK

(* There is a stack to stand in the fields of an idle request.             *)
LEMMA AnyStackType == AnyStack \in Stacks
  BY BoundsAssumption DEF AnyStack

(* Initially every variable is well typed and nothing refers to a row.     *)
LEMMA InitInv == Init => Inv
<1> SUFFICES ASSUME Init PROVE Inv
  OBVIOUS
<1> USE AnyStackType, BoundsAssumption
<1>1. StackTypes /\ RowTypes
  BY DEF Init, StackTypes, RowTypes, StackStatus, Terminal, DepIds
<1>2. RequestTypes /\ MonitorTypes /\ PumpTypes /\ BudgetTypes /\ HistoryTypes
  BY DEF Init, RequestTypes, MonitorTypes, PumpTypes, BudgetTypes,
         HistoryTypes, Progress
<1>3. RefsOK
  BY DEF Init, RefsOK, Exists, DepIds
<1> QED
  BY <1>1, <1>2, <1>3 DEF Inv, TypeOK

(* The settle transaction keeps the tables well typed, and changes no      *)
(* deployment row but d's status.                                          *)
LEMMA SettleType ==
    ASSUME TypeOK, NEW d \in DepIds, NEW st \in Terminal, Settle(d, st)
    PROVE  /\ status' \in [Stacks -> StackStatus]
           /\ claim' \in [Stacks -> {"none", "fresh", "stale"}]
           /\ deploy' \in [DepIds -> Terminal \cup InProgress \cup {"absent"}]
           /\ faults' \in 0..MaxFaults
           /\ excused' \in SUBSET Stacks
           /\ \A e \in DepIds : e # d => deploy'[e] = deploy[e]
           /\ deploy'[d] \in {deploy[d], st}
<1>1. owner[d] \in Stacks /\ StackStatusFor(st) \in StackStatus
  BY
    DEF TypeOK, StackTypes, RowTypes, BudgetTypes, HistoryTypes,
        StackStatusFor, StackStatus, Terminal
<1>2. CASE /\ deploy' = [deploy EXCEPT ![d] = st]
           /\ WriteStackStatus(owner[d], StackStatusFor(st))
           /\ Excuse(owner[d], {}, {d})
           /\ UNCHANGED faults
  <2>1. status' \in [Stacks -> StackStatus]
    BY <1>1, <1>2
      DEF TypeOK, StackTypes, RowTypes, BudgetTypes, HistoryTypes,
          WriteStackStatus
  <2>2. claim' \in [Stacks -> {"none", "fresh", "stale"}]
    BY <1>1, <1>2
      DEF TypeOK, StackTypes, RowTypes, BudgetTypes, HistoryTypes,
          WriteStackStatus
  <2>3. deploy' \in [DepIds -> Terminal \cup InProgress \cup {"absent"}]
    BY <1>2 DEF TypeOK, StackTypes, RowTypes, BudgetTypes, HistoryTypes
  <2>4. excused' \in SUBSET Stacks
    BY <1>1, <1>2
      DEF TypeOK, StackTypes, RowTypes, BudgetTypes, HistoryTypes, Excuse
  <2> QED
    BY <1>2, <2>1, <2>2, <2>3, <2>4
      DEF TypeOK, StackTypes, RowTypes, BudgetTypes, HistoryTypes
<1>3. CASE UNCHANGED <<deploy, status, claim, excused, faults>>
  BY <1>3 DEF TypeOK, StackTypes, RowTypes, BudgetTypes, HistoryTypes
<1>4. CASE Fault /\ UNCHANGED <<deploy, status, claim, excused>>
  BY <1>4, BoundsAssumption
    DEF TypeOK, StackTypes, RowTypes, BudgetTypes, HistoryTypes, Fault
<1> QED
  BY <1>2, <1>3, <1>4 DEF Settle

(* ... and neither creates a row nor removes one.                          *)
LEMMA SettleRows ==
    ASSUME Inv, NEW d \in DepIds, NEW st \in Terminal, Exists(d), Settle(d, st)
    PROVE  \A e \in DepIds : deploy'[e] = "absent" <=> deploy[e] = "absent"
<1>1. deploy[d] # "absent" /\ st # "absent"
  BY DEF Inv, TypeOK, RowTypes, RefsOK, Exists, DepIds, Terminal
<1>2. (\A e \in DepIds : e # d => deploy'[e] = deploy[e])
        /\ deploy'[d] \in {deploy[d], st}
  BY SettleType DEF Inv
<1> QED
  BY <1>1, <1>2

(* Every step keeps the types and the references.                          *)
LEMMA NextInv == Inv /\ [Next]_vars => Inv'
<1> SUFFICES ASSUME Inv, [Next]_vars PROVE Inv'
  OBVIOUS
<1> USE DEF Inv, TypeOK, stackVars, depVars, reqVars, monVars, pumpVars,
            budgets, history
<1>1. ASSUME NEW r \in Slots, NEW s \in Stacks, NEW t \in 0..MaxDeps,
            Preflight(r, s, t)
     PROVE  Inv'
  <2>1. RequestTypes'
    BY <1>1 DEF RequestTypes, Preflight
  <2>2. /\ StackTypes' /\ RowTypes' /\ MonitorTypes'
        /\ PumpTypes' /\ BudgetTypes' /\ HistoryTypes'
    BY <1>1
      DEF Preflight, StackTypes, RowTypes, MonitorTypes, PumpTypes,
          BudgetTypes, HistoryTypes
  <2>3. RefsOK'
    BY <1>1
      DEF Preflight, RefsOK, Exists, RowTypes, RequestTypes, MonitorTypes,
          PumpTypes, DepIds
  <2> QED
    BY <2>1, <2>2, <2>3
<1>2. ASSUME NEW r \in Slots, ClaimStackForDeploy(r) PROVE Inv'
  <2>1. StackTypes'
    BY <1>2 DEF StackTypes, ClaimStackForDeploy, StackStatus, RequestTypes
  <2>2. RequestTypes'
    BY <1>2 DEF RequestTypes, ClaimStackForDeploy
  <2>3. HistoryTypes'
    BY <1>2 DEF HistoryTypes, ClaimStackForDeploy, RequestTypes
  <2>4. RowTypes' /\ MonitorTypes' /\ PumpTypes' /\ BudgetTypes'
    BY <1>2
      DEF ClaimStackForDeploy, RowTypes, MonitorTypes, PumpTypes,
          BudgetTypes
  <2>5. RefsOK'
    BY <1>2
      DEF ClaimStackForDeploy, RefsOK, Exists, RowTypes, RequestTypes,
          MonitorTypes, PumpTypes
  <2> QED
    BY <2>1, <2>2, <2>3, <2>4, <2>5
<1>3. ASSUME NEW r \in Slots, ClaimRefused(r) PROVE Inv'
  <2>1. RequestTypes'
    BY <1>3, AnyStackType, BoundsAssumption
      DEF RequestTypes, ClaimRefused, Answer
  <2>2. /\ StackTypes' /\ RowTypes' /\ MonitorTypes'
        /\ PumpTypes' /\ HistoryTypes'
    BY <1>3
      DEF ClaimRefused, StackTypes, RowTypes, MonitorTypes, PumpTypes,
          HistoryTypes
  <2>4. BudgetTypes'
    BY <1>3, BoundsAssumption DEF BudgetTypes, ClaimRefused, Fault
  <2>3. RefsOK'
    BY <1>3
      DEF ClaimRefused, RefsOK, Exists, RowTypes, RequestTypes,
          MonitorTypes, PumpTypes, Answer
  <2> QED
    BY <2>1, <2>2, <2>3, <2>4
<1>4. ASSUME NEW r \in Slots, ReleaseStackClaim(r) PROVE Inv'
  <2>1. StackTypes'
    BY <1>4
      DEF StackTypes, ReleaseStackClaim, StackStatus, RequestTypes,
          WriteStackStatus
  <2>2. RequestTypes'
    BY <1>4, AnyStackType, BoundsAssumption
      DEF RequestTypes, ReleaseStackClaim, Answer
  <2>3. BudgetTypes'
    BY <1>4, BoundsAssumption DEF BudgetTypes, ReleaseStackClaim, Fault
  <2>4. HistoryTypes'
    BY <1>4 DEF HistoryTypes, ReleaseStackClaim, RequestTypes, Excuse
  <2>5. RowTypes' /\ MonitorTypes' /\ PumpTypes'
    BY <1>4 DEF ReleaseStackClaim, RowTypes, MonitorTypes, PumpTypes
  <2>6. RefsOK'
    BY <1>4
      DEF ReleaseStackClaim, RefsOK, Exists, RowTypes, RequestTypes,
          MonitorTypes, PumpTypes, Answer
  <2> QED
    BY <2>1, <2>2, <2>3, <2>4, <2>5, <2>6
<1>5. ASSUME NEW r \in Slots, CreateDeployment(r) PROVE Inv'
  <2>1. RowTypes'
    BY <1>5, BoundsAssumption
      DEF RowTypes, CreateDeployment, DepIds, InProgress, RequestTypes
  <2>2. RequestTypes'
    BY <1>5, BoundsAssumption DEF RequestTypes, CreateDeployment, DepIds
  <2>3. /\ StackTypes' /\ MonitorTypes' /\ PumpTypes'
        /\ BudgetTypes' /\ HistoryTypes'
    BY <1>5
      DEF CreateDeployment, StackTypes, MonitorTypes, PumpTypes,
          BudgetTypes, HistoryTypes
  <2>4. RefsOK'
    BY <1>5, BoundsAssumption
      DEF CreateDeployment, RefsOK, Exists, RowTypes, RequestTypes,
          MonitorTypes, PumpTypes, DepIds
  <2> QED
    BY <2>1, <2>2, <2>3, <2>4
<1>6. ASSUME NEW r \in Slots, Dispatch(r) PROVE Inv'
  <2>1. RowTypes'
    BY <1>6 DEF RowTypes, Dispatch, RefsOK, Exists
  <2>2. RequestTypes'
    BY <1>6 DEF RequestTypes, Dispatch
  <2>3. /\ StackTypes' /\ MonitorTypes' /\ PumpTypes'
        /\ BudgetTypes' /\ HistoryTypes'
    BY <1>6
      DEF Dispatch, StackTypes, MonitorTypes, PumpTypes, BudgetTypes,
          HistoryTypes
  <2>4. RefsOK'
    BY <1>6
      DEF Dispatch, RefsOK, Exists, RowTypes, RequestTypes, MonitorTypes,
          PumpTypes
  <2> QED
    BY <2>1, <2>2, <2>3, <2>4
<1>7. ASSUME NEW r \in Slots, DispatchFailed(r) PROVE Inv'
  <2>1. Exists(dep[r]) /\ "failed" \in Terminal /\ Settle(dep[r], "failed")
    BY <1>7 DEF RefsOK, Exists, Terminal, DispatchFailed
  <2>2. StackTypes' /\ RowTypes' /\ BudgetTypes' /\ HistoryTypes'
    BY <1>7, <2>1, SettleType
      DEF DispatchFailed, Exists, StackTypes, RowTypes, BudgetTypes,
          HistoryTypes
  <2>3. \A e \in DepIds : deploy'[e] = "absent" <=> deploy[e] = "absent"
    BY <2>1, SettleRows DEF Exists
  <2>4. RequestTypes'
    BY <1>7, AnyStackType, BoundsAssumption
      DEF RequestTypes, DispatchFailed, Answer
  <2>5. MonitorTypes' /\ PumpTypes'
    BY <1>7 DEF DispatchFailed, MonitorTypes, PumpTypes
  <2>6. RefsOK'
    BY <1>7, <2>3, <2>1
      DEF DispatchFailed, RefsOK, Exists, RowTypes, RequestTypes,
          MonitorTypes, PumpTypes, Answer, Terminal
  <2> QED
    BY <2>2, <2>4, <2>5, <2>6
<1>8. ASSUME NEW r \in Slots, MarkRolledBack(r) PROVE Inv'
  <2>1. RowTypes'
    BY <1>8 DEF RowTypes, MarkRolledBack, RefsOK, Terminal, Exists
  <2>2. RequestTypes'
    BY <1>8 DEF RequestTypes, MarkRolledBack
  <2>3. BudgetTypes'
    BY <1>8, BoundsAssumption DEF BudgetTypes, MarkRolledBack, Fault
  <2>4. StackTypes' /\ MonitorTypes' /\ PumpTypes' /\ HistoryTypes'
    BY <1>8
      DEF MarkRolledBack, StackTypes, MonitorTypes, PumpTypes, HistoryTypes
  <2>5. RefsOK'
    BY <1>8
      DEF MarkRolledBack, RefsOK, Exists, RowTypes, RequestTypes,
          MonitorTypes, PumpTypes, Terminal
  <2> QED
    BY <2>1, <2>2, <2>3, <2>4, <2>5
<1>9. ASSUME NEW r \in Slots, StartDeploymentMonitor(r) PROVE Inv'
  <2>1. RequestTypes'
    BY <1>9, AnyStackType, BoundsAssumption
      DEF RequestTypes, StartDeploymentMonitor, Answer
  <2>2. MonitorTypes'
    BY <1>9, BoundsAssumption
      DEF MonitorTypes, StartDeploymentMonitor, RefsOK, Exists
  <2>3. StackTypes' /\ RowTypes' /\ PumpTypes' /\ BudgetTypes' /\ HistoryTypes'
    BY <1>9
      DEF StartDeploymentMonitor, StackTypes, RowTypes, PumpTypes,
          BudgetTypes, HistoryTypes
  <2>4. RefsOK'
    BY <1>9
      DEF StartDeploymentMonitor, RefsOK, Exists, RowTypes, RequestTypes,
          MonitorTypes, PumpTypes, Answer
  <2> QED
    BY <2>1, <2>2, <2>3, <2>4
<1>10. ASSUME NEW d \in DepIds, MonitorTimeout(d) PROVE Inv'
  <2>1. Exists(d) /\ "failed" \in Terminal /\ Settle(d, "failed")
    BY <1>10 DEF RefsOK, Exists, Terminal, MonitorTimeout
  <2>2. StackTypes' /\ RowTypes' /\ BudgetTypes' /\ HistoryTypes'
    BY <1>10, <2>1, SettleType
      DEF MonitorTimeout, Exists, StackTypes, RowTypes, BudgetTypes,
          HistoryTypes
  <2>3. \A e \in DepIds : deploy'[e] = "absent" <=> deploy[e] = "absent"
    BY <2>1, SettleRows DEF Exists
  <2>4. MonitorTypes'
    BY <1>10, BoundsAssumption DEF MonitorTypes, MonitorTimeout, MonitorEnds
  <2>5. RequestTypes' /\ PumpTypes'
    BY <1>10 DEF MonitorTimeout, RequestTypes, PumpTypes
  <2>6. RefsOK'
    BY <1>10, <2>3, <2>1
      DEF MonitorTimeout, RefsOK, Exists, RowTypes, RequestTypes,
          MonitorTypes, PumpTypes, MonitorEnds, Terminal
  <2> QED
    BY <2>2, <2>4, <2>5, <2>6
<1>11. ASSUME NEW d \in DepIds, MonitorTick(d) PROVE Inv'
  <2>1. MonitorTypes'
    BY <1>11, BoundsAssumption DEF MonitorTypes, MonitorTick, MonitorEnds
  <2>2. /\ StackTypes' /\ RowTypes' /\ RequestTypes'
        /\ PumpTypes' /\ BudgetTypes' /\ HistoryTypes'
    BY <1>11
      DEF MonitorTick, StackTypes, RowTypes, RequestTypes, PumpTypes,
          BudgetTypes, HistoryTypes
  <2>3. RefsOK'
    BY <1>11
      DEF MonitorTick, RefsOK, Exists, RowTypes, RequestTypes, MonitorTypes,
          PumpTypes, MonitorEnds
  <2> QED
    BY <2>1, <2>2, <2>3
<1>12. ASSUME NEW d \in DepIds, MonitorContinue(d) PROVE Inv'
  <2>1. MonitorTypes'
    BY <1>12, BoundsAssumption DEF MonitorTypes, MonitorContinue
  <2>2. /\ StackTypes' /\ RowTypes' /\ RequestTypes'
        /\ PumpTypes' /\ BudgetTypes' /\ HistoryTypes'
    BY <1>12
      DEF MonitorContinue, StackTypes, RowTypes, RequestTypes, PumpTypes,
          BudgetTypes, HistoryTypes
  <2>3. RefsOK'
    BY <1>12
      DEF MonitorContinue, RefsOK, Exists, RowTypes, RequestTypes,
          MonitorTypes, PumpTypes
  <2> QED
    BY <2>1, <2>2, <2>3
<1>13. ASSUME NEW d \in DepIds, MonitorGiveUp(d) PROVE Inv'
  <2>1. Exists(d) /\ "failed" \in Terminal /\ Settle(d, "failed")
    BY <1>13 DEF RefsOK, Exists, Terminal, MonitorGiveUp
  <2>2. StackTypes' /\ RowTypes' /\ BudgetTypes' /\ HistoryTypes'
    BY <1>13, <2>1, SettleType
      DEF MonitorGiveUp, Exists, StackTypes, RowTypes, BudgetTypes,
          HistoryTypes
  <2>3. \A e \in DepIds : deploy'[e] = "absent" <=> deploy[e] = "absent"
    BY <2>1, SettleRows DEF Exists
  <2>4. MonitorTypes'
    BY <1>13, BoundsAssumption DEF MonitorTypes, MonitorGiveUp, MonitorEnds
  <2>5. RequestTypes' /\ PumpTypes'
    BY <1>13 DEF MonitorGiveUp, RequestTypes, PumpTypes
  <2>6. RefsOK'
    BY <1>13, <2>3, <2>1
      DEF MonitorGiveUp, RefsOK, Exists, RowTypes, RequestTypes,
          MonitorTypes, PumpTypes, MonitorEnds, Terminal
  <2> QED
    BY <2>2, <2>4, <2>5, <2>6
<1>14. ASSUME NEW d \in DepIds, NEW st \in Terminal,
            ProgressTerminal(d, st)
     PROVE  Inv'
  <2>1. Exists(d) /\ st \in Terminal /\ Settle(d, st)
    BY <1>14 DEF RefsOK, Exists, Terminal, ProgressTerminal
  <2>2. StackTypes' /\ RowTypes' /\ BudgetTypes' /\ HistoryTypes'
    BY <1>14, <2>1, SettleType
      DEF ProgressTerminal, Exists, StackTypes, RowTypes, BudgetTypes,
          HistoryTypes
  <2>3. \A e \in DepIds : deploy'[e] = "absent" <=> deploy[e] = "absent"
    BY <2>1, SettleRows DEF Exists
  <2>4. RequestTypes' /\ MonitorTypes' /\ PumpTypes'
    BY <1>14 DEF ProgressTerminal, RequestTypes, MonitorTypes, PumpTypes
  <2>5. RefsOK'
    BY <1>14, <2>3, <2>1
      DEF ProgressTerminal, RefsOK, Exists, RowTypes, RequestTypes,
          MonitorTypes, PumpTypes, Terminal
  <2> QED
    BY <2>2, <2>4, <2>5
<1>15. ASSUME NEW p \in Pumps, NEW d \in DepIds, NEW st \in Progress,
            ProgressRead(p, d, st)
     PROVE  Inv'
  <2>1. PumpTypes'
    BY <1>15, BoundsAssumption DEF PumpTypes, ProgressRead, DepIds
  <2>2. /\ StackTypes' /\ RowTypes' /\ RequestTypes'
        /\ MonitorTypes' /\ BudgetTypes' /\ HistoryTypes'
    BY <1>15
      DEF ProgressRead, StackTypes, RowTypes, RequestTypes, MonitorTypes,
          BudgetTypes, HistoryTypes
  <2>3. RefsOK'
    BY <1>15
      DEF ProgressRead, RefsOK, Exists, RowTypes, RequestTypes,
          MonitorTypes, PumpTypes
  <2> QED
    BY <2>1, <2>2, <2>3
<1>16. ASSUME NEW p \in Pumps, ProgressWrite(p) PROVE Inv'
  <2>1. RowTypes'
    BY <1>16
      DEF RowTypes, ProgressWrite, RefsOK, Exists, InProgress, Progress,
          PumpTypes
  <2>2. PumpTypes'
    BY <1>16, BoundsAssumption DEF PumpTypes, ProgressWrite, Progress
  <2>3. HistoryTypes'
    BY <1>16 DEF HistoryTypes, ProgressWrite, RefsOK, Exists, RowTypes
  <2>4. StackTypes' /\ RequestTypes' /\ MonitorTypes'
    BY <1>16 DEF ProgressWrite, StackTypes, RequestTypes, MonitorTypes
  <2>6. BudgetTypes'
    BY <1>16, BoundsAssumption DEF BudgetTypes, ProgressWrite, Fault
  <2>5. RefsOK'
    BY <1>16
      DEF ProgressWrite, RefsOK, Exists, RowTypes, RequestTypes,
          MonitorTypes, PumpTypes, Progress
  <2> QED
    BY <2>1, <2>2, <2>3, <2>4, <2>5, <2>6
<1>17. ASSUME NEW d \in DepIds, ApproveDeployment(d) PROVE Inv'
  <2>1. RowTypes'
    BY <1>17 DEF RowTypes, ApproveDeployment, InProgress
  <2>2. /\ StackTypes' /\ RequestTypes' /\ MonitorTypes'
        /\ PumpTypes' /\ BudgetTypes' /\ HistoryTypes'
    BY <1>17
      DEF ApproveDeployment, StackTypes, RequestTypes, MonitorTypes,
          PumpTypes, BudgetTypes, HistoryTypes
  <2>3. RefsOK'
    BY <1>17
      DEF ApproveDeployment, RefsOK, Exists, RowTypes, RequestTypes,
          MonitorTypes, PumpTypes
  <2> QED
    BY <2>1, <2>2, <2>3
<1>18. ASSUME NEW s \in Stacks, DeleteStack(s) PROVE Inv'
  <2>1. StackTypes'
    BY <1>18 DEF StackTypes, DeleteStack
  <2>2. RowTypes'
    BY <1>18 DEF RowTypes, DeleteStack, Terminal, InProgress
  <2>3. /\ RequestTypes' /\ MonitorTypes' /\ PumpTypes'
        /\ BudgetTypes' /\ HistoryTypes'
    BY <1>18
      DEF DeleteStack, RequestTypes, MonitorTypes, PumpTypes, BudgetTypes,
          HistoryTypes
  <2>4. RefsOK'
    BY <1>18
      DEF DeleteStack, RefsOK, Exists, RowTypes, RequestTypes, MonitorTypes,
          PumpTypes, InProgress
  <2> QED
    BY <2>1, <2>2, <2>3, <2>4
<1>19. ASSUME NEW s \in Stacks, NEW st \in EditStatus,
            UpdateStackStatus(s, st)
     PROVE  Inv'
  <2>1. StackTypes'
    BY <1>19, BoundsAssumption
      DEF StackTypes, UpdateStackStatus, StackStatus, WriteStackStatus
  <2>2. BudgetTypes'
    BY <1>19, BoundsAssumption DEF BudgetTypes, UpdateStackStatus
  <2>3. HistoryTypes'
    BY <1>19 DEF HistoryTypes, UpdateStackStatus, Excuse
  <2>4. RowTypes' /\ RequestTypes' /\ MonitorTypes' /\ PumpTypes'
    BY <1>19
      DEF UpdateStackStatus, RowTypes, RequestTypes, MonitorTypes, PumpTypes
  <2>5. RefsOK'
    BY <1>19
      DEF UpdateStackStatus, RefsOK, Exists, RowTypes, RequestTypes,
          MonitorTypes, PumpTypes
  <2> QED
    BY <2>1, <2>2, <2>3, <2>4, <2>5
<1>20. ASSUME NEW s \in Stacks, UpdateStackActive(s) PROVE Inv'
  <2>1. StackTypes'
    BY <1>20 DEF StackTypes, UpdateStackActive
  <2>2. BudgetTypes'
    BY <1>20, BoundsAssumption DEF BudgetTypes, UpdateStackActive
  <2>3. /\ RowTypes' /\ RequestTypes' /\ MonitorTypes'
        /\ PumpTypes' /\ HistoryTypes'
    BY <1>20
      DEF UpdateStackActive, RowTypes, RequestTypes, MonitorTypes,
          PumpTypes, HistoryTypes
  <2>4. RefsOK'
    BY <1>20
      DEF UpdateStackActive, RefsOK, Exists, RowTypes, RequestTypes,
          MonitorTypes, PumpTypes
  <2> QED
    BY <2>1, <2>2, <2>3, <2>4
<1>21. ASSUME NEW s \in Stacks, ClaimExpires(s) PROVE Inv'
  <2>1. StackTypes'
    BY <1>21 DEF StackTypes, ClaimExpires
  <2>2. /\ RowTypes' /\ RequestTypes' /\ MonitorTypes'
        /\ PumpTypes' /\ BudgetTypes' /\ HistoryTypes'
    BY <1>21
      DEF ClaimExpires, RowTypes, RequestTypes, MonitorTypes, PumpTypes,
          BudgetTypes, HistoryTypes
  <2>3. RefsOK'
    BY <1>21
      DEF ClaimExpires, RefsOK, Exists, RowTypes, RequestTypes,
          MonitorTypes, PumpTypes
  <2> QED
    BY <2>1, <2>2, <2>3
<1>22. ASSUME Restart PROVE Inv'
  <2>1. RequestTypes'
    BY <1>22, AnyStackType, BoundsAssumption DEF RequestTypes, Restart
  <2>2. MonitorTypes'
    BY <1>22, BoundsAssumption DEF MonitorTypes, Restart
  <2>3. PumpTypes'
    BY <1>22, BoundsAssumption DEF PumpTypes, Restart, Progress
  <2>4. BudgetTypes'
    BY <1>22, BoundsAssumption DEF BudgetTypes, Restart
  <2>5. StackTypes' /\ RowTypes' /\ HistoryTypes'
    BY <1>22 DEF Restart, StackTypes, RowTypes, HistoryTypes
  <2>6. RefsOK'
    BY <1>22
      DEF Restart, RefsOK, Exists, RowTypes, RequestTypes, MonitorTypes,
          PumpTypes
  <2> QED
    BY <2>1, <2>2, <2>3, <2>4, <2>5, <2>6
<1>23. CASE UNCHANGED vars
  BY <1>23 DEF vars, RefsOK, Exists, StackTypes, RowTypes, RequestTypes,
     MonitorTypes, PumpTypes, BudgetTypes, HistoryTypes
<1> QED
  BY <1>1, <1>2, <1>3, <1>4, <1>5, <1>6, <1>7, <1>8, <1>9, <1>10, <1>11,
     <1>12, <1>13, <1>14, <1>15, <1>16, <1>17, <1>18, <1>19, <1>20, <1>21,
     <1>22, <1>23
    DEF Next, RequestStep, MonitorStep, ProgressStep, OperatorStep

(* The type invariant holds in every reachable state.                      *)
THEOREM TypeCorrect == Spec => []TypeOK
<1>1. Inv => TypeOK
  BY DEF Inv
<1> QED
  BY InitInv, NextInv, <1>1, PTL DEF Spec

-----------------------------------------------------------------------------
(* The claim.  Excl is ClaimExclusive for one stack.                       *)

Excl(s) ==
    s \notin excused =>
        /\ AtMostOneHolder(s)
        /\ Held(s) => status[s] = "deploying" /\ claim[s] # "none"

(* No party becomes a holder of s in this step.                            *)
NoNewHolder(s) ==
    /\ \A r \in Slots : HoldsByRequest(r, s)' => HoldsByRequest(r, s)
    /\ \A d \in DepIds : HoldsByDeployment(d, s)' => HoldsByDeployment(d, s)

(* A step that adds no holder and leaves the stack claimed keeps Excl.     *)
LEMMA QuietKeeps ==
    ASSUME NEW s \in Stacks, Excl(s), NoNewHolder(s),
           s \in excused => s \in excused',
           status'[s] = status[s],
           claim'[s] \in {claim[s], "stale"}
    PROVE  Excl(s)'
  BY DEF Excl, NoNewHolder, AtMostOneHolder, Held, HeldBesides

(* A step that leaves the stack without a holder keeps Excl, whatever it   *)
(* writes to the row.                                                      *)
LEMMA FreedKeeps ==
    ASSUME NEW s \in Stacks,
           \/ s \in excused'
           \/ /\ \A r \in Slots : ~HoldsByRequest(r, s)'
              /\ \A d \in DepIds : ~HoldsByDeployment(d, s)'
    PROVE  Excl(s)'
  BY DEF Excl, AtMostOneHolder, Held, HeldBesides

(* The settle transaction: its own deployment stops holding, any other     *)
(* holder of the stack it frees is excused, and other stacks are left      *)
(* alone.                                                                  *)
LEMMA SettleKeeps ==
    ASSUME Inv, NEW d \in DepIds, NEW st \in Terminal, NEW s \in Stacks,
           Settle(d, st), Excl(s), UNCHANGED <<owner, sent>>,
           \A r \in Slots : pc'[r] \in {"claimed", "created"}
                               => UNCHANGED <<pc[r], onStack[r], dep[r]>>
    PROVE  Excl(s)'
<1> USE DEF Inv, TypeOK, StackTypes, RowTypes
<1>1. \A e \in DepIds : deploy'[e] # deploy[e] => e = d /\ deploy'[e] = st
  BY SettleType
<1>2. NoNewHolder(s)
  BY <1>1
    DEF NoNewHolder, HoldsByRequest, HoldsByDeployment, Terminal, InProgress
<1>3. CASE UNCHANGED <<status, claim, excused>>
  BY <1>2, <1>3, QuietKeeps
<1>4. CASE /\ deploy' = [deploy EXCEPT ![d] = st]
           /\ WriteStackStatus(owner[d], StackStatusFor(st))
           /\ Excuse(owner[d], {}, {d})
  <2>1. CASE s # owner[d]
    BY <1>2, <1>4, <2>1, QuietKeeps DEF WriteStackStatus, Excuse
  <2>2. CASE s = owner[d]
    <3>1. ~HoldsByDeployment(d, s)'
      BY <1>4 DEF HoldsByDeployment, Terminal, InProgress
    <3>2. CASE HeldBesides({}, {d}, s)
      BY <1>4, <2>2, <3>2, FreedKeeps DEF Excuse
    <3>3. CASE ~HeldBesides({}, {d}, s)
      BY <1>2, <3>1, <3>3, FreedKeeps DEF HeldBesides, NoNewHolder
    <3> QED
      BY <3>2, <3>3
  <2> QED
    BY <2>1, <2>2
<1> QED
  BY <1>3, <1>4 DEF Settle

(* Every step keeps Excl.                                                  *)
LEMMA NextExcl ==
    ASSUME Inv, [Next]_vars, NEW s \in Stacks, Excl(s)
    PROVE  Excl(s)'
<1> USE
  DEF Inv, TypeOK, StackTypes, RowTypes, RequestTypes, stackVars, depVars,
            reqVars, monVars, pumpVars, budgets, history
<1> DEFINE Quiet ==
             /\ NoNewHolder(s)
             /\ s \in excused => s \in excused'
             /\ status'[s] = status[s]
             /\ claim'[s] \in {claim[s], "stale"}
<1>q. Quiet => Excl(s)'
  BY QuietKeeps
<1> HIDE DEF Quiet
<1> USE DEF NoNewHolder, HoldsByRequest, HoldsByDeployment
<1>1. ASSUME NEW r \in Slots, NEW x \in Stacks, NEW t \in 0..MaxDeps,
            Preflight(r, x, t) PROVE Excl(s)'
  <2> Quiet
    BY <1>1 DEF Preflight, Quiet
  <2> QED
    BY <1>q
<1>2. ASSUME NEW r \in Slots, ClaimStackForDeploy(r) PROVE Excl(s)'
  <2>1. CASE s # onStack[r]
    <3> Quiet
      BY <1>2, <2>1 DEF ClaimStackForDeploy, Quiet
    <3> QED
      BY <1>q
  <2>2. CASE s = onStack[r] /\ Held(s)
    \* The holder's claim went stale, or the stack was excused before.
    <3>1. s \in excused'
      BY <1>2, <2>2 DEF ClaimStackForDeploy, Claimable, Excl
    <3> QED
      BY <3>1 DEF Excl
  <2>3. CASE s = onStack[r] /\ ~Held(s)
    <3>1. /\ \A q \in Slots : HoldsByRequest(q, s)' => q = r
          /\ \A d \in DepIds : ~HoldsByDeployment(d, s)'
      BY <1>2, <2>3 DEF ClaimStackForDeploy, Held, HeldBesides
    <3>2. status'[s] = "deploying" /\ claim'[s] = "fresh"
      BY <1>2, <2>3 DEF ClaimStackForDeploy
    <3> QED
      BY <3>1, <3>2 DEF Excl, AtMostOneHolder
  <2> QED
    BY <2>1, <2>2, <2>3
<1>3. ASSUME NEW r \in Slots, ClaimRefused(r) PROVE Excl(s)'
  <2> Quiet
    BY <1>3 DEF ClaimRefused, Answer, Quiet
  <2> QED
    BY <1>q
<1>4. ASSUME NEW r \in Slots, ReleaseStackClaim(r) PROVE Excl(s)'
  <2>1. NoNewHolder(s) /\ ~HoldsByRequest(r, s)'
    BY <1>4 DEF ReleaseStackClaim, Answer
  <2>2. CASE /\ s = onStack[r]
             /\ WriteStackStatus(s, "active") /\ Excuse(s, {r}, {})
    <3>1. CASE HeldBesides({r}, {}, s)
      BY <2>2, <3>1, FreedKeeps DEF Excuse
    <3>2. CASE ~HeldBesides({r}, {}, s)
      BY <2>1, <3>2, FreedKeeps DEF HeldBesides
    <3> QED
      BY <3>1, <3>2
  <2>3. CASE s # onStack[r] \/ UNCHANGED <<status, claim, excused>>
    <3> Quiet
      BY <1>4, <2>1, <2>3
        DEF ReleaseStackClaim, WriteStackStatus, Excuse, Quiet
    <3> QED
      BY <1>q
  <2> QED
    BY <1>4, <2>2, <2>3 DEF ReleaseStackClaim
<1>5. ASSUME NEW r \in Slots, CreateDeployment(r) PROVE Excl(s)'
  <2>1. \A e \in DepIds : HoldsByDeployment(e, s)'
                             => HoldsByDeployment(e, s) \/ e = next
    BY <1>5 DEF CreateDeployment
  <2>2. \A q \in Slots : HoldsByRequest(q, s)' => HoldsByRequest(q, s) /\ q # r
    BY <1>5 DEF CreateDeployment
  <2>3. CASE s # onStack[r]
    <3> Quiet
      BY <1>5, <2>1, <2>2, <2>3 DEF CreateDeployment, Quiet
    <3> QED
      BY <1>q
  <2>4. CASE s = onStack[r] /\ s \notin excused
    \* The request was the only holder, and hands over to the new row.
    <3>1. HoldsByRequest(r, s) /\ AtMostOneHolder(s) /\ Held(s)
      BY <1>5, <2>4 DEF CreateDeployment, Excl, Held, HeldBesides
    <3>2. /\ \A q \in Slots : ~HoldsByRequest(q, s)'
          /\ \A e \in DepIds : HoldsByDeployment(e, s)' => e = next
      BY <2>1, <2>2, <3>1 DEF AtMostOneHolder
    <3>3. status'[s] = "deploying" /\ claim'[s] # "none"
      BY <1>5, <2>4, <3>1 DEF CreateDeployment, Excl
    <3> QED
      BY <3>2, <3>3 DEF Excl, AtMostOneHolder
  <2>5. CASE s \in excused
    BY <1>5, <2>5 DEF CreateDeployment, Excl
  <2> QED
    BY <2>3, <2>4, <2>5
<1>6. ASSUME NEW r \in Slots, Dispatch(r) PROVE Excl(s)'
  <2> Quiet
    BY <1>6 DEF Dispatch, Quiet
  <2> QED
    BY <1>q
<1>7. ASSUME NEW r \in Slots, DispatchFailed(r) PROVE Excl(s)'
  <2>1. dep[r] \in DepIds /\ Settle(dep[r], "failed") /\ "failed" \in Terminal
    BY <1>7 DEF DispatchFailed, RefsOK, Exists, Terminal
  <2>2. \A q \in Slots : pc'[q] \in {"claimed", "created"}
                            => UNCHANGED <<pc[q], onStack[q], dep[q]>>
    BY <1>7 DEF DispatchFailed, Answer
  <2> QED
    BY <1>7, <2>1, <2>2, SettleKeeps DEF DispatchFailed
<1>8. ASSUME NEW r \in Slots, MarkRolledBack(r) PROVE Excl(s)'
  <2> Quiet
    BY <1>8 DEF MarkRolledBack, InProgress, Quiet
  <2> QED
    BY <1>q
<1>9. ASSUME NEW r \in Slots, StartDeploymentMonitor(r) PROVE Excl(s)'
  <2> Quiet
    BY <1>9 DEF StartDeploymentMonitor, Answer, Quiet
  <2> QED
    BY <1>q
<1>10. ASSUME NEW d \in DepIds, MonitorTimeout(d) PROVE Excl(s)'
  BY <1>10, SettleKeeps DEF MonitorTimeout, Terminal
<1>11. ASSUME NEW d \in DepIds, MonitorTick(d) PROVE Excl(s)'
  <2> Quiet
    BY <1>11 DEF MonitorTick, Quiet
  <2> QED
    BY <1>q
<1>12. ASSUME NEW d \in DepIds, MonitorContinue(d) PROVE Excl(s)'
  <2> Quiet
    BY <1>12 DEF MonitorContinue, Quiet
  <2> QED
    BY <1>q
<1>13. ASSUME NEW d \in DepIds, MonitorGiveUp(d) PROVE Excl(s)'
  BY <1>13, SettleKeeps DEF MonitorGiveUp, Terminal
<1>14. ASSUME NEW d \in DepIds, NEW st \in Terminal,
             ProgressTerminal(d, st) PROVE Excl(s)'
  BY <1>14, SettleKeeps DEF ProgressTerminal
<1>15. ASSUME NEW p \in Pumps, NEW d \in DepIds, NEW st \in Progress,
             ProgressRead(p, d, st) PROVE Excl(s)'
  <2> Quiet
    BY <1>15 DEF ProgressRead, Quiet
  <2> QED
    BY <1>q
<1>16. ASSUME NEW p \in Pumps, ProgressWrite(p) PROVE Excl(s)'
  <2>1. pump[p] \in DepIds /\ deploy[pump[p]] # "absent"
    BY <1>16 DEF ProgressWrite, RefsOK, Exists, PumpTypes, DepIds
  <2>2. CASE /\ deploy[pump[p]] \in Terminal /\ s = owner[pump[p]]
             /\ ~UNCHANGED <<deploy, history>>
    BY <1>16, <2>2 DEF ProgressWrite, Excl
  <2>4. CASE UNCHANGED <<deploy, history>>
    <3> Quiet
      BY <1>16, <2>4 DEF ProgressWrite, Quiet
    <3> QED
      BY <1>q
  <2>3. CASE deploy[pump[p]] \notin Terminal \/ s # owner[pump[p]]
    <3>1. deploy[pump[p]] \in InProgress \/ s # owner[pump[p]]
      BY <2>1, <2>3
    <3> Quiet
      BY <1>16, <2>1, <3>1 DEF ProgressWrite, Quiet
    <3> QED
      BY <1>q
  <2> QED
    BY <2>2, <2>3, <2>4
<1>17. ASSUME NEW d \in DepIds, ApproveDeployment(d) PROVE Excl(s)'
  <2> Quiet
    BY <1>17 DEF ApproveDeployment, InProgress, Quiet
  <2> QED
    BY <1>q
<1>18. ASSUME NEW x \in Stacks, DeleteStack(x) PROVE Excl(s)'
  <2> Quiet
    BY <1>18 DEF DeleteStack, InProgress, Quiet
  <2> QED
    BY <1>q
<1>19. ASSUME NEW x \in Stacks, NEW st \in EditStatus,
             UpdateStackStatus(x, st) PROVE Excl(s)'
  <2>1. NoNewHolder(s)
    BY <1>19 DEF UpdateStackStatus
  <2>2. CASE s # x
    <3> Quiet
      BY <1>19, <2>1, <2>2
        DEF UpdateStackStatus, WriteStackStatus, Excuse, Quiet
    <3> QED
      BY <1>q
  <2>3. CASE s = x /\ HeldBesides({}, {}, s)
    BY <1>19, <2>3, FreedKeeps DEF UpdateStackStatus, Excuse
  <2>4. CASE s = x /\ ~HeldBesides({}, {}, s)
    BY <2>1, <2>4, FreedKeeps DEF HeldBesides
  <2> QED
    BY <2>2, <2>3, <2>4
<1>20. ASSUME NEW x \in Stacks, UpdateStackActive(x) PROVE Excl(s)'
  <2> Quiet
    BY <1>20 DEF UpdateStackActive, Quiet
  <2> QED
    BY <1>q
<1>21. ASSUME NEW x \in Stacks, ClaimExpires(x) PROVE Excl(s)'
  <2> Quiet
    BY <1>21 DEF ClaimExpires, Quiet
  <2> QED
    BY <1>q
<1>22. ASSUME Restart PROVE Excl(s)'
  <2> Quiet
    BY <1>22 DEF Restart, Quiet
  <2> QED
    BY <1>q
<1>23. CASE UNCHANGED vars
  <2> Quiet
    BY <1>23 DEF vars, Quiet
  <2> QED
    BY <1>q
<1> QED
  BY <1>1, <1>2, <1>3, <1>4, <1>5, <1>6, <1>7, <1>8, <1>9, <1>10, <1>11,
     <1>12, <1>13, <1>14, <1>15, <1>16, <1>17, <1>18, <1>19, <1>20, <1>21,
     <1>22, <1>23
  DEF Next, RequestStep, MonitorStep, ProgressStep, OperatorStep

(* The claim ClaimStackForDeploy takes is exclusive until one of the named *)
(* overrides happens, for any number of stacks, requests and deployments.  *)
THEOREM ClaimIsExclusive == Spec => []ClaimExclusive
<1>1. Init => \A s \in Stacks : Excl(s)
  <2> SUFFICES ASSUME Init, NEW s \in Stacks PROVE Excl(s)
    OBVIOUS
  <2>1. ~Held(s) /\ AtMostOneHolder(s)
    BY DEF Init, Held, HeldBesides, AtMostOneHolder, HoldsByRequest,
           HoldsByDeployment
  <2> QED
    BY <2>1 DEF Excl
<1>2. Inv /\ (\A s \in Stacks : Excl(s)) /\ [Next]_vars
        => (\A s \in Stacks : Excl(s))'
  BY NextExcl
<1>3. (\A s \in Stacks : Excl(s)) => ClaimExclusive
  BY DEF Excl, ClaimExclusive
<1> QED
  BY InitInv, NextInv, <1>1, <1>2, <1>3, PTL DEF Spec

-----------------------------------------------------------------------------
(* The monitors.  Ended is MonitorEndsSettled's condition for one of them. *)

Ended(d) ==
    mon[d] # "off" /\ mon'[d] = "off"
        => \/ deploy'[d] \in Terminal
           \/ owner[d] \notin active
           \/ faults' > faults
           \/ crashes' > crashes

(* A force-fail settles the row, or names why it could not.                *)
LEMMA SettleEnds ==
    ASSUME Inv, NEW d \in DepIds, NEW e \in DepIds, Settle(d, "failed"),
           MonitorEnds(d)
    PROVE  Ended(e)
<1>1. CASE e = d
  BY <1>1
    DEF Inv, TypeOK, RowTypes, BudgetTypes, Settle, Fault, Terminal, Ended
<1>2. CASE e # d
  BY <1>2 DEF Inv, TypeOK, MonitorTypes, MonitorEnds, Ended
<1> QED
  BY <1>1, <1>2

(* Every step that ends a monitor leaves its row settled, or could not.    *)
LEMMA NextEnded ==
    ASSUME Inv, Next, NEW e \in DepIds
    PROVE  Ended(e)
<1> USE DEF Inv, TypeOK, MonitorTypes, stackVars, depVars, reqVars, monVars,
            pumpVars, budgets, history
<1>1. ASSUME NEW d \in DepIds, MonitorStep(d) PROVE Ended(e)
  <2>1. CASE MonitorTimeout(d)
    BY <2>1, SettleEnds DEF MonitorTimeout
  <2>2. CASE MonitorTick(d)
    BY <2>2 DEF MonitorTick, MonitorEnds, Ended
  <2>3. CASE MonitorContinue(d)
    BY <2>3 DEF MonitorContinue, Ended
  <2>4. CASE MonitorGiveUp(d)
    BY <2>4, SettleEnds DEF MonitorGiveUp
  <2> QED
    BY <1>1, <2>1, <2>2, <2>3, <2>4 DEF MonitorStep
<1>2. ASSUME NEW r \in Slots, RequestStep(r) PROVE Ended(e)
  <2>1. CASE StartDeploymentMonitor(r)
    BY <2>1 DEF StartDeploymentMonitor, Ended
  <2>2. CASE ~StartDeploymentMonitor(r)
    <3> mon' = mon
      BY <1>2, <2>2
        DEF RequestStep, Preflight, ClaimStackForDeploy, ClaimRefused,
         ReleaseStackClaim, CreateDeployment, Dispatch, DispatchFailed,
         MarkRolledBack
    <3> QED
      BY DEF Ended
  <2> QED
    BY <2>1, <2>2
<1>3. CASE Restart
  BY <1>3 DEF Restart, BudgetTypes, Ended
<1>4. CASE ProgressStep \/ OperatorStep \/ \E s \in Stacks : ClaimExpires(s)
  <2> mon' = mon
    BY <1>4 DEF ProgressStep, ProgressTerminal, ProgressRead, ProgressWrite,
       OperatorStep, ApproveDeployment, DeleteStack, UpdateStackStatus,
       UpdateStackActive, ClaimExpires
  <2> QED
    BY DEF Ended
<1> QED
  BY <1>1, <1>2, <1>3, <1>4 DEF Next

(* No monitor leaves a live deployment behind, for any pool size, number   *)
(* of attempts and interleaving with requests, reports and operators.      *)
THEOREM MonitorsEndSettled == Spec => MonitorEndsSettled
<1>1. Inv /\ [Next]_vars
        => [\A d \in DepIds : mon[d] # "off" /\ mon'[d] = "off"
              => \/ deploy'[d] \in Terminal
                 \/ owner[d] \notin active
                 \/ faults' > faults
                 \/ crashes' > crashes]_vars
  BY NextEnded DEF Ended
<1> QED
  BY InitInv, NextInv, <1>1, PTL DEF Spec, MonitorEndsSettled
-----------------------------------------------------------------------------
(* What holds as long as nothing was disturbed.                            *)

(* The three counters only grow, so a run undisturbed after a step was     *)
(* undisturbed before it, and the step was none of the disturbing ones.    *)
LEMMA Calm ==
    ASSUME TypeOK, Next, Undisturbed'
    PROVE  Undisturbed /\ faults' = faults /\ ~Fault
             /\ crashes' = crashes /\ edits' = edits
<1> USE BoundsAssumption
  DEF TypeOK, BudgetTypes, Undisturbed, stackVars, depVars, reqVars, monVars,
      pumpVars, budgets, history
<1>1. faults' # faults + 1 /\ crashes' # crashes + 1 /\ edits' # edits + 1
  OBVIOUS
<1>2. ~Fault
  BY <1>1 DEF Fault
<1>3. CASE \E r \in Slots : RequestStep(r)
  BY <1>2, <1>3 DEF RequestStep, Preflight, ClaimStackForDeploy, ClaimRefused,
     ReleaseStackClaim, CreateDeployment, Dispatch, DispatchFailed, Settle,
     MarkRolledBack, StartDeploymentMonitor
<1>4. CASE \E d \in DepIds : MonitorStep(d)
  BY <1>2, <1>4 DEF MonitorStep, MonitorTimeout, MonitorTick, MonitorContinue,
     MonitorGiveUp, Settle
<1>5. CASE ProgressStep
  BY <1>2, <1>5 DEF ProgressStep, ProgressTerminal, ProgressRead,
     ProgressWrite, Settle
<1>6. CASE OperatorStep
  BY <1>1, <1>2, <1>6 DEF OperatorStep, ApproveDeployment, DeleteStack,
     UpdateStackStatus, UpdateStackActive
<1>7. CASE \E s \in Stacks : ClaimExpires(s)
  BY <1>2, <1>7 DEF ClaimExpires
<1>8. CASE Restart
  BY <1>1, <1>8 DEF Restart
<1> QED
  BY <1>3, <1>4, <1>5, <1>6, <1>7, <1>8 DEF Next

(* A settle transaction whose write does not fail settles the row of an    *)
(* active stack, and leaves that stack out of "deploying".                 *)
LEMMA SettleSettles ==
    ASSUME Inv, NEW d \in DepIds, NEW st \in Terminal, Settle(d, st), ~Fault
    PROVE  /\ \A e \in DepIds : e # d => deploy'[e] = deploy[e]
           /\ owner[d] \in active
                 => deploy'[d] \in Terminal /\ status'[owner[d]] # "deploying"
           /\ deploy'[d] # deploy[d] => deploy'[d] \in Terminal
           /\ \A s \in Stacks : s # owner[d] => status'[s] = status[s]
<1> USE DEF Inv, TypeOK, StackTypes, RowTypes
<1>1. StackStatusFor(st) # "deploying"
  BY DEF StackStatusFor, Terminal
<1> QED
  BY <1>1 DEF Settle, WriteStackStatus

-----------------------------------------------------------------------------
(* The watch over dispatched deployments.  Guarded is Watched for one.     *)

Guarded(d) ==
    d \in sent /\ d \notin revived /\ deploy[d] \in InProgress
        /\ owner[d] \in active
    => \/ mon[d] # "off"
       \/ \E r \in Slots : dep[r] = d /\ pc[r] \in {"sent", "marked"}

(* A step that puts d under no new duty and takes no watcher away.         *)
WatchKept(d) ==
    /\ d \in sent' => d \in sent
    /\ d \in revived => d \in revived'
    /\ deploy'[d] \in InProgress /\ owner'[d] \in active'
          => deploy[d] \in InProgress /\ owner[d] \in active
    /\ mon[d] # "off" => mon'[d] # "off"
    /\ \A r \in Slots : dep[r] = d /\ pc[r] \in {"sent", "marked"}
          => dep'[r] = d /\ pc'[r] \in {"sent", "marked"}

LEMMA WatchKeeps ==
    ASSUME NEW d \in DepIds, Guarded(d), WatchKept(d)
    PROVE  Guarded(d)'
  BY DEF Guarded, WatchKept

(* Every undisturbed step keeps the watch.                                 *)
LEMMA NextGuarded ==
    ASSUME Inv, [Next]_vars, Undisturbed', NEW e \in DepIds, Guarded(e)
    PROVE  Guarded(e)'
<1> USE
  DEF Inv, TypeOK, StackTypes, RowTypes, RequestTypes, stackVars, depVars,
            reqVars, monVars, pumpVars, budgets, history
<1> DEFINE Quiet == WatchKept(e)
<1>q. Quiet => Guarded(e)'
  BY WatchKeeps
<1>c. ~Fault /\ crashes' = crashes /\ edits' = edits
  <2>1. CASE Next
    BY <2>1, Calm
  <2>2. CASE UNCHANGED vars
    BY <2>2 DEF vars, Fault, BudgetTypes
  <2> QED
    BY <2>1, <2>2
<1> USE DEF WatchKept
<1> HIDE DEF Quiet
<1>1. ASSUME NEW r \in Slots, NEW x \in Stacks, NEW t \in 0..MaxDeps,
            Preflight(r, x, t) PROVE Guarded(e)'
  <2> Quiet
    BY <1>1 DEF Preflight, Quiet
  <2> QED
    BY <1>q
<1>2. ASSUME NEW r \in Slots, ClaimStackForDeploy(r) PROVE Guarded(e)'
  <2> Quiet
    BY <1>2 DEF ClaimStackForDeploy, Quiet
  <2> QED
    BY <1>q
<1>3. ASSUME NEW r \in Slots, ClaimRefused(r) PROVE Guarded(e)'
  <2> Quiet
    BY <1>3 DEF ClaimRefused, Answer, Quiet
  <2> QED
    BY <1>q
<1>4. ASSUME NEW r \in Slots, ReleaseStackClaim(r) PROVE Guarded(e)'
  <2> Quiet
    BY <1>4 DEF ReleaseStackClaim, Answer, Quiet
  <2> QED
    BY <1>q
<1>5. ASSUME NEW r \in Slots, CreateDeployment(r) PROVE Guarded(e)'
  \* The new row has not been sent; every other row keeps its watchers.
  <2>1. CASE e = next
    BY <1>5, <2>1 DEF CreateDeployment, RefsOK, Exists, Guarded
  <2>2. CASE e # next
    <3> Quiet
      BY <1>5, <2>2 DEF CreateDeployment, Quiet
    <3> QED
      BY <1>q
  <2> QED
    BY <2>1, <2>2
<1>6. ASSUME NEW r \in Slots, Dispatch(r) PROVE Guarded(e)'
  \* The request that sends the command is the first watcher.
  <2>1. CASE e = dep[r]
    <3>1. dep'[r] = e /\ pc'[r] \in {"sent", "marked"}
      BY <1>6, <2>1 DEF Dispatch
    <3> QED
      BY <3>1 DEF Guarded
  <2>2. CASE e # dep[r]
    <3> Quiet
      BY <1>6, <2>2 DEF Dispatch, Quiet
    <3> QED
      BY <1>q
  <2> QED
    BY <2>1, <2>2
<1>7. ASSUME NEW r \in Slots, DispatchFailed(r) PROVE Guarded(e)'
  <2>1. dep[r] \in DepIds /\ Settle(dep[r], "failed") /\ "failed" \in Terminal
    BY <1>7 DEF DispatchFailed, RefsOK, Exists, Terminal
  <2>2. deploy'[e] \in InProgress => deploy[e] \in InProgress
    BY <2>1, <1>c, SettleSettles DEF Terminal, InProgress
  <2> Quiet
    BY <1>7, <2>2 DEF DispatchFailed, Answer, Quiet
  <2> QED
    BY <1>q
<1>8. ASSUME NEW r \in Slots, MarkRolledBack(r) PROVE Guarded(e)'
  <2> Quiet
    BY <1>8 DEF MarkRolledBack, InProgress, Quiet
  <2> QED
    BY <1>q
<1>9. ASSUME NEW r \in Slots, StartDeploymentMonitor(r) PROVE Guarded(e)'
  \* The request hands the watch over to the monitor it starts.
  <2>1. CASE e = dep[r]
    <3>1. mon'[e] # "off"
      BY <1>9, <2>1 DEF StartDeploymentMonitor, MonitorTypes
    <3> QED
      BY <3>1 DEF Guarded
  <2>2. CASE e # dep[r]
    <3> Quiet
      BY <1>9, <2>2 DEF StartDeploymentMonitor, Answer, Quiet
    <3> QED
      BY <1>q
  <2> QED
    BY <2>1, <2>2
<1>10. ASSUME NEW d \in DepIds, MonitorTimeout(d) PROVE Guarded(e)'
  <2>1. CASE e = d
    <3>1. ~(deploy'[e] \in InProgress /\ owner'[e] \in active')
      BY <1>10, <2>1, <1>c, SettleSettles
        DEF MonitorTimeout, Terminal, InProgress
    <3> QED
      BY <3>1 DEF Guarded
  <2>2. CASE e # d
    <3>1. deploy'[e] = deploy[e]
      BY <1>10, <2>2, <1>c, SettleSettles DEF MonitorTimeout, Terminal
    <3> Quiet
      BY <1>10, <2>2, <3>1 DEF MonitorTimeout, MonitorEnds, Quiet
    <3> QED
      BY <1>q
  <2> QED
    BY <2>1, <2>2
<1>11. ASSUME NEW d \in DepIds, MonitorTick(d) PROVE Guarded(e)'
  <2>1. CASE e = d /\ deploy[d] \in Terminal
    BY <1>11, <2>1 DEF MonitorTick, Guarded, Terminal, InProgress
  <2>2. CASE ~(e = d /\ deploy[d] \in Terminal)
    <3> Quiet
      BY <1>11, <2>2 DEF MonitorTick, MonitorEnds, MonitorTypes, Quiet
    <3> QED
      BY <1>q
  <2> QED
    BY <2>1, <2>2
<1>12. ASSUME NEW d \in DepIds, MonitorContinue(d) PROVE Guarded(e)'
  <2> Quiet
    BY <1>12 DEF MonitorContinue, Quiet
  <2> QED
    BY <1>q
<1>13. ASSUME NEW d \in DepIds, MonitorGiveUp(d) PROVE Guarded(e)'
  <2>1. CASE e = d
    <3>1. ~(deploy'[e] \in InProgress /\ owner'[e] \in active')
      BY <1>13, <2>1, <1>c, SettleSettles
        DEF MonitorGiveUp, Terminal, InProgress
    <3> QED
      BY <3>1 DEF Guarded
  <2>2. CASE e # d
    <3>1. deploy'[e] = deploy[e]
      BY <1>13, <2>2, <1>c, SettleSettles DEF MonitorGiveUp, Terminal
    <3> Quiet
      BY <1>13, <2>2, <3>1 DEF MonitorGiveUp, MonitorEnds, Quiet
    <3> QED
      BY <1>q
  <2> QED
    BY <2>1, <2>2
<1>14. ASSUME NEW d \in DepIds, NEW st \in Terminal,
             ProgressTerminal(d, st) PROVE Guarded(e)'
  <2>1. deploy'[e] \in InProgress => deploy[e] \in InProgress
    BY <1>14, <1>c, SettleSettles DEF ProgressTerminal, Terminal, InProgress
  <2> Quiet
    BY <1>14, <2>1 DEF ProgressTerminal, Quiet
  <2> QED
    BY <1>q
<1>15. ASSUME NEW p \in Pumps, NEW d \in DepIds, NEW st \in Progress,
             ProgressRead(p, d, st) PROVE Guarded(e)'
  <2> Quiet
    BY <1>15 DEF ProgressRead, Quiet
  <2> QED
    BY <1>q
<1>16. ASSUME NEW p \in Pumps, ProgressWrite(p) PROVE Guarded(e)'
  <2>1. pump[p] \in DepIds /\ deploy[pump[p]] # "absent"
    BY <1>16 DEF ProgressWrite, RefsOK, Exists, PumpTypes, DepIds
  <2>2. CASE e = pump[p] /\ deploy[e] \in Terminal
    BY <1>16, <1>c, <2>1, <2>2 DEF ProgressWrite, Guarded
  <2>3. CASE ~(e = pump[p] /\ deploy[e] \in Terminal)
    <3>1. deploy'[e] \in InProgress => deploy[e] \in InProgress
      BY <1>16, <2>1, <2>3 DEF ProgressWrite
    <3> Quiet
      BY <1>16, <3>1 DEF ProgressWrite, Quiet
    <3> QED
      BY <1>q
  <2> QED
    BY <2>2, <2>3
<1>17. ASSUME NEW d \in DepIds, ApproveDeployment(d) PROVE Guarded(e)'
  <2> Quiet
    BY <1>17 DEF ApproveDeployment, InProgress, Quiet
  <2> QED
    BY <1>q
<1>18. ASSUME NEW x \in Stacks, DeleteStack(x) PROVE Guarded(e)'
  <2> Quiet
    BY <1>18 DEF DeleteStack, InProgress, Quiet
  <2> QED
    BY <1>q
<1>19. ASSUME NEW x \in Stacks, NEW st \in EditStatus,
             UpdateStackStatus(x, st) PROVE Guarded(e)'
  BY <1>19, <1>c DEF UpdateStackStatus, BudgetTypes
<1>20. ASSUME NEW x \in Stacks, UpdateStackActive(x) PROVE Guarded(e)'
  BY <1>20, <1>c DEF UpdateStackActive, BudgetTypes
<1>21. ASSUME NEW x \in Stacks, ClaimExpires(x) PROVE Guarded(e)'
  <2> Quiet
    BY <1>21 DEF ClaimExpires, Quiet
  <2> QED
    BY <1>q
<1>22. ASSUME Restart PROVE Guarded(e)'
  BY <1>22, <1>c DEF Restart, BudgetTypes
<1>23. CASE UNCHANGED vars
  <2> Quiet
    BY <1>23 DEF vars, Quiet
  <2> QED
    BY <1>q
<1> QED
  BY <1>1, <1>2, <1>3, <1>4, <1>5, <1>6, <1>7, <1>8, <1>9, <1>10, <1>11,
     <1>12, <1>13, <1>14, <1>15, <1>16, <1>17, <1>18, <1>19, <1>20, <1>21,
     <1>22, <1>23
  DEF Next, RequestStep, MonitorStep, ProgressStep, OperatorStep

(* Absent disturbances every dispatched deployment in progress is watched, *)
(* for any pool size: a full pool hands the watch to the watchdog.         *)
THEOREM DispatchedAreWatched == Spec => []Watched
<1> DEFINE AllGuarded == Undisturbed => \A d \in DepIds : Guarded(d)
<1>1. Init => AllGuarded
  BY DEF Init, Guarded
<1>2. Inv /\ AllGuarded /\ [Next]_vars => AllGuarded'
  <2> SUFFICES ASSUME Inv, AllGuarded, [Next]_vars, Undisturbed',
                      NEW e \in DepIds
               PROVE  Guarded(e)'
    OBVIOUS
  <2>1. Undisturbed
    <3>1. CASE Next
      BY <3>1, Calm DEF Inv
    <3>2. CASE UNCHANGED vars
      BY <3>2 DEF vars, budgets, Undisturbed
    <3> QED
      BY <3>1, <3>2
  <2> QED
    BY <2>1, NextGuarded
<1>3. Inv /\ AllGuarded => Watched
  BY DEF Inv, TypeOK, RowTypes, Guarded, Watched
<1> HIDE DEF AllGuarded
<1> QED
  BY InitInv, NextInv, <1>1, <1>2, <1>3, PTL DEF Spec

-----------------------------------------------------------------------------
(* Claims are not stranded.  A rollback's target belongs to the stack the  *)
(* rollback runs on, which is what Preflight read.                         *)
TargetsOwn == \A r \in Slots : target[r] # 0 => owner[target[r]] = onStack[r]

LEMMA NextTargets == Inv /\ TargetsOwn /\ [Next]_vars => TargetsOwn'
<1> SUFFICES ASSUME Inv, TargetsOwn, [Next]_vars PROVE TargetsOwn'
  OBVIOUS
<1> USE
  DEF Inv, TypeOK, RowTypes, RequestTypes, TargetsOwn, stackVars, depVars,
      reqVars, monVars, pumpVars, budgets, history
<1>1. CASE \E r \in Slots, s \in Stacks, t \in 0..MaxDeps : Preflight(r, s, t)
  BY <1>1 DEF Preflight
<1>2. CASE \E r \in Slots : CreateDeployment(r)
  BY <1>2 DEF CreateDeployment, RefsOK, Exists, DepIds
<1>3. ASSUME NEW r \in Slots, owner' = owner, Answer(r) PROVE TargetsOwn'
  BY <1>3 DEF Answer
<1>4. CASE \E r \in Slots : \/ ClaimRefused(r) \/ ReleaseStackClaim(r)
                            \/ DispatchFailed(r) \/ StartDeploymentMonitor(r)
  BY <1>3, <1>4 DEF ClaimRefused, ReleaseStackClaim, DispatchFailed,
     StartDeploymentMonitor
<1>5. CASE UNCHANGED <<owner, onStack, target>>
  BY <1>5
<1>6. ASSUME NEW r \in Slots,
             \/ ClaimStackForDeploy(r) \/ Dispatch(r) \/ MarkRolledBack(r)
      PROVE  UNCHANGED <<owner, onStack, target>>
  BY <1>6 DEF ClaimStackForDeploy, Dispatch, MarkRolledBack
<1>7. ASSUME NEW d \in DepIds, MonitorStep(d)
      PROVE  UNCHANGED <<owner, onStack, target>>
  BY <1>7 DEF MonitorStep, MonitorTimeout, MonitorTick, MonitorContinue,
     MonitorGiveUp
<1>8. ASSUME ProgressStep \/ OperatorStep \/ \E s \in Stacks : ClaimExpires(s)
      PROVE  UNCHANGED <<owner, onStack, target>>
  BY <1>8 DEF ProgressStep, ProgressTerminal, ProgressRead, ProgressWrite,
     OperatorStep, ApproveDeployment, DeleteStack, UpdateStackStatus,
     UpdateStackActive, ClaimExpires
<1>9. CASE Restart
  BY <1>9 DEF Restart
<1>10. CASE UNCHANGED vars
  BY <1>10 DEF vars
<1> QED
  BY <1>1, <1>2, <1>4, <1>5, <1>6, <1>7, <1>8, <1>9, <1>10
    DEF Next, RequestStep

(* No request that is past its claim and has yet to mark its target will   *)
(* mark d rolled back: d then stops holding its stack only by settling it. *)
Untargeted(d) ==
    \A r \in Slots : target[r] = d => pc[r] \notin {"claimed", "created", "sent"}

(* The stack is held by a request, or by a deployment that no rollback is  *)
(* about to take out from under it.  NoStrandedClaim's holder alone is not *)
(* inductive: MarkRolledBack ends a deployment without freeing the stack.  *)
Anchored(s) ==
    \/ \E r \in Slots : HoldsByRequest(r, s)
    \/ \E d \in DepIds : HoldsByDeployment(d, s) /\ Untargeted(d)

Secured(s) == s \in active /\ status[s] = "deploying" => Anchored(s)

(* A step that claims nothing and takes no anchor away.                    *)
AnchorsKept(s) ==
    /\ s \in active' => s \in active
    /\ status'[s] = "deploying" => status[s] = "deploying"
    /\ \A r \in Slots : HoldsByRequest(r, s) => HoldsByRequest(r, s)'
    /\ \A d \in DepIds : HoldsByDeployment(d, s) /\ Untargeted(d)
          => HoldsByDeployment(d, s)' /\ Untargeted(d)'

LEMMA AnchorsKeep ==
    ASSUME NEW s \in Stacks, Secured(s), AnchorsKept(s)
    PROVE  Secured(s)'
  BY DEF Secured, AnchorsKept, Anchored

(* Settling d frees its stack, or leaves every other stack's anchors.      *)
LEMMA SettleSecures ==
    ASSUME Inv, NEW d \in DepIds, NEW st \in Terminal, NEW s \in Stacks,
           Settle(d, st), ~Fault, Secured(s), UNCHANGED <<owner, sent, active>>,
           \A r \in Slots : pc[r] = "claimed" \/ (pc[r] = "created" /\ dep[r] # d)
                               => UNCHANGED <<pc[r], onStack[r], dep[r]>>,
           \A r \in Slots : pc'[r] \in {"claimed", "created", "sent"}
                               => UNCHANGED <<pc[r], target[r]>>
    PROVE  Secured(s)'
<1> USE DEF Inv, TypeOK, StackTypes, RowTypes
<1>1. CASE s = owner[d] /\ s \in active
  BY <1>1, SettleSettles DEF Secured
<1>2. CASE s \notin active
  BY <1>2 DEF Secured
<1>3. CASE s # owner[d]
  <2>1. status'[s] = status[s] /\ \A e \in DepIds : e # d => deploy'[e] = deploy[e]
    BY <1>3, SettleSettles
  <2>2. \A r \in Slots : HoldsByRequest(r, s) => HoldsByRequest(r, s)'
    BY DEF HoldsByRequest
  <2>3. ASSUME NEW e \in DepIds, HoldsByDeployment(e, s), Untargeted(e)
        PROVE  HoldsByDeployment(e, s)' /\ Untargeted(e)'
    <3>1. e # d /\ deploy'[e] = deploy[e]
      BY <1>3, <2>1, <2>3 DEF HoldsByDeployment
    <3>2. HoldsByDeployment(e, s)'
      BY <2>3, <3>1 DEF HoldsByDeployment
    <3>3. Untargeted(e)'
      BY <2>3 DEF Untargeted
    <3> QED
      BY <3>2, <3>3
  <2> AnchorsKept(s)
    BY <2>1, <2>2, <2>3 DEF AnchorsKept
  <2> QED
    BY AnchorsKeep
<1> QED
  BY <1>1, <1>2, <1>3

(* Every undisturbed step leaves the active stacks secured.                *)
LEMMA NextSecured ==
    ASSUME Inv, TargetsOwn, [Next]_vars, Undisturbed', NEW s \in Stacks,
           Secured(s)
    PROVE  Secured(s)'
<1> USE
  DEF Inv, TypeOK, StackTypes, RowTypes, RequestTypes, stackVars, depVars,
            reqVars, monVars, pumpVars, budgets, history
<1> DEFINE Quiet == AnchorsKept(s)
<1>q. Quiet => Secured(s)'
  BY AnchorsKeep
<1>c. ~Fault /\ crashes' = crashes /\ edits' = edits
  <2>1. CASE Next
    BY <2>1, Calm
  <2>2. CASE UNCHANGED vars
    BY <2>2 DEF vars, Fault, BudgetTypes
  <2> QED
    BY <2>1, <2>2
<1> USE DEF AnchorsKept, Untargeted, HoldsByRequest, HoldsByDeployment
<1> HIDE DEF Quiet
<1>1. ASSUME NEW r \in Slots, NEW x \in Stacks, NEW t \in 0..MaxDeps,
            Preflight(r, x, t) PROVE Secured(s)'
  <2> Quiet
    BY <1>1 DEF Preflight, Quiet
  <2> QED
    BY <1>q
<1>2. ASSUME NEW r \in Slots, ClaimStackForDeploy(r) PROVE Secured(s)'
  <2>1. CASE s = onStack[r]
    <3>1. HoldsByRequest(r, s)'
      BY <1>2, <2>1 DEF ClaimStackForDeploy
    <3> QED
      BY <3>1 DEF Secured, Anchored
  <2>2. CASE s # onStack[r]
    \* The request's target lies on its own stack, so anchors none of s.
    <3>1. ASSUME NEW d \in DepIds, HoldsByDeployment(d, s), target[r] = d
          PROVE  FALSE
      <4>1. d # 0
        BY BoundsAssumption DEF DepIds
      <4>2. owner[d] = onStack[r]
        BY <3>1, <4>1 DEF TargetsOwn
      <4> QED
        BY <2>2, <3>1, <4>2
    <3>2. \A d \in DepIds : HoldsByDeployment(d, s) => HoldsByDeployment(d, s)'
      BY <1>2 DEF ClaimStackForDeploy
    <3>3. \A d \in DepIds : HoldsByDeployment(d, s) /\ Untargeted(d)
                              => Untargeted(d)'
      BY <1>2, <3>1 DEF ClaimStackForDeploy
    <3> Quiet
      BY <1>2, <2>2, <3>2, <3>3 DEF ClaimStackForDeploy, Quiet
    <3> QED
      BY <1>q
  <2> QED
    BY <2>1, <2>2
<1>3. ASSUME NEW r \in Slots, ClaimRefused(r) PROVE Secured(s)'
  <2> Quiet
    BY <1>3 DEF ClaimRefused, Answer, Quiet
  <2> QED
    BY <1>q
<1>4. ASSUME NEW r \in Slots, ReleaseStackClaim(r) PROVE Secured(s)'
  <2>1. CASE s = onStack[r]
    BY <1>4, <1>c, <2>1 DEF ReleaseStackClaim, WriteStackStatus, Secured
  <2>2. CASE s # onStack[r]
    <3> Quiet
      BY <1>4, <2>2 DEF ReleaseStackClaim, WriteStackStatus, Answer, Quiet
    <3> QED
      BY <1>q
  <2> QED
    BY <2>1, <2>2
<1>5. ASSUME NEW r \in Slots, CreateDeployment(r) PROVE Secured(s)'
  <2>1. CASE s = onStack[r]
    \* The request hands over to a row so new that no rollback targets it.
    <3>1. PICK n \in DepIds : n = next
      BY <1>5 DEF CreateDeployment
    <3>2. HoldsByDeployment(n, s)'
      BY <1>5, <2>1, <3>1 DEF CreateDeployment, InProgress
    <3>3. \A q \in Slots : target[q] # n
      <4>1. n # 0 /\ ~(n < n)
        BY BoundsAssumption DEF DepIds
      <4> QED
        BY <3>1, <4>1 DEF RefsOK, Exists
    <3>4. Untargeted(n)'
      BY <1>5, <3>3 DEF CreateDeployment
    <3> QED
      BY <3>2, <3>4 DEF Secured, Anchored
  <2>2. CASE s # onStack[r]
    <3>1. \A d \in DepIds : HoldsByDeployment(d, s) => d # next
      BY <1>5 DEF CreateDeployment, RefsOK, InProgress, DepIds
    <3>2. \A d \in DepIds : HoldsByDeployment(d, s) => HoldsByDeployment(d, s)'
      BY <1>5, <3>1 DEF CreateDeployment
    <3>3. \A d \in DepIds : Untargeted(d) => Untargeted(d)'
      BY <1>5 DEF CreateDeployment
    <3> Quiet
      BY <1>5, <2>2, <3>2, <3>3 DEF CreateDeployment, Quiet
    <3> QED
      BY <1>q
  <2> QED
    BY <2>1, <2>2
<1>6. ASSUME NEW r \in Slots, Dispatch(r) PROVE Secured(s)'
  <2> Quiet
    BY <1>6 DEF Dispatch, Quiet
  <2> QED
    BY <1>q
<1>7. ASSUME NEW r \in Slots, DispatchFailed(r) PROVE Secured(s)'
  <2>1. dep[r] \in DepIds /\ Settle(dep[r], "failed") /\ "failed" \in Terminal
    BY <1>7 DEF DispatchFailed, RefsOK, Exists, Terminal
  <2>2. /\ \A q \in Slots :
              pc[q] = "claimed" \/ (pc[q] = "created" /\ dep[q] # dep[r])
                 => UNCHANGED <<pc[q], onStack[q], dep[q]>>
        /\ \A q \in Slots : pc'[q] \in {"claimed", "created", "sent"}
                 => UNCHANGED <<pc[q], target[q]>>
    BY <1>7 DEF DispatchFailed, Answer
  <2> QED
    BY <1>7, <1>c, <2>1, <2>2, SettleSecures DEF DispatchFailed
<1>8. ASSUME NEW r \in Slots, MarkRolledBack(r) PROVE Secured(s)'
  <2>1. \A d \in DepIds : Untargeted(d) => d # target[r]
    BY <1>8 DEF MarkRolledBack
  <2>2. \A d \in DepIds : HoldsByDeployment(d, s) /\ Untargeted(d)
                            => HoldsByDeployment(d, s)'
    BY <1>8, <2>1 DEF MarkRolledBack
  <2>3. \A d \in DepIds : Untargeted(d) => Untargeted(d)'
    BY <1>8 DEF MarkRolledBack
  <2> Quiet
    BY <1>8, <2>2, <2>3 DEF MarkRolledBack, Quiet
  <2> QED
    BY <1>q
<1>9. ASSUME NEW r \in Slots, StartDeploymentMonitor(r) PROVE Secured(s)'
  <2> Quiet
    BY <1>9 DEF StartDeploymentMonitor, Answer, Quiet
  <2> QED
    BY <1>q
<1>10. ASSUME NEW d \in DepIds, MonitorTimeout(d) PROVE Secured(s)'
  BY <1>10, <1>c, SettleSecures DEF MonitorTimeout, Terminal
<1>11. ASSUME NEW d \in DepIds, MonitorTick(d) PROVE Secured(s)'
  <2> Quiet
    BY <1>11 DEF MonitorTick, Quiet
  <2> QED
    BY <1>q
<1>12. ASSUME NEW d \in DepIds, MonitorContinue(d) PROVE Secured(s)'
  <2> Quiet
    BY <1>12 DEF MonitorContinue, Quiet
  <2> QED
    BY <1>q
<1>13. ASSUME NEW d \in DepIds, MonitorGiveUp(d) PROVE Secured(s)'
  BY <1>13, <1>c, SettleSecures DEF MonitorGiveUp, Terminal
<1>14. ASSUME NEW d \in DepIds, NEW st \in Terminal,
             ProgressTerminal(d, st) PROVE Secured(s)'
  BY <1>14, <1>c, SettleSecures DEF ProgressTerminal, Terminal
<1>15. ASSUME NEW p \in Pumps, NEW d \in DepIds, NEW st \in Progress,
             ProgressRead(p, d, st) PROVE Secured(s)'
  <2> Quiet
    BY <1>15 DEF ProgressRead, Quiet
  <2> QED
    BY <1>q
<1>16. ASSUME NEW p \in Pumps, ProgressWrite(p) PROVE Secured(s)'
  <2>1. \A d \in DepIds : deploy[d] \in InProgress => deploy'[d] \in InProgress
    BY <1>16 DEF ProgressWrite, PumpTypes, Progress, InProgress
  <2> Quiet
    BY <1>16, <2>1 DEF ProgressWrite, Quiet
  <2> QED
    BY <1>q
<1>17. ASSUME NEW d \in DepIds, ApproveDeployment(d) PROVE Secured(s)'
  <2> Quiet
    BY <1>17 DEF ApproveDeployment, InProgress, Quiet
  <2> QED
    BY <1>q
<1>18. ASSUME NEW x \in Stacks, DeleteStack(x) PROVE Secured(s)'
  <2>1. CASE s = x
    BY <1>18, <2>1 DEF DeleteStack, Secured
  <2>2. CASE s # x
    <3> Quiet
      BY <1>18, <2>2 DEF DeleteStack, Quiet
    <3> QED
      BY <1>q
  <2> QED
    BY <2>1, <2>2
<1>19. ASSUME NEW x \in Stacks, NEW st \in EditStatus,
             UpdateStackStatus(x, st) PROVE Secured(s)'
  BY <1>19, <1>c DEF UpdateStackStatus, BudgetTypes
<1>20. ASSUME NEW x \in Stacks, UpdateStackActive(x) PROVE Secured(s)'
  BY <1>20, <1>c DEF UpdateStackActive, BudgetTypes
<1>21. ASSUME NEW x \in Stacks, ClaimExpires(x) PROVE Secured(s)'
  <2> Quiet
    BY <1>21 DEF ClaimExpires, Quiet
  <2> QED
    BY <1>q
<1>22. ASSUME Restart PROVE Secured(s)'
  BY <1>22, <1>c DEF Restart, BudgetTypes
<1>23. CASE UNCHANGED vars
  <2> Quiet
    BY <1>23 DEF vars, Quiet
  <2> QED
    BY <1>q
<1> QED
  BY <1>1, <1>2, <1>3, <1>4, <1>5, <1>6, <1>7, <1>8, <1>9, <1>10, <1>11,
     <1>12, <1>13, <1>14, <1>15, <1>16, <1>17, <1>18, <1>19, <1>20, <1>21,
     <1>22, <1>23
  DEF Next, RequestStep, MonitorStep, ProgressStep, OperatorStep

(* Absent disturbances no stack stays claimed without a request or a       *)
(* deployment that will free it, whatever rollbacks, late reports, stale   *)
(* claims and force-fails come in between.                                 *)
THEOREM ClaimsNotStranded == Spec => []NoStrandedClaim
<1> DEFINE AllSecured == Undisturbed => \A s \in Stacks : Secured(s)
<1>1. Init => AllSecured /\ TargetsOwn
  BY DEF Init, Secured, TargetsOwn
<1>2. Inv /\ TargetsOwn /\ AllSecured /\ [Next]_vars => AllSecured'
  <2> SUFFICES ASSUME Inv, TargetsOwn, AllSecured, [Next]_vars, Undisturbed',
                      NEW s \in Stacks
               PROVE  Secured(s)'
    OBVIOUS
  <2>1. Undisturbed
    <3>1. CASE Next
      BY <3>1, Calm DEF Inv
    <3>2. CASE UNCHANGED vars
      BY <3>2 DEF vars, budgets, Undisturbed
    <3> QED
      BY <3>1, <3>2
  <2> QED
    BY <2>1, NextSecured
<1>3. AllSecured => NoStrandedClaim
  BY DEF Secured, Anchored, NoStrandedClaim, Held, HeldBesides
<1> HIDE DEF AllSecured
<1> QED
  BY InitInv, NextInv, NextTargets, <1>1, <1>2, <1>3, PTL DEF Spec
=============================================================================
