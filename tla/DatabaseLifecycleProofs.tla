---------------------- MODULE DatabaseLifecycleProofs ----------------------
(***************************************************************************)
(* Proofs about DatabaseLifecycle for every set of hands and of kinds and  *)
(* every bound.                                                            *)
(***************************************************************************)
EXTENDS DatabaseLifecycle, TLAPS

(* A hand at the setting of a health has one to set.  The type invariant   *)
(* needs this to be inductive.                                             *)
Sound == {j \in Jobs : j.at = "health" => j.after # "keep"}

(* What a hand may be given without coming to stand before the retiring of *)
(* the row.                                                                *)
Safe(j) == j \in Sound /\ j.at # "retire"

(* A hand with nothing to do is sound.                                     *)
LEMMA IdleJob == Safe(Idle)
  BY DEF Idle, Safe, Sound, Jobs, States, Statuses, Codes

(* A hand given a Transition stands before its load.                       *)
LEMMA TransitionJob ==
    ASSUME NEW to \in Statuses, NEW err \in Codes
    PROVE  Safe(Transition(to, err)) /\ Transition(to, err).at = "load"
  BY DEF Transition, Idle, Safe, Sound, Jobs, States

(* So is a hand given a SetHealth.                                         *)
LEMMA HealthJob ==
    ASSUME NEW hs \in {"keep", "none", "up"}
    PROVE  Safe(SettingHealth(hs))
  BY IdleJob DEF SettingHealth, Idle, Safe, Sound, Jobs, States, Statuses, Codes

(* What a load hands on to its write is sound.                             *)
LEMMA WriteJob ==
    ASSUME NEW j \in Sound, NEW c \in BOOLEAN, NEW w \in BOOLEAN
    PROVE  Safe([j EXCEPT !.at = "write", !.clear = c, !.wipe = w])
  BY DEF Safe, Sound, Jobs

(* So are the Transitions of the reconciler's running branch.              *)
LEMMA StartedJob ==
    ASSUME NEW to \in Statuses, NEW b \in BOOLEAN,
           NEW hs \in {"keep", "none", "up"}
    PROVE  /\ Safe([Transition(to, "none") EXCEPT !.started = b])
           /\ Safe([Transition(to, "none") EXCEPT !.started = b, !.after = hs])
  BY DEF Transition, Idle, Safe, Sound, Jobs, States, Codes

(* And what the replies, the sweeps and the sync reports begin.            *)
LEMMA OtherJobs ==
    /\ Safe([Transition("stopped", "none") EXCEPT !.after = "none"])
    /\ Safe([Transition("error", "other") EXCEPT !.at = "unhealth"])
    /\ Safe([Idle EXCEPT !.at = "clear"])
    /\ Safe([Idle EXCEPT !.at = "clear", !.snapshot = TRUE])
    /\ \A err \in Codes : Safe([Idle EXCEPT !.at = "warn", !.err = err])
    /\ \A st \in States : Safe([Idle EXCEPT !.at = "list", !.seen = st])
  <1>1. Safe([Transition("stopped", "none") EXCEPT !.after = "none"])
    BY DEF Transition, Idle, Safe, Sound, Jobs, States, Statuses, Codes
  <1>2. Safe([Transition("error", "other") EXCEPT !.at = "unhealth"])
    BY DEF Transition, Idle, Safe, Sound, Jobs, States, Statuses, Codes
  <1>3. /\ Safe([Idle EXCEPT !.at = "clear"])
        /\ Safe([Idle EXCEPT !.at = "clear", !.snapshot = TRUE])
    BY DEF Idle, Safe, Sound, Jobs, States, Statuses, Codes
  <1>4. ASSUME NEW err \in Codes PROVE Safe([Idle EXCEPT !.at = "warn", !.err = err])
    BY DEF Idle, Safe, Sound, Jobs, States, Statuses, Codes
  <1>5. ASSUME NEW st \in States PROVE Safe([Idle EXCEPT !.at = "list", !.seen = st])
    BY DEF Idle, Safe, Sound, Jobs, States, Statuses, Codes
  <1> QED BY <1>1, <1>2, <1>3, <1>4, <1>5

(* FinalizeDeletion leaves its hand sound, before the retiring.            *)
LEMMA RetireJob == [Idle EXCEPT !.at = "retire"] \in Sound
  BY DEF Idle, Sound, Jobs, States, Statuses, Codes

(* The hands after a step: each has a sound job, and none has come to      *)
(* stand before the retiring of the row.                                   *)
HandsKept ==
    /\ job' \in [Hands -> Sound]
    /\ \A g \in Hands : job'[g].at = "retire" => job[g].at = "retire"

(* Giving a hand a safe job keeps the hands.                               *)
LEMMA BecomeKeeps ==
    ASSUME job \in [Hands -> Sound], NEW h \in Hands, NEW j, Safe(j),
           Become(h, j)
    PROVE  HandsKept
  BY DEF Become, Safe, HandsKept

(* So does ending a job.                                                   *)
LEMMA FinishKeeps ==
    ASSUME job \in [Hands -> Sound], NEW h \in Hands, Finish(h)
    PROVE  HandsKept
  BY IdleJob DEF Finish, Safe, HandsKept

(* So does moving to the next step of one.                                 *)
LEMMA GotoKeeps ==
    ASSUME job \in [Hands -> Sound], NEW h \in Hands,
           NEW step \in {"create", "list", "load", "purge", "snap", "flag",
                         "clearWrite", "pending", "unflag", "finalSend",
                         "warnWrite"},
           Goto(h, step)
    PROVE  HandsKept
  BY DEF Goto, Sound, Jobs, HandsKept

-----------------------------------------------------------------------------
(* The inductive invariant behind RetiredIsGone.  The confirmation that    *)
(* the volume is gone is trusted three times: while it waits to be         *)
(* handled, while a hand stands before retiring the row, and ever after.   *)
(* All that time nothing may bring the container back: no create command   *)
(* is waiting, and none can be sent, because a delete has been asked for.  *)
Destroyed ==
    asked /\ container = "absent" /\ ~volume /\ "create" \notin commands

TypeInv == TypeOK /\ job \in [Hands -> Sound]

GoneInv ==
    /\ "purge" \in commands => asked
    /\ ~abandoned =>
          /\ "purge_done" \in inbox => Destroyed
          /\ row = "retired" => Destroyed
          /\ \A h \in Hands : job[h].at = "retire" => Destroyed

(* A step that neither confirms a removal nor retires the row, and brings  *)
(* nothing back.                                                           *)
Harmless ==
    /\ TypeOK' /\ HandsKept
    /\ row' = "retired" => row = "retired"
    /\ "purge_done" \in inbox' => "purge_done" \in inbox
    /\ abandoned => abandoned'
    /\ Destroyed /\ ~abandoned' => Destroyed'
    /\ ("purge" \in commands => asked) => ("purge" \in commands' => asked')

(* Such a step keeps the invariant.                                        *)
LEMMA HarmlessKeeps ==
    ASSUME GoneInv, Harmless
    PROVE  GoneInv'
  BY DEF GoneInv, Harmless, HandsKept

(* Initially nothing has been asked for.                                   *)
LEMMA InitInv == Init => TypeInv /\ GoneInv
<1> SUFFICES ASSUME Init PROVE TypeInv /\ GoneInv
  OBVIOUS
<1>1. RowTypes
  BY KindsAssumption DEF Init, RowTypes, Statuses, Codes
<1>2. WorkerTypes
  BY KindsAssumption DEF Init, WorkerTypes, States
<1>3. job \in [Hands -> Sound] /\ job \in [Hands -> Jobs]
  BY IdleJob DEF Init, Safe, Sound
<1>4. faults \in 0..MaxFaults
  BY KindsAssumption DEF Init
<1>6. asked \in BOOLEAN /\ abandoned \in BOOLEAN
  BY Zenon DEF Init
<1>5. GoneInv
  <2>1. commands = {} /\ inbox = {} /\ row # "retired"
    BY DEF Init
  <2>2. \A h \in Hands : job[h].at # "retire"
    BY IdleJob DEF Init, Safe
  <2> QED
    BY <2>1, <2>2 DEF GoneInv
<1> QED
  BY <1>1, <1>2, <1>3, <1>4, <1>5, <1>6 DEF TypeInv, TypeOK

(* Handlers' common steps.                                                 *)
LEMMA TransitionHarmless ==
    ASSUME TypeInv, NEW h \in Hands, TransitionStep(h)
    PROVE  Harmless
<1> USE DEF TypeInv, TypeOK, RowTypes, WorkerTypes, rowVars, workerVars, history
<1>0. job[h] \in Sound
  OBVIOUS
<1>1. CASE TransitionLoad(h)
  <2> DEFINE j == job[h]
             clear == /\ j.err = "none" /\ lastError # "none"
                      /\ j.to \in {"running", "stopped"}
             wipe == /\ j.to \notin {"running", "degraded"}
                     /\ health # "none"
             k == [j EXCEPT !.at = "write", !.clear = clear, !.wipe = wipe]
  <2>0. clear \in BOOLEAN /\ wipe \in BOOLEAN
    BY Zenon
  <2> HIDE DEF clear, wipe
  <2>1. Safe(k)
    BY <1>0, <2>0, WriteJob
  <2>2. Safe(SettingHealth(j.after))
    BY <1>0, HealthJob DEF Safe, Sound, Jobs
  <2>3. Become(h, k) \/ Become(h, SettingHealth(j.after))
    BY <1>1, Zenon DEF TransitionLoad, clear, wipe
  <2>4. HandsKept
    BY <2>1, <2>2, <2>3, BecomeKeeps
  <2>5. UNCHANGED <<rowVars, workerVars, copies, faults, history>>
    BY <1>1 DEF TransitionLoad
  <2> QED
    BY <2>4, <2>5 DEF Harmless, Destroyed, HandsKept, Sound
<1>2. CASE TransitionWrite(h)
  <2> DEFINE j == job[h]
             done == IF j.wipe /\ row = "active" THEN "none" ELSE j.after
  <2>1. /\ j.to \in Statuses /\ j.err \in Codes
        /\ j.after \in {"keep", "none", "up"}
    BY <1>0 DEF Sound, Jobs
  <2>2. Safe(SettingHealth(done)) /\ Safe(SettingHealth(j.after))
    BY <2>1, HealthJob DEF Safe
  <2>3. Become(h, SettingHealth(done)) \/ Become(h, SettingHealth(j.after))
    BY <1>2 DEF TransitionWrite
  <2>4. HandsKept
    BY <2>2, <2>3, BecomeKeeps
  <2>5. status' \in Statuses /\ lastError' \in Codes /\ faults' \in 0..MaxFaults
    BY <1>2, <2>1, KindsAssumption DEF TransitionWrite, Fault, Codes
  <2> QED
    BY <1>2, <2>4, <2>5
    DEF TransitionWrite, Harmless, Destroyed, HandsKept, Sound
<1>3. CASE SetHealth(h)
  <2>1. HandsKept
    BY <1>3, FinishKeeps DEF SetHealth
  <2>2. health' \in {"none", "up"}
    BY <1>0, <1>3 DEF SetHealth, At, Sound, Jobs
  <2> QED
    BY <1>3, <2>1, <2>2 DEF SetHealth, Harmless, Destroyed, HandsKept, Sound
<1> QED
  BY <1>1, <1>2, <1>3 DEF TransitionStep

(* A step in which only the hand's own job changes.                        *)
LEMMA OnlyJob ==
    ASSUME TypeInv, HandsKept,
           UNCHANGED <<rowVars, workerVars, copies, faults, history>>
    PROVE  Harmless
  BY DEF TypeInv, TypeOK, RowTypes, WorkerTypes, rowVars, workerVars, history,
         Harmless, Destroyed, HandsKept, Sound

(* The steps of SetWarning and ClearWarning are harmless.                  *)
LEMMA WarningHarmless ==
    ASSUME TypeInv, NEW h \in Hands, WarningStep(h)
    PROVE  Harmless
<1>0. job \in [Hands -> Sound] /\ job[h] \in Sound
  BY DEF TypeInv
<1>1. CASE WarningLoad(h)
  <2>1. HandsKept
    BY <1>0, <1>1, FinishKeeps, GotoKeeps DEF WarningLoad
  <2> QED
    BY <1>1, <2>1, OnlyJob DEF WarningLoad
<1>2. CASE WarningWrite(h)
  <2>1. HandsKept
    BY <1>0, <1>2, FinishKeeps DEF WarningWrite
  <2>2. lastError' \in Codes /\ faults' \in 0..MaxFaults
    BY <1>0, <1>2, KindsAssumption
    DEF WarningWrite, Fault, TypeInv, TypeOK, RowTypes, Sound, Jobs
  <2> QED
    BY <1>2, <2>1, <2>2
    DEF WarningWrite, TypeInv, TypeOK, RowTypes, WorkerTypes, rowVars,
        workerVars, history, Harmless, Destroyed, HandsKept, Sound
<1>3. CASE ClearLoad(h)
  <2>1. HandsKept
    BY <1>0, <1>3, FinishKeeps, GotoKeeps DEF ClearLoad
  <2> QED
    BY <1>3, <2>1, OnlyJob DEF ClearLoad
<1>4. CASE ClearWrite(h)
  <2>1. HandsKept
    BY <1>0, <1>4, FinishKeeps, GotoKeeps DEF ClearWrite
  <2>2. lastError' \in Codes /\ faults' \in 0..MaxFaults
    BY <1>0, <1>4, KindsAssumption
    DEF ClearWrite, Fault, TypeInv, TypeOK, RowTypes, Codes
  <2> QED
    BY <1>4, <2>1, <2>2
    DEF ClearWrite, TypeInv, TypeOK, RowTypes, WorkerTypes, rowVars,
        workerVars, history, Harmless, Destroyed, HandsKept, Sound
<1> QED
  BY <1>1, <1>2, <1>3, <1>4 DEF WarningStep

(* The HTTP requests.  A create sent after a delete was asked for makes    *)
(* the instance an abandoned one.                                          *)
LEMMA RequestHarmless ==
    ASSUME TypeInv, NEW h \in Hands, RequestStep(h)
    PROVE  Harmless
<1>0. job \in [Hands -> Sound]
  BY DEF TypeInv
<1>1. CASE CreateInstance(h)
  <2>1. HandsKept
    BY <1>0, <1>1, GotoKeeps DEF CreateInstance
  <2> QED
    BY <1>1, <2>1
    DEF CreateInstance, TypeInv, TypeOK, RowTypes, WorkerTypes, workerVars,
        history, Harmless, Destroyed, HandsKept, Sound
<1>2. CASE SendCreate(h)
  <2>1. HandsKept
    BY <1>0, <1>2, FinishKeeps DEF SendCreate
  <2>0. /\ commands' \in {commands, commands \cup {"create"}}
        /\ status' \in {status, "error"} /\ lastError' \in {lastError, "other"}
        /\ UNCHANGED faults \/ Fault
        /\ UNCHANGED <<row, health, pendingFinal, protected, container, volume,
                       inbox, taking, copies, asked>>
    BY <1>2, Zenon DEF SendCreate, Send
  <2>2. RowTypes' /\ WorkerTypes' /\ faults' \in 0..MaxFaults
    BY <2>0, KindsAssumption
    DEF Fault, TypeInv, TypeOK, RowTypes, WorkerTypes, Commands, Statuses, Codes
  <2>3. abandoned' \in BOOLEAN /\ (abandoned => abandoned')
    <3>1. CASE abandoned' = (abandoned \/ asked)
      BY <3>1, Zenon
    <3>2. CASE UNCHANGED abandoned
      BY <3>2 DEF TypeInv, TypeOK
    <3> QED
      BY <1>2, <3>1, <3>2 DEF SendCreate
  <2>4. Destroyed /\ ~abandoned' => Destroyed'
    <3>1. CASE abandoned' = (abandoned \/ asked)
      BY <3>1, Zenon DEF Destroyed
    <3>2. CASE UNCHANGED commands
      BY <1>2, <3>2 DEF SendCreate, Destroyed
    <3> QED
      BY <1>2, <3>1, <3>2 DEF SendCreate
  <2>5. "purge" \in commands' => "purge" \in commands
    BY <1>2 DEF SendCreate, Send
  <2> QED
    BY <1>2, <2>1, <2>2, <2>3, <2>4, <2>5
    DEF SendCreate, TypeInv, TypeOK, Harmless, HandsKept, Sound
<1>3. CASE DeleteRead(h)
  <2>1. HandsKept
    BY <1>0, <1>3, GotoKeeps DEF DeleteRead
  <2> QED
    BY <1>3, <2>1, OnlyJob DEF DeleteRead
<1>4. CASE DeleteSend(h)
  <2>1. HandsKept
    BY <1>0, <1>4, FinishKeeps, BecomeKeeps, TransitionJob
    DEF DeleteSend, Statuses, Codes
  <2>2. RowTypes' /\ WorkerTypes'
    BY <1>4
    DEF DeleteSend, Send, TypeInv, TypeOK, RowTypes, WorkerTypes, Commands,
        rowVars
  <2>3. /\ asked' \in BOOLEAN /\ (asked => asked')
        /\ "purge" \in commands' => "purge" \in commands \/ asked'
    <3>1. CASE asked' = TRUE
      BY <3>1, Zenon
    <3>2. CASE UNCHANGED <<commands, asked>>
      BY <3>2 DEF TypeInv, TypeOK
    <3> QED
      BY <1>4, <3>1, <3>2, Zenon DEF DeleteSend
  <2>4. "create" \in commands' => "create" \in commands
    BY <1>4 DEF DeleteSend, Send
  <2> QED
    BY <1>4, <2>1, <2>2, <2>3, <2>4
    DEF DeleteSend, rowVars, TypeInv, TypeOK, Harmless, Destroyed, HandsKept,
        Sound
<1>5. CASE FinalRead(h)
  <2>1. HandsKept
    BY <1>0, <1>5, GotoKeeps DEF FinalRead
  <2> QED
    BY <1>5, <2>1, OnlyJob DEF FinalRead
<1>6. CASE FinalStart(h)
  <2>1. HandsKept
    BY <1>0, <1>6, GotoKeeps, FinishKeeps DEF FinalStart
  <2> QED
    BY <1>6, <2>1
    DEF FinalStart, TypeInv, TypeOK, RowTypes, WorkerTypes, Purposes, rowVars,
        history, Harmless, Destroyed, HandsKept, Sound
<1>7. CASE FinalFlag(h)
  <2>1. HandsKept
    BY <1>0, <1>7, FinishKeeps DEF FinalFlag
  <2>2. faults' \in 0..MaxFaults
    BY <1>7, KindsAssumption DEF FinalFlag, Fault, TypeInv, TypeOK
  <2> QED
    BY <1>7, <2>1, <2>2
    DEF FinalFlag, TypeInv, TypeOK, RowTypes, WorkerTypes, workerVars, history,
        Harmless, Destroyed, HandsKept, Sound
<1> QED
  BY <1>1, <1>2, <1>3, <1>4, <1>5, <1>6, <1>7 DEF RequestStep

(* A handler that has taken a message and only changed its own job.        *)
LEMMA TakeHarmless ==
    ASSUME TypeInv, HandsKept, NEW h \in Hands, NEW m, Take(h, m),
           HandlerUntouched
    PROVE  Harmless
  BY DEF Take, HandlerUntouched, TypeInv, TypeOK, RowTypes, WorkerTypes,
         rowVars, history, Harmless, Destroyed, HandsKept, Sound

(* The replies that do not finish a delete.                                *)
LEMMA ReplyHarmless ==
    ASSUME TypeInv, NEW h \in Hands, NEW m \in Messages,
           \/ ReplyAck(h) \/ HandleHealth(h) \/ ReplyIgnored(h, m)
           \/ ReplyCompleted(h, m) \/ ReplyFailed(h, m)
    PROVE  Harmless
<1>0. job \in [Hands -> Sound]
  BY DEF TypeInv
<1>1. CASE ReplyAck(h)
  <2>1. Safe(Transition("provisioning", "none"))
    BY TransitionJob DEF Statuses, Codes
  <2>2. HandsKept
    BY <1>0, <1>1, <2>1, BecomeKeeps DEF ReplyAck
  <2> QED
    BY <1>1, <2>2, TakeHarmless DEF ReplyAck
<1>2. CASE HandleHealth(h)
  <2>1. HandsKept
    BY <1>0, <1>2, HealthJob, BecomeKeeps DEF HandleHealth
  <2> QED
    BY <1>2, <2>1, TakeHarmless DEF HandleHealth
<1>3. CASE ReplyIgnored(h, m)
  <2>1. HandsKept
    BY <1>0, <1>3 DEF ReplyIgnored, HandsKept
  <2> QED
    BY <1>3, <2>1, TakeHarmless DEF ReplyIgnored
<1>4. CASE ReplyCompleted(h, m)
  <2> DEFINE to == dbActionOutcome(m)
             b == (to = "running")
  <2>1. to \in Statuses
    BY DEF dbActionOutcome, Statuses
  <2>2. b \in BOOLEAN
    BY Zenon
  <2>3. Become(h, [Transition(to, "none") EXCEPT !.started = b])
    BY <1>4, Zenon DEF ReplyCompleted
  <2> HIDE DEF to, b
  <2>4. Safe([Transition(to, "none") EXCEPT !.started = b])
    BY <2>1, <2>2, StartedJob
  <2>5. HandsKept
    BY <1>0, <2>3, <2>4, BecomeKeeps
  <2> QED
    BY <1>4, <2>5, TakeHarmless DEF ReplyCompleted
<1>5. CASE ReplyFailed(h, m)
  <2>1. /\ Safe(Transition("stopped", "none"))
        /\ Safe(Transition("error", dbActionFailureCode(m)))
    BY TransitionJob DEF dbActionFailureCode, Statuses, Codes
  <2>2. \/ Become(h, Transition("stopped", "none"))
        \/ Become(h, Transition("error", dbActionFailureCode(m)))
    BY <1>5 DEF ReplyFailed
  <2>3. HandsKept
    BY <1>0, <2>1, <2>2, BecomeKeeps
  <2> QED
    BY <1>5, <2>3, TakeHarmless DEF ReplyFailed
<1> QED
  BY <1>1, <1>2, <1>3, <1>4, <1>5

(* The db_snapshot_status handler and the delete it may carry on.          *)
LEMMA SnapshotHarmless ==
    ASSUME TypeInv, NEW h \in Hands, SnapshotStep(h)
    PROVE  Harmless
<1>0. job \in [Hands -> Sound]
  BY DEF TypeInv
<1>1. ASSUME NEW k \in Purposes, SnapshotCompleted(h, k)
      PROVE  Harmless
  <2>1. HandsKept
    <3>1. CASE Become(h, [Idle EXCEPT !.at = "clear", !.snapshot = TRUE])
      BY <1>0, <3>1, OtherJobs, BecomeKeeps
    <3>2. CASE UNCHANGED job
      BY <1>0, <3>2 DEF HandsKept
    <3> QED
      BY <1>1, <3>1, <3>2, Zenon DEF SnapshotCompleted
  <2>2. /\ inbox' \subseteq inbox
        /\ copies' \in {copies, copies \cup {k}}
        /\ UNCHANGED faults \/ Fault
        /\ UNCHANGED <<rowVars, container, volume, commands, taking, history>>
    BY <1>1, Zenon DEF SnapshotCompleted, Take
  <2>3. faults' \in 0..MaxFaults
    BY <2>2, KindsAssumption DEF Fault, TypeInv, TypeOK
  <2> QED
    BY <2>1, <2>2, <2>3
    DEF TypeInv, TypeOK, RowTypes, WorkerTypes, rowVars, history, Harmless,
        Destroyed, HandsKept, Sound
<1>2. CASE PendingRead(h)
  <2>1. HandsKept
    BY <1>0, <1>2, GotoKeeps, FinishKeeps DEF PendingRead
  <2> QED
    BY <1>2, <2>1, OnlyJob DEF PendingRead
<1>3. CASE PendingClear(h)
  <2>1. HandsKept
    BY <1>0, <1>3, GotoKeeps, FinishKeeps DEF PendingClear
  <2>2. faults' \in 0..MaxFaults
    BY <1>3, KindsAssumption DEF PendingClear, Fault, TypeInv, TypeOK
  <2> QED
    BY <1>3, <2>1, <2>2
    DEF PendingClear, TypeInv, TypeOK, RowTypes, WorkerTypes, workerVars,
        history, Harmless, Destroyed, HandsKept, Sound
<1>4. CASE PendingSend(h)
  <2>1. /\ Safe(Transition("deleting", "none"))
        /\ Safe([Idle EXCEPT !.at = "warn", !.err = "remove_failed"])
    BY TransitionJob, OtherJobs DEF Statuses, Codes
  <2>2. HandsKept
    BY <1>0, <1>4, <2>1, FinishKeeps, BecomeKeeps DEF PendingSend
  <2>3. /\ commands' \in {commands, commands \cup {"purge"}}
        /\ UNCHANGED <<commands, asked>> \/ asked' = TRUE
        /\ UNCHANGED <<rowVars, container, volume, inbox, taking, copies,
                       faults, abandoned>>
    BY <1>4, Zenon DEF PendingSend, Send
  <2>4. RowTypes' /\ WorkerTypes'
    BY <2>3 DEF TypeInv, TypeOK, RowTypes, WorkerTypes, Commands, rowVars
  <2>5. /\ asked' \in BOOLEAN /\ (asked => asked')
        /\ "purge" \in commands' => "purge" \in commands \/ asked'
    <3>1. CASE asked' = TRUE
      BY <3>1, Zenon
    <3>2. CASE UNCHANGED <<commands, asked>>
      BY <3>2 DEF TypeInv, TypeOK
    <3> QED
      BY <2>3, <3>1, <3>2
  <2> QED
    BY <2>2, <2>3, <2>4, <2>5
    DEF rowVars, TypeInv, TypeOK, Harmless, Destroyed, HandsKept, Sound
<1> QED
  BY <1>1, <1>2, <1>3, <1>4 DEF SnapshotStep

(* The reconciler's report, the watchdog and the freshness sweep.          *)
LEMMA LoopHarmless ==
    ASSUME TypeInv, NEW h \in Hands, LoopStep(h)
    PROVE  Harmless
<1>0. job \in [Hands -> Sound]
  BY DEF TypeInv
<1>1. CASE SyncReport(h)
  <2>1. Safe([Idle EXCEPT !.at = "list", !.seen = container])
    BY OtherJobs DEF TypeInv, TypeOK, WorkerTypes
  <2>2. HandsKept
    BY <1>0, <1>1, <2>1, BecomeKeeps DEF SyncReport
  <2> QED
    BY <1>1, <2>2, OnlyJob DEF SyncReport
<1>2. CASE SyncList(h)
  <2>1. Safe(ReconcileAbsent) /\ Safe(ReconcileExited)
    BY IdleJob, HealthJob, OtherJobs DEF ReconcileAbsent, ReconcileExited
  <2>2. /\ Safe(Transition("degraded", "other"))
        /\ Safe(SettingHealth("none"))
    BY TransitionJob, HealthJob DEF Statuses, Codes
  <2>3. \A started \in BOOLEAN : Safe(ReconcileRunning(started))
    BY IdleJob, HealthJob, StartedJob DEF ReconcileRunning, Statuses
  <2>4. HandsKept
    BY <1>0, <1>2, <2>1, <2>2, <2>3, FinishKeeps, BecomeKeeps DEF SyncList
  <2> QED
    BY <1>2, <2>4, OnlyJob DEF SyncList
<1>3. CASE SyncUnhealth(h)
  <2>1. HandsKept
    BY <1>0, <1>3, GotoKeeps DEF SyncUnhealth
  <2>2. health' \in {"none", "up"}
    BY <1>3 DEF SyncUnhealth, TypeInv, TypeOK, RowTypes
  <2> QED
    BY <1>3, <2>1, <2>2
    DEF SyncUnhealth, TypeInv, TypeOK, RowTypes, WorkerTypes, workerVars,
        history, Harmless, Destroyed, HandsKept, Sound
<1>4. CASE Watchdog(h)
  <2>1. /\ Safe(Transition("error", "remove_failed"))
        /\ Safe(Transition("error", "other"))
    BY TransitionJob DEF Statuses, Codes
  <2>2. HandsKept
    BY <1>0, <1>4, <2>1, BecomeKeeps DEF Watchdog
  <2> QED
    BY <1>4, <2>2, OnlyJob DEF Watchdog
<1>5. CASE FreshnessSweep(h)
  <2>1. /\ Safe([Idle EXCEPT !.at = "warn", !.err = "backup_stale"])
        /\ Safe([Idle EXCEPT !.at = "clear"])
    BY OtherJobs DEF Codes
  <2>2. HandsKept
    BY <1>0, <1>5, <2>1, BecomeKeeps DEF FreshnessSweep
  <2> QED
    BY <1>5, <2>2, OnlyJob DEF FreshnessSweep
<1> QED
  BY <1>1, <1>2, <1>3, <1>4, <1>5 DEF LoopStep

(* Operators' requests and edits, but for the two that retire the row.     *)
LEMMA OperatorHarmless ==
    ASSUME TypeInv,
           \/ \E c \in {"start", "stop", "remove"} : RequestAction(c)
           \/ StartSnapshot
           \/ \E st \in EditTo : EditStatus(st)
           \/ \E hs \in {"none", "up"} : EditHealth(hs)
           \/ EditActive \/ EditProtection
    PROVE  Harmless
<1>0. UNCHANGED job => HandsKept
  BY DEF TypeInv, HandsKept
<1> USE DEF TypeInv, TypeOK, RowTypes, WorkerTypes, rowVars, workerVars,
            history, Harmless, Destroyed
<1>1. ASSUME NEW c \in {"start", "stop", "remove"}, RequestAction(c)
      PROVE  Harmless
  BY <1>0, <1>1 DEF RequestAction, Send, Commands
<1>2. CASE StartSnapshot
  BY <1>0, <1>2 DEF StartSnapshot, Purposes
<1>3. ASSUME NEW st \in EditTo, EditStatus(st)
      PROVE  Harmless
  BY <1>0, <1>3, KindsAssumption DEF EditStatus
<1>5. ASSUME NEW hs \in {"none", "up"}, EditHealth(hs)
      PROVE  Harmless
  BY <1>0, <1>5 DEF EditHealth
<1>4. CASE EditProtection
  <2>1. protected' \in BOOLEAN
    BY <1>4, Zenon DEF EditProtection
  <2> QED
    BY <1>0, <1>4, <2>1 DEF EditProtection
<1>6. CASE EditActive
  BY <1>0, <1>6 DEF EditActive
<1> QED
  BY <1>1, <1>2, <1>3, <1>4, <1>5, <1>6

(* The worker's steps, but for a removal.  A worker whose container is     *)
(* gone and that has no create waiting does not bring it back.             *)
LEMMA RunnerHarmless ==
    ASSUME TypeInv, RunnerStep,
           ~ \E c \in {"remove", "purge"} : RunnerRemoves(c)
    PROVE  Harmless
<1>0. UNCHANGED job => HandsKept
  BY DEF TypeInv, HandsKept
<1> USE DEF TypeInv, TypeOK, RowTypes, WorkerTypes, rowVars, history, Harmless,
            Destroyed
<1>1. CASE RunnerAcks
  BY <1>0, <1>1 DEF RunnerAcks, RunnerUntouched, Messages
<1>2. CASE RunnerCreates
  <2>1. /\ "create" \in commands /\ commands' \subseteq commands
        /\ container' \in {container, "running"}
        /\ \E m \in {"create_done", "create_failed"} :
              inbox' = inbox \cup {m}
        /\ UNCHANGED <<rowVars, taking, copies, job, faults, history>>
    BY <1>2 DEF RunnerCreates, Carries, RunnerUntouched
  <2>2. volume' = TRUE \/ volume' = volume
    BY <1>2, Zenon DEF RunnerCreates
  <2>3. volume' \in BOOLEAN
    BY <2>2
  <2> QED
    BY <1>0, <2>1, <2>3 DEF Messages, States
<1>3. CASE RunnerStartsOrStops
  <2>1. /\ commands' \subseteq commands
        /\ container' \in {container, "running", "exited"}
        /\ container = "absent" => container' = "absent"
        /\ \E m \in {"start_done", "stop_done", "start_failed", "stop_failed"} :
              inbox' = inbox \cup {m}
        /\ UNCHANGED <<volume, rowVars, taking, copies, job, faults, history>>
    BY <1>3 DEF RunnerStartsOrStops, Carries, RunnerUntouched
  <2> QED
    BY <1>0, <2>1 DEF Messages, States
<1>4. ASSUME NEW st \in States, ContainerChanges(st)
      PROVE  Harmless
  BY <1>0, <1>4 DEF ContainerChanges, RunnerUntouched
<1>5. ASSUME NEW k \in Purposes, SnapshotEnds(k)
      PROVE  Harmless
  <2>1. /\ \E m \in {"final_done", "other_done"} : inbox' \in {inbox, inbox \cup {m}}
        /\ taking' \subseteq taking
        /\ UNCHANGED <<rowVars, container, volume, commands, copies, job, faults, history>>
    <3>1. CASE k = "final"
      BY <1>5, <3>1 DEF SnapshotEnds
    <3>2. CASE k # "final"
      BY <1>5, <3>2 DEF SnapshotEnds
    <3> QED
      BY <3>1, <3>2
  <2> QED
    BY <1>0, <2>1 DEF Messages
<1>6. CASE RunnerHealthy
  BY <1>0, <1>6 DEF RunnerHealthy, RunnerUntouched, Messages
<1>7. CASE Loses
  BY <1>0, <1>7 DEF Loses, RunnerUntouched
<1> QED
  BY <1>1, <1>2, <1>3, <1>4, <1>5, <1>6, <1>7 DEF RunnerStep

(* So is a restart: it only forgets what the hands were doing.             *)
LEMMA RestartHarmless ==
    ASSUME TypeInv, Restart
    PROVE  Harmless
<1>1. HandsKept
  BY IdleJob DEF Restart, HandsKept, Safe
<1> QED
  BY <1>1
  DEF Restart, TypeInv, TypeOK, RowTypes, WorkerTypes, rowVars, history,
      Harmless, Destroyed, HandsKept, Sound

(* The worker removes the container.  Only with the volume gone does it    *)
(* reply purge_done, and then container and waiting create are gone too.   *)
LEMMA RemovalKeeps ==
    ASSUME TypeInv, GoneInv, NEW c \in {"remove", "purge"}, RunnerRemoves(c)
    PROVE  TypeInv' /\ GoneInv'
<1> USE DEF RunnerRemoves, RunnerUntouched
<1>1. /\ container' \in {container, "absent"}
      /\ commands' \subseteq commands
      /\ inbox' \in SUBSET Messages
      /\ UNCHANGED <<rowVars, taking, copies, job, faults, history>>
  BY DEF TypeInv, TypeOK, WorkerTypes, Messages
<1>2. volume' \in BOOLEAN /\ (~volume => ~volume')
  <2>1. CASE volume' = (volume /\ ~(c = "purge"))
    BY <2>1, Zenon
  <2>2. CASE UNCHANGED volume
    BY <2>2 DEF TypeInv, TypeOK, WorkerTypes
  <2> QED
    BY <2>1, <2>2, Zenon
<1>3. TypeInv'
  BY <1>1, <1>2 DEF TypeInv, TypeOK, RowTypes, WorkerTypes, rowVars, history,
                    States
<1>4. "purge_done" \in inbox' /\ "purge_done" \notin inbox => Destroyed'
  <2> SUFFICES ASSUME "purge_done" \in inbox', "purge_done" \notin inbox
               PROVE  Destroyed'
    OBVIOUS
  <2> DEFINE reply == IF c = "purge" THEN "purge_done" ELSE "remove_done"
  <2>1. CASE /\ commands' = commands \ {c, "create"} /\ container' = "absent"
             /\ volume' = (volume /\ ~(c = "purge"))
             /\ inbox' = inbox \cup {reply}
    <3>1. inbox' = inbox \cup {reply}
      BY <2>1
    <3>2. c = "purge"
      BY <3>1
    <3>3. ~volume'
      BY <2>1, <3>2, Zenon
    <3>4. asked'
      BY <1>1, <3>2 DEF GoneInv, history
    <3>5. "create" \notin commands' /\ container' = "absent"
      BY <2>1, Zenon
    <3> QED
      BY <3>3, <3>4, <3>5 DEF Destroyed
  <2>2. CASE \E m \in {"remove_done", "remove_failed", "remove_absent"} :
                inbox' = inbox \cup {m}
    BY <2>2
  <2> QED
    BY <2>1, <2>2, Zenon
<1>5. Destroyed => Destroyed'
  BY <1>1, <1>2 DEF Destroyed, history
<1> QED
  BY <1>1, <1>3, <1>4, <1>5 DEF GoneInv, rowVars, history

(* FinalizeDeletion stands before the retiring of the row only on the      *)
(* worker's confirmation.                                                  *)
LEMMA FinalizeKeeps ==
    ASSUME TypeInv, GoneInv, NEW h \in Hands, NEW m, FinalizeDeletion(h, m)
    PROVE  TypeInv' /\ GoneInv'
<1>0. job \in [Hands -> Sound]
  BY DEF TypeInv
<1>1. CASE m = "purge_done"
  <2>1. job' = [job EXCEPT ![h] = [Idle EXCEPT !.at = "retire"]]
    BY <1>1 DEF FinalizeDeletion, Become
  <2>2. job' \in [Hands -> Sound]
    BY <1>0, <2>1, RetireJob
  <2>3. "purge_done" \in inbox /\ inbox' \subseteq inbox
    BY <1>1 DEF FinalizeDeletion, Take
  <2>4. UNCHANGED <<rowVars, container, volume, commands, taking, copies,
                    faults, history>>
    BY DEF FinalizeDeletion, HandlerUntouched
  <2>5. TypeInv'
    BY <2>2, <2>3, <2>4
    DEF TypeInv, TypeOK, RowTypes, WorkerTypes, rowVars, history, Sound
  <2>6. Destroyed => Destroyed'
    BY <2>4 DEF Destroyed, history
  <2> QED
    BY <2>3, <2>4, <2>5, <2>6 DEF GoneInv, rowVars, history
<1>2. CASE m # "purge_done"
  <2>1. Safe(Transition("error", "remove_failed"))
    BY TransitionJob DEF Statuses, Codes
  <2>2. HandsKept
    BY <1>0, <1>2, <2>1, BecomeKeeps DEF FinalizeDeletion
  <2>3. Harmless
    BY <2>2, TakeHarmless DEF FinalizeDeletion
  <2> QED
    BY <2>3, HarmlessKeeps DEF Harmless, HandsKept, TypeInv
<1> QED
  BY <1>1, <1>2

(* The row is retired, or the write fails and the row goes to error.       *)
LEMMA RetireKeeps ==
    ASSUME TypeInv, GoneInv, NEW h \in Hands, Retire(h)
    PROVE  TypeInv' /\ GoneInv'
<1>0. job \in [Hands -> Sound] /\ job[h].at = "retire"
  BY DEF TypeInv, Retire, At
<1>1. Safe(Transition("error", "remove_failed"))
  BY TransitionJob DEF Statuses, Codes
<1>2. HandsKept
  BY <1>0, <1>1, FinishKeeps, BecomeKeeps DEF Retire
<1>3. faults' \in 0..MaxFaults
  BY KindsAssumption DEF Retire, Fault, TypeInv, TypeOK
<1>4. /\ row' \in {row, "retired"}
      /\ UNCHANGED <<status, lastError, health, pendingFinal, protected,
                     workerVars, copies, history>>
  BY DEF Retire
<1>5. TypeInv'
  BY <1>2, <1>3, <1>4
  DEF TypeInv, TypeOK, RowTypes, WorkerTypes, workerVars, history, HandsKept,
      Sound
<1>6. Destroyed => Destroyed'
  BY <1>4 DEF Destroyed, workerVars, history
<1> QED
  BY <1>0, <1>2, <1>4, <1>5, <1>6 DEF GoneInv, HandsKept, workerVars, history

(* A row retired by force or by an edit is an abandoned one.               *)
LEMMA AbandonKeeps ==
    ASSUME TypeInv, GoneInv, DeleteForced \/ EditInactive
    PROVE  TypeInv' /\ GoneInv'
<1>1. /\ row' = "retired" /\ abandoned' = TRUE
      /\ UNCHANGED <<status, lastError, health, pendingFinal, protected,
                     workerVars, copies, job, faults, asked>>
  BY Zenon DEF DeleteForced, EditInactive
<1>2. abandoned' \in BOOLEAN /\ abandoned'
  BY <1>1, Zenon
<1> QED
  BY <1>1, <1>2
  DEF TypeInv, TypeOK, RowTypes, WorkerTypes, workerVars, GoneInv

-----------------------------------------------------------------------------
(* Every step keeps the inductive invariant.                               *)
LEMMA NextInv ==
    ASSUME TypeInv, GoneInv, [Next]_vars
    PROVE  TypeInv' /\ GoneInv'
<1>0. Harmless => TypeInv' /\ GoneInv'
  BY HarmlessKeeps DEF Harmless, HandsKept, TypeInv
<1>1. ASSUME NEW h \in Hands,
             \/ TransitionStep(h) \/ WarningStep(h) \/ RequestStep(h)
             \/ SnapshotStep(h) \/ LoopStep(h)
      PROVE  TypeInv' /\ GoneInv'
  BY <1>0, <1>1, TransitionHarmless, WarningHarmless, RequestHarmless,
     SnapshotHarmless, LoopHarmless
<1>2. ASSUME NEW h \in Hands, ReplyStep(h)
      PROVE  TypeInv' /\ GoneInv'
  <2>1. CASE Retire(h)
    BY <2>1, RetireKeeps
  <2>2. ASSUME NEW m \in Messages, FinalizeDeletion(h, m)
        PROVE  TypeInv' /\ GoneInv'
    BY <2>2, FinalizeKeeps
  <2>3. ASSUME NEW m \in Messages,
               \/ ReplyAck(h) \/ HandleHealth(h) \/ ReplyIgnored(h, m)
               \/ ReplyCompleted(h, m) \/ ReplyFailed(h, m)
        PROVE  TypeInv' /\ GoneInv'
    BY <1>0, <2>3, ReplyHarmless
  <2>4. "healthy" \in Messages
    BY DEF Messages
  <2> QED
    BY <1>2, <2>1, <2>2, <2>3, <2>4 DEF ReplyStep
<1>3. CASE OperatorStep
  BY <1>0, <1>3, OperatorHarmless, AbandonKeeps DEF OperatorStep
<1>4. CASE RunnerStep
  BY <1>0, <1>4, RunnerHarmless, RemovalKeeps
<1>5. CASE Restart
  BY <1>0, <1>5, RestartHarmless
<1>6. CASE UNCHANGED vars
  BY <1>6
  DEF vars, rowVars, workerVars, history, TypeInv, TypeOK, RowTypes,
      WorkerTypes, GoneInv, Destroyed
<1> QED
  BY <1>1, <1>2, <1>3, <1>4, <1>5, <1>6 DEF Next

(* Hence the invariant holds in every state.                               *)
LEMMA Inductive == Spec => [](TypeInv /\ GoneInv)
<1>1. TypeInv /\ GoneInv /\ [Next]_vars => (TypeInv /\ GoneInv)'
  BY NextInv
<1> QED
  BY InitInv, <1>1, PTL DEF Spec

(* Whatever the hands, requests and failures, the handlers write only the  *)
(* statuses, error codes and health values of the schema.                  *)
THEOREM TypeCorrect == Spec => []TypeOK
<1>1. TypeInv /\ GoneInv => TypeOK
  BY DEF TypeInv
<1> QED
  BY Inductive, <1>1, PTL

(* Whatever is lost, fails or overtakes what, a row that was not abandoned *)
(* is retired only once its container and its data volume are destroyed:   *)
(* FinalizeDeletion's promise, for any number of concurrent requests,      *)
(* replies and sweeps.                                                     *)
THEOREM RetiredRowIsGone == Spec => []RetiredIsGone
<1>1. TypeInv /\ GoneInv => RetiredIsGone
  BY DEF GoneInv, Destroyed, RetiredIsGone
<1> QED
  BY Inductive, <1>1, PTL

-----------------------------------------------------------------------------
(* The inductive invariant behind CopyBeforePurge.  The handler of a       *)
(* completed snapshot recorded it before it goes on, and every step it     *)
(* makes towards the purge rests on that record; no other handler stands   *)
(* before a purge, unless plain deletes are made.                          *)
Trusting(j) == j.snapshot = TRUE \/ j.at \in {"pending", "unflag", "finalSend"}

PurgeInv ==
    "delete" \notin Kinds =>
        /\ asked => copies # {}
        /\ \A h \in Hands : /\ job[h].at # "purge"
                            /\ Trusting(job[h]) => copies # {}

(* A job that neither rests on a snapshot nor stands before a purge.       *)
Plain(j) == ~Trusting(j) /\ j.at # "purge"

(* The hands after a step in which none came to rest on a snapshot or to   *)
(* stand before a purge.                                                   *)
HandsTame ==
    \A g \in Hands : /\ Trusting(job'[g]) => Trusting(job[g])
                     /\ job'[g].at = "purge" => job[g].at = "purge"

(* A step that moves no hand towards a purge, asks for none and forgets no *)
(* snapshot.                                                               *)
Tame == HandsTame /\ copies \subseteq copies' /\ (asked' => asked)

(* Such a step keeps the invariant.                                        *)
LEMMA TameKeeps ==
    ASSUME PurgeInv, Tame
    PROVE  PurgeInv'
  BY DEF PurgeInv, Tame, HandsTame

(* What handlers are given to do is plain.                                 *)
LEMMA PlainJobs ==
    /\ Plain(Idle) /\ Plain([Idle EXCEPT !.at = "retire"])
    /\ Plain([Idle EXCEPT !.at = "clear"])
    /\ \A to, err : Plain(Transition(to, err))
    /\ \A hs : Plain(SettingHealth(hs))
    /\ \A to, b : Plain([Transition(to, "none") EXCEPT !.started = b])
    /\ \A to, b, hs :
          Plain([Transition(to, "none") EXCEPT !.started = b, !.after = hs])
    /\ \A hs : Plain([Transition("stopped", "none") EXCEPT !.after = hs])
    /\ Plain([Transition("error", "other") EXCEPT !.at = "unhealth"])
    /\ \A err : Plain([Idle EXCEPT !.at = "warn", !.err = err])
    /\ \A st : Plain([Idle EXCEPT !.at = "list", !.seen = st])
  BY DEF Plain, Trusting, Transition, SettingHealth, Idle

(* Giving a hand a plain job, or ending its job, is tame.                  *)
LEMMA BecomeTame ==
    ASSUME job \in [Hands -> Sound], NEW h \in Hands, NEW j, Plain(j),
           Become(h, j)
    PROVE  HandsTame
  BY DEF Become, Plain, HandsTame

LEMMA FinishTame ==
    ASSUME job \in [Hands -> Sound], NEW h \in Hands, Finish(h)
    PROVE  HandsTame
  BY PlainJobs DEF Finish, Plain, HandsTame

(* So is moving on, if a hand that moves towards the purge already rested  *)
(* on a snapshot.                                                          *)
LEMMA GotoTame ==
    ASSUME job \in [Hands -> Sound], NEW h \in Hands, NEW step, Goto(h, step),
           step # "purge",
           step \in {"pending", "unflag", "finalSend"} => Trusting(job[h])
    PROVE  HandsTame
<1>1. job[h] \in Jobs
  BY DEF Sound
<1>2. /\ [job[h] EXCEPT !.at = step].at = step
      /\ [job[h] EXCEPT !.at = step].snapshot = job[h].snapshot
  BY <1>1 DEF Jobs
<1>3. job'[h] = [job[h] EXCEPT !.at = step]
  BY DEF Goto
<1>4. \A g \in Hands : g # h => job'[g] = job[g]
  BY DEF Goto
<1> QED
  BY <1>2, <1>3, <1>4 DEF Trusting, HandsTame

(* A load that goes on to its write keeps what its hand rests on.          *)
LEMMA WriteTame ==
    ASSUME job \in [Hands -> Sound], NEW h \in Hands, NEW c, NEW w,
           Become(h, [job[h] EXCEPT !.at = "write", !.clear = c, !.wipe = w])
    PROVE  HandsTame
<1> DEFINE j == [job[h] EXCEPT !.at = "write", !.clear = c, !.wipe = w]
<1>1. job[h] \in Jobs
  BY DEF Sound
<1>2. j.at = "write" /\ j.snapshot = job[h].snapshot
  BY <1>1 DEF Jobs
<1>3. job'[h] = j /\ \A g \in Hands : g # h => job'[g] = job[g]
  BY DEF Become
<1> QED
  BY <1>2, <1>3 DEF Trusting, HandsTame

(* A step in which nobody's job, nor the history or the record of          *)
(* snapshots changes is tame.                                              *)
LEMMA StillTame ==
    ASSUME UNCHANGED <<job, copies, asked>>
    PROVE  Tame
  BY DEF Tame, HandsTame

(* Every step, unless it is one towards a purge, is tame; and one towards  *)
(* a purge is made from a snapshot or by a plain delete.                   *)
LEMMA TransitionTame ==
    ASSUME TypeInv, NEW h \in Hands, TransitionStep(h)
    PROVE  Tame
<1>0. job \in [Hands -> Sound]
  BY DEF TypeInv
<1>1. CASE TransitionLoad(h)
  <2>1. HandsTame
    BY <1>0, <1>1, WriteTame, BecomeTame, PlainJobs DEF TransitionLoad
  <2> QED
    BY <1>1, <2>1 DEF TransitionLoad, history, Tame
<1>2. CASE TransitionWrite(h)
  <2>1. HandsTame
    BY <1>0, <1>2, BecomeTame, PlainJobs DEF TransitionWrite
  <2> QED
    BY <1>2, <2>1 DEF TransitionWrite, history, Tame
<1>3. CASE SetHealth(h)
  <2>1. HandsTame
    BY <1>0, <1>3, FinishTame DEF SetHealth
  <2> QED
    BY <1>3, <2>1 DEF SetHealth, history, Tame
<1> QED
  BY <1>1, <1>2, <1>3 DEF TransitionStep

LEMMA WarningTame ==
    ASSUME TypeInv, NEW h \in Hands, WarningStep(h)
    PROVE  Tame
<1>0. job \in [Hands -> Sound] /\ job[h].snapshot \in BOOLEAN
  BY DEF TypeInv, Sound, Jobs
<1>1. job[h].snapshot => Trusting(job[h])
  BY <1>0 DEF Trusting
<1>2. CASE WarningLoad(h)
  <2>1. HandsTame
    BY <1>0, <1>2, FinishTame, GotoTame DEF WarningLoad
  <2> QED
    BY <1>2, <2>1 DEF WarningLoad, history, Tame
<1>3. CASE WarningWrite(h)
  <2>1. HandsTame
    BY <1>0, <1>3, FinishTame DEF WarningWrite
  <2> QED
    BY <1>3, <2>1 DEF WarningWrite, history, Tame
<1>4. CASE ClearLoad(h)
  <2>1. HandsTame
    BY <1>0, <1>1, <1>4, FinishTame, GotoTame DEF ClearLoad
  <2> QED
    BY <1>4, <2>1 DEF ClearLoad, history, Tame
<1>5. CASE ClearWrite(h)
  <2>1. HandsTame
    BY <1>0, <1>1, <1>5, FinishTame, GotoTame DEF ClearWrite
  <2> QED
    BY <1>5, <2>1 DEF ClearWrite, history, Tame
<1> QED
  BY <1>2, <1>3, <1>4, <1>5 DEF WarningStep

LEMMA RequestPurge ==
    ASSUME TypeInv, PurgeInv, NEW h \in Hands, RequestStep(h)
    PROVE  PurgeInv'
<1>0. job \in [Hands -> Sound]
  BY DEF TypeInv
<1>1. CASE CreateInstance(h)
  <2>1. HandsTame
    BY <1>0, <1>1, GotoTame DEF CreateInstance
  <2> QED
    BY <1>1, <2>1, TameKeeps DEF CreateInstance, history, Tame
<1>2. CASE SendCreate(h)
  <2>1. HandsTame
    BY <1>0, <1>2, FinishTame DEF SendCreate
  <2> QED
    BY <1>2, <2>1, TameKeeps DEF SendCreate, Tame
<1>3. CASE DeleteRead(h)
  BY <1>3 DEF DeleteRead, Wanted, PurgeInv
<1>4. CASE DeleteSend(h)
  BY <1>4 DEF DeleteSend, At, PurgeInv
<1>5. CASE FinalRead(h)
  <2>1. HandsTame
    BY <1>0, <1>5, GotoTame DEF FinalRead
  <2> QED
    BY <1>5, <2>1, TameKeeps DEF FinalRead, history, Tame
<1>6. CASE FinalStart(h)
  <2>1. HandsTame
    BY <1>0, <1>6, GotoTame, FinishTame DEF FinalStart
  <2> QED
    BY <1>6, <2>1, TameKeeps DEF FinalStart, history, Tame
<1>7. CASE FinalFlag(h)
  <2>1. HandsTame
    BY <1>0, <1>7, FinishTame DEF FinalFlag
  <2> QED
    BY <1>7, <2>1, TameKeeps DEF FinalFlag, history, Tame
<1> QED
  BY <1>1, <1>2, <1>3, <1>4, <1>5, <1>6, <1>7 DEF RequestStep

LEMMA ReplyTame ==
    ASSUME TypeInv, NEW h \in Hands, ReplyStep(h)
    PROVE  Tame
<1>0. job \in [Hands -> Sound]
  BY DEF TypeInv
<1>1. CASE ReplyAck(h)
  <2>1. HandsTame
    BY <1>0, <1>1, BecomeTame, PlainJobs DEF ReplyAck
  <2> QED
    BY <1>1, <2>1 DEF ReplyAck, HandlerUntouched, history, Tame
<1>2. CASE Retire(h)
  <2>1. HandsTame
    BY <1>0, <1>2, FinishTame, BecomeTame, PlainJobs DEF Retire
  <2> QED
    BY <1>2, <2>1 DEF Retire, history, Tame
<1>3. CASE HandleHealth(h)
  <2>1. HandsTame
    BY <1>0, <1>3, BecomeTame, PlainJobs DEF HandleHealth
  <2> QED
    BY <1>3, <2>1 DEF HandleHealth, HandlerUntouched, history, Tame
<1>4. ASSUME NEW m \in Messages, ReplyIgnored(h, m)
      PROVE  Tame
  BY <1>4, StillTame DEF ReplyIgnored, HandlerUntouched, history
<1>5. ASSUME NEW m \in Messages, ReplyCompleted(h, m)
      PROVE  Tame
  <2>1. HandsTame
    BY <1>0, <1>5, BecomeTame, PlainJobs DEF ReplyCompleted
  <2> QED
    BY <1>5, <2>1 DEF ReplyCompleted, HandlerUntouched, history, Tame
<1>6. ASSUME NEW m \in Messages, FinalizeDeletion(h, m)
      PROVE  Tame
  <2>1. HandsTame
    BY <1>0, <1>6, BecomeTame, PlainJobs DEF FinalizeDeletion
  <2> QED
    BY <1>6, <2>1 DEF FinalizeDeletion, HandlerUntouched, history, Tame
<1>7. ASSUME NEW m \in Messages, ReplyFailed(h, m)
      PROVE  Tame
  <2>1. HandsTame
    BY <1>0, <1>7, BecomeTame, PlainJobs DEF ReplyFailed
  <2> QED
    BY <1>7, <2>1 DEF ReplyFailed, HandlerUntouched, history, Tame
<1> QED
  BY <1>1, <1>2, <1>3, <1>4, <1>5, <1>6, <1>7 DEF ReplyStep

LEMMA SnapshotPurge ==
    ASSUME TypeInv, PurgeInv, NEW h \in Hands, SnapshotStep(h)
    PROVE  PurgeInv'
<1>0. job \in [Hands -> Sound]
  BY DEF TypeInv
<1>1. ASSUME NEW k \in Purposes, SnapshotCompleted(h, k)
      PROVE  PurgeInv'
  <2>1. CASE UNCHANGED <<copies, job>>
    BY <1>1, <2>1, StillTame, TameKeeps DEF SnapshotCompleted, history
  <2>2. CASE /\ copies' = copies \cup {k}
             /\ Become(h, [Idle EXCEPT !.at = "clear", !.snapshot = TRUE])
    <3>1. [Idle EXCEPT !.at = "clear", !.snapshot = TRUE].at # "purge"
      BY DEF Idle
    <3>2. \A g \in Hands : job'[g].at = "purge" => job[g].at = "purge"
      BY <1>0, <2>2, <3>1 DEF Become
    <3>3. copies' # {} /\ UNCHANGED asked
      BY <1>1, <2>2 DEF SnapshotCompleted, history
    <3> QED
      BY <3>2, <3>3 DEF PurgeInv
  <2> QED
    BY <1>1, <2>1, <2>2 DEF SnapshotCompleted
<1>2. CASE PendingRead(h)
  <2>1. Trusting(job[h])
    BY <1>2 DEF PendingRead, At, Trusting
  <2>2. HandsTame
    BY <1>0, <1>2, <2>1, GotoTame, FinishTame DEF PendingRead
  <2> QED
    BY <1>2, <2>2, TameKeeps DEF PendingRead, history, Tame
<1>3. CASE PendingClear(h)
  <2>1. Trusting(job[h])
    BY <1>3 DEF PendingClear, At, Trusting
  <2>2. HandsTame
    BY <1>0, <1>3, <2>1, GotoTame, FinishTame DEF PendingClear
  <2> QED
    BY <1>3, <2>2, TameKeeps DEF PendingClear, history, Tame
<1>4. CASE PendingSend(h)
  <2>1. Trusting(job[h]) /\ UNCHANGED copies
    BY <1>4 DEF PendingSend, At, Trusting
  <2>2. HandsTame
    BY <1>0, <1>4, FinishTame, BecomeTame, PlainJobs DEF PendingSend
  <2> QED
    BY <2>1, <2>2 DEF PurgeInv, HandsTame
<1> QED
  BY <1>1, <1>2, <1>3, <1>4 DEF SnapshotStep

LEMMA LoopTame ==
    ASSUME TypeInv, NEW h \in Hands, LoopStep(h)
    PROVE  Tame
<1>0. job \in [Hands -> Sound]
  BY DEF TypeInv
<1>1. CASE SyncReport(h)
  <2>1. HandsTame
    BY <1>0, <1>1, BecomeTame, PlainJobs DEF SyncReport
  <2> QED
    BY <1>1, <2>1 DEF SyncReport, history, Tame
<1>2. CASE SyncList(h)
  <2>1. Plain(ReconcileAbsent) /\ Plain(ReconcileExited)
    BY PlainJobs DEF ReconcileAbsent, ReconcileExited
  <2>2. \A started \in BOOLEAN : Plain(ReconcileRunning(started))
    BY PlainJobs DEF ReconcileRunning
  <2>3. HandsTame
    BY <1>0, <1>2, <2>1, <2>2, FinishTame, BecomeTame, PlainJobs DEF SyncList
  <2> QED
    BY <1>2, <2>3 DEF SyncList, history, Tame
<1>3. CASE SyncUnhealth(h)
  <2>1. HandsTame
    BY <1>0, <1>3, GotoTame DEF SyncUnhealth
  <2> QED
    BY <1>3, <2>1 DEF SyncUnhealth, history, Tame
<1>4. CASE Watchdog(h)
  <2>1. HandsTame
    BY <1>0, <1>4, BecomeTame, PlainJobs DEF Watchdog
  <2> QED
    BY <1>4, <2>1 DEF Watchdog, history, Tame
<1>5. CASE FreshnessSweep(h)
  <2>1. HandsTame
    BY <1>0, <1>5, BecomeTame, PlainJobs DEF FreshnessSweep
  <2> QED
    BY <1>5, <2>1 DEF FreshnessSweep, history, Tame
<1> QED
  BY <1>1, <1>2, <1>3, <1>4, <1>5 DEF LoopStep

LEMMA OutsideTame ==
    ASSUME OperatorStep \/ RunnerStep
    PROVE  Tame
<1>1. CASE OperatorStep
  BY <1>1, StillTame
  DEF OperatorStep, RequestAction, DeleteForced, StartSnapshot, EditStatus,
      EditHealth, EditInactive, EditActive, EditProtection, history
<1>2. CASE RunnerStep
  BY <1>2, StillTame
  DEF RunnerStep, RunnerAcks, RunnerCreates, RunnerStartsOrStops, RunnerRemoves,
      ContainerChanges, SnapshotEnds, RunnerHealthy, Loses, RunnerUntouched,
      history
<1> QED
  BY <1>1, <1>2

LEMMA RestartTame ==
    ASSUME Restart
    PROVE  Tame
<1>1. \A g \in Hands : Plain(job'[g])
  BY PlainJobs DEF Restart
<1> QED
  BY <1>1 DEF Restart, history, Tame, HandsTame, Plain

(* Every step keeps the invariant.                                         *)
LEMMA NextPurge ==
    ASSUME TypeInv, PurgeInv, [Next]_vars
    PROVE  PurgeInv'
<1>1. ASSUME NEW h \in Hands,
             TransitionStep(h) \/ WarningStep(h) \/ ReplyStep(h) \/ LoopStep(h)
      PROVE  PurgeInv'
  BY <1>1, TransitionTame, WarningTame, ReplyTame, LoopTame, TameKeeps
<1>2. CASE OperatorStep \/ RunnerStep \/ Restart
  BY <1>2, OutsideTame, RestartTame, TameKeeps
<1>3. CASE UNCHANGED vars
  BY <1>3, StillTame, TameKeeps DEF vars, history
<1> QED
  BY <1>1, <1>2, <1>3, RequestPurge, SnapshotPurge DEF Next

(* Where no plain delete is made, nothing is destroyed before some         *)
(* snapshot of the database is recorded as completed: what                 *)
(* finaliseDeleteAfterSnapshot promises, for any number of handlers and    *)
(* whatever is lost, fails or is done twice.                               *)
THEOREM CopyComesFirst == Spec => []CopyBeforePurge
<1>1. Init => PurgeInv
  <2> SUFFICES ASSUME Init PROVE PurgeInv
    OBVIOUS
  <2>1. \A h \in Hands : Plain(job[h])
    BY PlainJobs DEF Init
  <2> QED
    BY <2>1 DEF Init, PurgeInv, Plain
<1>2. PurgeInv /\ TypeInv /\ [Next]_vars => PurgeInv'
  BY NextPurge
<1>3. PurgeInv => CopyBeforePurge
  BY DEF PurgeInv, CopyBeforePurge
<1> QED
  BY <1>1, <1>2, <1>3, Inductive, PTL DEF Spec
=============================================================================
