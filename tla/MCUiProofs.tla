----------------------------- MODULE MCUiProofs ------------------------------
(***************************************************************************)
(* What the suite MCUi checks of the operation receipts, the recovery, the *)
(* projections, the appearance, the imports and the continuous task,       *)
(* proved for every value of Bounds. Each instance of the suite is an      *)
(* instance of the module of proofs of its component, with equal Init and  *)
(* Next; a behaviour never leaves its scenario, so that the theorems about *)
(* the component hold of it.                                               *)
(***************************************************************************)
EXTENDS MCUi, TLAPS

(* A step of the suite is one of the instance that the scenario names, or  *)
(* leaves the variables of that instance unchanged.                        *)
LEMMA SuiteSteps ==
  ASSUME [Next]_vars
  PROVE  /\ scenario' = scenario
         /\ scenario = "receiptsFaults" => ReceiptsFaults!Next \/ UNCHANGED receiptVars
         /\ scenario = "receiptsEdits" => ReceiptsEdits!Next \/ UNCHANGED receiptVars
         /\ scenario = "receiptsHealth" => ReceiptsHealth!Next \/ UNCHANGED receiptVars
         /\ scenario = "recoveryStarts" => RecoveryStarts!Next \/ UNCHANGED recoveryVars
         /\ scenario = "projectionsOrder" => ProjectionsOrder!Next \/ UNCHANGED projectionVars
         /\ scenario = "projectionsPoison" => ProjectionsPoison!Next \/ UNCHANGED projectionVars
         /\ scenario = "appearanceFaults" => AppearanceFaults!Next \/ UNCHANGED appearanceVars
         /\ scenario = "importsProfile" => ImportsProfile!Next \/ UNCHANGED importVars
         /\ scenario = "importsRules" => ImportsRules!Next \/ UNCHANGED importVars
         /\ scenario = "taskFaults" => TaskFaults!Next \/ UNCHANGED keepVars
  BY DEF Next, vars, ReceiptNext, RecoveryNext, ProjectionNext, AppearanceNext,
         ImportNext, DialogNext, KeepNext

(* Instances of the proofs, one for each instance of the suite; Provider   *)
(* and Poisoned bind several components at once.                           *)
Faults == INSTANCE VpnReceiptsProofs WITH Kinds <- {"Start", "Stop"},
    MaxTasks <- Bounds.receiptsFaults.MaxTasks,
    MaxReqs <- Bounds.receiptsFaults.MaxReqs,
    MaxRounds <- Bounds.receiptsFaults.MaxRounds,
    MaxRetained <- Bounds.receiptsFaults.MaxRetained,
    MaxEdits <- Bounds.receiptsFaults.MaxEdits,
    MaxPlugins <- Bounds.receiptsFaults.MaxPlugins,
    MaxRoots <- Bounds.receiptsFaults.MaxRoots,
    MaxIntents <- Bounds.receiptsFaults.MaxIntents,
    MaxFaults <- Bounds.receiptsFaults.MaxFaults,
    MaxExits <- Bounds.receiptsFaults.MaxExits,
    MaxHealth <- Bounds.receiptsFaults.MaxHealth, root <- receiptRoot,
    active <- receiptActive, tasks <- receiptTasks, ops <- receiptOps,
    vpn <- receiptVpn, user <- receiptUser

(* The instance ReceiptsFaults of the operation receipts                   *)
(* (vpn_operation.rs) takes the steps of the component whose proofs are    *)
(* instantiated.                                                           *)
LEMMA ReceiptsFaultsMoves == ReceiptsFaults!Next => Faults!Next
  <1>1. ReceiptsFaults!UiNext => Faults!UiNext
    BY DEF Faults!UiNext, ReceiptsFaults!UiNext, Faults!ToggleVpn,
           ReceiptsFaults!ToggleVpn, Faults!BeginOwnedEdit,
           ReceiptsFaults!BeginOwnedEdit, Faults!PlainEdit,
           ReceiptsFaults!PlainEdit, Faults!ConfirmVpnOperation,
           ReceiptsFaults!ConfirmVpnOperation, Faults!RecoverVpnOperation,
           ReceiptsFaults!RecoverVpnOperation, Faults!RefreshStatus,
           ReceiptsFaults!RefreshStatus, Faults!ReplaceRoot,
           ReceiptsFaults!ReplaceRoot, Faults!Complete,
           ReceiptsFaults!Complete, Faults!NoOp, ReceiptsFaults!NoOp,
           Faults!CanCommand, ReceiptsFaults!CanCommand, Faults!Op,
           ReceiptsFaults!Op, Faults!Task, ReceiptsFaults!Task,
           Faults!NextReq, ReceiptsFaults!NextReq, Faults!pluginVars,
           ReceiptsFaults!pluginVars, Faults!coreVars,
           ReceiptsFaults!coreVars, Faults!envVars, ReceiptsFaults!envVars,
           Faults!uiVars, ReceiptsFaults!uiVars, Faults!CanSpawn,
           ReceiptsFaults!CanSpawn, Faults!BeginRecovery,
           ReceiptsFaults!BeginRecovery, Faults!MarkUnconfirmed,
           ReceiptsFaults!MarkUnconfirmed, Faults!FinishFailure,
           ReceiptsFaults!FinishFailure, Faults!FinishSuccess,
           ReceiptsFaults!FinishSuccess, Faults!Is, ReceiptsFaults!Is,
           Faults!Goto, ReceiptsFaults!Goto, Faults!Cardinality,
           ReceiptsFaults!Cardinality, Faults!Last, ReceiptsFaults!Last,
           Faults!Front, ReceiptsFaults!Front
  <1>2. ReceiptsFaults!TaskNext => Faults!TaskNext
    BY DEF Faults!TaskNext, ReceiptsFaults!TaskNext, Faults!MakeEdit,
           ReceiptsFaults!MakeEdit, Faults!Submit, ReceiptsFaults!Submit,
           Faults!AwaitOperation, ReceiptsFaults!AwaitOperation,
           Faults!LookupOperation, ReceiptsFaults!LookupOperation,
           Faults!AnswerParked, ReceiptsFaults!AnswerParked,
           Faults!CallTimesOut, ReceiptsFaults!CallTimesOut, Faults!Answer,
           ReceiptsFaults!Answer, Faults!uiVars, ReceiptsFaults!uiVars,
           Faults!pluginVars, ReceiptsFaults!pluginVars, Faults!envVars,
           ReceiptsFaults!envVars, Faults!Call, ReceiptsFaults!Call,
           Faults!Observe, ReceiptsFaults!Observe, Faults!Lookup,
           ReceiptsFaults!Lookup, Faults!Unobservable,
           ReceiptsFaults!Unobservable, Faults!Observed,
           ReceiptsFaults!Observed, Faults!coreVars, ReceiptsFaults!coreVars,
           Faults!Fault, ReceiptsFaults!Fault, Faults!RemoveAt,
           ReceiptsFaults!RemoveAt, Faults!Goto, ReceiptsFaults!Goto,
           Faults!Settled, ReceiptsFaults!Settled, Faults!Pending,
           ReceiptsFaults!Pending
  <1>3. ReceiptsFaults!StartBaseline => Faults!StartBaseline
    BY DEF Faults!StartBaseline, ReceiptsFaults!StartBaseline,
           Faults!RequestStart, ReceiptsFaults!RequestStart, Faults!Unqueued,
           ReceiptsFaults!Unqueued, Faults!NoHealth, ReceiptsFaults!NoHealth,
           Faults!uiVars, ReceiptsFaults!uiVars, Faults!envVars,
           ReceiptsFaults!envVars, Faults!Enqueue, ReceiptsFaults!Enqueue,
           Faults!Entry, ReceiptsFaults!Entry, Faults!NoScope,
           ReceiptsFaults!NoScope
  <1>4. ReceiptsFaults!PluginNext => Faults!PluginNext
    BY DEF Faults!PluginNext, ReceiptsFaults!PluginNext, Faults!HandleSubmit,
           ReceiptsFaults!HandleSubmit, Faults!HandleAwait,
           ReceiptsFaults!HandleAwait, Faults!HandleLookup,
           ReceiptsFaults!HandleLookup, Faults!RecreatePlugin,
           ReceiptsFaults!RecreatePlugin, Faults!Retain,
           ReceiptsFaults!Retain, Faults!Unqueued, ReceiptsFaults!Unqueued,
           Faults!Create, ReceiptsFaults!Create, Faults!uiVars,
           ReceiptsFaults!uiVars, Faults!envVars, ReceiptsFaults!envVars,
           Faults!IsRetained, ReceiptsFaults!IsRetained, Faults!Settled,
           ReceiptsFaults!Settled, Faults!Answer, ReceiptsFaults!Answer,
           Faults!Goto, ReceiptsFaults!Goto, Faults!pluginVars,
           ReceiptsFaults!pluginVars, Faults!coreVars,
           ReceiptsFaults!coreVars, Faults!RemoveAt, ReceiptsFaults!RemoveAt,
           Faults!Enqueue, ReceiptsFaults!Enqueue, Faults!Entry,
           ReceiptsFaults!Entry, Faults!StopInFlight,
           ReceiptsFaults!StopInFlight, Faults!RequestStart,
           ReceiptsFaults!RequestStart, Faults!SessionCurrent,
           ReceiptsFaults!SessionCurrent, Faults!NoScope,
           ReceiptsFaults!NoScope
  <1>5. ReceiptsFaults!ChainNext => Faults!ChainNext
    BY DEF Faults!ChainNext, ReceiptsFaults!ChainNext, Faults!BeginStart,
           ReceiptsFaults!BeginStart, Faults!EndStart,
           ReceiptsFaults!EndStart, Faults!Superseded,
           ReceiptsFaults!Superseded, Faults!BeginStop,
           ReceiptsFaults!BeginStop, Faults!EndStop, ReceiptsFaults!EndStop,
           Faults!Front1, ReceiptsFaults!Front1, Faults!IntentCurrent,
           ReceiptsFaults!IntentCurrent, Faults!Stage, ReceiptsFaults!Stage,
           Faults!uiVars, ReceiptsFaults!uiVars, Faults!pluginVars,
           ReceiptsFaults!pluginVars, Faults!envVars, ReceiptsFaults!envVars,
           Faults!Watch, ReceiptsFaults!Watch, Faults!Settle,
           ReceiptsFaults!Settle, Faults!Off, ReceiptsFaults!Off,
           Faults!SessionCurrent, ReceiptsFaults!SessionCurrent,
           Faults!NoHealth, ReceiptsFaults!NoHealth, Faults!Reqs,
           ReceiptsFaults!Reqs
  <1>6. ReceiptsFaults!WakeNext => Faults!WakeNext
    BY DEF Faults!WakeNext, ReceiptsFaults!WakeNext, Faults!RollBack,
           ReceiptsFaults!RollBack, Faults!UnexpectedExit,
           ReceiptsFaults!UnexpectedExit, Faults!AutoRecover,
           ReceiptsFaults!AutoRecover, Faults!HealthCurrent,
           ReceiptsFaults!HealthCurrent, Faults!StopInFlight,
           ReceiptsFaults!StopInFlight, Faults!Enqueue,
           ReceiptsFaults!Enqueue, Faults!Entry, ReceiptsFaults!Entry,
           Faults!NoScope, ReceiptsFaults!NoScope, Faults!NoHealth,
           ReceiptsFaults!NoHealth, Faults!uiVars, ReceiptsFaults!uiVars,
           Faults!Off, ReceiptsFaults!Off, Faults!pluginVars,
           ReceiptsFaults!pluginVars, Faults!RequestStart,
           ReceiptsFaults!RequestStart, Faults!envVars, ReceiptsFaults!envVars
  <1> QED
    BY <1>1, <1>2, <1>3, <1>4, <1>5, <1>6 DEF Faults!Next, ReceiptsFaults!Next

(* Starts and stops that fail anywhere: what is pending stays remembered   *)
(* (vpn_operation.rs).                                                     *)
LEMMA ReceiptsFaultsRuns ==
  Spec => [](scenario = "receiptsFaults" => ReceiptsFaults!PendingIsRemembered)
  <1>1. Faults!ConstantsOK
    BY SuiteAssumption DEF Faults!ConstantsOK, ReceiptsFaults!ConstantsOK,
           Faults!Commands, ReceiptsFaults!Commands
  <1>2. Init /\ scenario = "receiptsFaults" => Faults!Init
    BY DEF Init, ReceiptInit, Faults!Init, ReceiptsFaults!Init, Faults!NoOp,
           ReceiptsFaults!NoOp, Faults!Off, ReceiptsFaults!Off, Faults!Reqs,
           ReceiptsFaults!Reqs, Faults!NoHealth, ReceiptsFaults!NoHealth
  <1>3. ReceiptsFaults!Next => Faults!Next
    BY ReceiptsFaultsMoves
  <1>4. [Next]_vars => /\ scenario = "receiptsFaults" => [Faults!Next]_(Faults!vars)
                       /\ (scenario = "receiptsFaults") <=> (scenario = "receiptsFaults")'
    BY <1>3, SuiteSteps DEF receiptVars, Faults!vars, Faults!uiVars,
           Faults!pluginVars, Faults!coreVars, Faults!envVars
  <1>5. Faults!PendingIsRemembered => ReceiptsFaults!PendingIsRemembered
    BY DEF Faults!PendingIsRemembered, ReceiptsFaults!PendingIsRemembered,
           Faults!Unresolved, ReceiptsFaults!Unresolved, Faults!Remembered,
           ReceiptsFaults!Remembered, Faults!NoOp, ReceiptsFaults!NoOp
  <1>6. Faults!Spec => []Faults!PendingIsRemembered
    BY <1>1, Faults!PendingStaysRemembered
  <1> QED
    BY <1>2, <1>4, <1>5, <1>6, PTL DEF Spec, Faults!Spec

Edits == INSTANCE VpnReceiptsProofs WITH
    Kinds <- {"Start", "Stop", "Restart", "OwnedStop"},
    MaxTasks <- Bounds.receiptsEdits.MaxTasks,
    MaxReqs <- Bounds.receiptsEdits.MaxReqs,
    MaxRounds <- Bounds.receiptsEdits.MaxRounds,
    MaxRetained <- Bounds.receiptsEdits.MaxRetained,
    MaxEdits <- Bounds.receiptsEdits.MaxEdits,
    MaxPlugins <- Bounds.receiptsEdits.MaxPlugins,
    MaxRoots <- Bounds.receiptsEdits.MaxRoots,
    MaxIntents <- Bounds.receiptsEdits.MaxIntents,
    MaxFaults <- Bounds.receiptsEdits.MaxFaults, MaxExits <- 0,
    MaxHealth <- Bounds.receiptsEdits.MaxHealth, root <- receiptRoot,
    active <- receiptActive, tasks <- receiptTasks, ops <- receiptOps,
    vpn <- receiptVpn, user <- receiptUser

(* The instance ReceiptsEdits of the operation receipts (vpn_operation.rs) *)
(* takes the steps of the component whose proofs are instantiated.         *)
LEMMA ReceiptsEditsMoves == ReceiptsEdits!Next => Edits!Next
  <1>1. ReceiptsEdits!UiNext => Edits!UiNext
    BY DEF Edits!UiNext, ReceiptsEdits!UiNext, Edits!ToggleVpn,
           ReceiptsEdits!ToggleVpn, Edits!BeginOwnedEdit,
           ReceiptsEdits!BeginOwnedEdit, Edits!PlainEdit,
           ReceiptsEdits!PlainEdit, Edits!ConfirmVpnOperation,
           ReceiptsEdits!ConfirmVpnOperation, Edits!RecoverVpnOperation,
           ReceiptsEdits!RecoverVpnOperation, Edits!RefreshStatus,
           ReceiptsEdits!RefreshStatus, Edits!ReplaceRoot,
           ReceiptsEdits!ReplaceRoot, Edits!Complete, ReceiptsEdits!Complete,
           Edits!NoOp, ReceiptsEdits!NoOp, Edits!CanCommand,
           ReceiptsEdits!CanCommand, Edits!Op, ReceiptsEdits!Op, Edits!Task,
           ReceiptsEdits!Task, Edits!NextReq, ReceiptsEdits!NextReq,
           Edits!pluginVars, ReceiptsEdits!pluginVars, Edits!coreVars,
           ReceiptsEdits!coreVars, Edits!envVars, ReceiptsEdits!envVars,
           Edits!uiVars, ReceiptsEdits!uiVars, Edits!CanSpawn,
           ReceiptsEdits!CanSpawn, Edits!BeginRecovery,
           ReceiptsEdits!BeginRecovery, Edits!MarkUnconfirmed,
           ReceiptsEdits!MarkUnconfirmed, Edits!FinishFailure,
           ReceiptsEdits!FinishFailure, Edits!FinishSuccess,
           ReceiptsEdits!FinishSuccess, Edits!Is, ReceiptsEdits!Is,
           Edits!Goto, ReceiptsEdits!Goto, Edits!Cardinality,
           ReceiptsEdits!Cardinality, Edits!Last, ReceiptsEdits!Last,
           Edits!Front, ReceiptsEdits!Front
  <1>2. ReceiptsEdits!TaskNext => Edits!TaskNext
    BY DEF Edits!TaskNext, ReceiptsEdits!TaskNext, Edits!MakeEdit,
           ReceiptsEdits!MakeEdit, Edits!Submit, ReceiptsEdits!Submit,
           Edits!AwaitOperation, ReceiptsEdits!AwaitOperation,
           Edits!LookupOperation, ReceiptsEdits!LookupOperation,
           Edits!AnswerParked, ReceiptsEdits!AnswerParked, Edits!CallTimesOut,
           ReceiptsEdits!CallTimesOut, Edits!Answer, ReceiptsEdits!Answer,
           Edits!uiVars, ReceiptsEdits!uiVars, Edits!pluginVars,
           ReceiptsEdits!pluginVars, Edits!envVars, ReceiptsEdits!envVars,
           Edits!Call, ReceiptsEdits!Call, Edits!Observe,
           ReceiptsEdits!Observe, Edits!Lookup, ReceiptsEdits!Lookup,
           Edits!Unobservable, ReceiptsEdits!Unobservable, Edits!Observed,
           ReceiptsEdits!Observed, Edits!coreVars, ReceiptsEdits!coreVars,
           Edits!Fault, ReceiptsEdits!Fault, Edits!RemoveAt,
           ReceiptsEdits!RemoveAt, Edits!Goto, ReceiptsEdits!Goto,
           Edits!Settled, ReceiptsEdits!Settled, Edits!Pending,
           ReceiptsEdits!Pending
  <1>3. ReceiptsEdits!StartBaseline => Edits!StartBaseline
    BY DEF Edits!StartBaseline, ReceiptsEdits!StartBaseline,
           Edits!RequestStart, ReceiptsEdits!RequestStart, Edits!Unqueued,
           ReceiptsEdits!Unqueued, Edits!NoHealth, ReceiptsEdits!NoHealth,
           Edits!uiVars, ReceiptsEdits!uiVars, Edits!envVars,
           ReceiptsEdits!envVars, Edits!Enqueue, ReceiptsEdits!Enqueue,
           Edits!Entry, ReceiptsEdits!Entry, Edits!NoScope,
           ReceiptsEdits!NoScope
  <1>4. ReceiptsEdits!PluginNext => Edits!PluginNext
    BY DEF Edits!PluginNext, ReceiptsEdits!PluginNext, Edits!HandleSubmit,
           ReceiptsEdits!HandleSubmit, Edits!HandleAwait,
           ReceiptsEdits!HandleAwait, Edits!HandleLookup,
           ReceiptsEdits!HandleLookup, Edits!RecreatePlugin,
           ReceiptsEdits!RecreatePlugin, Edits!Retain, ReceiptsEdits!Retain,
           Edits!Unqueued, ReceiptsEdits!Unqueued, Edits!Create,
           ReceiptsEdits!Create, Edits!uiVars, ReceiptsEdits!uiVars,
           Edits!envVars, ReceiptsEdits!envVars, Edits!IsRetained,
           ReceiptsEdits!IsRetained, Edits!Settled, ReceiptsEdits!Settled,
           Edits!Answer, ReceiptsEdits!Answer, Edits!Goto, ReceiptsEdits!Goto,
           Edits!pluginVars, ReceiptsEdits!pluginVars, Edits!coreVars,
           ReceiptsEdits!coreVars, Edits!RemoveAt, ReceiptsEdits!RemoveAt,
           Edits!Enqueue, ReceiptsEdits!Enqueue, Edits!Entry,
           ReceiptsEdits!Entry, Edits!StopInFlight,
           ReceiptsEdits!StopInFlight, Edits!RequestStart,
           ReceiptsEdits!RequestStart, Edits!SessionCurrent,
           ReceiptsEdits!SessionCurrent, Edits!NoScope, ReceiptsEdits!NoScope
  <1>5. ReceiptsEdits!ChainNext => Edits!ChainNext
    BY DEF Edits!ChainNext, ReceiptsEdits!ChainNext, Edits!BeginStart,
           ReceiptsEdits!BeginStart, Edits!EndStart, ReceiptsEdits!EndStart,
           Edits!Superseded, ReceiptsEdits!Superseded, Edits!BeginStop,
           ReceiptsEdits!BeginStop, Edits!EndStop, ReceiptsEdits!EndStop,
           Edits!Front1, ReceiptsEdits!Front1, Edits!IntentCurrent,
           ReceiptsEdits!IntentCurrent, Edits!Stage, ReceiptsEdits!Stage,
           Edits!uiVars, ReceiptsEdits!uiVars, Edits!pluginVars,
           ReceiptsEdits!pluginVars, Edits!envVars, ReceiptsEdits!envVars,
           Edits!Watch, ReceiptsEdits!Watch, Edits!Settle,
           ReceiptsEdits!Settle, Edits!Off, ReceiptsEdits!Off,
           Edits!SessionCurrent, ReceiptsEdits!SessionCurrent, Edits!NoHealth,
           ReceiptsEdits!NoHealth, Edits!Reqs, ReceiptsEdits!Reqs
  <1>6. ReceiptsEdits!WakeNext => Edits!WakeNext
    BY DEF Edits!WakeNext, ReceiptsEdits!WakeNext, Edits!RollBack,
           ReceiptsEdits!RollBack, Edits!UnexpectedExit,
           ReceiptsEdits!UnexpectedExit, Edits!AutoRecover,
           ReceiptsEdits!AutoRecover, Edits!HealthCurrent,
           ReceiptsEdits!HealthCurrent, Edits!StopInFlight,
           ReceiptsEdits!StopInFlight, Edits!Enqueue, ReceiptsEdits!Enqueue,
           Edits!Entry, ReceiptsEdits!Entry, Edits!NoScope,
           ReceiptsEdits!NoScope, Edits!NoHealth, ReceiptsEdits!NoHealth,
           Edits!uiVars, ReceiptsEdits!uiVars, Edits!Off, ReceiptsEdits!Off,
           Edits!pluginVars, ReceiptsEdits!pluginVars, Edits!RequestStart,
           ReceiptsEdits!RequestStart, Edits!envVars, ReceiptsEdits!envVars
  <1> QED
    BY <1>1, <1>2, <1>3, <1>4, <1>5, <1>6 DEF Edits!Next, ReceiptsEdits!Next

(* Commands that overtake one another: only fences queue up, and a stop of *)
(* the user wins (begin_owned_vpn_operation).                              *)
LEMMA ReceiptsEditsRuns ==
  Spec => [](scenario = "receiptsEdits" =>
                /\ ReceiptsEdits!OnlyFencesQueueUp
                /\ ReceiptsEdits!StopWins)
  <1>1. Edits!ConstantsOK
    BY SuiteAssumption DEF Edits!ConstantsOK, ReceiptsEdits!ConstantsOK,
           Edits!Commands, ReceiptsEdits!Commands
  <1>2. Init /\ scenario = "receiptsEdits" => Edits!Init
    BY DEF Init, ReceiptInit, Edits!Init, ReceiptsEdits!Init, Edits!NoOp,
           ReceiptsEdits!NoOp, Edits!Off, ReceiptsEdits!Off, Edits!Reqs,
           ReceiptsEdits!Reqs, Edits!NoHealth, ReceiptsEdits!NoHealth
  <1>3. ReceiptsEdits!Next => Edits!Next
    BY ReceiptsEditsMoves
  <1>4. [Next]_vars => /\ scenario = "receiptsEdits" => [Edits!Next]_(Edits!vars)
                       /\ (scenario = "receiptsEdits") <=> (scenario = "receiptsEdits")'
    BY <1>3, SuiteSteps DEF receiptVars, Edits!vars, Edits!uiVars,
           Edits!pluginVars, Edits!coreVars, Edits!envVars
  <1>5. /\ Edits!OnlyFencesQueueUp => ReceiptsEdits!OnlyFencesQueueUp
        /\ Edits!StopWins => ReceiptsEdits!StopWins
    BY DEF Edits!OnlyFencesQueueUp, ReceiptsEdits!OnlyFencesQueueUp,
           Edits!StopWins, ReceiptsEdits!StopWins, Edits!Unresolved,
           ReceiptsEdits!Unresolved
  <1>6. Edits!Spec => /\ []Edits!OnlyFencesQueueUp
                      /\ []Edits!StopWins
    BY <1>1, Edits!FencesOnlyQueueUp, Edits!UserStopWins
  <1> QED
    BY <1>2, <1>4, <1>5, <1>6, PTL DEF Spec, Edits!Spec

Health == INSTANCE VpnReceiptsProofs WITH Kinds <- {"Start", "Stop"},
    MaxTasks <- Bounds.receiptsHealth.MaxTasks,
    MaxReqs <- Bounds.receiptsHealth.MaxReqs,
    MaxRounds <- Bounds.receiptsHealth.MaxRounds,
    MaxRetained <- Bounds.receiptsHealth.MaxRetained,
    MaxEdits <- Bounds.receiptsHealth.MaxEdits, MaxPlugins <- 1,
    MaxRoots <- Bounds.receiptsHealth.MaxRoots,
    MaxIntents <- Bounds.receiptsHealth.MaxIntents,
    MaxFaults <- Bounds.receiptsHealth.MaxFaults,
    MaxExits <- Bounds.receiptsHealth.MaxExits,
    MaxHealth <- Bounds.receiptsHealth.MaxHealth, root <- receiptRoot,
    active <- receiptActive, tasks <- receiptTasks, ops <- receiptOps,
    vpn <- receiptVpn, user <- receiptUser

(* The instance ReceiptsHealth of the operation receipts                   *)
(* (vpn_operation.rs) takes the steps of the component whose proofs are    *)
(* instantiated.                                                           *)
LEMMA ReceiptsHealthMoves == ReceiptsHealth!Next => Health!Next
  <1>1. ReceiptsHealth!UiNext => Health!UiNext
    BY DEF Health!UiNext, ReceiptsHealth!UiNext, Health!ToggleVpn,
           ReceiptsHealth!ToggleVpn, Health!BeginOwnedEdit,
           ReceiptsHealth!BeginOwnedEdit, Health!PlainEdit,
           ReceiptsHealth!PlainEdit, Health!ConfirmVpnOperation,
           ReceiptsHealth!ConfirmVpnOperation, Health!RecoverVpnOperation,
           ReceiptsHealth!RecoverVpnOperation, Health!RefreshStatus,
           ReceiptsHealth!RefreshStatus, Health!ReplaceRoot,
           ReceiptsHealth!ReplaceRoot, Health!Complete,
           ReceiptsHealth!Complete, Health!NoOp, ReceiptsHealth!NoOp,
           Health!CanCommand, ReceiptsHealth!CanCommand, Health!Op,
           ReceiptsHealth!Op, Health!Task, ReceiptsHealth!Task,
           Health!NextReq, ReceiptsHealth!NextReq, Health!pluginVars,
           ReceiptsHealth!pluginVars, Health!coreVars,
           ReceiptsHealth!coreVars, Health!envVars, ReceiptsHealth!envVars,
           Health!uiVars, ReceiptsHealth!uiVars, Health!CanSpawn,
           ReceiptsHealth!CanSpawn, Health!BeginRecovery,
           ReceiptsHealth!BeginRecovery, Health!MarkUnconfirmed,
           ReceiptsHealth!MarkUnconfirmed, Health!FinishFailure,
           ReceiptsHealth!FinishFailure, Health!FinishSuccess,
           ReceiptsHealth!FinishSuccess, Health!Is, ReceiptsHealth!Is,
           Health!Goto, ReceiptsHealth!Goto, Health!Cardinality,
           ReceiptsHealth!Cardinality, Health!Last, ReceiptsHealth!Last,
           Health!Front, ReceiptsHealth!Front
  <1>2. ReceiptsHealth!TaskNext => Health!TaskNext
    BY DEF Health!TaskNext, ReceiptsHealth!TaskNext, Health!MakeEdit,
           ReceiptsHealth!MakeEdit, Health!Submit, ReceiptsHealth!Submit,
           Health!AwaitOperation, ReceiptsHealth!AwaitOperation,
           Health!LookupOperation, ReceiptsHealth!LookupOperation,
           Health!AnswerParked, ReceiptsHealth!AnswerParked,
           Health!CallTimesOut, ReceiptsHealth!CallTimesOut, Health!Answer,
           ReceiptsHealth!Answer, Health!uiVars, ReceiptsHealth!uiVars,
           Health!pluginVars, ReceiptsHealth!pluginVars, Health!envVars,
           ReceiptsHealth!envVars, Health!Call, ReceiptsHealth!Call,
           Health!Observe, ReceiptsHealth!Observe, Health!Lookup,
           ReceiptsHealth!Lookup, Health!Unobservable,
           ReceiptsHealth!Unobservable, Health!Observed,
           ReceiptsHealth!Observed, Health!coreVars, ReceiptsHealth!coreVars,
           Health!Fault, ReceiptsHealth!Fault, Health!RemoveAt,
           ReceiptsHealth!RemoveAt, Health!Goto, ReceiptsHealth!Goto,
           Health!Settled, ReceiptsHealth!Settled, Health!Pending,
           ReceiptsHealth!Pending
  <1>3. ReceiptsHealth!StartBaseline => Health!StartBaseline
    BY DEF Health!StartBaseline, ReceiptsHealth!StartBaseline,
           Health!RequestStart, ReceiptsHealth!RequestStart, Health!Unqueued,
           ReceiptsHealth!Unqueued, Health!NoHealth, ReceiptsHealth!NoHealth,
           Health!uiVars, ReceiptsHealth!uiVars, Health!envVars,
           ReceiptsHealth!envVars, Health!Enqueue, ReceiptsHealth!Enqueue,
           Health!Entry, ReceiptsHealth!Entry, Health!NoScope,
           ReceiptsHealth!NoScope
  <1>4. ReceiptsHealth!PluginNext => Health!PluginNext
    BY DEF Health!PluginNext, ReceiptsHealth!PluginNext, Health!HandleSubmit,
           ReceiptsHealth!HandleSubmit, Health!HandleAwait,
           ReceiptsHealth!HandleAwait, Health!HandleLookup,
           ReceiptsHealth!HandleLookup, Health!RecreatePlugin,
           ReceiptsHealth!RecreatePlugin, Health!Retain,
           ReceiptsHealth!Retain, Health!Unqueued, ReceiptsHealth!Unqueued,
           Health!Create, ReceiptsHealth!Create, Health!uiVars,
           ReceiptsHealth!uiVars, Health!envVars, ReceiptsHealth!envVars,
           Health!IsRetained, ReceiptsHealth!IsRetained, Health!Settled,
           ReceiptsHealth!Settled, Health!Answer, ReceiptsHealth!Answer,
           Health!Goto, ReceiptsHealth!Goto, Health!pluginVars,
           ReceiptsHealth!pluginVars, Health!coreVars,
           ReceiptsHealth!coreVars, Health!RemoveAt, ReceiptsHealth!RemoveAt,
           Health!Enqueue, ReceiptsHealth!Enqueue, Health!Entry,
           ReceiptsHealth!Entry, Health!StopInFlight,
           ReceiptsHealth!StopInFlight, Health!RequestStart,
           ReceiptsHealth!RequestStart, Health!SessionCurrent,
           ReceiptsHealth!SessionCurrent, Health!NoScope,
           ReceiptsHealth!NoScope
  <1>5. ReceiptsHealth!ChainNext => Health!ChainNext
    BY DEF Health!ChainNext, ReceiptsHealth!ChainNext, Health!BeginStart,
           ReceiptsHealth!BeginStart, Health!EndStart,
           ReceiptsHealth!EndStart, Health!Superseded,
           ReceiptsHealth!Superseded, Health!BeginStop,
           ReceiptsHealth!BeginStop, Health!EndStop, ReceiptsHealth!EndStop,
           Health!Front1, ReceiptsHealth!Front1, Health!IntentCurrent,
           ReceiptsHealth!IntentCurrent, Health!Stage, ReceiptsHealth!Stage,
           Health!uiVars, ReceiptsHealth!uiVars, Health!pluginVars,
           ReceiptsHealth!pluginVars, Health!envVars, ReceiptsHealth!envVars,
           Health!Watch, ReceiptsHealth!Watch, Health!Settle,
           ReceiptsHealth!Settle, Health!Off, ReceiptsHealth!Off,
           Health!SessionCurrent, ReceiptsHealth!SessionCurrent,
           Health!NoHealth, ReceiptsHealth!NoHealth, Health!Reqs,
           ReceiptsHealth!Reqs
  <1>6. ReceiptsHealth!WakeNext => Health!WakeNext
    BY DEF Health!WakeNext, ReceiptsHealth!WakeNext, Health!RollBack,
           ReceiptsHealth!RollBack, Health!UnexpectedExit,
           ReceiptsHealth!UnexpectedExit, Health!AutoRecover,
           ReceiptsHealth!AutoRecover, Health!HealthCurrent,
           ReceiptsHealth!HealthCurrent, Health!StopInFlight,
           ReceiptsHealth!StopInFlight, Health!Enqueue,
           ReceiptsHealth!Enqueue, Health!Entry, ReceiptsHealth!Entry,
           Health!NoScope, ReceiptsHealth!NoScope, Health!NoHealth,
           ReceiptsHealth!NoHealth, Health!uiVars, ReceiptsHealth!uiVars,
           Health!Off, ReceiptsHealth!Off, Health!pluginVars,
           ReceiptsHealth!pluginVars, Health!RequestStart,
           ReceiptsHealth!RequestStart, Health!envVars, ReceiptsHealth!envVars
  <1> QED
    BY <1>1, <1>2, <1>3, <1>4, <1>5, <1>6 DEF Health!Next, ReceiptsHealth!Next

(* A roll-back of a start that is not healthy overtakes no newer command   *)
(* (monitorStartupHealth).                                                 *)
LEMMA ReceiptsHealthSteps == Spec => [][scenario = "receiptsHealth" => ReceiptsHealth!BaselineIsNewest]_vars
  <1>1. Health!ConstantsOK
    BY SuiteAssumption DEF Health!ConstantsOK, ReceiptsHealth!ConstantsOK,
           Health!Commands, ReceiptsHealth!Commands
  <1>2. Init /\ scenario = "receiptsHealth" => Health!Init
    BY DEF Init, ReceiptInit, Health!Init, ReceiptsHealth!Init, Health!NoOp,
           ReceiptsHealth!NoOp, Health!Off, ReceiptsHealth!Off, Health!Reqs,
           ReceiptsHealth!Reqs, Health!NoHealth, ReceiptsHealth!NoHealth
  <1>3. ReceiptsHealth!Next => Health!Next
    BY ReceiptsHealthMoves
  <1>4. [Next]_vars => /\ scenario = "receiptsHealth" => [Health!Next]_(Health!vars)
                       /\ (scenario = "receiptsHealth") <=> (scenario = "receiptsHealth")'
    BY <1>3, SuiteSteps DEF receiptVars, Health!vars, Health!uiVars,
           Health!pluginVars, Health!coreVars, Health!envVars
  <1>5. [Next]_vars /\ [Health!BaselineIsNewest]_(Health!vars)
          => [scenario = "receiptsHealth" => ReceiptsHealth!BaselineIsNewest]_vars
    <2>1. Health!BaselineIsNewest => ReceiptsHealth!BaselineIsNewest
      BY DEF Health!BaselineIsNewest, ReceiptsHealth!BaselineIsNewest
    <2>2. [Next]_vars /\ scenario = "receiptsHealth" /\ UNCHANGED receiptVars => UNCHANGED vars
      BY DEF Next, vars, ReceiptNext, RecoveryNext, ProjectionNext,
             AppearanceNext, ImportNext, DialogNext, KeepNext
    <2> QED
      BY <2>1, <2>2 DEF receiptVars, Health!vars, Health!uiVars,
         Health!pluginVars, Health!coreVars, Health!envVars
  <1>6. Health!Spec => [][Health!BaselineIsNewest]_(Health!vars)
    BY <1>1, Health!CommandsOutliveRollbacks DEF Health!CommandOutlivesRollback
  <1> QED
    BY <1>2, <1>4, <1>5, <1>6, PTL DEF Spec, Health!Spec

Provider == INSTANCE UiComponentProofs WITH
    MaxChanges <- Bounds.projectionsOrder.MaxChanges,
    MaxOps <- Bounds.projectionsOrder.MaxOps,
    Capacity <- Bounds.projectionsOrder.Capacity, Poison <- FALSE,
    changes <- projectionChanges, fresh <- projectionFresh,
    shown <- projectionShown, chan <- projectionChan, ops <- projectionOps,
    MaxSessions <- Bounds.recoveryStarts.MaxSessions,
    Deaths <- Bounds.recoveryStarts.Deaths, StopsAllowed <- TRUE,
    tasks <- recoveryTasks, user <- recoveryUser, Unconfirmed <- TRUE,
    MaxTasks <- Bounds.taskFaults.MaxTasks,
    MaxUser <- Bounds.taskFaults.MaxUser, CancelEarly <- TRUE,
    Refusals <- TRUE, MaxLooks <- Bounds.appearanceFaults.MaxEdits,
    MaxSystem <- Bounds.appearanceFaults.MaxSystem,
    MaxRestarts <- Bounds.appearanceFaults.MaxRestarts, ColorFails <- TRUE,
    SaveFails <- TRUE, Unknown <- Unconfirmed,
    MaxOwnEdits <- Bounds.importsProfile.MaxEdits, Kinds <- {"profile"},
    MaxImports <- Bounds.importsProfile.MaxImports,
    MaxCancels <- Bounds.importsProfile.MaxCancels,
    MaxLeaves <- Bounds.importsProfile.MaxLeaves,
    MaxRoots <- Bounds.importsProfile.MaxRoots,
    MaxOthers <- Bounds.importsProfile.MaxOthers

(* The instance ProjectionsOrder of the projections                        *)
(* (use_runtime_projection_provider) takes the steps of the component      *)
(* whose proofs are instantiated.                                          *)
LEMMA ProjectionsOrderMoves == ProjectionsOrder!Next => Provider!Next
  BY DEF Provider!Next, ProjectionsOrder!Next, Provider!Publish,
           ProjectionsOrder!Publish, Provider!LockPoisoned,
           ProjectionsOrder!LockPoisoned, Provider!LoadInitial,
           ProjectionsOrder!LoadInitial, Provider!Mount,
           ProjectionsOrder!Mount, Provider!Provider,
           ProjectionsOrder!Provider, Provider!OnMessage,
           ProjectionsOrder!OnMessage, Provider!OpReads,
           ProjectionsOrder!OpReads, Provider!OpApplies,
           ProjectionsOrder!OpApplies, Provider!Pause, ProjectionsOrder!Pause,
           Provider!Published, ProjectionsOrder!Published, Provider!Domains,
           ProjectionsOrder!Domains, Provider!Order, ProjectionsOrder!Order,
           Provider!Zero, ProjectionsOrder!Zero, Provider!InitialApplied,
           ProjectionsOrder!InitialApplied, Provider!Look,
           ProjectionsOrder!Look, Provider!Skip, ProjectionsOrder!Skip,
           Provider!Fetch, ProjectionsOrder!Fetch, Provider!Send,
           ProjectionsOrder!Send, Provider!Wake, ProjectionsOrder!Wake,
           Provider!Apply, ProjectionsOrder!Apply, Provider!Failure,
           ProjectionsOrder!Failure, Provider!Report, ProjectionsOrder!Report,
           Provider!UiOnly, ProjectionsOrder!UiOnly, Provider!Proj,
           ProjectionsOrder!Proj, Provider!ProviderOnly,
           ProjectionsOrder!ProviderOnly, Provider!Domain,
           ProjectionsOrder!Domain, Provider!InHand, ProjectionsOrder!InHand

(* Changes and operations together: what is applied arrives                *)
(* (use_runtime_projection_provider).                                      *)
LEMMA ProjectionsOrderRuns ==
  Spec => [](scenario = "projectionsOrder" => ProjectionsOrder!AppliedArrives)
  <1>1. Provider!ConstantsOK
    BY SuiteAssumption DEF Provider!ConstantsOK, ProjectionsOrder!ConstantsOK
  <1>2. Init /\ scenario = "projectionsOrder" => Provider!Init
    BY DEF Init, ProjectionInit, Provider!Init, ProjectionsOrder!Init,
           Provider!Zero, ProjectionsOrder!Zero, Provider!Domains,
           ProjectionsOrder!Domains
  <1>3. ProjectionsOrder!Next => Provider!Next
    BY ProjectionsOrderMoves
  <1>4. [Next]_vars => /\ scenario = "projectionsOrder" => [Provider!Next]_(Provider!vars)
                       /\ (scenario = "projectionsOrder") <=> (scenario = "projectionsOrder")'
    BY <1>3, SuiteSteps DEF projectionVars, Provider!vars
  <1>5. Provider!AppliedArrives => ProjectionsOrder!AppliedArrives
    BY DEF Provider!AppliedArrives, ProjectionsOrder!AppliedArrives,
           Provider!Domains, ProjectionsOrder!Domains, Provider!Domain,
           ProjectionsOrder!Domain, Provider!Order, ProjectionsOrder!Order
  <1>6. Provider!Spec => []Provider!AppliedArrives
    BY <1>1, Provider!NothingAppliedIsLost
  <1> QED
    BY <1>2, <1>4, <1>5, <1>6, PTL DEF Spec, Provider!Spec

(* The instance RecoveryStarts of the recovery                             *)
(* (claim_platform_vpn_auto_recovery) takes the steps of the component     *)
(* whose proofs are instantiated.                                          *)
LEMMA RecoveryStartsMoves == RecoveryStarts!Next => Provider!Recovery!Next
  BY DEF Provider!Recovery!Next, RecoveryStarts!Next,
           Provider!Recovery!UserStarts, RecoveryStarts!UserStarts,
           Provider!Recovery!Connects, RecoveryStarts!Connects,
           Provider!Recovery!StartFails, RecoveryStarts!StartFails,
           Provider!Recovery!Dies, RecoveryStarts!Dies,
           Provider!Recovery!UserStops, RecoveryStarts!UserStops,
           Provider!Recovery!StopEnds, RecoveryStarts!StopEnds,
           Provider!Recovery!Publish, RecoveryStarts!Publish,
           Provider!Recovery!Claim, RecoveryStarts!Claim,
           Provider!Recovery!AutoStart, RecoveryStarts!AutoStart,
           Provider!Recovery!AutoStarted, RecoveryStarts!AutoStarted,
           Provider!Recovery!BackoffEnds, RecoveryStarts!BackoffEnds,
           Provider!Recovery!Busy, RecoveryStarts!Busy,
           Provider!Recovery!Begins, RecoveryStarts!Begins,
           Provider!Recovery!Disarmed, RecoveryStarts!Disarmed,
           Provider!Recovery!Armed, RecoveryStarts!Armed,
           Provider!Recovery!Found, RecoveryStarts!Found,
           Provider!Recovery!Limit, RecoveryStarts!Limit,
           Provider!Recovery!Rearm, RecoveryStarts!Rearm,
           Provider!Recovery!Orphan, RecoveryStarts!Orphan

(* Deaths of the Extension: at most three automatic starts answer each     *)
(* (claim_platform_vpn_auto_recovery).                                     *)
LEMMA RecoveryStartsRuns ==
  Spec => [](scenario = "recoveryStarts" => RecoveryStarts!ThreeStartsPerDeath)
  <1>1. Provider!Recovery!ConstantsOK
    BY SuiteAssumption DEF Provider!Recovery!ConstantsOK,
           RecoveryStarts!ConstantsOK
  <1>2. Init /\ scenario = "recoveryStarts" => Provider!Recovery!Init
    BY DEF Init, RecoveryInit, Provider!Recovery!Init, RecoveryStarts!Init,
           Provider!Recovery!NoSession, RecoveryStarts!NoSession,
           Provider!Recovery!Idle, RecoveryStarts!Idle, Provider!Recovery!Ids,
           RecoveryStarts!Ids, Provider!Recovery!Orphan, RecoveryStarts!Orphan
  <1>3. RecoveryStarts!Next => Provider!Recovery!Next
    BY RecoveryStartsMoves
  <1>4. [Next]_vars => /\ scenario = "recoveryStarts" => [Provider!Recovery!Next]_(Provider!Recovery!vars)
                       /\ (scenario = "recoveryStarts") <=> (scenario = "recoveryStarts")'
    BY <1>3, SuiteSteps DEF recoveryVars, Provider!Recovery!vars
  <1>5. Provider!Recovery!ThreeStartsPerDeath => RecoveryStarts!ThreeStartsPerDeath
    BY DEF Provider!Recovery!ThreeStartsPerDeath,
           RecoveryStarts!ThreeStartsPerDeath, Provider!Recovery!Limit,
           RecoveryStarts!Limit
  <1>6. Provider!Recovery!Spec => []Provider!Recovery!ThreeStartsPerDeath
    BY <1>1, Provider!ThreeStarts
  <1> QED
    BY <1>2, <1>4, <1>5, <1>6, PTL DEF Spec, Provider!Recovery!Spec

(* The instance TaskFaults of the continuous task (VpnContinuousTask)      *)
(* takes the steps of the component whose proofs are instantiated.         *)
LEMMA TaskFaultsMoves == TaskFaults!Next => Provider!Keep!Next
  BY DEF Provider!Keep!Next, TaskFaults!Next, Provider!Keep!Continues,
           TaskFaults!Continues, Provider!Keep!StartAgain,
           TaskFaults!StartAgain, Provider!Keep!SystemCancels,
           TaskFaults!SystemCancels, Provider!Keep!Cancelled,
           TaskFaults!Cancelled, Provider!Keep!Connect, TaskFaults!Connect,
           Provider!Keep!Foreground, TaskFaults!Foreground,
           Provider!Keep!Disconnect, TaskFaults!Disconnect,
           Provider!Keep!StopForRecovery, TaskFaults!StopForRecovery,
           Provider!Keep!SessionEnds, TaskFaults!SessionEnds,
           Provider!Keep!SystemStops, TaskFaults!SystemStops,
           Provider!Keep!Asks, TaskFaults!Asks, Provider!Keep!Forgets,
           TaskFaults!Forgets, Provider!Keep!Settling, TaskFaults!Settling,
           Provider!Keep!held, TaskFaults!held,
           Provider!Keep!AgentReady, TaskFaults!AgentReady,
           Provider!Keep!SystemStarts, TaskFaults!SystemStarts,
           Provider!Keep!SystemRefuses, TaskFaults!SystemRefuses,
           Provider!Keep!Published, TaskFaults!Published,
           Provider!Keep!PublishFails, TaskFaults!PublishFails,
           Provider!Keep!Unwound, TaskFaults!Unwound,
           Provider!Keep!StopWaited, TaskFaults!StopWaited,
           Provider!Keep!StopEnds, TaskFaults!StopEnds,
           Provider!Keep!StartCall, TaskFaults!StartCall,
           Provider!Keep!sysVars, TaskFaults!sysVars, Provider!Keep!Cleared,
           TaskFaults!Cleared, Provider!Keep!Acts, TaskFaults!Acts,
           Provider!Keep!Noted, TaskFaults!Noted, Provider!Keep!StopCall,
           TaskFaults!StopCall, Provider!Keep!Off, TaskFaults!Off,
           Provider!Keep!Idle, TaskFaults!Idle

(* A task that the system may refuse and cancel: none is left by a stop    *)
(* until the Plugin asks again, unless the system refused or the Plugin    *)
(* asked during the stop; one that is held has its timer                   *)
(* (VpnContinuousTask).                                                    *)
LEMMA TaskFaultsRuns ==
  Spec => [](scenario = "taskFaults" =>
                /\ TaskFaults!NoTaskAfterStop
                /\ TaskFaults!TaskIsUpdated)
  <1>1. Provider!Keep!ConstantsOK
    BY SuiteAssumption DEF Provider!Keep!ConstantsOK, TaskFaults!ConstantsOK,
           Provider!Keep!Stops, TaskFaults!Stops
  <1>2. Init /\ scenario = "taskFaults" => Provider!Keep!Init
    BY DEF Init, KeepInit, Provider!Keep!Init, TaskFaults!Init,
           Provider!Keep!Idle, TaskFaults!Idle
  <1>3. TaskFaults!Next => Provider!Keep!Next
    BY TaskFaultsMoves
  <1>4. [Next]_vars => /\ scenario = "taskFaults" => [Provider!Keep!Next]_(Provider!Keep!vars)
                       /\ (scenario = "taskFaults") <=> (scenario = "taskFaults")'
    BY <1>3, SuiteSteps DEF keepVars, Provider!Keep!vars,
           Provider!Keep!sysVars, Provider!Keep!held
  <1>5. /\ Provider!Keep!NoTaskAfterStop => TaskFaults!NoTaskAfterStop
        /\ Provider!Keep!TaskIsUpdated => TaskFaults!TaskIsUpdated
    BY DEF Provider!Keep!NoTaskAfterStop, TaskFaults!NoTaskAfterStop,
           Provider!Keep!TaskIsUpdated, TaskFaults!TaskIsUpdated
  <1>6. Provider!Keep!Spec => [](Provider!Keep!NoTaskAfterStop /\ Provider!Keep!TaskIsUpdated)
    BY <1>1, Provider!TaskFollows
  <1> QED
    BY <1>2, <1>4, <1>5, <1>6, PTL DEF Spec, Provider!Keep!Spec

(* The instance AppearanceFaults of the appearance                         *)
(* (use_system_preferences_provider) takes the steps of the component      *)
(* whose proofs are instantiated.                                          *)
LEMMA AppearanceFaultsMoves == AppearanceFaults!Next => Provider!Looks!Next
  BY DEF Provider!Looks!Next, AppearanceFaults!Next, Provider!Looks!User,
           AppearanceFaults!User, Provider!Looks!Steps,
           AppearanceFaults!Steps, Provider!Looks!Languages,
           AppearanceFaults!Languages, Provider!Looks!SetLanguage,
           AppearanceFaults!SetLanguage, Provider!Looks!Themes,
           AppearanceFaults!Themes, Provider!Looks!SetTheme,
           AppearanceFaults!SetTheme, Provider!Looks!RetryColorMode,
           AppearanceFaults!RetryColorMode, Provider!Looks!SystemChanges,
           AppearanceFaults!SystemChanges, Provider!Looks!Restart,
           AppearanceFaults!Restart, Provider!Looks!ColorModeEffect,
           AppearanceFaults!ColorModeEffect, Provider!Looks!PluginApplies,
           AppearanceFaults!PluginApplies, Provider!Looks!ColorModeCallback,
           AppearanceFaults!ColorModeCallback,
           Provider!Looks!ConfigurationUpdate,
           AppearanceFaults!ConfigurationUpdate,
           Provider!Looks!SubscriptionSends,
           AppearanceFaults!SubscriptionSends, Provider!Looks!OnSystem,
           AppearanceFaults!OnSystem, Provider!Looks!Edit,
           AppearanceFaults!Edit, Provider!Looks!Save, AppearanceFaults!Save,
           Provider!Looks!Locale, AppearanceFaults!Locale,
           Provider!Looks!Dark, AppearanceFaults!Dark, Provider!Looks!System,
           AppearanceFaults!System, Provider!Looks!Loaded,
           AppearanceFaults!Loaded, Provider!Looks!ModeOf,
           AppearanceFaults!ModeOf, Provider!Looks!CallbackPrefs,
           AppearanceFaults!CallbackPrefs, Provider!Looks!RemoveAt,
           AppearanceFaults!RemoveAt, Provider!Looks!Configuration,
           AppearanceFaults!Configuration, Provider!Looks!ChannelCapacity,
           AppearanceFaults!ChannelCapacity, Provider!Looks!Locales,
           AppearanceFaults!Locales

(* Choices whose calls and saves may fail: what waits has a call, and what *)
(* is shown is saved or told not to be (set_theme, set_language).          *)
LEMMA AppearanceFaultsRuns ==
  Spec => [](scenario = "appearanceFaults" =>
                /\ AppearanceFaults!PendingHasCall
                /\ AppearanceFaults!ShownIsSaved)
  <1>1. Provider!Looks!ConstantsOK
    BY SuiteAssumption DEF Provider!Looks!ConstantsOK,
           AppearanceFaults!ConstantsOK
  <1>2. Init /\ scenario = "appearanceFaults" => Provider!Looks!Init
    BY DEF Init, AppearanceInit, Provider!Looks!Init, AppearanceFaults!Init,
           Provider!Looks!System, AppearanceFaults!System,
           Provider!Looks!Loaded, AppearanceFaults!Loaded,
           Provider!Looks!Locales, AppearanceFaults!Locales,
           Provider!Looks!Locale, AppearanceFaults!Locale,
           Provider!Looks!Dark, AppearanceFaults!Dark
  <1>3. AppearanceFaults!Next => Provider!Looks!Next
    BY AppearanceFaultsMoves
  <1>4. [Next]_vars => /\ scenario = "appearanceFaults" => [Provider!Looks!Next]_(Provider!Looks!vars)
                       /\ (scenario = "appearanceFaults") <=> (scenario = "appearanceFaults")'
    BY <1>3, SuiteSteps DEF appearanceVars, Provider!Looks!vars
  <1>5. /\ Provider!Looks!PendingHasCall => AppearanceFaults!PendingHasCall
        /\ Provider!Looks!ShownIsSaved => AppearanceFaults!ShownIsSaved
    BY DEF Provider!Looks!PendingHasCall, AppearanceFaults!PendingHasCall,
           Provider!Looks!ShownIsSaved, AppearanceFaults!ShownIsSaved
  <1>6. Provider!Looks!Spec => [](Provider!Looks!PendingHasCall /\ Provider!Looks!ShownIsSaved)
    BY <1>1, Provider!AppearanceIsKept
  <1> QED
    BY <1>2, <1>4, <1>5, <1>6, PTL DEF Spec, Provider!Looks!Spec

(* The instance ImportsProfile of the imports (prepare_profile_url_import, *)
(* import_rules) takes the steps of the component whose proofs are         *)
(* instantiated.                                                           *)
LEMMA ImportsProfileMoves == ImportsProfile!Next => Provider!Imports!Next
  BY DEF Provider!Imports!Next, ImportsProfile!Next,
           Provider!Imports!StartProfileImport,
           ImportsProfile!StartProfileImport, Provider!Imports!EmptyUrl,
           ImportsProfile!EmptyUrl, Provider!Imports!ResetFeedback,
           ImportsProfile!ResetFeedback, Provider!Imports!CancelProfileImport,
           ImportsProfile!CancelProfileImport, Provider!Imports!ImportRules,
           ImportsProfile!ImportRules, Provider!Imports!LeavePage,
           ImportsProfile!LeavePage, Provider!Imports!ReplaceRoot,
           ImportsProfile!ReplaceRoot, Provider!Imports!EditConfig,
           ImportsProfile!EditConfig, Provider!Imports!ShowConfig,
           ImportsProfile!ShowConfig, Provider!Imports!OtherBegins,
           ImportsProfile!OtherBegins, Provider!Imports!OtherEnds,
           ImportsProfile!OtherEnds, Provider!Imports!Jobs,
           ImportsProfile!Jobs, Provider!Imports!PrepareBegins,
           ImportsProfile!PrepareBegins, Provider!Imports!Prepares,
           ImportsProfile!Prepares, Provider!Imports!PrepareGivesUp,
           ImportsProfile!PrepareGivesUp, Provider!Imports!PreparedOnUi,
           ImportsProfile!PreparedOnUi, Provider!Imports!Commits,
           ImportsProfile!Commits, Provider!Imports!CommittedOnUi,
           ImportsProfile!CommittedOnUi, Provider!Imports!RulesPicked,
           ImportsProfile!RulesPicked, Provider!Imports!RulesCommitted,
           ImportsProfile!RulesCommitted, Provider!Imports!Spend,
           ImportsProfile!Spend, Provider!Imports!Cancelled,
           ImportsProfile!Cancelled, Provider!Imports!Blank,
           ImportsProfile!Blank, Provider!Imports!Abandoned,
           ImportsProfile!Abandoned, Provider!Imports!WithoutQueries,
           ImportsProfile!WithoutQueries, Provider!Imports!Prepared,
           ImportsProfile!Prepared, Provider!Imports!Alive,
           ImportsProfile!Alive, Provider!Imports!IsCurrent,
           ImportsProfile!IsCurrent, Provider!Imports!BeginOwned,
           ImportsProfile!BeginOwned, Provider!Imports!Ended,
           ImportsProfile!Ended, Provider!Imports!FinishFollowup,
           ImportsProfile!FinishFollowup, Provider!Imports!ShownAfter,
           ImportsProfile!ShownAfter, Provider!Imports!InPreparation,
           ImportsProfile!InPreparation, Provider!Imports!Larger,
           ImportsProfile!Larger

(* Imports of profiles that are cancelled and replaced: only a current one *)
(* loads, none that was given up lands (profile_import_generation).        *)
LEMMA ImportsProfileRuns ==
  Spec => [](scenario = "importsProfile" =>
                /\ ImportsProfile!LoadingIsCurrent
                /\ ImportsProfile!GivenUpNeverLands
                /\ ImportsProfile!OperationHasImport)
  <1>1. Provider!Imports!ConstantsOK
    BY SuiteAssumption DEF Provider!Imports!ConstantsOK,
           ImportsProfile!ConstantsOK
  <1>2. Init /\ scenario = "importsProfile" => Provider!Imports!Init
    BY DEF Init, ImportInit, Provider!Imports!Init, ImportsProfile!Init,
           Provider!Imports!Blank, ImportsProfile!Blank
  <1>3. ImportsProfile!Next => Provider!Imports!Next
    BY ImportsProfileMoves
  <1>4. [Next]_vars => /\ scenario = "importsProfile" => [Provider!Imports!Next]_(Provider!Imports!vars)
                       /\ (scenario = "importsProfile") <=> (scenario = "importsProfile")'
    BY <1>3, SuiteSteps DEF importVars, Provider!Imports!vars
  <1>5. /\ Provider!Imports!LoadingIsCurrent => ImportsProfile!LoadingIsCurrent
        /\ Provider!Imports!GivenUpNeverLands => ImportsProfile!GivenUpNeverLands
        /\ Provider!Imports!OperationHasImport => ImportsProfile!OperationHasImport
    BY DEF Provider!Imports!LoadingIsCurrent, ImportsProfile!LoadingIsCurrent,
           Provider!Imports!GivenUpNeverLands,
           ImportsProfile!GivenUpNeverLands,
           Provider!Imports!OperationHasImport,
           ImportsProfile!OperationHasImport, Provider!Imports!Jobs,
           ImportsProfile!Jobs, Provider!Imports!Alive, ImportsProfile!Alive,
           Provider!Imports!IsCurrent, ImportsProfile!IsCurrent,
           Provider!Imports!InFlight, ImportsProfile!InFlight,
           Provider!Imports!Ended, ImportsProfile!Ended
  <1>6. Provider!Imports!Spec => [](/\ Provider!Imports!LoadingIsCurrent /\ Provider!Imports!GivenUpNeverLands
                                    /\ Provider!Imports!OperationHasImport /\ Provider!Imports!RuleLoadingHasImport)
    BY <1>1, Provider!ImportsBelong
  <1> QED
    BY <1>2, <1>4, <1>5, <1>6, PTL DEF Spec, Provider!Imports!Spec

(* A page never goes back to an older projection                           *)
(* (apply_projection_result).                                              *)
LEMMA ProjectionsOrderSteps == Spec => [][scenario = "projectionsOrder" => ProjectionsOrder!ShownGrows]_vars
  <1>1. Provider!ConstantsOK
    BY SuiteAssumption DEF Provider!ConstantsOK, ProjectionsOrder!ConstantsOK
  <1>2. Init /\ scenario = "projectionsOrder" => Provider!Init
    BY DEF Init, ProjectionInit, Provider!Init, ProjectionsOrder!Init,
           Provider!Zero, ProjectionsOrder!Zero, Provider!Domains,
           ProjectionsOrder!Domains
  <1>3. ProjectionsOrder!Next => Provider!Next
    BY ProjectionsOrderMoves
  <1>4. [Next]_vars => /\ scenario = "projectionsOrder" => [Provider!Next]_(Provider!vars)
                       /\ (scenario = "projectionsOrder") <=> (scenario = "projectionsOrder")'
    BY <1>3, SuiteSteps DEF projectionVars, Provider!vars
  <1>5. [Next]_vars /\ [Provider!ShownGrows]_(Provider!vars)
          => [scenario = "projectionsOrder" => ProjectionsOrder!ShownGrows]_vars
    <2>1. Provider!ShownGrows => ProjectionsOrder!ShownGrows
      BY DEF Provider!ShownGrows, ProjectionsOrder!ShownGrows,
             Provider!Domains, ProjectionsOrder!Domains
    <2>2. [Next]_vars /\ scenario = "projectionsOrder" /\ UNCHANGED projectionVars => UNCHANGED vars
      BY DEF Next, vars, ReceiptNext, RecoveryNext, ProjectionNext,
             AppearanceNext, ImportNext, DialogNext, KeepNext
    <2> QED
      BY <2>1, <2>2 DEF projectionVars, Provider!vars
  <1>6. Provider!Spec => [][Provider!ShownGrows]_(Provider!vars)
    BY <1>1, Provider!PagesNeverGoBack DEF Provider!NeverGoesBack
  <1> QED
    BY <1>2, <1>4, <1>5, <1>6, PTL DEF Spec, Provider!Spec

Poisoned == INSTANCE UiComponentProofs WITH
    MaxChanges <- Bounds.projectionsPoison.MaxChanges,
    MaxOps <- Bounds.projectionsPoison.MaxOps,
    Capacity <- Bounds.projectionsPoison.Capacity, Poison <- TRUE,
    changes <- projectionChanges, fresh <- projectionFresh,
    shown <- projectionShown, chan <- projectionChan, ops <- projectionOps,
    MaxSessions <- Bounds.recoveryStarts.MaxSessions,
    Deaths <- Bounds.recoveryStarts.Deaths, StopsAllowed <- TRUE,
    tasks <- recoveryTasks, user <- recoveryUser, Unconfirmed <- TRUE,
    MaxTasks <- Bounds.taskFaults.MaxTasks,
    MaxUser <- Bounds.taskFaults.MaxUser, CancelEarly <- TRUE,
    Refusals <- TRUE, MaxLooks <- Bounds.appearanceFaults.MaxEdits,
    MaxSystem <- Bounds.appearanceFaults.MaxSystem,
    MaxRestarts <- Bounds.appearanceFaults.MaxRestarts, ColorFails <- TRUE,
    SaveFails <- TRUE, Unknown <- Unconfirmed,
    MaxOwnEdits <- Bounds.importsRules.MaxEdits,
    Kinds <- {"profile", "rules"},
    MaxImports <- Bounds.importsRules.MaxImports,
    MaxCancels <- Bounds.importsRules.MaxCancels,
    MaxLeaves <- Bounds.importsRules.MaxLeaves,
    MaxRoots <- Bounds.importsRules.MaxRoots,
    MaxOthers <- Bounds.importsRules.MaxOthers

(* The instance ProjectionsPoison of the projections                       *)
(* (use_runtime_projection_provider) takes the steps of the component      *)
(* whose proofs are instantiated.                                          *)
LEMMA ProjectionsPoisonMoves == ProjectionsPoison!Next => Poisoned!Next
  BY DEF Poisoned!Next, ProjectionsPoison!Next, Poisoned!Publish,
           ProjectionsPoison!Publish, Poisoned!LockPoisoned,
           ProjectionsPoison!LockPoisoned, Poisoned!LoadInitial,
           ProjectionsPoison!LoadInitial, Poisoned!Mount,
           ProjectionsPoison!Mount, Poisoned!Provider,
           ProjectionsPoison!Provider, Poisoned!OnMessage,
           ProjectionsPoison!OnMessage, Poisoned!OpReads,
           ProjectionsPoison!OpReads, Poisoned!OpApplies,
           ProjectionsPoison!OpApplies, Poisoned!Pause,
           ProjectionsPoison!Pause, Poisoned!Published,
           ProjectionsPoison!Published, Poisoned!Domains,
           ProjectionsPoison!Domains, Poisoned!Order, ProjectionsPoison!Order,
           Poisoned!Zero, ProjectionsPoison!Zero, Poisoned!InitialApplied,
           ProjectionsPoison!InitialApplied, Poisoned!Look,
           ProjectionsPoison!Look, Poisoned!Skip, ProjectionsPoison!Skip,
           Poisoned!Fetch, ProjectionsPoison!Fetch, Poisoned!Send,
           ProjectionsPoison!Send, Poisoned!Wake, ProjectionsPoison!Wake,
           Poisoned!Apply, ProjectionsPoison!Apply, Poisoned!Failure,
           ProjectionsPoison!Failure, Poisoned!Report,
           ProjectionsPoison!Report, Poisoned!UiOnly,
           ProjectionsPoison!UiOnly, Poisoned!Proj, ProjectionsPoison!Proj,
           Poisoned!ProviderOnly, ProjectionsPoison!ProviderOnly,
           Poisoned!Domain, ProjectionsPoison!Domain, Poisoned!InHand,
           ProjectionsPoison!InHand

(* A change that cannot be read: its failure is told once                  *)
(* (use_runtime_projection_provider).                                      *)
LEMMA ProjectionsPoisonRuns ==
  Spec => [](scenario = "projectionsPoison" => ProjectionsPoison!NotifiedOnce)
  <1>1. Poisoned!ConstantsOK
    BY SuiteAssumption DEF Poisoned!ConstantsOK, ProjectionsPoison!ConstantsOK
  <1>2. Init /\ scenario = "projectionsPoison" => Poisoned!Init
    BY DEF Init, ProjectionInit, Poisoned!Init, ProjectionsPoison!Init,
           Poisoned!Zero, ProjectionsPoison!Zero, Poisoned!Domains,
           ProjectionsPoison!Domains
  <1>3. ProjectionsPoison!Next => Poisoned!Next
    BY ProjectionsPoisonMoves
  <1>4. [Next]_vars => /\ scenario = "projectionsPoison" => [Poisoned!Next]_(Poisoned!vars)
                       /\ (scenario = "projectionsPoison") <=> (scenario = "projectionsPoison")'
    BY <1>3, SuiteSteps DEF projectionVars, Poisoned!vars
  <1>5. Poisoned!NotifiedOnce => ProjectionsPoison!NotifiedOnce
    BY DEF Poisoned!NotifiedOnce, ProjectionsPoison!NotifiedOnce
  <1>6. Poisoned!Spec => []Poisoned!NotifiedOnce
    BY <1>1, Poisoned!FailureIsToldOnce
  <1> QED
    BY <1>2, <1>4, <1>5, <1>6, PTL DEF Spec, Poisoned!Spec

(* The instance ImportsRules of the imports (prepare_profile_url_import,   *)
(* import_rules) takes the steps of the component whose proofs are         *)
(* instantiated.                                                           *)
LEMMA ImportsRulesMoves == ImportsRules!Next => Poisoned!Imports!Next
  BY DEF Poisoned!Imports!Next, ImportsRules!Next,
           Poisoned!Imports!StartProfileImport,
           ImportsRules!StartProfileImport, Poisoned!Imports!EmptyUrl,
           ImportsRules!EmptyUrl, Poisoned!Imports!ResetFeedback,
           ImportsRules!ResetFeedback, Poisoned!Imports!CancelProfileImport,
           ImportsRules!CancelProfileImport, Poisoned!Imports!ImportRules,
           ImportsRules!ImportRules, Poisoned!Imports!LeavePage,
           ImportsRules!LeavePage, Poisoned!Imports!ReplaceRoot,
           ImportsRules!ReplaceRoot, Poisoned!Imports!EditConfig,
           ImportsRules!EditConfig, Poisoned!Imports!ShowConfig,
           ImportsRules!ShowConfig, Poisoned!Imports!OtherBegins,
           ImportsRules!OtherBegins, Poisoned!Imports!OtherEnds,
           ImportsRules!OtherEnds, Poisoned!Imports!Jobs, ImportsRules!Jobs,
           Poisoned!Imports!PrepareBegins, ImportsRules!PrepareBegins,
           Poisoned!Imports!Prepares, ImportsRules!Prepares,
           Poisoned!Imports!PrepareGivesUp, ImportsRules!PrepareGivesUp,
           Poisoned!Imports!PreparedOnUi, ImportsRules!PreparedOnUi,
           Poisoned!Imports!Commits, ImportsRules!Commits,
           Poisoned!Imports!CommittedOnUi, ImportsRules!CommittedOnUi,
           Poisoned!Imports!RulesPicked, ImportsRules!RulesPicked,
           Poisoned!Imports!RulesCommitted, ImportsRules!RulesCommitted,
           Poisoned!Imports!Spend, ImportsRules!Spend,
           Poisoned!Imports!Cancelled, ImportsRules!Cancelled,
           Poisoned!Imports!Blank, ImportsRules!Blank,
           Poisoned!Imports!Abandoned, ImportsRules!Abandoned,
           Poisoned!Imports!WithoutQueries, ImportsRules!WithoutQueries,
           Poisoned!Imports!Prepared, ImportsRules!Prepared,
           Poisoned!Imports!Alive, ImportsRules!Alive,
           Poisoned!Imports!IsCurrent, ImportsRules!IsCurrent,
           Poisoned!Imports!BeginOwned, ImportsRules!BeginOwned,
           Poisoned!Imports!Ended, ImportsRules!Ended,
           Poisoned!Imports!FinishFollowup, ImportsRules!FinishFollowup,
           Poisoned!Imports!ShownAfter, ImportsRules!ShownAfter,
           Poisoned!Imports!InPreparation, ImportsRules!InPreparation,
           Poisoned!Imports!Larger, ImportsRules!Larger

(* Imports of rules on pages that are left: a button that is taken has its *)
(* import (rule_import_loading).                                           *)
LEMMA ImportsRulesRuns ==
  Spec => [](scenario = "importsRules" => ImportsRules!RuleLoadingHasImport)
  <1>1. Poisoned!Imports!ConstantsOK
    BY SuiteAssumption DEF Poisoned!Imports!ConstantsOK,
           ImportsRules!ConstantsOK
  <1>2. Init /\ scenario = "importsRules" => Poisoned!Imports!Init
    BY DEF Init, ImportInit, Poisoned!Imports!Init, ImportsRules!Init,
           Poisoned!Imports!Blank, ImportsRules!Blank
  <1>3. ImportsRules!Next => Poisoned!Imports!Next
    BY ImportsRulesMoves
  <1>4. [Next]_vars => /\ scenario = "importsRules" => [Poisoned!Imports!Next]_(Poisoned!Imports!vars)
                       /\ (scenario = "importsRules") <=> (scenario = "importsRules")'
    BY <1>3, SuiteSteps DEF importVars, Poisoned!Imports!vars
  <1>5. Poisoned!Imports!RuleLoadingHasImport => ImportsRules!RuleLoadingHasImport
    BY DEF Poisoned!Imports!RuleLoadingHasImport,
           ImportsRules!RuleLoadingHasImport, Poisoned!Imports!Jobs,
           ImportsRules!Jobs, Poisoned!Imports!OurRules,
           ImportsRules!OurRules, Poisoned!Imports!Alive, ImportsRules!Alive,
           Poisoned!Imports!InFlight, ImportsRules!InFlight
  <1>6. Poisoned!Imports!Spec => [](/\ Poisoned!Imports!LoadingIsCurrent /\ Poisoned!Imports!GivenUpNeverLands
                                    /\ Poisoned!Imports!OperationHasImport /\ Poisoned!Imports!RuleLoadingHasImport)
    BY <1>1, Poisoned!ImportsBelong
  <1> QED
    BY <1>2, <1>4, <1>5, <1>6, PTL DEF Spec, Poisoned!Imports!Spec

-----------------------------------------------------------------------------
(* Commands of the user are neither lost nor overtaken by what the app     *)
(* does by itself, for any number of tasks, requests, edits, roots, faults *)
(* and health checks (vpn_operation.rs, begin_owned_vpn_operation,         *)
(* monitorStartupHealth).                                                  *)
THEOREM CommandsStayKept == Spec => CommandsAreKept
  BY ReceiptsFaultsRuns, ReceiptsEditsRuns, ReceiptsHealthSteps, PTL
     DEF CommandsAreKept

(* One death is answered by at most three automatic starts, for any number *)
(* of sessions and deaths (claim_platform_vpn_auto_recovery).              *)
THEOREM DeathsAreAnsweredThreeTimes == Spec => []ThreeStartsPerDeath
  BY RecoveryStartsRuns, PTL DEF ThreeStartsPerDeath

(* No projection is lost for good, no page goes back, and a failure that   *)
(* lasts is told once, for any number of changes and operations            *)
(* (use_runtime_projection_provider, apply_projection_result).             *)
THEOREM ProjectionsAlwaysArrive == Spec => ProjectionsArrive
  BY ProjectionsOrderRuns, ProjectionsOrderSteps, ProjectionsPoisonRuns, PTL
     DEF ProjectionsArrive

(* The continuous task follows the Plugin: none is left by a stop until    *)
(* the Plugin asks for one again, unless the system refused or the Plugin  *)
(* asked while the stop ran, and one that is held has its timer, for any   *)
(* number of tasks, sessions and events (VpnContinuousTask).               *)
THEOREM TaskAlwaysFollows == Spec => []TaskFollowsVpn
  BY TaskFaultsRuns, PTL DEF TaskFollowsVpn

(* What is shown of the appearance is saved or told not to be, for any     *)
(* number of choices, changes of the system and restarts (set_theme,       *)
(* set_language).                                                          *)
THEOREM AppearanceAlwaysHolds == Spec => []AppearanceHolds
  BY AppearanceFaultsRuns, PTL DEF AppearanceHolds

(* The result of an import reaches what it belongs to, for any number of   *)
(* imports, cancellations, pages and roots (profile_import_generation,     *)
(* finish_vpn_followup).                                                   *)
THEOREM ImportsStayOwned == Spec => []ImportsAreOwned
  BY ImportsProfileRuns, ImportsRulesRuns, PTL DEF ImportsAreOwned


=============================================================================
