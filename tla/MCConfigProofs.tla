--------------------------- MODULE MCConfigProofs ----------------------------
(***************************************************************************)
(* What the suite MCConfig checks of the configuration transactions and of *)
(* the operations on proxies and providers, proved for every value of      *)
(* Bounds. Each instance of the suite is an instance of                    *)
(* ConfigTransactionProofs, with equal Init and Next; a behaviour never    *)
(* leaves its scenario, so that the theorems about the component hold of   *)
(* it.                                                                     *)
(***************************************************************************)
EXTENDS MCConfig, TLAPS

(* Instances of the proofs: each binds transactions and operations of the  *)
(* suite.                                                                  *)
First == INSTANCE ConfigTransactionProofs WITH
    SyncLoop <- "loop", Profiles <- {"a", "b"}, Tasks <- {"t1", "loop"},
    Kinds <- AllKinds, Faults <- StepFaults,
    MaxOps <- Bounds.configFaults.MaxOps, stamp <- configStamp,
    controller <- configController, shown <- configShown,
    broken <- configBroken, Callers <- {"t1", "t2"}, Nodes <- {},
    Providers <- {"inline", "rules"}, InlineProviders <- {"inline"},
    RuleProviders <- {"rules"}, MaxCalls <- Bounds.operationsRefresh.MaxCalls,
    MaxCommits <- Bounds.operationsRefresh.MaxCommits,
    MaxTurns <- Bounds.operationsRefresh.MaxTurns, opSystem <- system,
    opLocked <- locked, opTask <- task, Proxies <- {"a", "b"},
    FrameFails <- TRUE, SyncFails <- TRUE,
    MaxClicks <- Bounds.selectionFaults.MaxClicks,
    MaxOthers <- Bounds.selectionFaults.MaxOthers, selPending <- pending,
    selOp <- op, selDone <- done, selClean <- clean, selTunnel <- tunnel,
    selGroups <- groups, selFrame <- frame, selFresh <- fresh, selVpn <- vpn,
    selBest <- best, selRevision <- revision, selOther <- other,
    selServing <- serving

Second == INSTANCE ConfigTransactionProofs WITH
    SyncLoop <- "loop", Profiles <- {"a", "b"}, Tasks <- {"t1", "t2", "loop"},
    Kinds <- PairKinds, Faults <- {}, MaxOps <- Bounds.configPairs.MaxOps,
    stamp <- configStamp, controller <- configController,
    shown <- configShown, broken <- configBroken, Callers <- {"t1", "t2"},
    Nodes <- {"n"}, Providers <- {"proxies"}, InlineProviders <- {},
    RuleProviders <- {}, MaxCalls <- Bounds.operationsTest.MaxCalls,
    MaxCommits <- Bounds.operationsTest.MaxCommits,
    MaxTurns <- Bounds.operationsTest.MaxTurns, opSystem <- system,
    opLocked <- locked, opTask <- task, Proxies <- {"a", "b"},
    FrameFails <- TRUE, SyncFails <- TRUE,
    MaxClicks <- Bounds.selectionFaults.MaxClicks,
    MaxOthers <- Bounds.selectionFaults.MaxOthers, selPending <- pending,
    selOp <- op, selDone <- done, selClean <- clean, selTunnel <- tunnel,
    selGroups <- groups, selFrame <- frame, selFresh <- fresh, selVpn <- vpn,
    selBest <- best, selRevision <- revision, selOther <- other,
    selServing <- serving

Third == INSTANCE ConfigTransactionProofs WITH
    SyncLoop <- "loop", Profiles <- {"a", "b"}, Tasks <- {"t1", "loop"},
    Kinds <- AllKinds, Faults <- BesideFaults,
    MaxOps <- Bounds.configBeside.MaxOps, stamp <- configStamp,
    controller <- configController, shown <- configShown,
    broken <- configBroken, Callers <- {"t1", "t2"}, Nodes <- {"n"},
    Providers <- {"proxies"}, InlineProviders <- {}, RuleProviders <- {},
    MaxCalls <- Bounds.operationsTest.MaxCalls,
    MaxCommits <- Bounds.operationsTest.MaxCommits,
    MaxTurns <- Bounds.operationsTest.MaxTurns, opSystem <- system,
    opLocked <- locked, opTask <- task, Proxies <- {"a", "b"},
    FrameFails <- TRUE, SyncFails <- TRUE,
    MaxClicks <- Bounds.selectionFaults.MaxClicks,
    MaxOthers <- Bounds.selectionFaults.MaxOthers, selPending <- pending,
    selOp <- op, selDone <- done, selClean <- clean, selTunnel <- tunnel,
    selGroups <- groups, selFrame <- frame, selFresh <- fresh, selVpn <- vpn,
    selBest <- best, selRevision <- revision, selOther <- other,
    selServing <- serving

(* A step of the suite is one of the instance that the scenario names, or  *)
(* leaves the variables of that instance unchanged.                        *)
LEMMA SuiteSteps ==
  ASSUME [Next]_vars
  PROVE  /\ scenario' = scenario
         /\ scenario = "configFaults" => ConfigFaults!Next \/ UNCHANGED configVars
         /\ scenario = "configPairs" => ConfigPairs!Next \/ UNCHANGED configVars
         /\ scenario = "configBeside" => ConfigBeside!Next \/ UNCHANGED configVars
         /\ scenario = "selectionFaults" => SelectionFaults!Next \/ UNCHANGED selVars
         /\ scenario = "operationsRefresh" => OperationsRefresh!Next \/ UNCHANGED opVars
         /\ scenario = "operationsTest" => OperationsTest!Next \/ UNCHANGED opVars
  BY DEF Next, vars, ConfigNext, StoreNext, OrderNext, PageNext, SelNext,
         LogNext, OpNext

(* Every operation, with failures that a transaction undoes: engine,       *)
(* store, revision and mode stay in step (reload_config).                  *)
LEMMA ConfigFaultsRuns ==
  Spec => [](scenario = "configFaults" =>
                /\ ConfigFaults!RuntimeMatchesStore
                /\ ConfigFaults!RevisionIdentifiesConfig
                /\ ConfigFaults!ModeApplied)
  <1>1. First!ConstantsOK
    BY SuiteAssumption DEF First!ConstantsOK, ConfigFaults!ConstantsOK,
           First!AllKinds, ConfigFaults!AllKinds, First!AllFaults,
           ConfigFaults!AllFaults
  <1>2. First!WholeCommits /\ First!NoSilentChange /\ First!NoPeerMode
    BY DEF First!WholeCommits, First!NoSilentChange, First!NoPeerMode, StepFaults
  <1>3. Init /\ scenario = "configFaults" => First!Init
    BY DEF Init, ConfigInit, First!Init, ConfigFaults!Init, First!NoEngine,
           ConfigFaults!NoEngine, First!NoTask, ConfigFaults!NoTask,
           First!NoSnap, ConfigFaults!NoSnap
  <1>4. ConfigFaults!Next => First!Next
    BY DEF First!Next, ConfigFaults!Next, First!Request, ConfigFaults!Request,
           First!PrepareFails, ConfigFaults!PrepareFails, First!TakeVpnLock,
           ConfigFaults!TakeVpnLock, First!Begin, ConfigFaults!Begin,
           First!Progress, ConfigFaults!Progress, First!SyncTick,
           ConfigFaults!SyncTick, First!Modes, ConfigFaults!Modes,
           First!SetMode, ConfigFaults!SetMode, First!ControlSync,
           ConfigFaults!ControlSync, First!UpdateSubscription,
           ConfigFaults!UpdateSubscription, First!ExternalPatch,
           ConfigFaults!ExternalPatch, First!DelayTestUnfixes,
           ConfigFaults!DelayTestUnfixes, First!Disconnect,
           ConfigFaults!Disconnect, First!RestoreBackup,
           ConfigFaults!RestoreBackup, First!Ids, ConfigFaults!Ids,
           First!NoTask, ConfigFaults!NoTask, First!Fail, ConfigFaults!Fail,
           First!Goto, ConfigFaults!Goto, First!BeginImport,
           ConfigFaults!BeginImport, First!ImportPlain,
           ConfigFaults!ImportPlain, First!BeginRefreshActivate,
           ConfigFaults!BeginRefreshActivate, First!BeginRefresh,
           ConfigFaults!BeginRefresh, First!BeginActivate,
           ConfigFaults!BeginActivate, First!BeginDelete,
           ConfigFaults!BeginDelete, First!BeginRules,
           ConfigFaults!BeginRules, First!BeginStoreEdit,
           ConfigFaults!BeginStoreEdit, First!BeginEdit,
           ConfigFaults!BeginEdit, First!BeginManual,
           ConfigFaults!BeginManual, First!BeginPrepare,
           ConfigFaults!BeginPrepare, First!SyncController,
           ConfigFaults!SyncController, First!Reject, ConfigFaults!Reject,
           First!MarkFailed, ConfigFaults!MarkFailed, First!VpnConfigHalf,
           ConfigFaults!VpnConfigHalf, First!SyncControllerFails,
           ConfigFaults!SyncControllerFails, First!ReloadRead,
           ConfigFaults!ReloadRead, First!ReloadTake, ConfigFaults!ReloadTake,
           First!ReloadInstall, ConfigFaults!ReloadInstall, First!ReloadFails,
           ConfigFaults!ReloadFails, First!RollbackProfile,
           ConfigFaults!RollbackProfile, First!RollbackStore,
           ConfigFaults!RollbackStore, First!RollbackStoreEdit,
           ConfigFaults!RollbackStoreEdit, First!RollbackActivation,
           ConfigFaults!RollbackActivation, First!RollbackImport,
           ConfigFaults!RollbackImport, First!RollbackActivate,
           ConfigFaults!RollbackActivate, First!RollbackDelete,
           ConfigFaults!RollbackDelete, First!RollbackFails,
           ConfigFaults!RollbackFails, First!Finish, ConfigFaults!Finish,
           First!Remove, ConfigFaults!Remove, First!RemoveFails,
           ConfigFaults!RemoveFails, First!ManualCommit,
           ConfigFaults!ManualCommit, First!ManualFails,
           ConfigFaults!ManualFails, First!SyncRoute, ConfigFaults!SyncRoute,
           First!NativeRestart, ConfigFaults!NativeRestart,
           First!NativeRestore, ConfigFaults!NativeRestore, First!Spend,
           ConfigFaults!Spend, First!TryConfigTransaction,
           ConfigFaults!TryConfigTransaction, First!Loaded,
           ConfigFaults!Loaded, First!PublishConfig,
           ConfigFaults!PublishConfig, First!Edited, ConfigFaults!Edited,
           First!NoSnap, ConfigFaults!NoSnap, First!Return,
           ConfigFaults!Return, First!Enter, ConfigFaults!Enter,
           First!RevisionCurrent, ConfigFaults!RevisionCurrent,
           First!BeginWith, ConfigFaults!BeginWith, First!WithProfile,
           ConfigFaults!WithProfile, First!IfActive, ConfigFaults!IfActive,
           First!StoreEditCalls, ConfigFaults!StoreEditCalls, First!EditCalls,
           ConfigFaults!EditCalls, First!OverlayCalls,
           ConfigFaults!OverlayCalls, First!StartedController,
           ConfigFaults!StartedController, First!At, ConfigFaults!At,
           First!PublishOther, ConfigFaults!PublishOther, First!AfterReload,
           ConfigFaults!AfterReload, First!UndoWith, ConfigFaults!UndoWith,
           First!Restored, ConfigFaults!Restored, First!WasLoaded,
           ConfigFaults!WasLoaded, First!Without, ConfigFaults!Without,
           First!NoEngine, ConfigFaults!NoEngine, First!LiveMode,
           ConfigFaults!LiveMode
  <1>5. [Next]_vars => /\ scenario = "configFaults" => [First!Next]_(First!vars)
                       /\ (scenario = "configFaults") <=> (scenario = "configFaults")'
    BY <1>4, SuiteSteps DEF configVars, First!vars
  <1>6. /\ First!RuntimeMatchesStore => ConfigFaults!RuntimeMatchesStore
        /\ First!RevisionIdentifiesConfig => ConfigFaults!RevisionIdentifiesConfig
        /\ First!ModeApplied => ConfigFaults!ModeApplied
    BY DEF First!RuntimeMatchesStore, ConfigFaults!RuntimeMatchesStore,
           First!RevisionIdentifiesConfig,
           ConfigFaults!RevisionIdentifiesConfig, First!ModeApplied,
           ConfigFaults!ModeApplied, First!Settled, ConfigFaults!Settled,
           First!Loaded, ConfigFaults!Loaded
  <1>7. First!Spec => /\ []First!RuntimeMatchesStore
                      /\ []First!RevisionIdentifiesConfig
                      /\ []First!ModeApplied
    BY <1>1, <1>2, First!EngineRunsTheStore, First!RevisionStands,
       First!ModeIsApplied
  <1> QED
    BY <1>3, <1>5, <1>6, <1>7, PTL DEF Spec, First!Spec

(* Two callers and the sync loop: engine, store, revision and mode stay in *)
(* step (try_config_transaction).                                          *)
LEMMA ConfigPairsRuns ==
  Spec => [](scenario = "configPairs" =>
                /\ ConfigPairs!RuntimeMatchesStore
                /\ ConfigPairs!RevisionIdentifiesConfig
                /\ ConfigPairs!ModeApplied)
  <1>1. Second!ConstantsOK
    BY SuiteAssumption DEF Second!ConstantsOK, ConfigPairs!ConstantsOK,
           Second!AllKinds, ConfigPairs!AllKinds, Second!AllFaults,
           ConfigPairs!AllFaults
  <1>2. Second!WholeCommits /\ Second!NoSilentChange /\ Second!NoPeerMode
    BY DEF Second!WholeCommits, Second!NoSilentChange, Second!NoPeerMode
  <1>3. Init /\ scenario = "configPairs" => Second!Init
    BY DEF Init, ConfigInit, Second!Init, ConfigPairs!Init, Second!NoEngine,
           ConfigPairs!NoEngine, Second!NoTask, ConfigPairs!NoTask,
           Second!NoSnap, ConfigPairs!NoSnap
  <1>4. ConfigPairs!Next => Second!Next
    BY DEF Second!Next, ConfigPairs!Next, Second!Request, ConfigPairs!Request,
           Second!PrepareFails, ConfigPairs!PrepareFails, Second!TakeVpnLock,
           ConfigPairs!TakeVpnLock, Second!Begin, ConfigPairs!Begin,
           Second!Progress, ConfigPairs!Progress, Second!SyncTick,
           ConfigPairs!SyncTick, Second!Modes, ConfigPairs!Modes,
           Second!SetMode, ConfigPairs!SetMode, Second!ControlSync,
           ConfigPairs!ControlSync, Second!UpdateSubscription,
           ConfigPairs!UpdateSubscription, Second!ExternalPatch,
           ConfigPairs!ExternalPatch, Second!DelayTestUnfixes,
           ConfigPairs!DelayTestUnfixes, Second!Disconnect,
           ConfigPairs!Disconnect, Second!RestoreBackup,
           ConfigPairs!RestoreBackup, Second!Ids, ConfigPairs!Ids,
           Second!NoTask, ConfigPairs!NoTask, Second!Fail, ConfigPairs!Fail,
           Second!Goto, ConfigPairs!Goto, Second!BeginImport,
           ConfigPairs!BeginImport, Second!ImportPlain,
           ConfigPairs!ImportPlain, Second!BeginRefreshActivate,
           ConfigPairs!BeginRefreshActivate, Second!BeginRefresh,
           ConfigPairs!BeginRefresh, Second!BeginActivate,
           ConfigPairs!BeginActivate, Second!BeginDelete,
           ConfigPairs!BeginDelete, Second!BeginRules, ConfigPairs!BeginRules,
           Second!BeginStoreEdit, ConfigPairs!BeginStoreEdit,
           Second!BeginEdit, ConfigPairs!BeginEdit, Second!BeginManual,
           ConfigPairs!BeginManual, Second!BeginPrepare,
           ConfigPairs!BeginPrepare, Second!SyncController,
           ConfigPairs!SyncController, Second!Reject, ConfigPairs!Reject,
           Second!MarkFailed, ConfigPairs!MarkFailed, Second!VpnConfigHalf,
           ConfigPairs!VpnConfigHalf, Second!SyncControllerFails,
           ConfigPairs!SyncControllerFails, Second!ReloadRead,
           ConfigPairs!ReloadRead, Second!ReloadTake, ConfigPairs!ReloadTake,
           Second!ReloadInstall, ConfigPairs!ReloadInstall,
           Second!ReloadFails, ConfigPairs!ReloadFails,
           Second!RollbackProfile, ConfigPairs!RollbackProfile,
           Second!RollbackStore, ConfigPairs!RollbackStore,
           Second!RollbackStoreEdit, ConfigPairs!RollbackStoreEdit,
           Second!RollbackActivation, ConfigPairs!RollbackActivation,
           Second!RollbackImport, ConfigPairs!RollbackImport,
           Second!RollbackActivate, ConfigPairs!RollbackActivate,
           Second!RollbackDelete, ConfigPairs!RollbackDelete,
           Second!RollbackFails, ConfigPairs!RollbackFails, Second!Finish,
           ConfigPairs!Finish, Second!Remove, ConfigPairs!Remove,
           Second!RemoveFails, ConfigPairs!RemoveFails, Second!ManualCommit,
           ConfigPairs!ManualCommit, Second!ManualFails,
           ConfigPairs!ManualFails, Second!SyncRoute, ConfigPairs!SyncRoute,
           Second!NativeRestart, ConfigPairs!NativeRestart,
           Second!NativeRestore, ConfigPairs!NativeRestore, Second!Spend,
           ConfigPairs!Spend, Second!TryConfigTransaction,
           ConfigPairs!TryConfigTransaction, Second!Loaded,
           ConfigPairs!Loaded, Second!PublishConfig,
           ConfigPairs!PublishConfig, Second!Edited, ConfigPairs!Edited,
           Second!NoSnap, ConfigPairs!NoSnap, Second!Return,
           ConfigPairs!Return, Second!Enter, ConfigPairs!Enter,
           Second!RevisionCurrent, ConfigPairs!RevisionCurrent,
           Second!BeginWith, ConfigPairs!BeginWith, Second!WithProfile,
           ConfigPairs!WithProfile, Second!IfActive, ConfigPairs!IfActive,
           Second!StoreEditCalls, ConfigPairs!StoreEditCalls,
           Second!EditCalls, ConfigPairs!EditCalls, Second!OverlayCalls,
           ConfigPairs!OverlayCalls, Second!StartedController,
           ConfigPairs!StartedController, Second!At, ConfigPairs!At,
           Second!PublishOther, ConfigPairs!PublishOther, Second!AfterReload,
           ConfigPairs!AfterReload, Second!UndoWith, ConfigPairs!UndoWith,
           Second!Restored, ConfigPairs!Restored, Second!WasLoaded,
           ConfigPairs!WasLoaded, Second!Without, ConfigPairs!Without,
           Second!NoEngine, ConfigPairs!NoEngine, Second!LiveMode,
           ConfigPairs!LiveMode
  <1>5. [Next]_vars => /\ scenario = "configPairs" => [Second!Next]_(Second!vars)
                       /\ (scenario = "configPairs") <=> (scenario = "configPairs")'
    BY <1>4, SuiteSteps DEF configVars, Second!vars
  <1>6. /\ Second!RuntimeMatchesStore => ConfigPairs!RuntimeMatchesStore
        /\ Second!RevisionIdentifiesConfig => ConfigPairs!RevisionIdentifiesConfig
        /\ Second!ModeApplied => ConfigPairs!ModeApplied
    BY DEF Second!RuntimeMatchesStore, ConfigPairs!RuntimeMatchesStore,
           Second!RevisionIdentifiesConfig,
           ConfigPairs!RevisionIdentifiesConfig, Second!ModeApplied,
           ConfigPairs!ModeApplied, Second!Settled, ConfigPairs!Settled,
           Second!Loaded, ConfigPairs!Loaded
  <1>7. Second!Spec => /\ []Second!RuntimeMatchesStore
                       /\ []Second!RevisionIdentifiesConfig
                       /\ []Second!ModeApplied
    BY <1>1, <1>2, Second!EngineRunsTheStore, Second!RevisionStands,
       Second!ModeIsApplied
  <1> QED
    BY <1>3, <1>5, <1>6, <1>7, PTL DEF Spec, Second!Spec

(* Every operation, with writers beside it: the engine still runs the      *)
(* store (sync_external_controller_config).                                *)
LEMMA ConfigBesideRuns ==
  Spec => [](scenario = "configBeside" => ConfigBeside!RuntimeMatchesStore)
  <1>1. Third!ConstantsOK
    BY SuiteAssumption DEF Third!ConstantsOK, ConfigBeside!ConstantsOK,
           Third!AllKinds, ConfigBeside!AllKinds, Third!AllFaults,
           ConfigBeside!AllFaults
  <1>2. Third!WholeCommits
    BY DEF Third!WholeCommits, BesideFaults
  <1>3. Init /\ scenario = "configBeside" => Third!Init
    BY DEF Init, ConfigInit, Third!Init, ConfigBeside!Init, Third!NoEngine,
           ConfigBeside!NoEngine, Third!NoTask, ConfigBeside!NoTask,
           Third!NoSnap, ConfigBeside!NoSnap
  <1>4. ConfigBeside!Next => Third!Next
    BY DEF Third!Next, ConfigBeside!Next, Third!Request, ConfigBeside!Request,
           Third!PrepareFails, ConfigBeside!PrepareFails, Third!TakeVpnLock,
           ConfigBeside!TakeVpnLock, Third!Begin, ConfigBeside!Begin,
           Third!Progress, ConfigBeside!Progress, Third!SyncTick,
           ConfigBeside!SyncTick, Third!Modes, ConfigBeside!Modes,
           Third!SetMode, ConfigBeside!SetMode, Third!ControlSync,
           ConfigBeside!ControlSync, Third!UpdateSubscription,
           ConfigBeside!UpdateSubscription, Third!ExternalPatch,
           ConfigBeside!ExternalPatch, Third!DelayTestUnfixes,
           ConfigBeside!DelayTestUnfixes, Third!Disconnect,
           ConfigBeside!Disconnect, Third!RestoreBackup,
           ConfigBeside!RestoreBackup, Third!Ids, ConfigBeside!Ids,
           Third!NoTask, ConfigBeside!NoTask, Third!Fail, ConfigBeside!Fail,
           Third!Goto, ConfigBeside!Goto, Third!BeginImport,
           ConfigBeside!BeginImport, Third!ImportPlain,
           ConfigBeside!ImportPlain, Third!BeginRefreshActivate,
           ConfigBeside!BeginRefreshActivate, Third!BeginRefresh,
           ConfigBeside!BeginRefresh, Third!BeginActivate,
           ConfigBeside!BeginActivate, Third!BeginDelete,
           ConfigBeside!BeginDelete, Third!BeginRules,
           ConfigBeside!BeginRules, Third!BeginStoreEdit,
           ConfigBeside!BeginStoreEdit, Third!BeginEdit,
           ConfigBeside!BeginEdit, Third!BeginManual,
           ConfigBeside!BeginManual, Third!BeginPrepare,
           ConfigBeside!BeginPrepare, Third!SyncController,
           ConfigBeside!SyncController, Third!Reject, ConfigBeside!Reject,
           Third!MarkFailed, ConfigBeside!MarkFailed, Third!VpnConfigHalf,
           ConfigBeside!VpnConfigHalf, Third!SyncControllerFails,
           ConfigBeside!SyncControllerFails, Third!ReloadRead,
           ConfigBeside!ReloadRead, Third!ReloadTake, ConfigBeside!ReloadTake,
           Third!ReloadInstall, ConfigBeside!ReloadInstall, Third!ReloadFails,
           ConfigBeside!ReloadFails, Third!RollbackProfile,
           ConfigBeside!RollbackProfile, Third!RollbackStore,
           ConfigBeside!RollbackStore, Third!RollbackStoreEdit,
           ConfigBeside!RollbackStoreEdit, Third!RollbackActivation,
           ConfigBeside!RollbackActivation, Third!RollbackImport,
           ConfigBeside!RollbackImport, Third!RollbackActivate,
           ConfigBeside!RollbackActivate, Third!RollbackDelete,
           ConfigBeside!RollbackDelete, Third!RollbackFails,
           ConfigBeside!RollbackFails, Third!Finish, ConfigBeside!Finish,
           Third!Remove, ConfigBeside!Remove, Third!RemoveFails,
           ConfigBeside!RemoveFails, Third!ManualCommit,
           ConfigBeside!ManualCommit, Third!ManualFails,
           ConfigBeside!ManualFails, Third!SyncRoute, ConfigBeside!SyncRoute,
           Third!NativeRestart, ConfigBeside!NativeRestart,
           Third!NativeRestore, ConfigBeside!NativeRestore, Third!Spend,
           ConfigBeside!Spend, Third!TryConfigTransaction,
           ConfigBeside!TryConfigTransaction, Third!Loaded,
           ConfigBeside!Loaded, Third!PublishConfig,
           ConfigBeside!PublishConfig, Third!Edited, ConfigBeside!Edited,
           Third!NoSnap, ConfigBeside!NoSnap, Third!Return,
           ConfigBeside!Return, Third!Enter, ConfigBeside!Enter,
           Third!RevisionCurrent, ConfigBeside!RevisionCurrent,
           Third!BeginWith, ConfigBeside!BeginWith, Third!WithProfile,
           ConfigBeside!WithProfile, Third!IfActive, ConfigBeside!IfActive,
           Third!StoreEditCalls, ConfigBeside!StoreEditCalls, Third!EditCalls,
           ConfigBeside!EditCalls, Third!OverlayCalls,
           ConfigBeside!OverlayCalls, Third!StartedController,
           ConfigBeside!StartedController, Third!At, ConfigBeside!At,
           Third!PublishOther, ConfigBeside!PublishOther, Third!AfterReload,
           ConfigBeside!AfterReload, Third!UndoWith, ConfigBeside!UndoWith,
           Third!Restored, ConfigBeside!Restored, Third!WasLoaded,
           ConfigBeside!WasLoaded, Third!Without, ConfigBeside!Without,
           Third!NoEngine, ConfigBeside!NoEngine, Third!LiveMode,
           ConfigBeside!LiveMode
  <1>5. [Next]_vars => /\ scenario = "configBeside" => [Third!Next]_(Third!vars)
                       /\ (scenario = "configBeside") <=> (scenario = "configBeside")'
    BY <1>4, SuiteSteps DEF configVars, Third!vars
  <1>6. Third!RuntimeMatchesStore => ConfigBeside!RuntimeMatchesStore
    BY DEF Third!RuntimeMatchesStore, ConfigBeside!RuntimeMatchesStore,
           Third!Settled, ConfigBeside!Settled, Third!Loaded,
           ConfigBeside!Loaded
  <1>7. Third!Spec => []Third!RuntimeMatchesStore
    BY <1>1, <1>2, Third!EngineRunsTheStore
  <1> QED
    BY <1>3, <1>5, <1>6, <1>7, PTL DEF Spec, Third!Spec

(* Every operation: a commit is made over the configuration its caller saw *)
(* (ensure_config_revision_locked).                                        *)
LEMMA ConfigFaultsCommits ==
  Spec => [][scenario = "configFaults" => ConfigFaults!CommitSawStore]_vars
  <1>1. First!ConstantsOK
    BY SuiteAssumption DEF First!ConstantsOK, ConfigFaults!ConstantsOK,
           First!AllKinds, ConfigFaults!AllKinds, First!AllFaults,
           ConfigFaults!AllFaults
  <1>2. Init /\ scenario = "configFaults" => First!Init
    BY DEF Init, ConfigInit, First!Init, ConfigFaults!Init, First!NoEngine,
           ConfigFaults!NoEngine, First!NoTask, ConfigFaults!NoTask,
           First!NoSnap, ConfigFaults!NoSnap
  <1>3. ConfigFaults!Next => First!Next
    BY DEF First!Next, ConfigFaults!Next, First!Request, ConfigFaults!Request,
           First!PrepareFails, ConfigFaults!PrepareFails, First!TakeVpnLock,
           ConfigFaults!TakeVpnLock, First!Begin, ConfigFaults!Begin,
           First!Progress, ConfigFaults!Progress, First!SyncTick,
           ConfigFaults!SyncTick, First!Modes, ConfigFaults!Modes,
           First!SetMode, ConfigFaults!SetMode, First!ControlSync,
           ConfigFaults!ControlSync, First!UpdateSubscription,
           ConfigFaults!UpdateSubscription, First!ExternalPatch,
           ConfigFaults!ExternalPatch, First!DelayTestUnfixes,
           ConfigFaults!DelayTestUnfixes, First!Disconnect,
           ConfigFaults!Disconnect, First!RestoreBackup,
           ConfigFaults!RestoreBackup, First!Ids, ConfigFaults!Ids,
           First!NoTask, ConfigFaults!NoTask, First!Fail, ConfigFaults!Fail,
           First!Goto, ConfigFaults!Goto, First!BeginImport,
           ConfigFaults!BeginImport, First!ImportPlain,
           ConfigFaults!ImportPlain, First!BeginRefreshActivate,
           ConfigFaults!BeginRefreshActivate, First!BeginRefresh,
           ConfigFaults!BeginRefresh, First!BeginActivate,
           ConfigFaults!BeginActivate, First!BeginDelete,
           ConfigFaults!BeginDelete, First!BeginRules,
           ConfigFaults!BeginRules, First!BeginStoreEdit,
           ConfigFaults!BeginStoreEdit, First!BeginEdit,
           ConfigFaults!BeginEdit, First!BeginManual,
           ConfigFaults!BeginManual, First!BeginPrepare,
           ConfigFaults!BeginPrepare, First!SyncController,
           ConfigFaults!SyncController, First!Reject, ConfigFaults!Reject,
           First!MarkFailed, ConfigFaults!MarkFailed, First!VpnConfigHalf,
           ConfigFaults!VpnConfigHalf, First!SyncControllerFails,
           ConfigFaults!SyncControllerFails, First!ReloadRead,
           ConfigFaults!ReloadRead, First!ReloadTake, ConfigFaults!ReloadTake,
           First!ReloadInstall, ConfigFaults!ReloadInstall, First!ReloadFails,
           ConfigFaults!ReloadFails, First!RollbackProfile,
           ConfigFaults!RollbackProfile, First!RollbackStore,
           ConfigFaults!RollbackStore, First!RollbackStoreEdit,
           ConfigFaults!RollbackStoreEdit, First!RollbackActivation,
           ConfigFaults!RollbackActivation, First!RollbackImport,
           ConfigFaults!RollbackImport, First!RollbackActivate,
           ConfigFaults!RollbackActivate, First!RollbackDelete,
           ConfigFaults!RollbackDelete, First!RollbackFails,
           ConfigFaults!RollbackFails, First!Finish, ConfigFaults!Finish,
           First!Remove, ConfigFaults!Remove, First!RemoveFails,
           ConfigFaults!RemoveFails, First!ManualCommit,
           ConfigFaults!ManualCommit, First!ManualFails,
           ConfigFaults!ManualFails, First!SyncRoute, ConfigFaults!SyncRoute,
           First!NativeRestart, ConfigFaults!NativeRestart,
           First!NativeRestore, ConfigFaults!NativeRestore, First!Spend,
           ConfigFaults!Spend, First!TryConfigTransaction,
           ConfigFaults!TryConfigTransaction, First!Loaded,
           ConfigFaults!Loaded, First!PublishConfig,
           ConfigFaults!PublishConfig, First!Edited, ConfigFaults!Edited,
           First!NoSnap, ConfigFaults!NoSnap, First!Return,
           ConfigFaults!Return, First!Enter, ConfigFaults!Enter,
           First!RevisionCurrent, ConfigFaults!RevisionCurrent,
           First!BeginWith, ConfigFaults!BeginWith, First!WithProfile,
           ConfigFaults!WithProfile, First!IfActive, ConfigFaults!IfActive,
           First!StoreEditCalls, ConfigFaults!StoreEditCalls, First!EditCalls,
           ConfigFaults!EditCalls, First!OverlayCalls,
           ConfigFaults!OverlayCalls, First!StartedController,
           ConfigFaults!StartedController, First!At, ConfigFaults!At,
           First!PublishOther, ConfigFaults!PublishOther, First!AfterReload,
           ConfigFaults!AfterReload, First!UndoWith, ConfigFaults!UndoWith,
           First!Restored, ConfigFaults!Restored, First!WasLoaded,
           ConfigFaults!WasLoaded, First!Without, ConfigFaults!Without,
           First!NoEngine, ConfigFaults!NoEngine, First!LiveMode,
           ConfigFaults!LiveMode
  <1>4. [Next]_vars => /\ scenario = "configFaults" => [First!Next]_(First!vars)
                       /\ (scenario = "configFaults") <=> (scenario = "configFaults")'
    BY <1>3, SuiteSteps DEF configVars, First!vars
  <1>5. [Next]_vars /\ [First!CommitSawStore]_(First!vars)
          => [scenario = "configFaults" => ConfigFaults!CommitSawStore]_vars
    <2>1. First!CommitSawStore => ConfigFaults!CommitSawStore
      BY DEF First!CommitSawStore, ConfigFaults!CommitSawStore
    <2>2. [Next]_vars /\ scenario = "configFaults" /\ UNCHANGED configVars => UNCHANGED vars
      BY DEF Next, vars, ConfigNext, StoreNext, OrderNext, PageNext, SelNext,
             LogNext, OpNext
    <2> QED
      BY <2>1, <2>2 DEF configVars, First!vars
  <1>6. First!NoSilentChange
    BY DEF First!WholeCommits, First!NoSilentChange, StepFaults
  <1>7. First!Spec => [][First!CommitSawStore]_(First!vars)
    BY <1>1, <1>6, First!NoLostUpdate DEF First!CommitsOverWhatWasSeen
  <1> QED
    BY <1>2, <1>4, <1>5, <1>7, PTL DEF Spec, First!Spec

(* Two callers: a commit is made over the configuration its caller saw     *)
(* (ensure_config_revision_locked).                                        *)
LEMMA ConfigPairsCommits ==
  Spec => [][scenario = "configPairs" => ConfigPairs!CommitSawStore]_vars
  <1>1. Second!ConstantsOK
    BY SuiteAssumption DEF Second!ConstantsOK, ConfigPairs!ConstantsOK,
           Second!AllKinds, ConfigPairs!AllKinds, Second!AllFaults,
           ConfigPairs!AllFaults
  <1>2. Init /\ scenario = "configPairs" => Second!Init
    BY DEF Init, ConfigInit, Second!Init, ConfigPairs!Init, Second!NoEngine,
           ConfigPairs!NoEngine, Second!NoTask, ConfigPairs!NoTask,
           Second!NoSnap, ConfigPairs!NoSnap
  <1>3. ConfigPairs!Next => Second!Next
    BY DEF Second!Next, ConfigPairs!Next, Second!Request, ConfigPairs!Request,
           Second!PrepareFails, ConfigPairs!PrepareFails, Second!TakeVpnLock,
           ConfigPairs!TakeVpnLock, Second!Begin, ConfigPairs!Begin,
           Second!Progress, ConfigPairs!Progress, Second!SyncTick,
           ConfigPairs!SyncTick, Second!Modes, ConfigPairs!Modes,
           Second!SetMode, ConfigPairs!SetMode, Second!ControlSync,
           ConfigPairs!ControlSync, Second!UpdateSubscription,
           ConfigPairs!UpdateSubscription, Second!ExternalPatch,
           ConfigPairs!ExternalPatch, Second!DelayTestUnfixes,
           ConfigPairs!DelayTestUnfixes, Second!Disconnect,
           ConfigPairs!Disconnect, Second!RestoreBackup,
           ConfigPairs!RestoreBackup, Second!Ids, ConfigPairs!Ids,
           Second!NoTask, ConfigPairs!NoTask, Second!Fail, ConfigPairs!Fail,
           Second!Goto, ConfigPairs!Goto, Second!BeginImport,
           ConfigPairs!BeginImport, Second!ImportPlain,
           ConfigPairs!ImportPlain, Second!BeginRefreshActivate,
           ConfigPairs!BeginRefreshActivate, Second!BeginRefresh,
           ConfigPairs!BeginRefresh, Second!BeginActivate,
           ConfigPairs!BeginActivate, Second!BeginDelete,
           ConfigPairs!BeginDelete, Second!BeginRules, ConfigPairs!BeginRules,
           Second!BeginStoreEdit, ConfigPairs!BeginStoreEdit,
           Second!BeginEdit, ConfigPairs!BeginEdit, Second!BeginManual,
           ConfigPairs!BeginManual, Second!BeginPrepare,
           ConfigPairs!BeginPrepare, Second!SyncController,
           ConfigPairs!SyncController, Second!Reject, ConfigPairs!Reject,
           Second!MarkFailed, ConfigPairs!MarkFailed, Second!VpnConfigHalf,
           ConfigPairs!VpnConfigHalf, Second!SyncControllerFails,
           ConfigPairs!SyncControllerFails, Second!ReloadRead,
           ConfigPairs!ReloadRead, Second!ReloadTake, ConfigPairs!ReloadTake,
           Second!ReloadInstall, ConfigPairs!ReloadInstall,
           Second!ReloadFails, ConfigPairs!ReloadFails,
           Second!RollbackProfile, ConfigPairs!RollbackProfile,
           Second!RollbackStore, ConfigPairs!RollbackStore,
           Second!RollbackStoreEdit, ConfigPairs!RollbackStoreEdit,
           Second!RollbackActivation, ConfigPairs!RollbackActivation,
           Second!RollbackImport, ConfigPairs!RollbackImport,
           Second!RollbackActivate, ConfigPairs!RollbackActivate,
           Second!RollbackDelete, ConfigPairs!RollbackDelete,
           Second!RollbackFails, ConfigPairs!RollbackFails, Second!Finish,
           ConfigPairs!Finish, Second!Remove, ConfigPairs!Remove,
           Second!RemoveFails, ConfigPairs!RemoveFails, Second!ManualCommit,
           ConfigPairs!ManualCommit, Second!ManualFails,
           ConfigPairs!ManualFails, Second!SyncRoute, ConfigPairs!SyncRoute,
           Second!NativeRestart, ConfigPairs!NativeRestart,
           Second!NativeRestore, ConfigPairs!NativeRestore, Second!Spend,
           ConfigPairs!Spend, Second!TryConfigTransaction,
           ConfigPairs!TryConfigTransaction, Second!Loaded,
           ConfigPairs!Loaded, Second!PublishConfig,
           ConfigPairs!PublishConfig, Second!Edited, ConfigPairs!Edited,
           Second!NoSnap, ConfigPairs!NoSnap, Second!Return,
           ConfigPairs!Return, Second!Enter, ConfigPairs!Enter,
           Second!RevisionCurrent, ConfigPairs!RevisionCurrent,
           Second!BeginWith, ConfigPairs!BeginWith, Second!WithProfile,
           ConfigPairs!WithProfile, Second!IfActive, ConfigPairs!IfActive,
           Second!StoreEditCalls, ConfigPairs!StoreEditCalls,
           Second!EditCalls, ConfigPairs!EditCalls, Second!OverlayCalls,
           ConfigPairs!OverlayCalls, Second!StartedController,
           ConfigPairs!StartedController, Second!At, ConfigPairs!At,
           Second!PublishOther, ConfigPairs!PublishOther, Second!AfterReload,
           ConfigPairs!AfterReload, Second!UndoWith, ConfigPairs!UndoWith,
           Second!Restored, ConfigPairs!Restored, Second!WasLoaded,
           ConfigPairs!WasLoaded, Second!Without, ConfigPairs!Without,
           Second!NoEngine, ConfigPairs!NoEngine, Second!LiveMode,
           ConfigPairs!LiveMode
  <1>4. [Next]_vars => /\ scenario = "configPairs" => [Second!Next]_(Second!vars)
                       /\ (scenario = "configPairs") <=> (scenario = "configPairs")'
    BY <1>3, SuiteSteps DEF configVars, Second!vars
  <1>5. [Next]_vars /\ [Second!CommitSawStore]_(Second!vars)
          => [scenario = "configPairs" => ConfigPairs!CommitSawStore]_vars
    <2>1. Second!CommitSawStore => ConfigPairs!CommitSawStore
      BY DEF Second!CommitSawStore, ConfigPairs!CommitSawStore
    <2>2. [Next]_vars /\ scenario = "configPairs" /\ UNCHANGED configVars => UNCHANGED vars
      BY DEF Next, vars, ConfigNext, StoreNext, OrderNext, PageNext, SelNext,
             LogNext, OpNext
    <2> QED
      BY <2>1, <2>2 DEF configVars, Second!vars
  <1>6. Second!NoSilentChange
    BY DEF Second!WholeCommits, Second!NoSilentChange
  <1>7. Second!Spec => [][Second!CommitSawStore]_(Second!vars)
    BY <1>1, <1>6, Second!NoLostUpdate DEF Second!CommitsOverWhatWasSeen
  <1> QED
    BY <1>2, <1>4, <1>5, <1>7, PTL DEF Spec, Second!Spec

(* Refreshes of providers: nothing older is recorded or reloaded over      *)
(* something newer (reload_config).                                        *)
LEMMA OperationsRefreshSteps ==
  Spec => [][scenario = "operationsRefresh" =>
                 OperationsRefresh!NewestIsShown /\ OperationsRefresh!ProfileIsKept]_vars
  <1>1. First!Ops!ConstantsOK
    BY SuiteAssumption DEF First!Ops!ConstantsOK,
           OperationsRefresh!ConstantsOK
  <1>2. Init /\ scenario = "operationsRefresh" => First!Ops!Init
    BY DEF Init, OpInit, First!Ops!Init, OperationsRefresh!Init,
           First!Ops!Keys, OperationsRefresh!Keys, First!Ops!Idle,
           OperationsRefresh!Idle
  <1>3. OperationsRefresh!Next => First!Ops!Next
    BY DEF First!Ops!Next, OperationsRefresh!Next, First!Ops!Step,
           OperationsRefresh!Step, First!Ops!Commit, OperationsRefresh!Commit,
           First!Ops!ServingChanges, OperationsRefresh!ServingChanges,
           First!Ops!StartDelayTest, OperationsRefresh!StartDelayTest,
           First!Ops!TestMember, OperationsRefresh!TestMember,
           First!Ops!SystemProbeAnswers, OperationsRefresh!SystemProbeAnswers,
           First!Ops!ControllerAnswersDelay,
           OperationsRefresh!ControllerAnswersDelay,
           First!Ops!ControllerRefusesDelay,
           OperationsRefresh!ControllerRefusesDelay, First!Ops!StartProbe,
           OperationsRefresh!StartProbe, First!Ops!ProbeAnswers,
           OperationsRefresh!ProbeAnswers, First!Ops!StartGroupTest,
           OperationsRefresh!StartGroupTest, First!Ops!ControllerAnswersGroup,
           OperationsRefresh!ControllerAnswersGroup, First!Ops!GroupTestFails,
           OperationsRefresh!GroupTestFails, First!Ops!TestMembers,
           OperationsRefresh!TestMembers, First!Ops!EndGroupTest,
           OperationsRefresh!EndGroupTest, First!Ops!StartHealthCheck,
           OperationsRefresh!StartHealthCheck, First!Ops!StartMemberCheck,
           OperationsRefresh!StartMemberCheck, First!Ops!StartRefresh,
           OperationsRefresh!StartRefresh, First!Ops!RefreshNext,
           OperationsRefresh!RefreshNext, First!Ops!ProviderIsHealthChecked,
           OperationsRefresh!ProviderIsHealthChecked,
           First!Ops!MemberIsHealthChecked,
           OperationsRefresh!MemberIsHealthChecked, First!Ops!StartRefreshAll,
           OperationsRefresh!StartRefreshAll, First!Ops!EndRefreshAll,
           OperationsRefresh!EndRefreshAll, First!Ops!InlineIsRefused,
           OperationsRefresh!InlineIsRefused, First!Ops!RefreshByReload,
           OperationsRefresh!RefreshByReload, First!Ops!ControllerRefreshes,
           OperationsRefresh!ControllerRefreshes,
           First!Ops!ControllerRefusesRefresh,
           OperationsRefresh!ControllerRefusesRefresh, First!Ops!ReadRevision,
           OperationsRefresh!ReadRevision, First!Ops!TakeLock,
           OperationsRefresh!TakeLock, First!Ops!Reload,
           OperationsRefresh!Reload, First!Ops!ReloadFails,
           OperationsRefresh!ReloadFails, First!Ops!Spend,
           OperationsRefresh!Spend, First!Ops!serving,
           OperationsRefresh!serving, First!Ops!config,
           OperationsRefresh!config, First!Ops!resources,
           OperationsRefresh!resources, First!Ops!At, OperationsRefresh!At,
           First!Ops!Begin, OperationsRefresh!Begin, First!Ops!Count,
           OperationsRefresh!Count, First!Ops!Taken, OperationsRefresh!Taken,
           First!Ops!NoAnswer, OperationsRefresh!NoAnswer, First!Ops!Answer,
           OperationsRefresh!Answer, First!Ops!End, OperationsRefresh!End,
           First!Ops!Move, OperationsRefresh!Move, First!Ops!Current,
           OperationsRefresh!Current, First!Ops!Idle, OperationsRefresh!Idle,
           First!Ops!Refresh, OperationsRefresh!Refresh, First!Ops!OutOfDate,
           OperationsRefresh!OutOfDate, First!Ops!Mark,
           OperationsRefresh!Mark, First!Ops!Record, OperationsRefresh!Record,
           First!Ops!Ended, OperationsRefresh!Ended
  <1>4. [Next]_vars => /\ scenario = "operationsRefresh" => [First!Ops!Next]_(First!Ops!vars)
                       /\ (scenario = "operationsRefresh") <=> (scenario = "operationsRefresh")'
    BY <1>3, SuiteSteps DEF opVars, First!Ops!vars, First!Ops!config,
           First!Ops!resources, First!Ops!serving
  <1>5. [Next]_vars /\ [First!Ops!NewestIsShown
                /\ First!Ops!ProfileIsKept
                /\ First!Ops!TestedProfileIsSaved]_(First!Ops!vars)
          => [scenario = "operationsRefresh" =>
                 OperationsRefresh!NewestIsShown /\ OperationsRefresh!ProfileIsKept]_vars
    <2>1. First!Ops!NewestIsShown => OperationsRefresh!NewestIsShown
      BY DEF First!Ops!NewestIsShown, OperationsRefresh!NewestIsShown,
             First!Ops!Keys, OperationsRefresh!Keys
    <2>2. First!Ops!ProfileIsKept => OperationsRefresh!ProfileIsKept
      BY DEF First!Ops!ProfileIsKept, OperationsRefresh!ProfileIsKept
    <2>3. [Next]_vars /\ scenario = "operationsRefresh" /\ UNCHANGED opVars => UNCHANGED vars
      BY DEF Next, vars, ConfigNext, StoreNext, OrderNext, PageNext, SelNext,
             LogNext, OpNext
    <2> QED
      BY <2>1, <2>2, <2>3 DEF opVars, First!Ops!vars, First!Ops!config,
         First!Ops!resources, First!Ops!serving
  <1>6. First!Ops!Spec =>
          [][First!Ops!NewestIsShown
             /\ First!Ops!ProfileIsKept
             /\ First!Ops!TestedProfileIsSaved]_(First!Ops!vars)
    BY <1>1, First!OutcomesAreNewest DEF First!Ops!Steps
  <1> QED
    BY <1>2, <1>4, <1>5, <1>6, PTL DEF Spec, First!Ops!Spec

(* Tests of a proxy and its group: nothing older is recorded, and what is  *)
(* saved was tested (test_proxy_group_via_controller).                     *)
LEMMA OperationsTestSteps ==
  Spec => [][scenario = "operationsTest" =>
                 OperationsTest!NewestIsShown /\ OperationsTest!TestedProfileIsSaved]_vars
  <1>1. Second!Ops!ConstantsOK
    BY SuiteAssumption DEF Second!Ops!ConstantsOK, OperationsTest!ConstantsOK
  <1>2. Init /\ scenario = "operationsTest" => Second!Ops!Init
    BY DEF Init, OpInit, Second!Ops!Init, OperationsTest!Init,
           Second!Ops!Keys, OperationsTest!Keys, Second!Ops!Idle,
           OperationsTest!Idle
  <1>3. OperationsTest!Next => Second!Ops!Next
    BY DEF Second!Ops!Next, OperationsTest!Next, Second!Ops!Step,
           OperationsTest!Step, Second!Ops!Commit, OperationsTest!Commit,
           Second!Ops!ServingChanges, OperationsTest!ServingChanges,
           Second!Ops!StartDelayTest, OperationsTest!StartDelayTest,
           Second!Ops!TestMember, OperationsTest!TestMember,
           Second!Ops!SystemProbeAnswers, OperationsTest!SystemProbeAnswers,
           Second!Ops!ControllerAnswersDelay,
           OperationsTest!ControllerAnswersDelay,
           Second!Ops!ControllerRefusesDelay,
           OperationsTest!ControllerRefusesDelay, Second!Ops!StartProbe,
           OperationsTest!StartProbe, Second!Ops!ProbeAnswers,
           OperationsTest!ProbeAnswers, Second!Ops!StartGroupTest,
           OperationsTest!StartGroupTest, Second!Ops!ControllerAnswersGroup,
           OperationsTest!ControllerAnswersGroup, Second!Ops!GroupTestFails,
           OperationsTest!GroupTestFails, Second!Ops!TestMembers,
           OperationsTest!TestMembers, Second!Ops!EndGroupTest,
           OperationsTest!EndGroupTest, Second!Ops!StartHealthCheck,
           OperationsTest!StartHealthCheck, Second!Ops!StartMemberCheck,
           OperationsTest!StartMemberCheck, Second!Ops!StartRefresh,
           OperationsTest!StartRefresh, Second!Ops!RefreshNext,
           OperationsTest!RefreshNext, Second!Ops!ProviderIsHealthChecked,
           OperationsTest!ProviderIsHealthChecked,
           Second!Ops!MemberIsHealthChecked,
           OperationsTest!MemberIsHealthChecked, Second!Ops!StartRefreshAll,
           OperationsTest!StartRefreshAll, Second!Ops!EndRefreshAll,
           OperationsTest!EndRefreshAll, Second!Ops!InlineIsRefused,
           OperationsTest!InlineIsRefused, Second!Ops!RefreshByReload,
           OperationsTest!RefreshByReload, Second!Ops!ControllerRefreshes,
           OperationsTest!ControllerRefreshes,
           Second!Ops!ControllerRefusesRefresh,
           OperationsTest!ControllerRefusesRefresh, Second!Ops!ReadRevision,
           OperationsTest!ReadRevision, Second!Ops!TakeLock,
           OperationsTest!TakeLock, Second!Ops!Reload, OperationsTest!Reload,
           Second!Ops!ReloadFails, OperationsTest!ReloadFails,
           Second!Ops!Spend, OperationsTest!Spend, Second!Ops!serving,
           OperationsTest!serving, Second!Ops!config, OperationsTest!config,
           Second!Ops!resources, OperationsTest!resources, Second!Ops!At,
           OperationsTest!At, Second!Ops!Begin, OperationsTest!Begin,
           Second!Ops!Count, OperationsTest!Count, Second!Ops!Taken,
           OperationsTest!Taken, Second!Ops!NoAnswer, OperationsTest!NoAnswer,
           Second!Ops!Answer, OperationsTest!Answer, Second!Ops!End,
           OperationsTest!End, Second!Ops!Move, OperationsTest!Move,
           Second!Ops!Current, OperationsTest!Current, Second!Ops!Idle,
           OperationsTest!Idle, Second!Ops!Refresh, OperationsTest!Refresh,
           Second!Ops!OutOfDate, OperationsTest!OutOfDate, Second!Ops!Mark,
           OperationsTest!Mark, Second!Ops!Record, OperationsTest!Record,
           Second!Ops!Ended, OperationsTest!Ended
  <1>4. [Next]_vars => /\ scenario = "operationsTest" => [Second!Ops!Next]_(Second!Ops!vars)
                       /\ (scenario = "operationsTest") <=> (scenario = "operationsTest")'
    BY <1>3, SuiteSteps DEF opVars, Second!Ops!vars, Second!Ops!config,
           Second!Ops!resources, Second!Ops!serving
  <1>5. [Next]_vars /\ [Second!Ops!NewestIsShown
                /\ Second!Ops!ProfileIsKept
                /\ Second!Ops!TestedProfileIsSaved]_(Second!Ops!vars)
          => [scenario = "operationsTest" =>
                 OperationsTest!NewestIsShown /\ OperationsTest!TestedProfileIsSaved]_vars
    <2>1. Second!Ops!NewestIsShown => OperationsTest!NewestIsShown
      BY DEF Second!Ops!NewestIsShown, OperationsTest!NewestIsShown,
             Second!Ops!Keys, OperationsTest!Keys
    <2>2. Second!Ops!TestedProfileIsSaved => OperationsTest!TestedProfileIsSaved
      BY DEF Second!Ops!TestedProfileIsSaved,
             OperationsTest!TestedProfileIsSaved
    <2>3. [Next]_vars /\ scenario = "operationsTest" /\ UNCHANGED opVars => UNCHANGED vars
      BY DEF Next, vars, ConfigNext, StoreNext, OrderNext, PageNext, SelNext,
             LogNext, OpNext
    <2> QED
      BY <2>1, <2>2, <2>3 DEF opVars, Second!Ops!vars, Second!Ops!config,
         Second!Ops!resources, Second!Ops!serving
  <1>6. Second!Ops!Spec =>
          [][Second!Ops!NewestIsShown
             /\ Second!Ops!ProfileIsKept
             /\ Second!Ops!TestedProfileIsSaved]_(Second!Ops!vars)
    BY <1>1, Second!OutcomesAreNewest DEF Second!Ops!Steps
  <1> QED
    BY <1>2, <1>4, <1>5, <1>6, PTL DEF Spec, Second!Ops!Spec

(* Choices of a proxy beside reloads and the tick of the controller: what  *)
(* is set, shown, saved and told agrees (select_proxy).                    *)
LEMMA SelectionFaultsRuns ==
  Spec => [](scenario = "selectionFaults" => SelectionFaults!AllAgree)
  <1>1. First!Select!ConstantsOK
    BY SuiteAssumption DEF First!Select!ConstantsOK,
           SelectionFaults!ConstantsOK, First!Select!Choices,
           SelectionFaults!Choices, First!Select!Picks, SelectionFaults!Picks
  <1>2. Init /\ scenario = "selectionFaults" => First!Select!Init
    BY DEF Init, SelInit, First!Select!Init, SelectionFaults!Init
  <1>3. SelectionFaults!Next => First!Select!Next
    BY DEF First!Select!Next, SelectionFaults!Next, First!Select!Choices,
             SelectionFaults!Choices, First!Select!Click, SelectionFaults!Click,
             First!Select!Working, SelectionFaults!Working,
             First!Select!ControllerSets, SelectionFaults!ControllerSets,
             First!Select!OtherBegins, SelectionFaults!OtherBegins,
             First!Select!ReloadStops, SelectionFaults!ReloadStops,
             First!Select!ReloadInstalls, SelectionFaults!ReloadInstalls,
             First!Select!EditEnds, SelectionFaults!EditEnds,
             First!Select!DelayTest, SelectionFaults!DelayTest,
             First!Select!SyncBegins, SelectionFaults!SyncBegins,
             First!Select!SyncEnds, SelectionFaults!SyncEnds,
             First!Select!VpnSync, SelectionFaults!VpnSync,
             First!Select!VpnTests, SelectionFaults!VpnTests,
             First!Select!Spend, SelectionFaults!Spend, First!Select!Check,
             SelectionFaults!Check, First!Select!ReadController,
             SelectionFaults!ReadController, First!Select!ControllerFails,
             SelectionFaults!ControllerFails, First!Select!LocalReads,
             SelectionFaults!LocalReads, First!Select!LocalSets,
             SelectionFaults!LocalSets, First!Select!RecordRefused,
             SelectionFaults!RecordRefused, First!Select!SaveFails,
             SelectionFaults!SaveFails, First!Select!Record,
             SelectionFaults!Record, First!Select!CloseAll,
             SelectionFaults!CloseAll, First!Select!Delivered,
             SelectionFaults!Delivered, First!Select!At, SelectionFaults!At,
             First!Select!GoTo, SelectionFaults!GoTo, First!Select!rest,
             SelectionFaults!rest, First!Select!Does, SelectionFaults!Does,
             First!Select!End, SelectionFaults!End
  <1>4. [Next]_vars => /\ scenario = "selectionFaults" => [First!Select!Next]_(First!Select!vars)
                       /\ (scenario = "selectionFaults") <=> (scenario = "selectionFaults")'
    BY <1>3, SuiteSteps DEF selVars, First!Select!vars, First!Select!rest
  <1>5. First!Select!AllAgree => SelectionFaults!AllAgree
    BY DEF First!Select!AllAgree, SelectionFaults!AllAgree
  <1>6. First!Select!Spec => []First!Select!AllAgree
    BY <1>1, First!ChoiceIsEverywhere
  <1> QED
    BY <1>2, <1>4, <1>5, <1>6, PTL DEF Spec, First!Select!Spec

-----------------------------------------------------------------------------
(* Configuration transactions leave the engine, the store and the revision *)
(* in step, and no outcome of an operation on a proxy or provider is       *)
(* recorded, reloaded or saved over something newer, for any number of     *)
(* calls (reload_config, ensure_config_revision_locked,                    *)
(* ensure_resource_operation_current_locked).                              *)
THEOREM ConfigurationStaysConsistent == Spec => ConfigIsConsistent
  <1>1. /\ [scenario = "configFaults" => ConfigFaults!CommitSawStore]_vars
        /\ [scenario = "configPairs" => ConfigPairs!CommitSawStore]_vars
        => [/\ scenario = "configFaults" => ConfigFaults!CommitSawStore
            /\ scenario = "configPairs" => ConfigPairs!CommitSawStore]_vars
    OBVIOUS
  <1>2. /\ [scenario = "operationsRefresh" =>
                 OperationsRefresh!NewestIsShown /\ OperationsRefresh!ProfileIsKept]_vars
        /\ [scenario = "operationsTest" =>
                 OperationsTest!NewestIsShown /\ OperationsTest!TestedProfileIsSaved]_vars
        => /\ [/\ scenario = "operationsRefresh" => OperationsRefresh!NewestIsShown
               /\ scenario = "operationsTest" => OperationsTest!NewestIsShown]_vars
           /\ [scenario = "operationsRefresh" => OperationsRefresh!ProfileIsKept]_vars
           /\ [scenario = "operationsTest" => OperationsTest!TestedProfileIsSaved]_vars
    OBVIOUS
  <1> QED
    BY <1>1, <1>2, ConfigFaultsRuns, ConfigPairsRuns, ConfigBesideRuns, ConfigFaultsCommits,
       ConfigPairsCommits, OperationsRefreshSteps, OperationsTestSteps, PTL
       DEF ConfigIsConsistent

(* Between choices, unless one has failed since, the tunnel, the UI, the   *)
(* profile and the VPN agree on the chosen proxy, for any number of        *)
(* choices and of other transactions (select_proxy,                        *)
(* record_proxy_selection).                                                *)
THEOREM ChoicesAlwaysAgree == Spec => []AllAgree
  BY SelectionFaultsRuns, PTL DEF AllAgree
=============================================================================
