------------------------------ MODULE MCUiLive ------------------------------
(*****************************************************************************)
(*  Instances of the components of the VPN process and of the UI for         *)
(* liveness. The scenario, chosen in the initial state, is the instance that *)
(* a behaviour is of; the other components stay in their initial states.     *)
(*****************************************************************************)
EXTENDS Naturals, Sequences

CONSTANTS None, Other, Unconfirmed, m1, s1, s2

VARIABLES
    scenario,  \* the instance that the behaviour is of
    \* TunSession
    gen, life, task, worker, halted, exit, op, tunCore, mixed, proxy, watchers,
    ability, syncs, startedFor,
    \* EngineReload
    control, edits, engineWoken, stopping, attempts, pc, ab, sub, engineChain,
    engineCalls, yaml, eng, net, moves, mon, probes, forced,
    \* UdpFlows
    phase, sessions, conns, flowTasks, tracked, drained, route, stale,
    flowLeft,
    \* ContinuousTask
    session, owned, obj, request, stop, keepSystem, issued, events, again,
    stopped, keepUser,
    \* VpnReceipts
    receiptRoot, nextId, receiptActive, seen, receiptTasks, inbox, plugin,
    retained, startReq, last, receiptChain, receiptOps, intent, receiptVpn,
    cfg, lost, health, receiptUser, quiet, faults, exits, checks,
    \* AutoRecovery
    sess, rec, cold, recoveryTasks, recoveryWoken, used, deaths, recoveryUser,
    claims,
    \* UiProjections
    projectionCore, poisoned, projectionChanges, projectionFresh,
    projectionShown, startup, stamps, prov, projectionChan, projectionOps,
    opCount, error, told, paused,
    \* UiAppearance
    prefs, file, appearanceCalls, platform, os, appearanceSystem,
    appearanceFresh, appearanceChan, appearanceLeft,
    \* UiImports
    generation, sender, feedback, ruleLoading, importPage, importRoot, jobs,
    config, importShown, importVpn, early, importLeft,
    \* RuleDialogs
    dialogPage, drafts, query, dialogTasks, ids, dialogShown, dialogActive,
    rules, tunnel, listed, lock, open, dialogChanges

tunVars == <<gen, life, task, worker, halted, exit, op, tunCore, mixed, proxy,
             watchers, ability, syncs, startedFor>>
engineVars == <<control, edits, engineWoken, stopping, attempts, pc, ab, sub,
                engineChain, engineCalls, yaml, eng, net, moves, mon, probes,
                forced>>
flowVars == <<phase, sessions, conns, flowTasks, tracked, drained, route,
              stale, flowLeft>>
keepVars == <<session, owned, obj, request, stop, keepSystem, issued, events,
              again, stopped, keepUser>>
receiptVars == <<receiptRoot, nextId, receiptActive, seen, receiptTasks, inbox,
                 plugin, retained, startReq, last, receiptChain, receiptOps,
                 intent, receiptVpn, cfg, lost, health, receiptUser, quiet,
                 faults, exits, checks>>
recoveryVars == <<sess, rec, cold, recoveryTasks, recoveryWoken, used, deaths,
                  recoveryUser, claims>>
projectionVars == <<projectionCore, poisoned, projectionChanges,
                    projectionFresh, projectionShown, startup, stamps, prov,
                    projectionChan, projectionOps, opCount, error, told,
                    paused>>
appearanceVars == <<prefs, file, appearanceCalls, platform, os,
                    appearanceSystem, appearanceFresh, appearanceChan,
                    appearanceLeft>>
importVars == <<generation, sender, feedback, ruleLoading, importPage,
                importRoot, jobs, config, importShown, importVpn, early,
                importLeft>>
dialogVars == <<dialogPage, drafts, query, dialogTasks, ids, dialogShown,
                dialogActive, rules, tunnel, listed, lock, open,
                dialogChanges>>

vars == <<scenario, tunVars, engineVars, flowVars, keepVars, receiptVars,
          recoveryVars, projectionVars, appearanceVars, importVars,
          dialogVars>>

-----------------------------------------------------------------------------

\* The stack with process-global state; ports are taken, publishing fails.
TunLive == INSTANCE TunSession WITH
    Attempts <- 2, MaxSyncs <- 1, Lwip <- TRUE, PortTaken <- TRUE,
    PersistFails <- TRUE, core <- tunCore

\* sing-box: two sessions, an edit and a handover.
EngineSingBox == INSTANCE EngineReload WITH
    Engine <- "sing-box", Attempts <- 2, Modes <- {m1}, Sels <- {s1, s2},
    MaxEdits <- 1, MaxHandovers <- 1, Fails <- FALSE, StartEdits <- TRUE,
    EarlyHandover <- FALSE, SlowProbe <- FALSE, woken <- engineWoken,
    chain <- engineChain, calls <- engineCalls

\* sing-box: one session, an edit and two handovers.
EngineMoves == INSTANCE EngineReload WITH
    Engine <- "sing-box", Attempts <- 1, Modes <- {m1}, Sels <- {s1, s2},
    MaxEdits <- 1, MaxHandovers <- 2, Fails <- FALSE, StartEdits <- TRUE,
    EarlyHandover <- FALSE, SlowProbe <- FALSE, woken <- engineWoken,
    chain <- engineChain, calls <- engineCalls

\* mihomo: one session, two edits and a handover.
EngineMihomo == INSTANCE EngineReload WITH
    Engine <- "mihomo", Attempts <- 1, Modes <- {m1}, Sels <- {s1, s2},
    MaxEdits <- 2, MaxHandovers <- 1, Fails <- FALSE, StartEdits <- FALSE,
    EarlyHandover <- FALSE, SlowProbe <- FALSE, woken <- engineWoken,
    chain <- engineChain, calls <- engineCalls

\* Two datagrams of a flow, and a stream.
FlowsLive == INSTANCE UdpFlows WITH
    Keys <- {"k1"}, MaxDatagrams <- 2, MaxStreams <- 1, MaxRoutes <- 0,
    MaxSweeps <- 0, tasks <- flowTasks, left <- flowLeft

\* No refusal, no cancellation before the task is published.
TaskLive == INSTANCE ContinuousTask WITH
    CancelEarly <- FALSE, Refusals <- FALSE, MaxTasks <- 4, MaxUser <- 4,
    system <- keepSystem, user <- keepUser

\* A call of the bridge fails or times out.
ReceiptsLive == INSTANCE VpnReceipts WITH
    Kinds <- {"Start", "Stop"}, MaxTasks <- 3, MaxReqs <- 3, MaxRounds <- 1,
    MaxRetained <- 1, MaxEdits <- 0, MaxPlugins <- 1, MaxRoots <- 1,
    MaxIntents <- 3, MaxFaults <- 1, MaxExits <- 0, MaxHealth <- 0,
    root <- receiptRoot, active <- receiptActive, tasks <- receiptTasks,
    chain <- receiptChain, ops <- receiptOps, vpn <- receiptVpn,
    user <- receiptUser

\* One death, five attempts.
RecoveryLive == INSTANCE AutoRecovery WITH
    MaxSessions <- 5, Deaths <- 1, StopsAllowed <- TRUE, Unconfirmed <- FALSE,
    tasks <- recoveryTasks, woken <- recoveryWoken, user <- recoveryUser

\* A change and an operation, through a channel for one message.
ProjectionsLive == INSTANCE UiProjections WITH
    MaxChanges <- 1, MaxOps <- 1, Capacity <- 1, Poison <- FALSE,
    core <- projectionCore, changes <- projectionChanges,
    fresh <- projectionFresh, shown <- projectionShown, chan <- projectionChan,
    ops <- projectionOps

\* A choice, a change of the system, a restart.
AppearanceLive == INSTANCE UiAppearance WITH
    MaxEdits <- 1, MaxSystem <- 1, MaxRestarts <- 1, ColorFails <- TRUE,
    SaveFails <- FALSE, calls <- appearanceCalls, system <- appearanceSystem,
    fresh <- appearanceFresh, chan <- appearanceChan, left <- appearanceLeft

\* Two profile imports, one cancelled.
ImportsLive == INSTANCE UiImports WITH
    MaxImports <- 2, MaxEdits <- 0, MaxCancels <- 1, MaxLeaves <- 0,
    MaxRoots <- 0, MaxOthers <- 0, Kinds <- {"profile"}, page <- importPage,
    root <- importRoot, shown <- importShown, vpn <- importVpn,
    left <- importLeft

\* Two tasks, one lookup.
DialogsLive == INSTANCE RuleDialogs WITH
    Names <- {"a"}, Ips <- {"x"}, Targets <- {"DIRECT"}, Profiles <- {"p"},
    Catching <- {"p"}, Conns <- {}, MaxPages <- 1, MaxLookups <- 1,
    MaxTasks <- 2, MaxChanges <- 0, page <- dialogPage, tasks <- dialogTasks,
    shown <- dialogShown, active <- dialogActive, changes <- dialogChanges

\* A page that is left during a task.
DialogsLeft == INSTANCE RuleDialogs WITH
    Names <- {"a"}, Ips <- {"x"}, Targets <- {"DIRECT"}, Profiles <- {"p"},
    Catching <- {"p"}, Conns <- {}, MaxPages <- 2, MaxLookups <- 1,
    MaxTasks <- 1, MaxChanges <- 0, page <- dialogPage, tasks <- dialogTasks,
    shown <- dialogShown, active <- dialogActive, changes <- dialogChanges

-----------------------------------------------------------------------------
Scenarios == {"tunLive", "engineSingBox", "engineMoves", "engineMihomo",
              "flowsLive", "taskLive", "receiptsLive", "recoveryLive",
              "projectionsLive", "appearanceLive", "importsLive",
              "dialogsLive", "dialogsLeft"}

\* What the components assume of their constants holds in every instance.
ASSUME SuiteAssumption == TunLive!ConstantsOK /\ EngineSingBox!ConstantsOK /\
    EngineMoves!ConstantsOK /\ EngineMihomo!ConstantsOK /\
    FlowsLive!ConstantsOK /\ TaskLive!ConstantsOK /\
    ReceiptsLive!ConstantsOK /\ RecoveryLive!ConstantsOK /\
    ProjectionsLive!ConstantsOK /\ AppearanceLive!ConstantsOK /\
    ImportsLive!ConstantsOK /\ DialogsLive!ConstantsOK /\
    DialogsLeft!ConstantsOK

TunInit ==
    /\ TunLive!Init
EngineInit ==
    /\ \/ scenario = "engineMoves" /\ EngineMoves!Init
       \/ scenario = "engineMihomo" /\ EngineMihomo!Init
       \/ ~(scenario \in {"engineMoves", "engineMihomo"}) /\ EngineSingBox!Init
    /\ (scenario \in {"engineSingBox", "engineMoves", "engineMihomo"}) \/ (control.sel = s1)
FlowInit ==
    /\ FlowsLive!Init
KeepInit ==
    /\ TaskLive!Init
ReceiptInit ==
    /\ ReceiptsLive!Init
RecoveryInit ==
    /\ RecoveryLive!Init
    /\ (scenario = "recoveryLive") \/ (~cold)
ProjectionInit ==
    /\ ProjectionsLive!Init
AppearanceInit ==
    /\ AppearanceLive!Init
    /\ (scenario = "appearanceLive") \/ (os.locale = "En" /\ os.mode = "Light")
ImportInit ==
    /\ ImportsLive!Init
DialogInit ==
    \/ scenario = "dialogsLeft" /\ DialogsLeft!Init
    \/ ~(scenario = "dialogsLeft") /\ DialogsLive!Init

Init ==
    /\ scenario \in Scenarios
    /\ TunInit /\ EngineInit /\ FlowInit /\ KeepInit /\ ReceiptInit /\
       RecoveryInit /\ ProjectionInit /\ AppearanceInit /\ ImportInit /\
       DialogInit

TunNext ==
    /\ scenario = "tunLive"
    /\ UNCHANGED <<scenario, engineVars, flowVars, keepVars, receiptVars,
                   recoveryVars, projectionVars, appearanceVars, importVars,
                   dialogVars>>
    /\ TunLive!Next
EngineNext ==
    /\ scenario \in {"engineSingBox", "engineMoves", "engineMihomo"}
    /\ UNCHANGED <<scenario, tunVars, flowVars, keepVars, receiptVars,
                   recoveryVars, projectionVars, appearanceVars, importVars,
                   dialogVars>>
    /\ \/ scenario = "engineSingBox" /\ EngineSingBox!Next
       \/ scenario = "engineMoves" /\ EngineMoves!Next
       \/ scenario = "engineMihomo" /\ EngineMihomo!Next
FlowNext ==
    /\ scenario = "flowsLive"
    /\ UNCHANGED <<scenario, tunVars, engineVars, keepVars, receiptVars,
                   recoveryVars, projectionVars, appearanceVars, importVars,
                   dialogVars>>
    /\ FlowsLive!Next
KeepNext ==
    /\ scenario = "taskLive"
    /\ UNCHANGED <<scenario, tunVars, engineVars, flowVars, receiptVars,
                   recoveryVars, projectionVars, appearanceVars, importVars,
                   dialogVars>>
    /\ TaskLive!Next
ReceiptNext ==
    /\ scenario = "receiptsLive"
    /\ UNCHANGED <<scenario, tunVars, engineVars, flowVars, keepVars,
                   recoveryVars, projectionVars, appearanceVars, importVars,
                   dialogVars>>
    /\ ReceiptsLive!Next
RecoveryNext ==
    /\ scenario = "recoveryLive"
    /\ UNCHANGED <<scenario, tunVars, engineVars, flowVars, keepVars,
                   receiptVars, projectionVars, appearanceVars, importVars,
                   dialogVars>>
    /\ RecoveryLive!Next
ProjectionNext ==
    /\ scenario = "projectionsLive"
    /\ UNCHANGED <<scenario, tunVars, engineVars, flowVars, keepVars,
                   receiptVars, recoveryVars, appearanceVars, importVars,
                   dialogVars>>
    /\ ProjectionsLive!Next
AppearanceNext ==
    /\ scenario = "appearanceLive"
    /\ UNCHANGED <<scenario, tunVars, engineVars, flowVars, keepVars,
                   receiptVars, recoveryVars, projectionVars, importVars,
                   dialogVars>>
    /\ AppearanceLive!Next
ImportNext ==
    /\ scenario = "importsLive"
    /\ UNCHANGED <<scenario, tunVars, engineVars, flowVars, keepVars,
                   receiptVars, recoveryVars, projectionVars, appearanceVars,
                   dialogVars>>
    /\ ImportsLive!Next
DialogNext ==
    /\ scenario \in {"dialogsLive", "dialogsLeft"}
    /\ UNCHANGED <<scenario, tunVars, engineVars, flowVars, keepVars,
                   receiptVars, recoveryVars, projectionVars, appearanceVars,
                   importVars>>
    /\ \/ scenario = "dialogsLive" /\ DialogsLive!Next
       \/ scenario = "dialogsLeft" /\ DialogsLeft!Next

Next == TunNext \/ EngineNext \/ FlowNext \/ KeepNext \/ ReceiptNext \/
        RecoveryNext \/ ProjectionNext \/ AppearanceNext \/ ImportNext \/
        DialogNext

Spec == Init /\ [][Next]_vars

\* The fairness of each component, numbered as the component numbers it.
TunFair(n) ==
    /\ scenario = "tunLive"
    /\ UNCHANGED <<scenario, engineVars, flowVars, keepVars, receiptVars,
                   recoveryVars, projectionVars, appearanceVars, importVars,
                   dialogVars>>
    /\ TunLive!Fair(n)
EngineFair(n) ==
    /\ scenario \in {"engineSingBox", "engineMoves", "engineMihomo"}
    /\ UNCHANGED <<scenario, tunVars, flowVars, keepVars, receiptVars,
                   recoveryVars, projectionVars, appearanceVars, importVars,
                   dialogVars>>
    /\ \/ scenario = "engineSingBox" /\ EngineSingBox!Fair(n)
       \/ scenario = "engineMoves" /\ EngineMoves!Fair(n)
       \/ scenario = "engineMihomo" /\ EngineMihomo!Fair(n)
FlowFair(n) ==
    /\ scenario = "flowsLive"
    /\ UNCHANGED <<scenario, tunVars, engineVars, keepVars, receiptVars,
                   recoveryVars, projectionVars, appearanceVars, importVars,
                   dialogVars>>
    /\ FlowsLive!Fair(n)
KeepFair(n) ==
    /\ scenario = "taskLive"
    /\ UNCHANGED <<scenario, tunVars, engineVars, flowVars, receiptVars,
                   recoveryVars, projectionVars, appearanceVars, importVars,
                   dialogVars>>
    /\ TaskLive!Fair(n)
ReceiptFair(n) ==
    /\ scenario = "receiptsLive"
    /\ UNCHANGED <<scenario, tunVars, engineVars, flowVars, keepVars,
                   recoveryVars, projectionVars, appearanceVars, importVars,
                   dialogVars>>
    /\ ReceiptsLive!Fair(n)
RecoveryFair(n) ==
    /\ scenario = "recoveryLive"
    /\ UNCHANGED <<scenario, tunVars, engineVars, flowVars, keepVars,
                   receiptVars, projectionVars, appearanceVars, importVars,
                   dialogVars>>
    /\ RecoveryLive!Fair(n)
ProjectionFair(n) ==
    /\ scenario = "projectionsLive"
    /\ UNCHANGED <<scenario, tunVars, engineVars, flowVars, keepVars,
                   receiptVars, recoveryVars, appearanceVars, importVars,
                   dialogVars>>
    /\ ProjectionsLive!Fair(n)
AppearanceFair(n) ==
    /\ scenario = "appearanceLive"
    /\ UNCHANGED <<scenario, tunVars, engineVars, flowVars, keepVars,
                   receiptVars, recoveryVars, projectionVars, importVars,
                   dialogVars>>
    /\ AppearanceLive!Fair(n)
ImportFair(n) ==
    /\ scenario = "importsLive"
    /\ UNCHANGED <<scenario, tunVars, engineVars, flowVars, keepVars,
                   receiptVars, recoveryVars, projectionVars, appearanceVars,
                   dialogVars>>
    /\ ImportsLive!Fair(n)
DialogFair(n) ==
    /\ scenario \in {"dialogsLive", "dialogsLeft"}
    /\ UNCHANGED <<scenario, tunVars, engineVars, flowVars, keepVars,
                   receiptVars, recoveryVars, projectionVars, appearanceVars,
                   importVars>>
    /\ \/ scenario = "dialogsLive" /\ DialogsLive!Fair(n)
       \/ scenario = "dialogsLeft" /\ DialogsLeft!Fair(n)

Fair(n) == TunFair(n) \/ EngineFair(n) \/ FlowFair(n) \/ KeepFair(n) \/
    ReceiptFair(n) \/ RecoveryFair(n) \/ ProjectionFair(n) \/
    AppearanceFair(n) \/ ImportFair(n) \/ DialogFair(n)

TunFairStrongly ==
    /\ scenario = "tunLive"
    /\ UNCHANGED <<scenario, engineVars, flowVars, keepVars, receiptVars,
                   recoveryVars, projectionVars, appearanceVars, importVars,
                   dialogVars>>
    /\ TunLive!FairStrongly
ProjectionFairStrongly ==
    /\ scenario = "projectionsLive"
    /\ UNCHANGED <<scenario, tunVars, engineVars, flowVars, keepVars,
                   receiptVars, recoveryVars, appearanceVars, importVars,
                   dialogVars>>
    /\ ProjectionsLive!FairStrongly

FairStrongly == TunFairStrongly \/ ProjectionFairStrongly

FairSpec == /\ Spec
            /\ (\A n \in 1..4 : WF_vars(Fair(n)))
            /\ SF_vars(FairStrongly)

-----------------------------------------------------------------------------

\* What was begun in the VPN process or the UI ends.
UiOperationsEnd ==
    \* An attempt that is over is cleaned up in the end: neither the lock nor
    \* the wait for a worker blocks it.
    /\ TunLive!CleanupEnds
    \* A session that is told to stop ends, whatever setup, reload or refresh
    \* is under way.
    /\ EngineMoves!StopEnds
    \* The network stack that was asked to end does (abort_flow_tasks).
    /\ FlowsLive!StopEnds
    \* A command or a confirmation stops waiting even if the platform
    \* operation never settles.
    /\ ReceiptsLive!BridgeAnswers
    \* The store ends with the chosen mode applied or with the error that
    \* offers a retry.
    /\ <>[](scenario = "appearanceLive" => AppearanceLive!ModeSettled)
    \* An import that hangs, is cancelled or fails ends: the dialog does not
    \* load for ever.
    /\ ImportsLive!LoadingEnds
    \* A lookup or a save that was begun ends, or its page is left.
    /\ DialogsLeft!BusyEnds

\* What one part has changed comes to be what the others run with and show.
UiCatchesUp ==
    \* The mode and selections the UI has published are those the engine of a
    \* session that stays up comes to run with.
    /\ EngineMoves!FollowsControl
    \* The engine of a session that stays up comes to dial through the
    \* physical network the device has.
    /\ EngineMoves!FollowsNetwork
    \* Once Core comes to rest, every domain of the UI comes to show it.
    /\ ProjectionsLive!ShowsCore
    \* The catalog and the palette end as the preferences and the
    \* configuration of the ability say.
    /\ AppearanceLive!ShowsSystem

\* What died or was cancelled from outside is noticed and restored.
VpnIsRestored ==
    \* An exited worker does not leave the session connected, not even one
    \* that nobody watches (extension_tick).
    /\ TunLive!ExitIsReported
    \* A task that the Plugin asked for and the system cancelled is asked for
    \* again while the Plugin holds a session
    \* (startContinuousTaskProtection), unless a stop that ran meanwhile took
    \* its listener away.
    /\ TaskLive!TaskComesBack
    \* After a death, if the user keeps away, the VPN comes back or three
    \* starts have failed.
    /\ RecoveryLive!Recovers
=============================================================================
