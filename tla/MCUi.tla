-------------------------------- MODULE MCUi --------------------------------
(*****************************************************************************)
(*  Instances of the components of the UI process for safety: receipts of    *)
(* VPN operations, automatic recovery, projections, appearance, imports,     *)
(* rule dialogs and the continuous task. The scenario, chosen in the initial *)
(* state, is the instance that a behaviour is of; the variables of the other *)
(* components are Unused.                                                    *)
(*****************************************************************************)
EXTENDS Naturals, Sequences

CONSTANTS
    None, Other, Unconfirmed, Unused,
    Bounds  \* per instance the bounds of its counters

VARIABLES
    scenario,  \* the instance that the behaviour is of
    \* VpnReceipts
    receiptRoot, nextId, receiptActive, seen, receiptTasks, inbox, plugin,
    retained, startReq, last, chain, receiptOps, intent, receiptVpn, cfg, lost,
    health, receiptUser, quiet, faults, exits, checks,
    \* AutoRecovery
    sess, rec, cold, recoveryTasks, woken, used, deaths, recoveryUser, claims,
    \* UiProjections
    core, poisoned, projectionChanges, projectionFresh, projectionShown,
    startup, stamps, prov, projectionChan, projectionOps, opCount, error, told,
    paused,
    \* UiAppearance
    prefs, file, calls, platform, os, appearanceSystem, appearanceFresh,
    appearanceChan, appearanceLeft,
    \* UiImports
    generation, sender, feedback, ruleLoading, importPage, importRoot, jobs,
    config, importShown, importVpn, early, importLeft,
    \* RuleDialogs
    dialogPage, drafts, query, dialogTasks, ids, dialogShown, dialogActive,
    rules, tunnel, listed, lock, open, dialogChanges,
    \* ContinuousTask
    session, owned, obj, request, stop, keepSystem, issued, events, again,
    stopped, keepUser

receiptVars == <<receiptRoot, nextId, receiptActive, seen, receiptTasks, inbox,
                 plugin, retained, startReq, last, chain, receiptOps, intent,
                 receiptVpn, cfg, lost, health, receiptUser, quiet, faults,
                 exits, checks>>
recoveryVars == <<sess, rec, cold, recoveryTasks, woken, used, deaths,
                  recoveryUser, claims>>
projectionVars == <<core, poisoned, projectionChanges, projectionFresh,
                    projectionShown, startup, stamps, prov, projectionChan,
                    projectionOps, opCount, error, told, paused>>
appearanceVars == <<prefs, file, calls, platform, os, appearanceSystem,
                    appearanceFresh, appearanceChan, appearanceLeft>>
importVars == <<generation, sender, feedback, ruleLoading, importPage,
                importRoot, jobs, config, importShown, importVpn, early,
                importLeft>>
dialogVars == <<dialogPage, drafts, query, dialogTasks, ids, dialogShown,
                dialogActive, rules, tunnel, listed, lock, open,
                dialogChanges>>
keepVars == <<session, owned, obj, request, stop, keepSystem, issued, events,
              again, stopped, keepUser>>

vars == <<scenario, receiptVars, recoveryVars, projectionVars, appearanceVars,
          importVars, dialogVars, keepVars>>

-----------------------------------------------------------------------------

\* Calls of the bridge fail or time out, the Ability session changes.
ReceiptsFaults == INSTANCE VpnReceipts WITH
    Kinds <- {"Start", "Stop"}, MaxTasks <- Bounds.receiptsFaults.MaxTasks,
    MaxReqs <- Bounds.receiptsFaults.MaxReqs,
    MaxRounds <- Bounds.receiptsFaults.MaxRounds,
    MaxRetained <- Bounds.receiptsFaults.MaxRetained,
    MaxEdits <- Bounds.receiptsFaults.MaxEdits,
    MaxPlugins <- Bounds.receiptsFaults.MaxPlugins,
    MaxRoots <- Bounds.receiptsFaults.MaxRoots,
    MaxIntents <- Bounds.receiptsFaults.MaxIntents,
    MaxFaults <- Bounds.receiptsFaults.MaxFaults,
    MaxExits <- Bounds.receiptsFaults.MaxExits,
    MaxHealth <- Bounds.receiptsFaults.MaxHealth, root <- receiptRoot,
    active <- receiptActive, tasks <- receiptTasks, ops <- receiptOps,
    vpn <- receiptVpn, user <- receiptUser

\* Restarts and owned stops of configuration edits, two roots.
ReceiptsEdits == INSTANCE VpnReceipts WITH
    Kinds <- {"Start", "Stop", "Restart", "OwnedStop"},
    MaxTasks <- Bounds.receiptsEdits.MaxTasks,
    MaxReqs <- Bounds.receiptsEdits.MaxReqs,
    MaxRounds <- Bounds.receiptsEdits.MaxRounds,
    MaxRetained <- Bounds.receiptsEdits.MaxRetained,
    MaxEdits <- Bounds.receiptsEdits.MaxEdits,
    MaxPlugins <- Bounds.receiptsEdits.MaxPlugins,
    MaxRoots <- Bounds.receiptsEdits.MaxRoots,
    MaxIntents <- Bounds.receiptsEdits.MaxIntents,
    MaxFaults <- Bounds.receiptsEdits.MaxFaults, MaxExits <- 0,
    MaxHealth <- Bounds.receiptsEdits.MaxHealth, root <- receiptRoot,
    active <- receiptActive, tasks <- receiptTasks, ops <- receiptOps,
    vpn <- receiptVpn, user <- receiptUser

\* A health check fails, and the Extension exits.
ReceiptsHealth == INSTANCE VpnReceipts WITH
    Kinds <- {"Start", "Stop"}, MaxTasks <- Bounds.receiptsHealth.MaxTasks,
    MaxReqs <- Bounds.receiptsHealth.MaxReqs,
    MaxRounds <- Bounds.receiptsHealth.MaxRounds,
    MaxRetained <- Bounds.receiptsHealth.MaxRetained,
    MaxEdits <- Bounds.receiptsHealth.MaxEdits, MaxPlugins <- 1,
    MaxRoots <- Bounds.receiptsHealth.MaxRoots,
    MaxIntents <- Bounds.receiptsHealth.MaxIntents,
    MaxFaults <- Bounds.receiptsHealth.MaxFaults,
    MaxExits <- Bounds.receiptsHealth.MaxExits,
    MaxHealth <- Bounds.receiptsHealth.MaxHealth, root <- receiptRoot,
    active <- receiptActive, tasks <- receiptTasks, ops <- receiptOps,
    vpn <- receiptVpn, user <- receiptUser

\* Two deaths, six attempts.
RecoveryStarts == INSTANCE AutoRecovery WITH
    MaxSessions <- Bounds.recoveryStarts.MaxSessions,
    Deaths <- Bounds.recoveryStarts.Deaths, StopsAllowed <- TRUE,
    Unconfirmed <- TRUE, tasks <- recoveryTasks, user <- recoveryUser

\* Two changes of Core and an operation with a projection of its own.
ProjectionsOrder == INSTANCE UiProjections WITH
    MaxChanges <- Bounds.projectionsOrder.MaxChanges,
    MaxOps <- Bounds.projectionsOrder.MaxOps,
    Capacity <- Bounds.projectionsOrder.Capacity, Poison <- FALSE,
    changes <- projectionChanges, fresh <- projectionFresh,
    shown <- projectionShown, chan <- projectionChan, ops <- projectionOps

\* The state lock is poisoned.
ProjectionsPoison == INSTANCE UiProjections WITH
    MaxChanges <- Bounds.projectionsPoison.MaxChanges,
    MaxOps <- Bounds.projectionsPoison.MaxOps,
    Capacity <- Bounds.projectionsPoison.Capacity, Poison <- TRUE,
    changes <- projectionChanges, fresh <- projectionFresh,
    shown <- projectionShown, chan <- projectionChan, ops <- projectionOps

\* Two choices, a restart, failing calls and saves.
AppearanceFaults == INSTANCE UiAppearance WITH
    MaxEdits <- Bounds.appearanceFaults.MaxEdits,
    MaxSystem <- Bounds.appearanceFaults.MaxSystem,
    MaxRestarts <- Bounds.appearanceFaults.MaxRestarts, ColorFails <- TRUE,
    SaveFails <- TRUE, system <- appearanceSystem, fresh <- appearanceFresh,
    chan <- appearanceChan, left <- appearanceLeft

\* Two profile imports and two cancellations.
ImportsProfile == INSTANCE UiImports WITH
    MaxImports <- Bounds.importsProfile.MaxImports,
    MaxEdits <- Bounds.importsProfile.MaxEdits,
    MaxCancels <- Bounds.importsProfile.MaxCancels,
    MaxLeaves <- Bounds.importsProfile.MaxLeaves,
    MaxRoots <- Bounds.importsProfile.MaxRoots,
    MaxOthers <- Bounds.importsProfile.MaxOthers, Kinds <- {"profile"},
    page <- importPage, root <- importRoot, shown <- importShown,
    vpn <- importVpn, left <- importLeft

\* Imports of rules and profiles; the page is left.
ImportsRules == INSTANCE UiImports WITH
    MaxImports <- Bounds.importsRules.MaxImports,
    MaxEdits <- Bounds.importsRules.MaxEdits,
    MaxCancels <- Bounds.importsRules.MaxCancels,
    MaxLeaves <- Bounds.importsRules.MaxLeaves,
    MaxRoots <- Bounds.importsRules.MaxRoots,
    MaxOthers <- Bounds.importsRules.MaxOthers, Kinds <- {"profile", "rules"},
    page <- importPage, root <- importRoot, shown <- importShown,
    vpn <- importVpn, left <- importLeft

\* The editor: two profiles, two tasks.
DialogsEditor == INSTANCE RuleDialogs WITH
    Names <- {"a"}, Ips <- {"x"}, Targets <- {"DIRECT"},
    Profiles <- {"p", "q"}, Catching <- {"p"}, Conns <- {}, MaxPages <- 2,
    MaxLookups <- 0, MaxTasks <- 2, MaxChanges <- 1, page <- dialogPage,
    tasks <- dialogTasks, shown <- dialogShown, active <- dialogActive,
    changes <- dialogChanges

\* The editor, with rules made from a connection.
DialogsConns == INSTANCE RuleDialogs WITH
    Names <- {"a"}, Ips <- {"x"}, Targets <- {"DIRECT"},
    Profiles <- {"p", "q"}, Catching <- {"p"}, Conns <- {"c"}, MaxPages <- 2,
    MaxLookups <- 0, MaxTasks <- 1, MaxChanges <- 1, page <- dialogPage,
    tasks <- dialogTasks, shown <- dialogShown, active <- dialogActive,
    changes <- dialogChanges

\* Two lookups, two tasks, two pages.
DialogsLookup == INSTANCE RuleDialogs WITH
    Names <- {"a"}, Ips <- {"x"}, Targets <- {"DIRECT"}, Profiles <- {"p"},
    Catching <- {"p"}, Conns <- {}, MaxPages <- 2, MaxLookups <- 2,
    MaxTasks <- 2, MaxChanges <- 0, page <- dialogPage, tasks <- dialogTasks,
    shown <- dialogShown, active <- dialogActive, changes <- dialogChanges

\* Three tasks; the system may refuse and cancel at any time.
TaskFaults == INSTANCE ContinuousTask WITH
    CancelEarly <- TRUE, Refusals <- TRUE,
    MaxTasks <- Bounds.taskFaults.MaxTasks,
    MaxUser <- Bounds.taskFaults.MaxUser, system <- keepSystem,
    user <- keepUser

-----------------------------------------------------------------------------
\* The bounds of the run; the theorems about this module hold for any bounds.
SmallBounds ==
    [receiptsFaults |-> [MaxTasks |-> 3, MaxReqs |-> 3, MaxRounds |-> 0,
                         MaxRetained |-> 2, MaxEdits |-> 0, MaxPlugins |-> 2,
                         MaxRoots |-> 1, MaxIntents |-> 3, MaxFaults |-> 2,
                         MaxExits |-> 0, MaxHealth |-> 0],
     receiptsEdits |-> [MaxTasks |-> 3, MaxReqs |-> 3, MaxRounds |-> 0,
                        MaxRetained |-> 2, MaxEdits |-> 2, MaxPlugins |-> 1,
                        MaxRoots |-> 2, MaxIntents |-> 4, MaxFaults |-> 0,
                        MaxHealth |-> 0],
     receiptsHealth |-> [MaxTasks |-> 3, MaxReqs |-> 3, MaxRounds |-> 0,
                         MaxRetained |-> 2, MaxEdits |-> 0, MaxRoots |-> 1,
                         MaxIntents |-> 5, MaxFaults |-> 0, MaxExits |-> 1,
                         MaxHealth |-> 1],
     recoveryStarts |-> [MaxSessions |-> 6, Deaths |-> 2],
     projectionsOrder |-> [MaxChanges |-> 2, MaxOps |-> 1, Capacity |-> 2],
     projectionsPoison |-> [MaxChanges |-> 1, MaxOps |-> 0, Capacity |-> 2],
     appearanceFaults |-> [MaxEdits |-> 2, MaxSystem |-> 0, MaxRestarts |-> 1],
     importsProfile |-> [MaxImports |-> 2, MaxEdits |-> 1, MaxCancels |-> 2,
                         MaxLeaves |-> 0, MaxRoots |-> 1, MaxOthers |-> 1],
     importsRules |-> [MaxImports |-> 2, MaxEdits |-> 1, MaxCancels |-> 0,
                       MaxLeaves |-> 1, MaxRoots |-> 1, MaxOthers |-> 1],
     taskFaults |-> [MaxTasks |-> 3, MaxUser |-> 5]]

-----------------------------------------------------------------------------
Scenarios == {"receiptsFaults", "receiptsEdits", "receiptsHealth",
              "recoveryStarts", "projectionsOrder", "projectionsPoison",
              "appearanceFaults", "importsProfile", "importsRules",
              "dialogsEditor", "dialogsConns", "dialogsLookup", "taskFaults"}

\* What the components assume of their constants holds in every instance.
ASSUME SuiteAssumption == ReceiptsFaults!ConstantsOK /\
    ReceiptsEdits!ConstantsOK /\ ReceiptsHealth!ConstantsOK /\
    RecoveryStarts!ConstantsOK /\ ProjectionsOrder!ConstantsOK /\
    ProjectionsPoison!ConstantsOK /\ AppearanceFaults!ConstantsOK /\
    ImportsProfile!ConstantsOK /\ ImportsRules!ConstantsOK /\
    DialogsEditor!ConstantsOK /\ DialogsConns!ConstantsOK /\
    DialogsLookup!ConstantsOK /\ TaskFaults!ConstantsOK

ReceiptInit ==
    \/ scenario = "receiptsFaults" /\ ReceiptsFaults!Init
    \/ scenario = "receiptsEdits" /\ ReceiptsEdits!Init
    \/ scenario = "receiptsHealth" /\ ReceiptsHealth!Init
    \/ ~(scenario \in {"receiptsFaults", "receiptsEdits", "receiptsHealth"})
       /\ receiptRoot = Unused /\ nextId = Unused /\ receiptActive = Unused /\
                     seen = Unused /\ receiptTasks = Unused /\
                     inbox = Unused /\ plugin = Unused /\ retained = Unused /\
                     startReq = Unused /\ last = Unused /\ chain = Unused /\
                     receiptOps = Unused /\ intent = Unused /\
                     receiptVpn = Unused /\ cfg = Unused /\ lost = Unused /\
                     health = Unused /\ receiptUser = Unused /\
                     quiet = Unused /\ faults = Unused /\ exits = Unused /\
                     checks = Unused
RecoveryInit ==
    \/ scenario = "recoveryStarts" /\ RecoveryStarts!Init
    \/ ~(scenario = "recoveryStarts")
       /\ sess = Unused /\ rec = Unused /\ cold = Unused /\
                     recoveryTasks = Unused /\ woken = Unused /\
                     used = Unused /\ deaths = Unused /\
                     recoveryUser = Unused /\ claims = Unused
ProjectionInit ==
    \/ scenario = "projectionsOrder" /\ ProjectionsOrder!Init
    \/ scenario = "projectionsPoison" /\ ProjectionsPoison!Init
    \/ ~(scenario \in {"projectionsOrder", "projectionsPoison"})
       /\ core = Unused /\ poisoned = Unused /\ projectionChanges = Unused /\
                     projectionFresh = Unused /\ projectionShown = Unused /\
                     startup = Unused /\ stamps = Unused /\ prov = Unused /\
                     projectionChan = Unused /\ projectionOps = Unused /\
                     opCount = Unused /\ error = Unused /\ told = Unused /\
                     paused = Unused
AppearanceInit ==
    \/ scenario = "appearanceFaults" /\ AppearanceFaults!Init
    \/ ~(scenario = "appearanceFaults")
       /\ prefs = Unused /\ file = Unused /\ calls = Unused /\
                     platform = Unused /\ os = Unused /\
                     appearanceSystem = Unused /\ appearanceFresh = Unused /\
                     appearanceChan = Unused /\ appearanceLeft = Unused
ImportInit ==
    \/ scenario = "importsProfile" /\ ImportsProfile!Init
    \/ scenario = "importsRules" /\ ImportsRules!Init
    \/ ~(scenario \in {"importsProfile", "importsRules"})
       /\ generation = Unused /\ sender = Unused /\ feedback = Unused /\
                     ruleLoading = Unused /\ importPage = Unused /\
                     importRoot = Unused /\ jobs = Unused /\ config = Unused /\
                     importShown = Unused /\ importVpn = Unused /\
                     early = Unused /\ importLeft = Unused
DialogInit ==
    \/ scenario = "dialogsEditor" /\ DialogsEditor!Init
    \/ scenario = "dialogsConns" /\ DialogsConns!Init
    \/ scenario = "dialogsLookup" /\ DialogsLookup!Init
    \/ ~(scenario \in {"dialogsEditor", "dialogsConns", "dialogsLookup"})
       /\ dialogPage = Unused /\ drafts = Unused /\ query = Unused /\
                     dialogTasks = Unused /\ ids = Unused /\
                     dialogShown = Unused /\ dialogActive = Unused /\
                     rules = Unused /\ tunnel = Unused /\ listed = Unused /\
                     lock = Unused /\ open = Unused /\ dialogChanges = Unused
KeepInit ==
    \/ scenario = "taskFaults" /\ TaskFaults!Init
    \/ ~(scenario = "taskFaults")
       /\ session = Unused /\ owned = Unused /\ obj = Unused /\
                     request = Unused /\ stop = Unused /\
                     keepSystem = Unused /\ issued = Unused /\
                     events = Unused /\ again = Unused /\ stopped = Unused /\
                     keepUser = Unused

Init ==
    /\ scenario \in Scenarios
    /\ ReceiptInit /\ RecoveryInit /\ ProjectionInit /\ AppearanceInit /\
       ImportInit /\ DialogInit /\ KeepInit

ReceiptNext ==
    /\ scenario \in {"receiptsFaults", "receiptsEdits", "receiptsHealth"}
    /\ UNCHANGED <<scenario, recoveryVars, projectionVars, appearanceVars,
                   importVars, dialogVars, keepVars>>
    /\ \/ scenario = "receiptsFaults" /\ ReceiptsFaults!Next
       \/ scenario = "receiptsEdits" /\ ReceiptsEdits!Next
       \/ scenario = "receiptsHealth" /\ ReceiptsHealth!Next
RecoveryNext ==
    /\ scenario = "recoveryStarts"
    /\ UNCHANGED <<scenario, receiptVars, projectionVars, appearanceVars,
                   importVars, dialogVars, keepVars>>
    /\ RecoveryStarts!Next
ProjectionNext ==
    /\ scenario \in {"projectionsOrder", "projectionsPoison"}
    /\ UNCHANGED <<scenario, receiptVars, recoveryVars, appearanceVars,
                   importVars, dialogVars, keepVars>>
    /\ \/ scenario = "projectionsOrder" /\ ProjectionsOrder!Next
       \/ scenario = "projectionsPoison" /\ ProjectionsPoison!Next
AppearanceNext ==
    /\ scenario = "appearanceFaults"
    /\ UNCHANGED <<scenario, receiptVars, recoveryVars, projectionVars,
                   importVars, dialogVars, keepVars>>
    /\ AppearanceFaults!Next
ImportNext ==
    /\ scenario \in {"importsProfile", "importsRules"}
    /\ UNCHANGED <<scenario, receiptVars, recoveryVars, projectionVars,
                   appearanceVars, dialogVars, keepVars>>
    /\ \/ scenario = "importsProfile" /\ ImportsProfile!Next
       \/ scenario = "importsRules" /\ ImportsRules!Next
DialogNext ==
    /\ scenario \in {"dialogsEditor", "dialogsConns", "dialogsLookup"}
    /\ UNCHANGED <<scenario, receiptVars, recoveryVars, projectionVars,
                   appearanceVars, importVars, keepVars>>
    /\ \/ scenario = "dialogsEditor" /\ DialogsEditor!Next
       \/ scenario = "dialogsConns" /\ DialogsConns!Next
       \/ scenario = "dialogsLookup" /\ DialogsLookup!Next
KeepNext ==
    /\ scenario = "taskFaults"
    /\ UNCHANGED <<scenario, receiptVars, recoveryVars, projectionVars,
                   appearanceVars, importVars, dialogVars>>
    /\ TaskFaults!Next

Next == ReceiptNext \/ RecoveryNext \/ ProjectionNext \/ AppearanceNext \/
        ImportNext \/ DialogNext \/ KeepNext

Spec == Init /\ [][Next]_vars

-----------------------------------------------------------------------------
\* The variables of every component hold what the code can put in them.
TypesOK ==
    /\ scenario = "receiptsFaults" => ReceiptsFaults!TypeOK
    /\ scenario = "recoveryStarts" => RecoveryStarts!TypeOK
    /\ scenario = "projectionsOrder" => ProjectionsOrder!TypeOK
    /\ scenario = "appearanceFaults" => AppearanceFaults!TypeOK
    /\ scenario = "importsProfile" => ImportsProfile!TypeOK
    /\ scenario = "dialogsLookup" => DialogsLookup!TypeOK
    /\ scenario = "taskFaults" => TaskFaults!TypeOK

\* Commands of the user are neither lost nor overtaken by what the app does
\* by itself.
CommandsAreKept ==
    \* A platform operation the root submitted is the active command or lies
    \* below the stop fence while it may still take effect
    \* (vpn_operation.rs).
    /\ [](scenario = "receiptsFaults" => ReceiptsFaults!PendingIsRemembered)
    \* Never two platform operations of one root at a time, except a stop
    \* fence above what it fences (begin_owned_vpn_operation).
    /\ [](scenario = "receiptsEdits" => ReceiptsEdits!OnlyFencesQueueUp)
    \* After a stop of the user took effect nothing but a start of the user
    \* brings the VPN up: not the restart of an edit.
    /\ [](scenario = "receiptsEdits" => ReceiptsEdits!StopWins)
    \* A health check that rolls back never replaces a command given after
    \* the rollback began (monitorStartupHealth).
    /\ [][scenario = "receiptsHealth" => ReceiptsHealth!BaselineIsNewest]_vars

\* One death is answered by at most three automatic starts, whichever fail
\* and whoever else starts in between (claim_platform_vpn_auto_recovery).
ThreeStartsPerDeath ==
    /\ scenario = "recoveryStarts" => RecoveryStarts!ThreeStartsPerDeath

\* What the UI shows of Core is never lost, never older than before, and a
\* failure is told once.
ProjectionsArrive ==
    \* What the provider believes applied is shown, or on its way to the UI:
    \* no projection is lost for good.
    /\ [](scenario = "projectionsOrder" => ProjectionsOrder!AppliedArrives)
    \* What a page shows of a domain never goes back to an older state of
    \* Core, in whatever order provider and operations deliver.
    /\ [][scenario = "projectionsOrder" => ProjectionsOrder!ShownGrows]_vars
    \* A failure that lasts is notified once, however often it is retried.
    /\ [](scenario = "projectionsPoison" => ProjectionsPoison!NotifiedOnce)

\* The chosen appearance is on its way to the platform and to the disk, or
\* the page says that it is not.
AppearanceHolds ==
    \* A pending colour mode has a call under way that will settle it,
    \* whatever the user chose in between (pending_color_mode).
    /\ scenario = "appearanceFaults" => AppearanceFaults!PendingHasCall
    \* What the app shows survives a restart unless the page says that saving
    \* failed.
    /\ scenario = "appearanceFaults" => AppearanceFaults!ShownIsSaved

\* The result of an import reaches the dialog, page and operation that it
\* belongs to, and no other.
ImportsAreOwned ==
    \* The dialog loads exactly while the import of the current generation is
    \* under way: no result of another one ends it
    \* (profile_import_generation).
    /\ scenario = "importsProfile" => ImportsProfile!LoadingIsCurrent
    \* An import given up before its commit began never changes the
    \* configuration.
    /\ scenario = "importsProfile" => ImportsProfile!GivenUpNeverLands
    \* A VPN operation that an import began has that import to end it, also
    \* when it was cancelled during the commit.
    /\ scenario = "importsProfile" => ImportsProfile!OperationHasImport
    \* The button of the resources page is never left disabled with no import
    \* of that page under way (rule_import_loading).
    /\ scenario = "importsRules" => ImportsRules!RuleLoadingHasImport

\* A rule dialog shows the outcome of what it asked for, and the rules of the
\* active profile.
DialogsMatch ==
    \* What an editor shows while it saves is what is being saved: no outcome
    \* is taken for that of another rule.
    /\ [](/\ scenario = "dialogsEditor" => DialogsEditor!EditorIsSaved
          /\ scenario = "dialogsConns" => DialogsConns!EditorIsSaved)
    \* The rules of the tunnel, and the ones listed, are those of the active
    \* profile, whatever profile the UI took for it.
    /\ [](/\ scenario = "dialogsEditor" => DialogsEditor!LiveIsActive
          /\ scenario = "dialogsConns" => DialogsConns!LiveIsActive)
    \* Nothing writes to the drafts of a page that was left
    \* (RuleEditorDrafts).
    /\ [][/\ scenario = "dialogsEditor" => DialogsEditor!LeftDraftsStay
          /\ scenario = "dialogsConns" => DialogsConns!LeftDraftsStay]_vars
    \* A result is shown under the query it is for, however late it comes
    \* (lookup_rule).
    /\ [](scenario = "dialogsLookup" => DialogsLookup!ResultIsForQuery)

\* No continuous task outlives a stop unasked, and one that is held is
\* updated.
TaskFollowsVpn ==
    \* After a stop there is no continuous task until the Plugin asks for one
    \* again, unless the system refused to stop it or the Plugin asked for
    \* one while the stop ran (VpnContinuousTask).
    /\ scenario = "taskFaults" => TaskFaults!NoTaskAfterStop
    \* A task that is held, with nothing under way, has the timer that
    \* updates it before it expires.
    /\ scenario = "taskFaults" => TaskFaults!TaskIsUpdated
=============================================================================
